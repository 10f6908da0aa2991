-------------------------------- MODULE Pipe --------------------------------
(***************************************************************************)
(* The pipe of xv6 (pipe.c): a ring of PIPESIZE bytes addressed by two     *)
(* unsigned counters that wrap around, shared by the processes that hold   *)
(* its two ends open, with sleep() and wakeup() on the two counters.       *)
(*                                                                         *)
(* Each step runs from taking p->lock to the point where the call returns  *)
(* or is about to sleep.  The sleep itself is a separate step: kill() does *)
(* not take p->lock, so it can come between the check of killed and the    *)
(* sleep.  A pipe is made by one process and inherited by the others; once *)
(* it is freed a fresh set of processes may make the next one.             *)
(***************************************************************************)
EXTENDS Integers, Sequences, FiniteSets

CONSTANTS
  Writers, Readers,   \* processes that hold the write and the read end
  Nobody,             \* holder of p->lock when it is free
  Bytes,
  Garbage,            \* what a fresh page holds before it is written
  PIPESIZE,
  CounterMod,         \* 2^32, the modulus of the uint counters
  MaxCount,           \* bound: longest buffer passed to read() or write()
  Killable            \* processes that kill() may hit

Procs == Writers \cup Readers

ASSUME PipeAssumption ==
  /\ Writers # {} /\ Readers # {}    \* pipe() returns a descriptor of each end
  /\ Writers \cap Readers = {} /\ Nobody \notin Procs
  /\ Killable \subseteq Procs
  /\ Garbage \notin Bytes
  /\ PIPESIZE \in Nat \ {0}
  /\ CounterMod \in Nat
  /\ PIPESIZE < CounterMod
  /\ CounterMod % PIPESIZE = 0
  /\ MaxCount \in Nat \ {0}

VARIABLES
  data,                   \* p->data
  nread, nwrite,          \* p->nread, p->nwrite
  readopen, writeopen,
  lock,                   \* p->lock, where it is held across a step
  freed,                  \* there is no pipe: kfree((char*)p) was called
  pc,                     \* where each process is
  todo,                   \* bytes the current write() still has to copy
  want,                   \* count of the current read()
  got,                    \* bytes the last read() delivered
  killed,
  holds                   \* processes whose descriptor of the pipe is open

pipeVars == <<data, nread, nwrite, readopen, writeopen, freed>>
vars == <<data, nread, nwrite, readopen, writeopen, lock, freed, pc, todo,
          want, got, killed, holds>>

(* nwrite - nread in unsigned arithmetic: the bytes in the ring.           *)
Count == (nwrite - nread) % CounterMod

(* The contents of the ring, oldest byte first.                            *)
Contents == [i \in 1..Count |-> data[(nread + i - 1) % PIPESIZE]]

(* What each variable holds.                                               *)
TypeOK ==
  /\ data \in [0..(PIPESIZE - 1) -> Bytes \cup {Garbage}]
  /\ nread \in 0..(CounterMod - 1) /\ nwrite \in 0..(CounterMod - 1)
  /\ readopen \in BOOLEAN /\ writeopen \in BOOLEAN /\ freed \in BOOLEAN
  /\ lock \in Procs \cup {Nobody}
  /\ pc \in [Procs -> {"user", "block", "asleep", "woken"}]
  /\ todo \in [Writers -> Seq(Bytes)]
  /\ want \in [Readers -> 0..MaxCount]
  /\ got \in Seq(Bytes)
  /\ killed \subseteq Procs
  /\ holds \subseteq Procs

(* No pipe yet.                                                            *)
Init ==
  /\ data = [i \in 0..(PIPESIZE - 1) |-> Garbage]
  /\ nread = 0 /\ nwrite = 0
  /\ readopen = FALSE /\ writeopen = FALSE
  /\ lock = Nobody
  /\ freed = TRUE
  /\ pc = [p \in Procs |-> "user"]
  /\ todo = [p \in Writers |-> << >>]
  /\ want = [p \in Readers |-> 0]
  /\ got = << >>
  /\ killed = {}
  /\ holds = {}

(* pipealloc(), then fork() and close() until each process holds its end.  *)
(* kalloc() does not clear the page; when it or filealloc() fails, what    *)
(* was allocated is given back and nothing has changed.                    *)
Pipealloc ==
  /\ freed
  /\ freed' = FALSE
  /\ data' = [i \in 0..(PIPESIZE - 1) |-> Garbage]
  /\ nread' = 0 /\ nwrite' = 0
  /\ readopen' = TRUE /\ writeopen' = TRUE
  /\ got' = << >>
  /\ killed' = {}
  /\ holds' = Procs
  /\ UNCHANGED <<lock, pc, todo, want>>

(* wakeup(&p->nread) and wakeup(&p->nwrite) on the sleepers among S.       *)
Wakeup(f, S) ==
  [p \in Procs |-> IF p \in S /\ f[p] = "asleep" THEN "woken" ELSE f[p]]

----------------------------------------------------------------------------
(* pipewrite() *)

WriteCall(p, s) ==
  /\ pc[p] = "user" /\ p \in holds /\ p \notin killed
  /\ todo' = [todo EXCEPT ![p] = s]
  /\ pc' = [pc EXCEPT ![p] = "woken"]
  /\ UNCHANGED <<pipeVars, lock, want, got, killed, holds>>

Smaller(m, n) == IF m < n THEN m ELSE n

(* Mutant: the ring is taken to be full one byte too late.                 *)
RoomOffByOne == PIPESIZE + 1 - Count

(* Bytes that can be written before nwrite = nread + PIPESIZE.             *)
Room == PIPESIZE - Count

(* Mutant: p->lock is released before sleep() is called.                   *)
DropLock(p) == UNCHANGED lock

(* sleep(..., &p->lock) is called with the lock held.                      *)
KeepLock(p) == lock' = p

(* With p->lock: copy bytes until all are written or the ring is full.     *)
(* When it is full the call fails if nobody reads or the writer is killed, *)
(* and otherwise wakes the readers and is about to sleep.                  *)
WriteRun(p) ==
  /\ pc[p] = "woken" /\ lock = Nobody
  /\ LET k == Smaller(Room, Len(todo[p])) IN
       /\ data' = [j \in 0..(PIPESIZE - 1) |->
            LET i == (j - nwrite) % PIPESIZE
            IN  IF i < k THEN todo[p][i + 1] ELSE data[j]]
       /\ nwrite' = (nwrite + k) % CounterMod
       /\ \/ /\ k = Len(todo[p])
             /\ todo' = [todo EXCEPT ![p] = << >>]
             /\ pc' = [Wakeup(pc, Readers) EXCEPT ![p] = "user"]
             /\ UNCHANGED lock
          \/ /\ k < Len(todo[p]) /\ (~readopen \/ p \in killed)
             /\ todo' = [todo EXCEPT ![p] = << >>]
             /\ pc' = [pc EXCEPT ![p] = "user"]
             /\ UNCHANGED lock
          \/ /\ k < Len(todo[p]) /\ readopen /\ p \notin killed
             /\ todo' = [todo EXCEPT ![p] = SubSeq(@, k + 1, Len(@))]
             /\ pc' = [Wakeup(pc, Readers) EXCEPT ![p] = "block"]
             /\ KeepLock(p)
  /\ UNCHANGED <<nread, readopen, writeopen, freed, want, got, killed, holds>>

----------------------------------------------------------------------------
(* piperead() *)

ReadCall(p, n) ==
  /\ pc[p] = "user" /\ p \in holds /\ p \notin killed
  /\ want' = [want EXCEPT ![p] = n]
  /\ pc' = [pc EXCEPT ![p] = "woken"]
  /\ UNCHANGED <<pipeVars, lock, todo, got, killed, holds>>

(* Bytes the copy loop delivers: it stops when the ring runs empty.        *)
ReadCount(p) == Smaller(want[p], Count)

(* With p->lock: while the pipe is empty and can still be written, fail if *)
(* killed or else be about to sleep; otherwise copy and wake the writers.  *)
ReadRun(p) ==
  /\ pc[p] = "woken" /\ lock = Nobody
  /\ \/ /\ Count = 0 /\ writeopen /\ p \in killed
        /\ pc' = [pc EXCEPT ![p] = "user"]
        /\ want' = [want EXCEPT ![p] = 0]
        /\ UNCHANGED <<lock, nread, got>>
     \/ /\ Count = 0 /\ writeopen /\ p \notin killed
        /\ pc' = [pc EXCEPT ![p] = "block"]
        /\ KeepLock(p)
        /\ UNCHANGED <<nread, got, want>>
     \/ /\ Count > 0 \/ ~writeopen
        /\ got' = [i \in 1..ReadCount(p) |-> data[(nread + i - 1) % PIPESIZE]]
        /\ nread' = (nread + ReadCount(p)) % CounterMod
        /\ pc' = [Wakeup(pc, Writers) EXCEPT ![p] = "user"]
        /\ want' = [want EXCEPT ![p] = 0]
        /\ UNCHANGED lock
  /\ UNCHANGED <<data, nwrite, readopen, writeopen, freed, todo, killed,
                 holds>>

----------------------------------------------------------------------------
(* sleep(), kill(), pipeclose() *)

(* sleep(): ptable.lock is taken, p->lock released, the process sleeps.    *)
Sleep(p) ==
  /\ pc[p] = "block"
  /\ pc' = [pc EXCEPT ![p] = "asleep"]
  /\ lock' = Nobody
  /\ UNCHANGED <<pipeVars, todo, want, got, killed, holds>>

(* kill(): marks the process, and wakes it if it is already asleep.        *)
Kill(p) ==
  /\ p \in Killable \ killed
  /\ p \in holds
  /\ killed' = killed \cup {p}
  /\ pc' = Wakeup(pc, {p})
  /\ UNCHANGED <<pipeVars, lock, todo, want, got, holds>>

(* Mutant: the page is freed when one side is closed.                      *)
OneSideClosed(r, w) == ~r \/ ~w

BothSidesClosed(r, w) == ~r /\ ~w

(* close(), or the exit() of a killed process.  fileclose() calls          *)
(* pipeclose() for the last descriptor of a side: the other side is woken, *)
(* and when both sides are closed the pipe is freed.                       *)
Close(p) ==
  /\ pc[p] = "user" /\ p \in holds /\ lock = Nobody
  /\ holds' = holds \ {p}
  /\ writeopen' = (writeopen /\ holds' \cap Writers # {})
  /\ readopen' = (readopen /\ holds' \cap Readers # {})
  /\ pc' = IF writeopen' # writeopen THEN Wakeup(pc, Readers)
           ELSE IF readopen' # readopen THEN Wakeup(pc, Writers)
           ELSE pc
  /\ freed' = BothSidesClosed(readopen', writeopen')
  /\ UNCHANGED <<data, nread, nwrite, lock, todo, want, got, killed>>

Buffers == UNION {[1..n -> Bytes] : n \in 1..MaxCount}

Run(p) == \/ p \in Writers /\ WriteRun(p)
          \/ p \in Readers /\ ReadRun(p)

Next ==
  \/ Pipealloc
  \/ \E p \in Writers : WriteRun(p) \/ \E s \in Buffers : WriteCall(p, s)
  \/ \E p \in Readers : ReadRun(p) \/ \E n \in 1..MaxCount : ReadCall(p, n)
  \/ \E p \in Procs : Sleep(p) \/ Kill(p) \/ Close(p)

Spec == Init /\ [][Next]_vars

(* A process goes on with its call and gets p->lock in the end; a killed   *)
(* process back in user space exits.                                       *)
Fairness ==
  \A p \in Procs : /\ SF_vars(Run(p))
                   /\ WF_vars(Sleep(p))
                   /\ SF_vars(p \in killed /\ Close(p))

FairSpec == Spec /\ Fairness

----------------------------------------------------------------------------
(* Properties *)

(* Bytes come out in the order they went in, each exactly once, however    *)
(* the counters wrap and the ring fills: the pipe implements Channel.      *)
Ch == INSTANCE Channel
        WITH queue <- Contents, taken <- got, Capacity <- PIPESIZE
ImplementsChannel == Ch!Spec

(* No lost wakeup but one: a writer sleeps only while the pipe is full and *)
(* read, a reader only while a writer may still come and the pipe is empty *)
(* -- or while it holds bytes of a writer that was killed: pipewrite() of  *)
(* a killed process returns from a full ring without wakeup(&p->nread).    *)
SleepersHaveReason ==
  /\ \A p \in Readers : pc[p] = "asleep" =>
       writeopen /\ (Count = 0 \/ killed \cap Writers # {})
  /\ \A p \in Writers : pc[p] = "asleep" => Count = PIPESIZE /\ readopen

(* pipeclose() frees the pipe exactly when its last descriptor is gone, so *)
(* no call is left inside it.                                              *)
FreedWhenUnused ==
  freed => holds = {} /\ \A p \in Procs : pc[p] = "user"

(* kill(): "Wake process from sleep if necessary."  A killed process does  *)
(* not stay in piperead() or pipewrite(): it exits, closing its end.       *)
KilledLeavesPipe == \A p \in Procs : (p \in killed) ~> (p \notin holds)

============================================================================
