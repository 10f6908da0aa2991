-------------------------------- MODULE Log --------------------------------
(***************************************************************************)
(* The write-ahead log of xv6 (log.c) over a disk whose unit of atomicity  *)
(* is one block.  File system calls bracket their writes with begin_op()   *)
(* and end_op(); the last one out commits for everybody: it copies the     *)
(* logged blocks from the cache to the log area, writes the header (the    *)
(* commit point), installs the blocks at home and erases the header.  The  *)
(* machine may stop between any two disk writes; initlog() then replays    *)
(* the log before any system call runs.                                    *)
(*                                                                         *)
(* The buffer cache is seen through what bread() returns for a block, the  *)
(* B_DIRTY pin that log_write() sets, and the sleep lock that bread()      *)
(* takes and brelse() gives back.                                          *)
(***************************************************************************)
EXTENDS Integers, Sequences, FiniteSets

CONSTANTS
  Procs,        \* processes that make file system calls
  Blocks,       \* home blocks outside the log area
  Vals, Zero,   \* block contents, and the contents mkfs gives the log area
  Contents,     \* the contents that a home block may get, for each of them
  MaxOpBlocks,  \* MAXOPBLOCKS: log blocks reserved for one call
  LogSize,      \* LOGSIZE: capacity of the header's block[] array
  NLog,         \* sb.nlog: blocks of the log area, the header included
  OpBlocks      \* distinct blocks one call really logs, at most

ASSUME LogAssumption ==
  /\ IsFiniteSet(Procs)
  /\ Zero \in Vals
  /\ Contents \in [Blocks -> SUBSET Vals]
  /\ MaxOpBlocks \in Nat /\ LogSize \in Nat /\ NLog \in Nat /\ OpBlocks \in Nat
  /\ OpBlocks <= MaxOpBlocks
  /\ 0 < MaxOpBlocks /\ MaxOpBlocks <= LogSize

VARIABLES
  disk,         \* home blocks on disk
  dlog,         \* data blocks of the log area on disk
  dhead,        \* block numbers in the header on disk (its n is the length)
  cache,        \* what bread() returns for each home block
  dirty,        \* home blocks whose buffer has B_DIRTY set
  lh,           \* log.lh: block numbers of the transaction in memory
  outstanding,  \* log.outstanding
  committing,   \* log.committing
  phase,        \* where commit() or recover_from_log() is
  tail,         \* loop variable of write_log() and install_trans()
  up,           \* initlog() has returned
  panic,        \* panic() was called: every CPU is stopped
  pc,           \* where each process is
  blk,          \* block whose buffer the process holds inside log_write()
  wrote         \* blocks the current call of the process has logged so far

diskVars == <<disk, dlog, dhead>>
commitVars == <<committing, phase, tail>>
opVars == <<pc, blk, wrote>>
vars == <<disk, dlog, dhead, cache, dirty, lh, outstanding, committing,
          phase, tail, up, panic, pc, blk, wrote>>

Elems(s) == {s[i] : i \in 1..Len(s)}

(* Processes between begin_op() and end_op().                              *)
Active == {p \in Procs : pc[p] \in {"run", "append"}}

(* Blocks whose buffer lock a writer holds.                                *)
Locked == {blk[p] : p \in {q \in Procs : pc[q] = "append"}}

(* The disk a reboot would produce: home blocks overlaid by the log that   *)
(* the on-disk header names.                                               *)
Durable ==
  [b \in Blocks |->
     IF b \in Elems(dhead)
     THEN dlog[CHOOSE i \in 1..Len(dhead) : dhead[i] = b]
     ELSE disk[b]]

(* A call logs fewer blocks than begin_op() reserves for it, by enough to  *)
(* make up for the header block that the log area holds beside the data.   *)
(* xv6 has MaxOpBlocks = 10 and LogSize = NLog = 30, and its largest call  *)
(* logs 7 distinct blocks (filewrite: 4 data, indirect, inode, bitmap).    *)
FootprintFits ==
  /\ OpBlocks < MaxOpBlocks
  /\ LogSize - MaxOpBlocks + OpBlocks < NLog - 1

TypeOK ==
  /\ disk \in [Blocks -> Vals]
  /\ dlog \in [1..(NLog - 1) -> Vals]
  /\ dhead \in Seq(Blocks)
  /\ cache \in [Blocks -> Vals]
  /\ dirty \subseteq Blocks
  /\ lh \in Seq(Blocks)
  /\ outstanding \in Nat
  /\ committing \in BOOLEAN
  /\ phase \in {"read_head", "idle", "write_log", "install", "done"}
  /\ tail \in Nat
  /\ up \in BOOLEAN
  /\ panic \in BOOLEAN
  /\ pc \in [Procs -> {"begin", "sleep", "run", "append", "commit"}]
  /\ blk \in [Procs -> Blocks \cup {"none"}]
  /\ wrote \in [Procs -> Seq(Blocks)]

(* Power-on with the image that mkfs wrote: an empty log.                  *)
Init ==
  /\ disk \in [Blocks -> Vals] /\ \A b \in Blocks : disk[b] \in Contents[b]
  /\ dlog = [i \in 1..(NLog - 1) |-> Zero]
  /\ dhead = << >>
  /\ cache = disk
  /\ dirty = {}
  /\ lh = << >>
  /\ outstanding = 0
  /\ committing = FALSE
  /\ phase = "read_head"
  /\ tail = 0
  /\ up = FALSE
  /\ panic = FALSE
  /\ pc = [p \in Procs |-> "begin"]
  /\ blk = [p \in Procs |-> "none"]
  /\ wrote = [p \in Procs |-> << >>]

----------------------------------------------------------------------------
(* File system calls *)

(* Mutant: the calls already in progress are counted, the new one is not.  *)
ReservedForOthers == Len(lh) + outstanding * MaxOpBlocks

Reserved == Len(lh) + (outstanding + 1) * MaxOpBlocks

(* begin_op(): one evaluation of the loop body under log.lock, on the      *)
(* first call or after a wakeup.  sleep() releases the lock atomically     *)
(* with going to sleep.                                                    *)
BeginOpSleep(p) ==
  /\ up /\ ~panic
  /\ pc[p] = "begin"
  /\ committing \/ Reserved > LogSize
  /\ pc' = [pc EXCEPT ![p] = "sleep"]
  /\ UNCHANGED <<diskVars, commitVars, cache, dirty, lh, outstanding, up,
                 panic, blk, wrote>>

(* Mutant: the call is not counted.                                        *)
BeginOpUncounted(p) ==
  /\ up /\ ~panic
  /\ pc[p] = "begin"
  /\ ~committing /\ Reserved <= LogSize
  /\ pc' = [pc EXCEPT ![p] = "run"]
  /\ wrote' = [wrote EXCEPT ![p] = << >>]
  /\ UNCHANGED <<diskVars, commitVars, cache, dirty, lh, outstanding, up,
                 panic, blk>>

BeginOpEnter(p) ==
  /\ up /\ ~panic
  /\ pc[p] = "begin"
  /\ ~committing /\ Reserved <= LogSize
  /\ outstanding' = outstanding + 1
  /\ pc' = [pc EXCEPT ![p] = "run"]
  /\ wrote' = [wrote EXCEPT ![p] = << >>]
  /\ UNCHANGED <<diskVars, commitVars, cache, dirty, lh, up, panic, blk>>

(* A call has the buffer of b from bread(), modifies it, and enters        *)
(* log_write(), whose two checks are made before log.lock is taken.        *)
LogWriteCheck(p, b, v) ==
  /\ up /\ ~panic
  /\ pc[p] = "run"
  /\ b \notin Locked
  /\ b \in Elems(wrote[p]) \/ Len(wrote[p]) < OpBlocks
  /\ cache' = [cache EXCEPT ![b] = v]
  /\ IF Len(lh) >= LogSize \/ Len(lh) >= NLog - 1 \/ outstanding < 1
     THEN panic' = TRUE /\ UNCHANGED <<pc, blk>>
     ELSE /\ pc' = [pc EXCEPT ![p] = "append"]
          /\ blk' = [blk EXCEPT ![p] = b]
          /\ UNCHANGED panic
  /\ UNCHANGED <<diskVars, commitVars, dirty, lh, outstanding, up, wrote>>

AddOnce(s, b) == IF b \in Elems(s) THEN s ELSE Append(s, b)

(* The rest of log_write(), under log.lock: log absorption, then the pin;  *)
(* the caller's brelse() follows.                                          *)
LogWriteAppend(p) ==
  /\ up /\ ~panic
  /\ pc[p] = "append"
  /\ lh' = AddOnce(lh, blk[p])
  /\ dirty' = dirty \cup {blk[p]}
  /\ wrote' = [wrote EXCEPT ![p] = AddOnce(@, blk[p])]
  /\ pc' = [pc EXCEPT ![p] = "run"]
  /\ blk' = [blk EXCEPT ![p] = "none"]
  /\ UNCHANGED <<diskVars, commitVars, cache, outstanding, up, panic>>

(* Mutant: the sleepers are not made runnable.                             *)
WakeupNobody(f) == f

(* wakeup(&log): sleepers go back to the head of the loop in begin_op().   *)
Wakeup(f) == [q \in Procs |-> IF f[q] = "sleep" THEN "begin" ELSE f[q]]

(* Mutant: end_op() does not call commit().                                *)
EndOpNoCommit(p) ==
  /\ up /\ ~panic
  /\ pc[p] = "run"
  /\ outstanding' = outstanding - 1
  /\ pc' = Wakeup([pc EXCEPT ![p] = "begin"])
  /\ UNCHANGED <<diskVars, commitVars, cache, dirty, lh, up, panic, blk, wrote>>

(* end_op(), first critical section: the last call out becomes the         *)
(* committer and calls commit(), which has nothing to do when n is 0.      *)
EndOp(p) ==
  /\ up /\ ~panic
  /\ pc[p] = "run"
  /\ outstanding' = outstanding - 1
  /\ \/ /\ committing
        /\ panic' = TRUE
        /\ UNCHANGED <<commitVars, pc>>
     \/ /\ ~committing /\ outstanding' = 0
        /\ committing' = TRUE
        /\ phase' = IF lh = << >> THEN "done" ELSE "write_log"
        /\ tail' = 0
        /\ pc' = [pc EXCEPT ![p] = "commit"]
        /\ UNCHANGED panic
     \/ /\ ~committing /\ outstanding' # 0
        /\ pc' = Wakeup([pc EXCEPT ![p] = "begin"])
        /\ UNCHANGED <<commitVars, panic>>
  /\ UNCHANGED <<diskVars, cache, dirty, lh, up, blk, wrote>>

(* end_op(), second critical section, once commit() has returned.          *)
EndCommit(p) ==
  /\ up /\ ~panic
  /\ pc[p] = "commit" /\ phase = "done"
  /\ committing' = FALSE
  /\ phase' = "idle"
  /\ pc' = Wakeup([pc EXCEPT ![p] = "begin"])
  /\ UNCHANGED <<diskVars, tail, cache, dirty, lh, outstanding, up, panic,
                 blk, wrote>>

----------------------------------------------------------------------------
(* commit() and recover_from_log(): one step per disk write *)

(* write_log(): one iteration of its loop.                                 *)
WriteLog ==
  /\ ~panic
  /\ phase = "write_log" /\ tail < Len(lh)
  /\ dlog' = [dlog EXCEPT ![tail + 1] = cache[lh[tail + 1]]]
  /\ tail' = tail + 1
  /\ UNCHANGED <<disk, dhead, cache, dirty, lh, outstanding, committing,
                 phase, up, panic, opVars>>

(* Mutant: the header is written before all of the log blocks are.         *)
WriteHeadEarly ==
  /\ ~panic
  /\ phase = "write_log"
  /\ dhead' = lh
  /\ phase' = "install"
  /\ tail' = 0
  /\ UNCHANGED <<disk, dlog, cache, dirty, lh, outstanding, committing, up,
                 panic, opVars>>

(* write_head() with n > 0: the commit point.                              *)
WriteHead ==
  /\ ~panic
  /\ phase = "write_log" /\ tail = Len(lh)
  /\ dhead' = lh
  /\ phase' = "install"
  /\ tail' = 0
  /\ UNCHANGED <<disk, dlog, cache, dirty, lh, outstanding, committing, up,
                 panic, opVars>>

(* Mutant: the loop variable is not advanced.                              *)
InstallForEver ==
  /\ ~panic
  /\ phase = "install" /\ tail < Len(lh)
  /\ LET b == lh[tail + 1] IN
       /\ disk' = [disk EXCEPT ![b] = dlog[tail + 1]]
       /\ cache' = [cache EXCEPT ![b] = dlog[tail + 1]]
       /\ dirty' = dirty \ {b}
  /\ UNCHANGED <<dlog, dhead, lh, outstanding, committing, phase, tail, up,
                 panic, opVars>>

(* install_trans(): one iteration; bwrite() clears B_DIRTY.                *)
InstallTrans ==
  /\ ~panic
  /\ phase = "install" /\ tail < Len(lh)
  /\ LET b == lh[tail + 1] IN
       /\ disk' = [disk EXCEPT ![b] = dlog[tail + 1]]
       /\ cache' = [cache EXCEPT ![b] = dlog[tail + 1]]
       /\ dirty' = dirty \ {b}
  /\ tail' = tail + 1
  /\ UNCHANGED <<dlog, dhead, lh, outstanding, committing, phase, up, panic,
                 opVars>>

(* log.lh.n = 0; write_head(): the transaction is erased.  Both commit()   *)
(* and recover_from_log() end with it; after recovery initlog() returns.   *)
ClearHead ==
  /\ ~panic
  /\ phase = "install" /\ tail = Len(lh)
  /\ lh' = << >>
  /\ dhead' = << >>
  /\ tail' = 0
  /\ phase' = IF up THEN "done" ELSE "idle"
  /\ up' = TRUE
  /\ UNCHANGED <<disk, dlog, cache, dirty, outstanding, committing, panic,
                 opVars>>

(* read_head(), the first step of recover_from_log().                      *)
ReadHead ==
  /\ phase = "read_head"
  /\ lh' = dhead
  /\ phase' = "install"
  /\ tail' = 0
  /\ UNCHANGED <<diskVars, cache, dirty, outstanding, committing, up, panic,
                 opVars>>

----------------------------------------------------------------------------
(* Environment *)

(* bget() gives the buffer of a clean, unlocked block to another block; a  *)
(* later bread() fetches the block from the disk again.                    *)
Recycle(b) ==
  /\ ~panic
  /\ b \notin dirty /\ b \notin Locked
  /\ cache' = [cache EXCEPT ![b] = disk[b]]
  /\ UNCHANGED <<diskVars, commitVars, dirty, lh, outstanding, up, panic,
                 opVars>>

(* Power failure, or a reboot after a panic: memory is lost.               *)
Crash ==
  /\ cache' = disk
  /\ dirty' = {}
  /\ lh' = << >>
  /\ outstanding' = 0
  /\ committing' = FALSE
  /\ phase' = "read_head"
  /\ tail' = 0
  /\ up' = FALSE
  /\ panic' = FALSE
  /\ pc' = [p \in Procs |-> "begin"]
  /\ blk' = [p \in Procs |-> "none"]
  /\ wrote' = [p \in Procs |-> << >>]
  /\ UNCHANGED diskVars

LogStep == WriteLog \/ WriteHead \/ InstallTrans \/ ClearHead \/ ReadHead

Next ==
  \/ \E p \in Procs : \/ BeginOpSleep(p) \/ BeginOpEnter(p)
                      \/ LogWriteAppend(p)
                      \/ EndOp(p) \/ EndCommit(p)
  \/ \E p \in Procs, b \in Blocks : \E v \in Contents[b] : LogWriteCheck(p, b, v)
  \/ LogStep
  \/ \E b \in Blocks : Recycle(b)
  \/ Crash

Spec == Init /\ [][Next]_vars

(* A process that holds a buffer or the commit keeps running; a file       *)
(* system call makes finitely many writes, so it reaches end_op().         *)
Fairness ==
  /\ WF_vars(LogStep)
  /\ \A p \in Procs : /\ WF_vars(LogWriteAppend(p))
                      /\ SF_vars(EndOp(p))
                      /\ WF_vars(EndCommit(p))

FairSpec == Spec /\ Fairness

----------------------------------------------------------------------------
(* Properties *)

NoPanic == ~panic
LogFits == Len(lh) <= LogSize /\ Len(lh) <= NLog - 1

(* The reservation made by begin_op() is enough: however the calls of one  *)
(* transaction interleave, log_write() and end_op() never panic, and       *)
(* neither the block[] array of the header nor the log area is overrun,    *)
(* although log_write() checks the space before it takes the lock under    *)
(* which it appends.                                                       *)
SpaceReserved == NoPanic /\ LogFits

(* No lost wakeup: a process asleep in begin_op() has somebody left who    *)
(* will call wakeup(&log), either a committer or an outstanding call.      *)
NoStrandedSleeper ==
  (\E p \in Procs : pc[p] = "sleep") =>
     \E q \in Procs : pc[q] \in {"run", "append", "commit"}

(* When no call is in progress and no commit is running, everything the    *)
(* kernel has shown to its callers is at home on the disk and the log is   *)
(* empty: an end_op() that returns last has made its group durable.        *)
QuiescentIsDurable ==
  (up /\ Active = {} /\ ~committing) => (cache = disk /\ dhead = << >>)

(* Every crash leaves all of a group commit or none of it: the contents a  *)
(* reboot recovers change in one step, while no call is in progress, to    *)
(* exactly the contents of the cache.                                      *)
A == INSTANCE AtomicDisk
       WITH store <- Durable,
            mem <- IF up THEN cache ELSE Durable,
            active <- Active
ImplementsAtomicDisk == A!Spec

(* end_op() and commit() wake everybody they put to sleep: a process that  *)
(* waits in begin_op() gets to look at the log again.                      *)
SleeperWakes == \A p \in Procs : (pc[p] = "sleep") ~> (pc[p] # "sleep")

(* If crashes stop, recovery ends, however many crashes interrupted it.    *)
RecoveryCompletes == <>[][~Crash]_vars => <>[]up

----------------------------------------------------------------------------
(* The inductive invariant behind the theorems of LogProofs *)

(* log.outstanding counts the calls in progress, which exclude a commit.   *)
CountInv ==
  /\ outstanding = Cardinality(Active)
  /\ committing => Active = {}

(* Exactly one process commits, and the phases belong to it or to boot.    *)
PhaseInv ==
  /\ committing <=> (phase \in {"write_log", "done"} \/ (phase = "install" /\ up))
  /\ committing <=> \E p \in Procs : pc[p] = "commit"
  /\ \A p, q \in Procs : pc[p] = "commit" /\ pc[q] = "commit" => p = q
  /\ up <=> (phase # "read_head" /\ (phase = "install" => committing))
  /\ ~up => \A p \in Procs : pc[p] = "begin"

(* The log entries that calls in progress have already paid for.           *)
Paid == {x \in Active \X (1..OpBlocks) : x[2] <= Len(wrote[x[1]])}

(* begin_op() reserved MaxOpBlocks per call: what the log holds, plus what *)
(* the calls in progress may still add, fits.                              *)
SpaceInv ==
  /\ Len(lh) + outstanding * MaxOpBlocks <= LogSize + Cardinality(Paid)
  /\ Len(lh) <= LogSize - MaxOpBlocks + OpBlocks
  /\ Len(dhead) <= LogSize - MaxOpBlocks + OpBlocks
  /\ \A p \in Active : /\ Len(wrote[p]) <= OpBlocks
                        /\ Elems(wrote[p]) \subseteq Elems(lh)
  /\ \A p \in Procs : pc[p] = "append" =>
        /\ blk[p] \in Blocks
        /\ blk[p] \in Elems(wrote[p]) \/ Len(wrote[p]) < OpBlocks

Distinct(s) == \A i, j \in 1..Len(s) : s[i] = s[j] => i = j

(* Only pinned or locked buffers differ from the disk; the log area holds  *)
(* what the header is about to name; installation follows the header.      *)
DataInv ==
  /\ Distinct(lh) /\ Distinct(dhead)
  /\ phase \in {"idle", "write_log"} =>
        /\ dhead = << >>
        /\ dirty = Elems(lh)
        /\ \A b \in Blocks \ (dirty \cup Locked) : cache[b] = disk[b]
  /\ phase = "write_log" =>
        /\ tail <= Len(lh)
        /\ \A i \in 1..tail : dlog[i] = cache[lh[i]]
  /\ phase = "install" =>
        /\ dhead = lh
        /\ tail <= Len(lh)
        /\ \A i \in 1..tail : disk[lh[i]] = dlog[i]
  /\ phase = "install" /\ up =>
        /\ \A i \in 1..Len(lh) : dlog[i] = cache[lh[i]]
        /\ \A b \in Blocks \ Elems(lh) : cache[b] = disk[b]
        /\ dirty = {lh[i] : i \in (tail + 1)..Len(lh)}
  /\ phase = "done" => lh = << >> /\ dhead = << >> /\ dirty = {} /\ cache = disk
  /\ ~up => dirty = {} /\ cache = disk

(* Nobody sleeps, and nothing is logged, in a quiet system.                *)
QuietInv ==
  /\ NoStrandedSleeper
  /\ (phase = "idle" /\ Active = {}) => lh = << >>

Inv == TypeOK /\ NoPanic /\ CountInv /\ PhaseInv /\ SpaceInv /\ DataInv /\ QuietInv

============================================================================
