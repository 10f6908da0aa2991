----------------------------- MODULE ProcProofs -----------------------------
(***************************************************************************)
(* Proofs about Proc: for every number of slots, CPUs and pids, whatever   *)
(* the programs call, no process is on two CPUs, no wakeup is lost between *)
(* a check and the sleep() that follows it, and no slot leaks.             *)
(*                                                                         *)
(* None of the four invariants is inductive.  What carries them is who     *)
(* holds which lock at which point of which kernel thread (Threads, Chans, *)
(* TickLock, ClockCpu), that a fork() in progress owns its EMBRYO (Forks), *)
(* and that initproc is always there to inherit (InitStays).               *)
(***************************************************************************)
EXTENDS Proc, FiniteSetTheorems, WellFoundedInduction, TLAPS

Free == {"UNUSED", "EMBRYO"}
Alive == {"SLEEPING", "RUNNABLE", "RUNNING"}

(* initproc never dies (exit() panics) and is nobody's child.              *)
InitStays == state[InitProc] \in Alive /\ parent[InitProc] = None

(* The parent of a process is another process, one that has not exited.    *)
Tree ==
  \A s \in Slots :
    /\ state[s] \in Free => parent[s] = None
    /\ state[s] \notin Free /\ s # InitProc =>
         parent[s] \in Slots \ {s} /\ state[parent[s]] \in Alive

(* fork() between allocproc() and its end: np is an EMBRYO, one fork()     *)
(* each, and there is no other EMBRYO.                                     *)
ForkHasEmbryo ==
  \A p \in Slots : pc[p] = "fork" => ptr[p] \in Slots /\ state[ptr[p]] = "EMBRYO"
EmbryosDiffer ==
  \A p, q \in Slots : pc[p] = "fork" /\ pc[q] = "fork" /\ ptr[p] = ptr[q] => p = q
EmbryoHasFork ==
  \A s \in Slots :
    state[s] = "EMBRYO" => \E p \in Slots : pc[p] = "fork" /\ ptr[p] = s
Forks == ForkHasEmbryo /\ EmbryosDiffer /\ EmbryoHasFork

(* Where the kernel thread of a slot can be, given p->state.               *)
Threads ==
  \A s \in Slots :
    /\ state[s] \in Free => pc[s] \in {"ret", "exit"}
    /\ state[s] = "ZOMBIE" => pc[s] = "exit"
    /\ state[s] = "SLEEPING" => pc[s] \in {"waiting", "tickswait"}

(* p->chan is set exactly inside sleep().                                  *)
Chans ==
  \A s \in Slots :
    /\ chan[s] = s <=> pc[s] = "waiting"
    /\ chan[s] = Ticks <=> pc[s] = "tickswait"
    /\ chan[s] \in {s, Ticks, None}

(* Who holds tickslock, and that a process about to sleep with it still    *)
(* has time left: the clock cannot tick before it sleeps.                  *)
TickLock ==
  /\ tlock = Handler <=> intr = "wake"
  /\ \A s \in Slots : tlock = s <=> pc[s] \in {"ticks", "ticksblock"}
  /\ \A s \in Slots : tlock = s => state[s] = "RUNNING"
  /\ \A s \in Slots : pc[s] = "ticksblock" => left[s] > 0

(* The clock handler interrupts neither ptable.lock nor tickslock.         *)
ClockCpu ==
  /\ intr # "none" => lock # BootCpu
  /\ intr = "yield" => cur[BootCpu] # None /\ cur[BootCpu] # tlock

ProcInv ==
  /\ TypeOK
  /\ OneCpuPerProcess
  /\ InitStays
  /\ Tree
  /\ Forks
  /\ Threads
  /\ Chans
  /\ TickLock
  /\ ClockCpu
  /\ NoMissedTick
  /\ NoMissedChild

----------------------------------------------------------------------------
(* What the table scans find, and who is running *)

(* A scan of the table stops at a slot that it looks for.                  *)
LEMMA FirstFound ==
  ASSUME NEW S \in SUBSET Slots, S # {}
  PROVE  First(S) \in S
<1>1. S \subseteq Nat
  BY ProcAssumption DEF Slots
<1>2. \E x \in S : \A y \in S : ~(<<y, x>> \in OpToRel(<, Nat))
  BY <1>1, NatLessThanWellFounded, WFMin, Zenon
<1>3. ASSUME NEW x \in Nat, NEW y \in Nat, y < x
      PROVE  <<y, x>> \in OpToRel(<, Nat)
  BY <1>3 DEF OpToRel
<1>4. \A x, y \in Nat : ~(y < x) => x <= y
  OBVIOUS
<1>5. \E x \in S : \A y \in S : x <= y
  BY <1>1, <1>2, <1>3, <1>4, Zenon
<1> QED
  BY <1>5 DEF First

(* The process a CPU executes is RUNNING.                                  *)
LEMMA RunsRunning ==
  ASSUME OneCpuPerProcess, NEW c \in Cpus, NEW p \in Slots, NEW point,
         Runs(c, p, point)
  PROVE  state[p] = "RUNNING"
BY DEF OneCpuPerProcess, Runs

(* The null pointer, &ticks and the clock handler are no slots.            *)
LEMMA Places ==
  /\ InitProc \in Slots
  /\ None \notin Slots /\ Ticks \notin Slots /\ Handler \notin Slots
  /\ None # Ticks /\ None # Handler
BY ProcAssumption DEF InitProc, Slots, None, Ticks, Handler

----------------------------------------------------------------------------
(* Every step preserves ProcInv *)

(* What TrapReturn, Fault, CallExit, the two steps of getppid() and the    *)
(* failing allocproc() and kill() have in common: the kernel thread of a   *)
(* RUNNING process moves on, and nothing that others look at changes.      *)
LocalStep(p, point) ==
  /\ state[p] = "RUNNING"
  /\ pc[p] \in {"call", "ret", "getppid"}
  /\ point \in {"call", "ret", "exit", "getppid"}
  /\ pc' = [pc EXCEPT ![p] = point]
  /\ \/ UNCHANGED ptr
     \/ \E s \in Slots \cup {None} : ptr' = [ptr EXCEPT ![p] = s]
  /\ killed' \in {killed, [killed EXCEPT ![p] = TRUE]}
  /\ UNCHANGED <<state, pid, parent, chan, left, nextpid, shell, lock, tlock, cur,
                 scan, intr, panic>>

(* A step that only moves the kernel thread of one process.                *)
LEMMA LocalStepKeepsInv ==
  ASSUME ProcInv, NEW p \in Slots, NEW point, LocalStep(p, point)
  PROVE  ProcInv'
<1>1. /\ OneCpuPerProcess' /\ InitStays' /\ Tree' /\ ClockCpu'
      /\ NoMissedTick'
  BY DEF ProcInv, OneCpuPerProcess, InitStays, Tree, ClockCpu, NoMissedTick,
    LocalStep
<1>2. TypeOK'
  <2>1. killed' \in [Slots -> BOOLEAN]
    BY DEF ProcInv, TypeOK, LocalStep
  <2>2. ptr' \in [Slots -> Slots \cup {None}]
    BY DEF ProcInv, TypeOK, LocalStep
  <2>3. pc' \in [Slots -> Points]
    BY DEF ProcInv, TypeOK, LocalStep, Points
  <2> QED
    BY <2>1, <2>2, <2>3 DEF ProcInv, TypeOK, LocalStep
<1>3. Forks'
  BY Places
  DEF ProcInv, TypeOK, Forks, ForkHasEmbryo, EmbryosDiffer, EmbryoHasFork,
      LocalStep
<1>4. Threads'
  BY Places
  DEF ProcInv, TypeOK, Threads, Free, LocalStep
<1>5. Chans'
  BY Places
  DEF ProcInv, TypeOK, Chans, LocalStep
<1>6. TickLock'
  BY Places
  DEF ProcInv, TypeOK, TickLock, LocalStep
<1>7. NoMissedChild'
  BY Places
  DEF ProcInv, TypeOK, NoMissedChild, LocalStep
<1> QED
  BY <1>1, <1>2, <1>3, <1>4, <1>5, <1>6, <1>7 DEF ProcInv

(* allocproc() finds a slot: it is nobody's child and on no CPU.           *)
LEMMA ForkAllocSlotStep ==
  ASSUME ProcInv, NEW c \in Cpus, NEW p \in Slots, ForkAlloc(c, p),
         {s \in Slots : state[s] = "UNUSED"} # {}, nextpid <= MaxPid
  PROVE  ProcInv'
<1>1. state[p] = "RUNNING"
  BY RunsRunning DEF ProcInv, ForkAlloc
<1>2. PICK np \in Slots :
        /\ state[np] = "UNUSED" /\ pc[p] = "call"
        /\ state' = [state EXCEPT ![np] = "EMBRYO"]
        /\ pid' = [pid EXCEPT ![np] = nextpid]
        /\ ptr' = [ptr EXCEPT ![p] = np]
        /\ pc' = [pc EXCEPT ![p] = "fork"]
        /\ nextpid' = nextpid + 1
        /\ UNCHANGED <<parent, chan, killed, left, shell, lock, tlock, cur, scan,
                       intr, panic>>
  <2> DEFINE unused == {s \in Slots : state[s] = "UNUSED"}
  <2>1. First(unused) \in unused
    BY FirstFound
  <2> QED
    BY <2>1, ProcAssumption DEF ProcInv, TypeOK, ForkAlloc, Goto, Runs, cpuVars
<1>3. ClockCpu'
  BY <1>2 DEF ProcInv, ClockCpu
<1>4. TypeOK'
  BY ProcAssumption, Places, <1>1, <1>2
  DEF ProcInv, TypeOK, States, Points
<1>5. OneCpuPerProcess'
  BY ProcAssumption, Places, <1>1, <1>2
  DEF ProcInv, TypeOK, OneCpuPerProcess
<1>6. InitStays'
  BY Places, <1>1, <1>2
  DEF ProcInv, TypeOK, InitStays, Free, Alive
<1>7. Tree'
  BY Places, <1>1, <1>2
  DEF ProcInv, TypeOK, Tree, Free, Alive
<1>8. Forks'
  BY Places, <1>1, <1>2
  DEF ProcInv, TypeOK, Forks, ForkHasEmbryo, EmbryosDiffer, EmbryoHasFork
<1>9. Threads'
  BY Places, <1>1, <1>2
  DEF ProcInv, TypeOK, Threads, Free
<1>10. Chans'
  BY Places, <1>1, <1>2
  DEF ProcInv, TypeOK, Chans
<1>11. TickLock'
  BY Places, <1>1, <1>2
  DEF ProcInv, TypeOK, TickLock
<1>12. NoMissedTick'
  BY Places, <1>1, <1>2
  DEF ProcInv, TypeOK, NoMissedTick
<1>13. NoMissedChild'
  BY Places, <1>1, <1>2
  DEF ProcInv, TypeOK, NoMissedChild
<1> QED
  BY <1>3, <1>4, <1>5, <1>6, <1>7, <1>8, <1>9, <1>10, <1>11, <1>12,
      <1>13 DEF ProcInv

(* The slot that fails is the one this fork() owns.                        *)
LEMMA ForkFailStep ==
  ASSUME ProcInv, NEW c \in Cpus, NEW p \in Slots, ForkFail(c, p)
  PROVE  ProcInv'
<1>1. state[p] = "RUNNING"
  BY RunsRunning DEF ProcInv, ForkFail
<1>2. /\ pc[p] = "fork"
      /\ pc' = [pc EXCEPT ![p] = IF p = InitProc THEN "exit" ELSE "ret"]
      /\ state' = [state EXCEPT ![ptr[p]] = "UNUSED"]
      /\ ptr' = [ptr EXCEPT ![p] = None]
      /\ UNCHANGED <<pid, parent, chan, killed, left, nextpid, shell, lock, tlock,
                     cur, scan, intr, panic>>
  BY DEF ForkFail, ForkFailed, Goto, Runs, cpuVars
<1>3. ptr[p] \in Slots /\ state[ptr[p]] = "EMBRYO"
  BY <1>2 DEF ProcInv, Forks, ForkHasEmbryo
<1>4. ClockCpu'
  BY <1>2 DEF ProcInv, ClockCpu
<1>5. TypeOK'
  BY ProcAssumption, Places, <1>1, <1>2, <1>3
  DEF ProcInv, TypeOK, States, Points
<1>6. OneCpuPerProcess'
  BY ProcAssumption, Places, <1>1, <1>2, <1>3
  DEF ProcInv, TypeOK, OneCpuPerProcess
<1>7. InitStays'
  BY Places, <1>1, <1>2, <1>3
  DEF ProcInv, TypeOK, InitStays, Free, Alive
<1>8. Tree'
  BY Places, <1>1, <1>2, <1>3
  DEF ProcInv, TypeOK, Tree, Free, Alive
<1>9. Forks'
  BY Places, <1>1, <1>2, <1>3
  DEF ProcInv, TypeOK, Forks, ForkHasEmbryo, EmbryosDiffer, EmbryoHasFork
<1>10. Threads'
  BY Places, <1>1, <1>2, <1>3
  DEF ProcInv, TypeOK, Threads, Free
<1>11. Chans'
  BY Places, <1>1, <1>2, <1>3
  DEF ProcInv, TypeOK, Chans
<1>12. TickLock'
  BY Places, <1>1, <1>2, <1>3
  DEF ProcInv, TypeOK, TickLock
<1>13. NoMissedTick'
  BY Places, <1>1, <1>2, <1>3
  DEF ProcInv, TypeOK, NoMissedTick
<1>14. NoMissedChild'
  BY Places, <1>1, <1>2, <1>3
  DEF ProcInv, TypeOK, NoMissedChild
<1> QED
  BY <1>4, <1>5, <1>6, <1>7, <1>8, <1>9, <1>10, <1>11, <1>12, <1>13,
      <1>14 DEF ProcInv

(* The child appears with a living parent, on no channel.                  *)
LEMMA ForkDoneStep ==
  ASSUME ProcInv, NEW c \in Cpus, NEW p \in Slots, ForkDone(c, p)
  PROVE  ProcInv'
<1>1. state[p] = "RUNNING"
  BY RunsRunning DEF ProcInv, ForkDone
<1>2. /\ pc[p] = "fork" /\ lock = NoCpu
      /\ parent' = [parent EXCEPT ![ptr[p]] = p]
      /\ state' = [state EXCEPT ![ptr[p]] = "RUNNABLE"]
      /\ ptr' = [ptr EXCEPT ![p] = None]
      /\ pc' = [pc EXCEPT ![p] = "ret", ![ptr[p]] = "ret"]
      /\ shell' \in {shell, pid[ptr[p]]}
      /\ UNCHANGED <<pid, chan, killed, left, nextpid, lock, tlock, cur, scan,
                     intr, panic>>
  BY DEF ForkDone, Runs, cpuVars
<1>3. ptr[p] \in Slots /\ state[ptr[p]] = "EMBRYO"
  BY <1>2 DEF ProcInv, Forks, ForkHasEmbryo
<1>4. ClockCpu'
  BY <1>2 DEF ProcInv, ClockCpu
<1>5. TypeOK'
  BY ProcAssumption, Places, <1>1, <1>2, <1>3
  DEF ProcInv, TypeOK, States, Points
<1>6. OneCpuPerProcess'
  BY ProcAssumption, Places, <1>1, <1>2, <1>3
  DEF ProcInv, TypeOK, OneCpuPerProcess
<1>7. InitStays'
  BY Places, <1>1, <1>2, <1>3
  DEF ProcInv, TypeOK, InitStays, Free, Alive
<1>8. Tree'
  BY Places, <1>1, <1>2, <1>3
  DEF ProcInv, TypeOK, Tree, Free, Alive
<1>9. Forks'
  BY Places, <1>1, <1>2, <1>3
  DEF ProcInv, TypeOK, Forks, ForkHasEmbryo, EmbryosDiffer, EmbryoHasFork,
      Threads, Free
<1>10. Threads'
  BY Places, <1>1, <1>2, <1>3
  DEF ProcInv, TypeOK, Threads, Free
<1>11. Chans'
  BY Places, <1>1, <1>2, <1>3
  DEF ProcInv, TypeOK, Chans, Threads, Free
<1>12. TickLock'
  BY Places, <1>1, <1>2, <1>3
  DEF ProcInv, TypeOK, TickLock
<1>13. NoMissedTick'
  BY Places, <1>1, <1>2, <1>3
  DEF ProcInv, TypeOK, NoMissedTick
<1>14. NoMissedChild'
  BY Places, <1>1, <1>2, <1>3
  DEF ProcInv, TypeOK, NoMissedChild, Tree, Free
<1> QED
  BY <1>4, <1>5, <1>6, <1>7, <1>8, <1>9, <1>10, <1>11, <1>12, <1>13,
      <1>14 DEF ProcInv

(* The parent is woken before p is a ZOMBIE, init before it inherits one:  *)
(* a parent still asleep afterwards has no dead child.  No child of p is   *)
(* left, so that wait() may free the slot.                                 *)
LEMMA ExitStep ==
  ASSUME ProcInv, NEW c \in Cpus, NEW p \in Slots, Exit(c, p)
  PROVE  ProcInv'
<1>1. state[p] = "RUNNING"
  BY RunsRunning DEF ProcInv, Exit
<1>2. /\ p # InitProc /\ pc[p] = "exit" /\ lock = NoCpu /\ cur[c] = p
      /\ c = BootCpu => intr = "none"
      /\ lock' = c
      /\ parent' = [s \in Slots |-> IF parent[s] = p THEN InitProc ELSE parent[s]]
      /\ UNCHANGED <<pid, chan, killed, pc, ptr, left, nextpid, shell, tlock, cur,
                     scan, intr, panic>>
  BY DEF Exit, Runs, threadVars, cpuVars
<1>3. /\ state' \in [Slots -> States]
      /\ state'[p] = "ZOMBIE"
      /\ \A s \in Slots \ {p} :
           \/ state'[s] = state[s]
           \/ state[s] = "SLEEPING" /\ state'[s] = "RUNNABLE"
      /\ \A s \in Slots \ {p} : state'[s] = "SLEEPING" => chan[s] # parent[p]
      /\ \A s \in Slots \ {p} :
           state'[s] = "SLEEPING" /\ chan[s] = InitProc =>
             \A z \in Slots : ~(parent[z] = p /\ state[z] = "ZOMBIE")
  BY DEF ProcInv, TypeOK, Exit, Woken, States
<1>4. Chans'
  BY <1>2 DEF ProcInv, Chans
<1>5. TypeOK'
  BY ProcAssumption, Places, <1>1, <1>2, <1>3
  DEF ProcInv, TypeOK, States, Points
<1>6. OneCpuPerProcess'
  BY ProcAssumption, Places, <1>1, <1>2, <1>3
  DEF ProcInv, TypeOK, OneCpuPerProcess
<1>7. InitStays'
  BY Places, <1>1, <1>2, <1>3
  DEF ProcInv, TypeOK, InitStays, Free, Alive
<1>8. Tree'
  BY Places, <1>1, <1>2, <1>3
  DEF ProcInv, TypeOK, Tree, Free, Alive, InitStays
<1>9. Forks'
  BY Places, <1>1, <1>2, <1>3
  DEF ProcInv, TypeOK, Forks, ForkHasEmbryo, EmbryosDiffer, EmbryoHasFork
<1>10. Threads'
  BY Places, <1>1, <1>2, <1>3
  DEF ProcInv, TypeOK, Threads, Free
<1>11. TickLock'
  BY Places, <1>1, <1>2, <1>3
  DEF ProcInv, TypeOK, TickLock
<1>12. ClockCpu'
  BY ProcAssumption, Places, <1>1, <1>2, <1>3
  DEF ProcInv, TypeOK, ClockCpu
<1>13. NoMissedTick'
  BY Places, <1>1, <1>2, <1>3
  DEF ProcInv, TypeOK, NoMissedTick
<1>14. NoMissedChild'
  BY Places, <1>1, <1>2, <1>3
  DEF ProcInv, TypeOK, NoMissedChild, Tree, Free, InitStays
<1> QED
  BY <1>4, <1>5, <1>6, <1>7, <1>8, <1>9, <1>10, <1>11, <1>12, <1>13,
      <1>14 DEF ProcInv

LEMMA ExitInitStep ==
  ASSUME ProcInv, NEW c \in Cpus, NEW p \in Slots, ExitInit(c, p)
  PROVE  ProcInv'
<1>1. /\ OneCpuPerProcess' /\ InitStays' /\ Tree' /\ Forks'
      /\ Threads' /\ Chans' /\ TickLock' /\ ClockCpu'
      /\ NoMissedTick' /\ NoMissedChild'
  BY DEF ProcInv, OneCpuPerProcess, InitStays, Tree, Forks, ForkHasEmbryo,
      EmbryosDiffer, EmbryoHasFork, Threads, Chans, TickLock, ClockCpu,
      NoMissedTick, NoMissedChild,
    ExitInit, slotVars, threadVars, cpuVars
<1>2. TypeOK'
  BY ProcAssumption, Places
  DEF ProcInv, TypeOK, States, Points, ExitInit, Runs, slotVars, threadVars,
      cpuVars
<1> QED
  BY <1>1, <1>2 DEF ProcInv

(* The ZOMBIE is on no CPU: one still on its stack would hold the lock.    *)
LEMMA WaitReapsStep ==
  ASSUME ProcInv, NEW c \in Cpus, NEW p \in Slots, WaitScan(c, p),
         \E s \in Slots : parent[s] = p /\ state[s] = "ZOMBIE"
  PROVE  ProcInv'
<1>1. PICK z \in Slots :
        /\ pc[p] \in {"call", "waiting"} /\ cur[c] = p /\ lock \in {c, NoCpu}
        /\ c = BootCpu /\ lock # c => intr = "none"
        /\ lock = c => state[p] = "RUNNING"
        /\ parent[z] = p /\ state[z] = "ZOMBIE"
        /\ pid' = [pid EXCEPT ![z] = 0]
        /\ parent' = [parent EXCEPT ![z] = None]
        /\ killed' = [killed EXCEPT ![z] = FALSE]
        /\ state' = [state EXCEPT ![z] = "UNUSED"]
        /\ chan' = [chan EXCEPT ![p] = None]
        /\ shell' \in {0, shell}
        /\ lock' = NoCpu
        /\ pc' = [pc EXCEPT ![p] = "ret"]
        /\ UNCHANGED <<ptr, left, nextpid, tlock, cur, scan, intr, panic>>
  <2> DEFINE kids == {s \in Slots : parent[s] = p}
             dead == {s \in kids : state[s] = "ZOMBIE"}
  <2>1. dead # {} /\ First(dead) \in dead
    BY FirstFound
  <2> QED
    BY <2>1 DEF WaitScan, Goto, Runs, cpuVars
<1>2. state[p] = "RUNNING"
  BY <1>1, ProcAssumption, Places DEF ProcInv, OneCpuPerProcess
<1>3. TypeOK'
  BY ProcAssumption, Places, <1>1, <1>2
  DEF ProcInv, TypeOK, States, Points
<1>4. OneCpuPerProcess'
  BY ProcAssumption, Places, <1>1, <1>2
  DEF ProcInv, TypeOK, OneCpuPerProcess
<1>5. InitStays'
  BY Places, <1>1, <1>2
  DEF ProcInv, TypeOK, InitStays, Free, Alive
<1>6. Tree'
  BY Places, <1>1, <1>2
  DEF ProcInv, TypeOK, Tree, Free, Alive
<1>7. Forks'
  BY Places, <1>1, <1>2
  DEF ProcInv, TypeOK, Forks, ForkHasEmbryo, EmbryosDiffer, EmbryoHasFork
<1>8. Threads'
  BY Places, <1>1, <1>2
  DEF ProcInv, TypeOK, Threads, Free
<1>9. Chans'
  BY Places, <1>1, <1>2
  DEF ProcInv, TypeOK, Chans
<1>10. TickLock'
  BY Places, <1>1, <1>2
  DEF ProcInv, TypeOK, TickLock
<1>11. ClockCpu'
  BY ProcAssumption, Places, <1>1, <1>2
  DEF ProcInv, TypeOK, ClockCpu
<1>12. NoMissedTick'
  BY Places, <1>1, <1>2
  DEF ProcInv, TypeOK, NoMissedTick
<1>13. NoMissedChild'
  BY Places, <1>1, <1>2
  DEF ProcInv, TypeOK, NoMissedChild
<1> QED
  BY <1>3, <1>4, <1>5, <1>6, <1>7, <1>8, <1>9, <1>10, <1>11, <1>12,
      <1>13 DEF ProcInv

LEMMA WaitReturnsStep ==
  ASSUME ProcInv, NEW c \in Cpus, NEW p \in Slots, WaitScan(c, p),
         ~(\E s \in Slots : parent[s] = p /\ state[s] = "ZOMBIE"),
         killed[p] \/ ~(\E s \in Slots : parent[s] = p)
  PROVE  ProcInv'
<1>1. /\ pc[p] \in {"call", "waiting"} /\ cur[c] = p /\ lock \in {c, NoCpu}
      /\ c = BootCpu /\ lock # c => intr = "none"
      /\ lock = c => state[p] = "RUNNING"
      /\ chan' = [chan EXCEPT ![p] = None]
      /\ shell' \in {0, shell}
      /\ lock' = NoCpu
      /\ pc' = [pc EXCEPT ![p] = "ret"]
      /\ UNCHANGED <<state, pid, parent, killed, ptr, left, nextpid, tlock, cur,
                     scan, intr, panic>>
  BY DEF WaitScan, Goto, Runs, cpuVars
<1>2. state[p] = "RUNNING"
  BY <1>1, ProcAssumption, Places DEF ProcInv, OneCpuPerProcess
<1>3. InitStays' /\ Tree'
  BY <1>1 DEF ProcInv, InitStays, Tree
<1>4. TypeOK'
  BY ProcAssumption, Places, <1>1, <1>2
  DEF ProcInv, TypeOK, States, Points
<1>5. OneCpuPerProcess'
  BY ProcAssumption, Places, <1>1, <1>2
  DEF ProcInv, TypeOK, OneCpuPerProcess
<1>6. Forks'
  BY Places, <1>1, <1>2
  DEF ProcInv, TypeOK, Forks, ForkHasEmbryo, EmbryosDiffer, EmbryoHasFork
<1>7. Threads'
  BY Places, <1>1, <1>2
  DEF ProcInv, TypeOK, Threads, Free
<1>8. Chans'
  BY Places, <1>1, <1>2
  DEF ProcInv, TypeOK, Chans
<1>9. TickLock'
  BY Places, <1>1, <1>2
  DEF ProcInv, TypeOK, TickLock
<1>10. ClockCpu'
  BY ProcAssumption, Places, <1>1, <1>2
  DEF ProcInv, TypeOK, ClockCpu
<1>11. NoMissedTick'
  BY Places, <1>1, <1>2
  DEF ProcInv, TypeOK, NoMissedTick
<1>12. NoMissedChild'
  BY Places, <1>1, <1>2
  DEF ProcInv, TypeOK, NoMissedChild
<1> QED
  BY <1>3, <1>4, <1>5, <1>6, <1>7, <1>8, <1>9, <1>10, <1>11, <1>12 DEF ProcInv

(* The scan and the sleep are one critical section.                        *)
LEMMA WaitSleepsStep ==
  ASSUME ProcInv, NEW c \in Cpus, NEW p \in Slots, WaitScan(c, p),
         ~(\E s \in Slots : parent[s] = p /\ state[s] = "ZOMBIE"),
         ~killed[p], \E s \in Slots : parent[s] = p
  PROVE  ProcInv'
<1>1. /\ pc[p] \in {"call", "waiting"} /\ cur[c] = p /\ lock \in {c, NoCpu}
      /\ c = BootCpu /\ lock # c => intr = "none"
      /\ lock = c => state[p] = "RUNNING"
      /\ chan' = [chan EXCEPT ![p] = p]
      /\ state' = [state EXCEPT ![p] = "SLEEPING"]
      /\ lock' = c
      /\ pc' = [pc EXCEPT ![p] = "waiting"]
      /\ UNCHANGED <<pid, parent, killed, ptr, left, nextpid, shell, tlock, cur,
                     scan, intr, panic>>
  BY DEF WaitScan, Goto, Runs, cpuVars
<1>2. state[p] = "RUNNING"
  BY <1>1, ProcAssumption, Places DEF ProcInv, OneCpuPerProcess
<1>3. TypeOK'
  BY ProcAssumption, Places, <1>1, <1>2
  DEF ProcInv, TypeOK, States, Points
<1>4. OneCpuPerProcess'
  BY ProcAssumption, Places, <1>1, <1>2
  DEF ProcInv, TypeOK, OneCpuPerProcess
<1>5. InitStays'
  BY Places, <1>1, <1>2
  DEF ProcInv, TypeOK, InitStays, Free, Alive
<1>6. Tree'
  BY Places, <1>1, <1>2
  DEF ProcInv, TypeOK, Tree, Free, Alive
<1>7. Forks'
  BY Places, <1>1, <1>2
  DEF ProcInv, TypeOK, Forks, ForkHasEmbryo, EmbryosDiffer, EmbryoHasFork
<1>8. Threads'
  BY Places, <1>1, <1>2
  DEF ProcInv, TypeOK, Threads, Free
<1>9. Chans'
  BY Places, <1>1, <1>2
  DEF ProcInv, TypeOK, Chans
<1>10. TickLock'
  BY Places, <1>1, <1>2
  DEF ProcInv, TypeOK, TickLock
<1>11. ClockCpu'
  BY ProcAssumption, Places, <1>1, <1>2
  DEF ProcInv, TypeOK, ClockCpu
<1>12. NoMissedTick'
  BY Places, <1>1, <1>2
  DEF ProcInv, TypeOK, NoMissedTick
<1>13. NoMissedChild'
  BY Places, <1>1, <1>2
  DEF ProcInv, TypeOK, NoMissedChild
<1> QED
  BY <1>3, <1>4, <1>5, <1>6, <1>7, <1>8, <1>9, <1>10, <1>11, <1>12,
      <1>13 DEF ProcInv

(* A sleeper is marked and woken in one critical section.                  *)
LEMMA KillSlotStep ==
  ASSUME ProcInv, NEW c \in Cpus, NEW p \in Slots, NEW target \in KillTargets,
      Kill(c, p, target),
         \E s \in Slots : pid[s] = target
  PROVE  ProcInv'
<1>1. state[p] = "RUNNING"
  BY RunsRunning DEF ProcInv, Kill
<1>2. PICK k \in Slots :
        /\ killed' = [killed EXCEPT ![k] = TRUE]
        /\ state' = IF state[k] = "SLEEPING" THEN [state EXCEPT ![k] = "RUNNABLE"]
                                             ELSE state
        /\ pc[p] = "call" /\ lock = NoCpu
        /\ pc' = [pc EXCEPT ![p] = "ret"]
        /\ UNCHANGED <<pid, parent, chan, ptr, left, nextpid, shell, lock, tlock,
                       cur, scan, intr, panic>>
  <2> DEFINE match == {s \in Slots : pid[s] = target}
  <2>1. match # {} /\ First(match) \in match
    BY FirstFound
  <2> QED
    BY <2>1 DEF Kill, Goto, Runs, cpuVars
<1>3. ClockCpu'
  BY <1>2 DEF ProcInv, ClockCpu
<1>4. TypeOK'
  BY ProcAssumption, Places, <1>1, <1>2
  DEF ProcInv, TypeOK, States, Points
<1>5. OneCpuPerProcess'
  BY ProcAssumption, Places, <1>1, <1>2
  DEF ProcInv, TypeOK, OneCpuPerProcess
<1>6. InitStays'
  BY Places, <1>1, <1>2
  DEF ProcInv, TypeOK, InitStays, Free, Alive
<1>7. Tree'
  BY Places, <1>1, <1>2
  DEF ProcInv, TypeOK, Tree, Free, Alive
<1>8. Forks'
  BY Places, <1>1, <1>2
  DEF ProcInv, TypeOK, Forks, ForkHasEmbryo, EmbryosDiffer, EmbryoHasFork
<1>9. Threads'
  BY Places, <1>1, <1>2
  DEF ProcInv, TypeOK, Threads, Free
<1>10. Chans'
  BY Places, <1>1, <1>2
  DEF ProcInv, TypeOK, Chans
<1>11. TickLock'
  BY Places, <1>1, <1>2
  DEF ProcInv, TypeOK, TickLock
<1>12. NoMissedTick'
  BY Places, <1>1, <1>2
  DEF ProcInv, TypeOK, NoMissedTick
<1>13. NoMissedChild'
  BY Places, <1>1, <1>2
  DEF ProcInv, TypeOK, NoMissedChild
<1> QED
  BY <1>3, <1>4, <1>5, <1>6, <1>7, <1>8, <1>9, <1>10, <1>11, <1>12,
      <1>13 DEF ProcInv

LEMMA SleepStartStep ==
  ASSUME ProcInv, NEW c \in Cpus, NEW p \in Slots, NEW n \in 0..MaxSleep,
      SleepStart(c, p, n)
  PROVE  ProcInv'
<1>1. state[p] = "RUNNING"
  BY RunsRunning DEF ProcInv, SleepStart
<1>2. OneCpuPerProcess' /\ InitStays' /\ Tree' /\ NoMissedChild'
  BY DEF ProcInv, OneCpuPerProcess, InitStays, Tree, NoMissedChild,
    SleepStart, slotVars, cpuVars
<1>3. TypeOK'
  BY ProcAssumption, Places, <1>1
  DEF ProcInv, TypeOK, States, Points, SleepStart, Runs, Goto, slotVars, cpuVars
<1>4. Forks'
  BY Places, <1>1
  DEF ProcInv, TypeOK, Forks, ForkHasEmbryo, EmbryosDiffer, EmbryoHasFork,
      SleepStart, Runs, Goto, slotVars, cpuVars
<1>5. Threads'
  BY Places, <1>1
  DEF ProcInv, TypeOK, Threads, Free, SleepStart, Runs, Goto, slotVars, cpuVars
<1>6. Chans'
  BY Places, <1>1
  DEF ProcInv, TypeOK, Chans, SleepStart, Runs, Goto, slotVars, cpuVars
<1>7. TickLock'
  BY Places, <1>1
  DEF ProcInv, TypeOK, TickLock, SleepStart, Runs, Goto, slotVars, cpuVars
<1>8. ClockCpu'
  BY ProcAssumption, Places, <1>1
  DEF ProcInv, TypeOK, ClockCpu, SleepStart, Runs, Goto, slotVars, cpuVars,
      OneCpuPerProcess
<1>9. NoMissedTick'
  BY Places, <1>1
  DEF ProcInv, TypeOK, NoMissedTick, SleepStart, Runs, Goto, slotVars, cpuVars
<1> QED
  BY <1>2, <1>3, <1>4, <1>5, <1>6, <1>7, <1>8, <1>9 DEF ProcInv

LEMMA SleepTestLeavesStep ==
  ASSUME ProcInv, NEW c \in Cpus, NEW p \in Slots, SleepTest(c, p),
         left[p] = 0 \/ killed[p]
  PROVE  ProcInv'
<1>1. state[p] = "RUNNING"
  BY RunsRunning DEF ProcInv, SleepTest
<1>2. OneCpuPerProcess' /\ InitStays' /\ Tree' /\ NoMissedChild'
  BY DEF ProcInv, OneCpuPerProcess, InitStays, Tree, NoMissedChild,
    SleepTest, slotVars, cpuVars
<1>3. TypeOK'
  BY ProcAssumption, Places, <1>1
  DEF ProcInv, TypeOK, States, Points, SleepTest, Runs, Goto, slotVars, cpuVars
<1>4. Forks'
  BY Places, <1>1
  DEF ProcInv, TypeOK, Forks, ForkHasEmbryo, EmbryosDiffer, EmbryoHasFork,
      SleepTest, Runs, Goto, slotVars, cpuVars
<1>5. Threads'
  BY Places, <1>1
  DEF ProcInv, TypeOK, Threads, Free, SleepTest, Runs, Goto, slotVars, cpuVars
<1>6. Chans'
  BY Places, <1>1
  DEF ProcInv, TypeOK, Chans, SleepTest, Runs, Goto, slotVars, cpuVars
<1>7. TickLock'
  BY Places, <1>1
  DEF ProcInv, TypeOK, TickLock, SleepTest, Runs, Goto, slotVars, cpuVars
<1>8. ClockCpu'
  BY ProcAssumption, Places, <1>1
  DEF ProcInv, TypeOK, ClockCpu, SleepTest, Runs, Goto, slotVars, cpuVars
<1>9. NoMissedTick'
  BY Places, <1>1
  DEF ProcInv, TypeOK, NoMissedTick, SleepTest, Runs, Goto, slotVars, cpuVars
<1> QED
  BY <1>2, <1>3, <1>4, <1>5, <1>6, <1>7, <1>8, <1>9 DEF ProcInv

(* The caller keeps tickslock, so left stays positive until SleepBlock.    *)
LEMMA SleepTestBlocksStep ==
  ASSUME ProcInv, NEW c \in Cpus, NEW p \in Slots, SleepTest(c, p),
         left[p] # 0, ~killed[p]
  PROVE  ProcInv'
<1>1. state[p] = "RUNNING"
  BY RunsRunning DEF ProcInv, SleepTest
<1>2. /\ OneCpuPerProcess' /\ InitStays' /\ Tree' /\ ClockCpu'
      /\ NoMissedTick' /\ NoMissedChild'
  BY DEF ProcInv, OneCpuPerProcess, InitStays, Tree, ClockCpu, NoMissedTick,
      NoMissedChild,
    SleepTest, slotVars, cpuVars
<1>3. TypeOK'
  BY ProcAssumption, Places, <1>1
  DEF ProcInv, TypeOK, States, Points, SleepTest, Runs, Goto, slotVars, cpuVars
<1>4. Forks'
  BY Places, <1>1
  DEF ProcInv, TypeOK, Forks, ForkHasEmbryo, EmbryosDiffer, EmbryoHasFork,
      SleepTest, Runs, Goto, slotVars, cpuVars
<1>5. Threads'
  BY Places, <1>1
  DEF ProcInv, TypeOK, Threads, Free, SleepTest, Runs, Goto, slotVars, cpuVars
<1>6. Chans'
  BY Places, <1>1
  DEF ProcInv, TypeOK, Chans, SleepTest, Runs, Goto, slotVars, cpuVars
<1>7. TickLock'
  BY Places, <1>1
  DEF ProcInv, TypeOK, TickLock, SleepTest, Runs, Goto, slotVars, cpuVars
<1> QED
  BY <1>2, <1>3, <1>4, <1>5, <1>6, <1>7 DEF ProcInv

(* With tickslock held there is time left when the caller falls asleep.    *)
LEMMA SleepBlockStep ==
  ASSUME ProcInv, NEW c \in Cpus, NEW p \in Slots, SleepBlock(c, p)
  PROVE  ProcInv'
<1>1. state[p] = "RUNNING"
  BY RunsRunning DEF ProcInv, SleepBlock
<1>2. TypeOK'
  BY ProcAssumption, Places, <1>1
  DEF ProcInv, TypeOK, States, Points, SleepBlock, Runs, Goto, cpuVars
<1>3. OneCpuPerProcess'
  BY ProcAssumption, Places, <1>1
  DEF ProcInv, TypeOK, OneCpuPerProcess, SleepBlock, Runs, Goto, cpuVars
<1>4. InitStays'
  BY Places, <1>1
  DEF ProcInv, TypeOK, InitStays, Free, Alive, SleepBlock, Runs, Goto, cpuVars
<1>5. Tree'
  BY Places, <1>1
  DEF ProcInv, TypeOK, Tree, Free, Alive, SleepBlock, Runs, Goto, cpuVars
<1>6. Forks'
  BY Places, <1>1
  DEF ProcInv, TypeOK, Forks, ForkHasEmbryo, EmbryosDiffer, EmbryoHasFork,
      SleepBlock, Runs, Goto, cpuVars
<1>7. Threads'
  BY Places, <1>1
  DEF ProcInv, TypeOK, Threads, Free, SleepBlock, Runs, Goto, cpuVars
<1>8. Chans'
  BY Places, <1>1
  DEF ProcInv, TypeOK, Chans, SleepBlock, Runs, Goto, cpuVars
<1>9. TickLock'
  BY Places, <1>1
  DEF ProcInv, TypeOK, TickLock, SleepBlock, Runs, Goto, cpuVars
<1>10. ClockCpu'
  BY ProcAssumption, Places, <1>1
  DEF ProcInv, TypeOK, ClockCpu, SleepBlock, Runs, Goto, cpuVars
<1>11. NoMissedTick'
  BY Places, <1>1
  DEF ProcInv, TypeOK, NoMissedTick, SleepBlock, Runs, Goto, cpuVars, TickLock
<1>12. NoMissedChild'
  BY Places, <1>1
  DEF ProcInv, TypeOK, NoMissedChild, SleepBlock, Runs, Goto, cpuVars
<1> QED
  BY <1>2, <1>3, <1>4, <1>5, <1>6, <1>7, <1>8, <1>9, <1>10, <1>11,
      <1>12 DEF ProcInv

LEMMA SleepResumeStep ==
  ASSUME ProcInv, NEW c \in Cpus, NEW p \in Slots, SleepResume(c, p)
  PROVE  ProcInv'
<1>1. InitStays' /\ Tree'
  BY DEF ProcInv, InitStays, Tree,
    SleepResume, cpuVars
<1>2. TypeOK'
  BY ProcAssumption, Places
  DEF ProcInv, TypeOK, States, Points, SleepResume, Goto, cpuVars
<1>3. OneCpuPerProcess'
  BY ProcAssumption, Places
  DEF ProcInv, TypeOK, OneCpuPerProcess, SleepResume, Goto, cpuVars
<1>4. Forks'
  BY Places
  DEF ProcInv, TypeOK, Forks, ForkHasEmbryo, EmbryosDiffer, EmbryoHasFork,
      SleepResume, Goto, cpuVars
<1>5. Threads'
  BY Places
  DEF ProcInv, TypeOK, Threads, Free, SleepResume, Goto, cpuVars
<1>6. Chans'
  BY Places
  DEF ProcInv, TypeOK, Chans, SleepResume, Goto, cpuVars
<1>7. TickLock'
  BY Places
  DEF ProcInv, TypeOK, TickLock, SleepResume, Goto, cpuVars
<1>8. ClockCpu'
  BY ProcAssumption, Places
  DEF ProcInv, TypeOK, ClockCpu, SleepResume, Goto, cpuVars
<1>9. NoMissedTick'
  BY Places
  DEF ProcInv, TypeOK, NoMissedTick, SleepResume, Goto, cpuVars
<1>10. NoMissedChild'
  BY Places
  DEF ProcInv, TypeOK, NoMissedChild, SleepResume, Goto, cpuVars
<1> QED
  BY <1>1, <1>2, <1>3, <1>4, <1>5, <1>6, <1>7, <1>8, <1>9, <1>10 DEF ProcInv

LEMMA SleepReacquireStep ==
  ASSUME ProcInv, NEW c \in Cpus, NEW p \in Slots, SleepReacquire(c, p)
  PROVE  ProcInv'
<1>1. state[p] = "RUNNING"
  BY RunsRunning DEF ProcInv, SleepReacquire
<1>2. /\ OneCpuPerProcess' /\ InitStays' /\ Tree' /\ NoMissedTick'
      /\ NoMissedChild'
  BY DEF ProcInv, OneCpuPerProcess, InitStays, Tree, NoMissedTick,
      NoMissedChild,
    SleepReacquire, slotVars, cpuVars
<1>3. TypeOK'
  BY ProcAssumption, Places, <1>1
  DEF ProcInv, TypeOK, States, Points, SleepReacquire, Runs, Goto, slotVars,
      cpuVars
<1>4. Forks'
  BY Places, <1>1
  DEF ProcInv, TypeOK, Forks, ForkHasEmbryo, EmbryosDiffer, EmbryoHasFork,
      SleepReacquire, Runs, Goto, slotVars, cpuVars
<1>5. Threads'
  BY Places, <1>1
  DEF ProcInv, TypeOK, Threads, Free, SleepReacquire, Runs, Goto, slotVars,
      cpuVars
<1>6. Chans'
  BY Places, <1>1
  DEF ProcInv, TypeOK, Chans, SleepReacquire, Runs, Goto, slotVars, cpuVars
<1>7. TickLock'
  BY Places, <1>1
  DEF ProcInv, TypeOK, TickLock, SleepReacquire, Runs, Goto, slotVars, cpuVars
<1>8. ClockCpu'
  BY ProcAssumption, Places, <1>1
  DEF ProcInv, TypeOK, ClockCpu, SleepReacquire, Runs, Goto, slotVars, cpuVars,
      OneCpuPerProcess
<1> QED
  BY <1>2, <1>3, <1>4, <1>5, <1>6, <1>7, <1>8 DEF ProcInv

(* Nobody holds tickslock: no process is between its test and its sleep.   *)
LEMMA ClockTickStep ==
  ASSUME ProcInv, ClockTick
  PROVE  ProcInv'
<1>1. /\ OneCpuPerProcess' /\ InitStays' /\ Tree' /\ Forks'
      /\ Threads' /\ Chans' /\ NoMissedChild'
  BY DEF ProcInv, OneCpuPerProcess, InitStays, Tree, Forks, ForkHasEmbryo,
      EmbryosDiffer, EmbryoHasFork, Threads, Chans, NoMissedChild,
    ClockTick, slotVars
<1>2. TypeOK'
  BY ProcAssumption, Places
  DEF ProcInv, TypeOK, States, Points, ClockTick, slotVars, IntOn
<1>3. TickLock'
  BY Places
  DEF ProcInv, TypeOK, TickLock, ClockTick, slotVars, IntOn
<1>4. ClockCpu'
  BY ProcAssumption, Places
  DEF ProcInv, TypeOK, ClockCpu, ClockTick, slotVars, IntOn
<1>5. NoMissedTick'
  BY Places
  DEF ProcInv, TypeOK, NoMissedTick, ClockTick, slotVars, IntOn
<1> QED
  BY <1>1, <1>2, <1>3, <1>4, <1>5 DEF ProcInv

(* All sleepers on &ticks are woken, those whose time is over included.    *)
LEMMA ClockWakeupStep ==
  ASSUME ProcInv, ClockWakeup
  PROVE  ProcInv'
<1>1. /\ intr = "wake" /\ lock = NoCpu
      /\ state' = [s \in Slots |-> IF state[s] = "SLEEPING" /\ chan[s] = Ticks
                                    THEN "RUNNABLE" ELSE state[s]]
      /\ tlock' = None
      /\ intr' = IF cur[BootCpu] = None THEN "none" ELSE "yield"
      /\ UNCHANGED <<pid, parent, chan, killed, pc, ptr, left, nextpid, shell,
                     lock, cur, scan, panic>>
  BY DEF ClockWakeup, Woken, threadVars
<1>2. Chans'
  BY <1>1 DEF ProcInv, Chans
<1>3. TypeOK'
  BY ProcAssumption, Places, <1>1
  DEF ProcInv, TypeOK, States, Points
<1>4. OneCpuPerProcess'
  BY ProcAssumption, Places, <1>1
  DEF ProcInv, TypeOK, OneCpuPerProcess
<1>5. InitStays'
  BY Places, <1>1
  DEF ProcInv, TypeOK, InitStays, Free, Alive
<1>6. Tree'
  BY Places, <1>1
  DEF ProcInv, TypeOK, Tree, Free, Alive
<1>7. Forks'
  BY Places, <1>1
  DEF ProcInv, TypeOK, Forks, ForkHasEmbryo, EmbryosDiffer, EmbryoHasFork
<1>8. Threads'
  BY Places, <1>1
  DEF ProcInv, TypeOK, Threads, Free
<1>9. TickLock'
  BY Places, <1>1
  DEF ProcInv, TypeOK, TickLock
<1>10. ClockCpu'
  BY ProcAssumption, Places, <1>1
  DEF ProcInv, TypeOK, ClockCpu
<1>11. NoMissedTick'
  BY Places, <1>1
  DEF ProcInv, TypeOK, NoMissedTick
<1>12. NoMissedChild'
  BY Places, <1>1
  DEF ProcInv, TypeOK, NoMissedChild
<1> QED
  BY <1>2, <1>3, <1>4, <1>5, <1>6, <1>7, <1>8, <1>9, <1>10, <1>11,
      <1>12 DEF ProcInv

(* The clock interrupts no holder of tickslock.                            *)
LEMMA YieldStep ==
  ASSUME ProcInv, NEW c \in Cpus, NEW p \in Slots, Yield(c, p)
  PROVE  ProcInv'
<1>1. Chans'
  BY DEF ProcInv, Chans,
    Yield, threadVars
<1>2. TypeOK'
  BY ProcAssumption, Places
  DEF ProcInv, TypeOK, States, Points, Yield, threadVars
<1>3. OneCpuPerProcess'
  BY ProcAssumption, Places
  DEF ProcInv, TypeOK, OneCpuPerProcess, Yield, threadVars
<1>4. InitStays'
  BY Places
  DEF ProcInv, TypeOK, InitStays, Free, Alive, Yield, threadVars,
      OneCpuPerProcess
<1>5. Tree'
  BY Places
  DEF ProcInv, TypeOK, Tree, Free, Alive, Yield, threadVars, OneCpuPerProcess
<1>6. Forks'
  BY Places
  DEF ProcInv, TypeOK, Forks, ForkHasEmbryo, EmbryosDiffer, EmbryoHasFork,
      Yield, threadVars, OneCpuPerProcess
<1>7. Threads'
  BY Places
  DEF ProcInv, TypeOK, Threads, Free, Yield, threadVars, OneCpuPerProcess
<1>8. TickLock'
  BY Places
  DEF ProcInv, TypeOK, TickLock, Yield, threadVars, OneCpuPerProcess, ClockCpu
<1>9. ClockCpu'
  BY ProcAssumption, Places
  DEF ProcInv, TypeOK, ClockCpu, Yield, threadVars
<1>10. NoMissedTick'
  BY Places
  DEF ProcInv, TypeOK, NoMissedTick, Yield, threadVars
<1>11. NoMissedChild'
  BY Places
  DEF ProcInv, TypeOK, NoMissedChild, Yield, threadVars
<1> QED
  BY <1>1, <1>2, <1>3, <1>4, <1>5, <1>6, <1>7, <1>8, <1>9, <1>10,
      <1>11 DEF ProcInv

LEMMA SchedStep ==
  ASSUME ProcInv, NEW c \in Cpus, NEW p \in Slots, Sched(c, p)
  PROVE  ProcInv'
<1>1. /\ InitStays' /\ Tree' /\ Forks' /\ Threads'
      /\ Chans' /\ TickLock' /\ NoMissedTick' /\ NoMissedChild'
  BY DEF ProcInv, InitStays, Tree, Forks, ForkHasEmbryo, EmbryosDiffer,
      EmbryoHasFork, Threads, Chans, TickLock, NoMissedTick, NoMissedChild,
    Sched, slotVars, threadVars
<1>2. TypeOK'
  BY ProcAssumption, Places
  DEF ProcInv, TypeOK, States, Points, Sched, slotVars, threadVars
<1>3. OneCpuPerProcess'
  BY ProcAssumption, Places
  DEF ProcInv, TypeOK, OneCpuPerProcess, Sched, slotVars, threadVars
<1>4. ClockCpu'
  BY ProcAssumption, Places
  DEF ProcInv, TypeOK, ClockCpu, Sched, slotVars, threadVars
<1> QED
  BY <1>1, <1>2, <1>3, <1>4 DEF ProcInv

LEMMA SchedulerStartStep ==
  ASSUME ProcInv, NEW c \in Cpus, SchedulerStart(c)
  PROVE  ProcInv'
<1>1. /\ InitStays' /\ Tree' /\ Forks' /\ Threads'
      /\ Chans' /\ TickLock' /\ NoMissedTick' /\ NoMissedChild'
  BY DEF ProcInv, InitStays, Tree, Forks, ForkHasEmbryo, EmbryosDiffer,
      EmbryoHasFork, Threads, Chans, TickLock, NoMissedTick, NoMissedChild,
    SchedulerStart, slotVars, threadVars, cpuVars
<1>2. TypeOK'
  BY ProcAssumption, Places
  DEF ProcInv, TypeOK, States, Points, SchedulerStart, slotVars, threadVars,
      cpuVars, IntOn
<1>3. OneCpuPerProcess'
  BY ProcAssumption, Places
  DEF ProcInv, TypeOK, OneCpuPerProcess, SchedulerStart, slotVars, threadVars,
      cpuVars, IntOn
<1>4. ClockCpu'
  BY ProcAssumption, Places
  DEF ProcInv, TypeOK, ClockCpu, SchedulerStart, slotVars, threadVars, cpuVars,
      IntOn
<1> QED
  BY <1>1, <1>2, <1>3, <1>4 DEF ProcInv

(* A RUNNABLE process is on no CPU: one that still was would hold the      *)
(* lock.                                                                   *)
LEMMA SchedulerRunStep ==
  ASSUME ProcInv, NEW c \in Cpus, SchedulerRun(c)
  PROVE  ProcInv'
<1>1. PICK p \in Slots :
        /\ state[p] = "RUNNABLE" /\ cur[c] = None /\ lock = c
        /\ cur' = [cur EXCEPT ![c] = p]
        /\ state' = [state EXCEPT ![p] = "RUNNING"]
        /\ scan' = [scan EXCEPT ![c] = p + 1]
        /\ UNCHANGED <<pid, parent, chan, killed, pc, ptr, left, nextpid, shell,
                       lock, tlock, intr, panic>>
  <2>1. First(Ready(c)) \in Ready(c)
    BY FirstFound DEF SchedulerRun, Ready
  <2> QED
    BY <2>1 DEF SchedulerRun, Ready, threadVars
<1>2. p + 1 \in 1..(NPROC + 1)
  BY ProcAssumption DEF Slots
<1>3. Chans'
  BY <1>1 DEF ProcInv, Chans
<1>4. TypeOK'
  BY ProcAssumption, Places, <1>1, <1>2
  DEF ProcInv, TypeOK, States, Points
<1>5. OneCpuPerProcess'
  BY ProcAssumption, Places, <1>1, <1>2
  DEF ProcInv, TypeOK, OneCpuPerProcess
<1>6. InitStays'
  BY Places, <1>1, <1>2
  DEF ProcInv, TypeOK, InitStays, Free, Alive
<1>7. Tree'
  BY Places, <1>1, <1>2
  DEF ProcInv, TypeOK, Tree, Free, Alive
<1>8. Forks'
  BY Places, <1>1, <1>2
  DEF ProcInv, TypeOK, Forks, ForkHasEmbryo, EmbryosDiffer, EmbryoHasFork
<1>9. Threads'
  BY Places, <1>1, <1>2
  DEF ProcInv, TypeOK, Threads, Free
<1>10. TickLock'
  BY Places, <1>1, <1>2
  DEF ProcInv, TypeOK, TickLock
<1>11. ClockCpu'
  BY ProcAssumption, Places, <1>1, <1>2
  DEF ProcInv, TypeOK, ClockCpu
<1>12. NoMissedTick'
  BY Places, <1>1, <1>2
  DEF ProcInv, TypeOK, NoMissedTick
<1>13. NoMissedChild'
  BY Places, <1>1, <1>2
  DEF ProcInv, TypeOK, NoMissedChild
<1> QED
  BY <1>3, <1>4, <1>5, <1>6, <1>7, <1>8, <1>9, <1>10, <1>11, <1>12,
      <1>13 DEF ProcInv

LEMMA SchedulerEndStep ==
  ASSUME ProcInv, NEW c \in Cpus, SchedulerEnd(c)
  PROVE  ProcInv'
<1>1. /\ InitStays' /\ Tree' /\ Forks' /\ Threads'
      /\ Chans' /\ TickLock' /\ NoMissedTick' /\ NoMissedChild'
  BY DEF ProcInv, InitStays, Tree, Forks, ForkHasEmbryo, EmbryosDiffer,
      EmbryoHasFork, Threads, Chans, TickLock, NoMissedTick, NoMissedChild,
    SchedulerEnd, slotVars, threadVars
<1>2. TypeOK'
  BY ProcAssumption, Places
  DEF ProcInv, TypeOK, States, Points, SchedulerEnd, slotVars, threadVars
<1>3. OneCpuPerProcess'
  BY ProcAssumption, Places
  DEF ProcInv, TypeOK, OneCpuPerProcess, SchedulerEnd, slotVars, threadVars
<1>4. ClockCpu'
  BY ProcAssumption, Places
  DEF ProcInv, TypeOK, ClockCpu, SchedulerEnd, slotVars, threadVars
<1> QED
  BY <1>1, <1>2, <1>3, <1>4 DEF ProcInv

LEMMA ResumeStep ==
  ASSUME ProcInv, NEW c \in Cpus, NEW p \in Slots, Resume(c, p)
  PROVE  ProcInv'
<1>1. /\ InitStays' /\ Tree' /\ Forks' /\ Threads'
      /\ Chans' /\ TickLock' /\ NoMissedTick' /\ NoMissedChild'
  BY DEF ProcInv, InitStays, Tree, Forks, ForkHasEmbryo, EmbryosDiffer,
      EmbryoHasFork, Threads, Chans, TickLock, NoMissedTick, NoMissedChild,
    Resume, slotVars, threadVars, cpuVars
<1>2. TypeOK'
  BY ProcAssumption, Places
  DEF ProcInv, TypeOK, States, Points, Resume, slotVars, threadVars, cpuVars
<1>3. OneCpuPerProcess'
  BY ProcAssumption, Places
  DEF ProcInv, TypeOK, OneCpuPerProcess, Resume, slotVars, threadVars, cpuVars
<1>4. ClockCpu'
  BY ProcAssumption, Places
  DEF ProcInv, TypeOK, ClockCpu, Resume, slotVars, threadVars, cpuVars
<1> QED
  BY <1>1, <1>2, <1>3, <1>4 DEF ProcInv

----------------------------------------------------------------------------
(* The invariant and what follows from it *)

LEMMA ProcInit ==
  Init => ProcInv
<1> SUFFICES ASSUME Init PROVE ProcInv
  OBVIOUS
<1>1. TypeOK
  <2>1. 0 \in 0..MaxPid /\ 1 \in 0..MaxPid /\ 2 \in 2..(MaxPid + 1)
    BY ProcAssumption
  <2>2. 0 \in 0..MaxSleep /\ 1 \in 1..(NPROC + 1)
    BY ProcAssumption
  <2> QED
    BY <2>1, <2>2, Places DEF Init, TypeOK, States, Points
<1>2. OneCpuPerProcess /\ InitStays /\ Tree
  BY Places DEF Init, OneCpuPerProcess, InitStays, Tree, Free, Alive
<1>3. Forks /\ Threads /\ Chans /\ TickLock /\ ClockCpu
  BY Places DEF Init, Forks, ForkHasEmbryo, EmbryosDiffer, EmbryoHasFork, Threads,
                Free, Chans, TickLock, ClockCpu
<1>4. NoMissedTick /\ NoMissedChild
  BY DEF Init, NoMissedTick, NoMissedChild
<1> QED
  BY <1>1, <1>2, <1>3, <1>4 DEF ProcInv

(* The steps that are local to a process.                                  *)
LEMMA LocalSteps ==
  ASSUME ProcInv, NEW c \in Cpus, NEW p \in Slots,
         \/ TrapReturn(c, p)
         \/ Fault(c, p)
         \/ CallExit(c, p)
         \/ GetppidLoad(c, p)
         \/ GetppidRead(c, p)
         \/ /\ ForkAlloc(c, p)
            /\ {s \in Slots : state[s] = "UNUSED"} = {} \/ nextpid > MaxPid
         \/ \E target \in KillTargets :
              Kill(c, p, target) /\ \A s \in Slots : pid[s] # target
  PROVE  ProcInv'
<1> SUFFICES \E point : LocalStep(p, point)
  BY LocalStepKeepsInv
<1>1. TypeOK /\ OneCpuPerProcess
  BY DEF ProcInv
<1>2. ASSUME NEW point, Runs(c, p, point)
      PROVE  state[p] = "RUNNING"
  BY <1>1, <1>2, RunsRunning
<1>3. CASE TrapReturn(c, p)
  <2>1. LocalStep(p, IF killed[p] THEN "exit" ELSE "call")
    BY <1>2, <1>3 DEF TrapReturn, Runs, Goto, LocalStep, slotVars, cpuVars
  <2> QED
    BY <2>1
<1>4. CASE Fault(c, p)
  <2>1. LocalStep(p, "exit")
    BY <1>2, <1>4 DEF Fault, Runs, Goto, LocalStep, cpuVars
  <2> QED
    BY <2>1
<1>5. CASE CallExit(c, p)
  <2>1. LocalStep(p, "exit")
    BY <1>2, <1>5 DEF CallExit, Runs, Goto, LocalStep, slotVars, cpuVars
  <2> QED
    BY <2>1
<1>6. CASE GetppidLoad(c, p)
  <2>1. LocalStep(p, "getppid")
    BY <1>1, <1>2, <1>6
    DEF GetppidLoad, Runs, Goto, LocalStep, slotVars, cpuVars, TypeOK
  <2> QED
    BY <2>1
<1>7. CASE GetppidRead(c, p)
  <2>1. LocalStep(p, "ret")
    BY <1>2, <1>7 DEF GetppidRead, Runs, Goto, LocalStep, slotVars, cpuVars
  <2> QED
    BY <2>1
<1>8. CASE /\ ForkAlloc(c, p)
           /\ {s \in Slots : state[s] = "UNUSED"} = {} \/ nextpid > MaxPid
  <2>1. LocalStep(p, IF p = InitProc THEN "exit" ELSE "ret")
    BY <1>1, <1>2, <1>8, ProcAssumption
    DEF ForkAlloc, ForkFailed, Runs, Goto, LocalStep, cpuVars, TypeOK
  <2> QED
    BY <2>1
<1>9. CASE \E target \in KillTargets :
             Kill(c, p, target) /\ \A s \in Slots : pid[s] # target
  <2>1. LocalStep(p, "ret")
    BY <1>2, <1>9 DEF Kill, Runs, Goto, LocalStep, cpuVars
  <2> QED
    BY <2>1
<1> QED
  BY <1>3, <1>4, <1>5, <1>6, <1>7, <1>8, <1>9

(* The branches of sys_sleep(), allocproc(), kill() and wait() together.   *)
LEMMA BranchesStep ==
  ASSUME ProcInv, NEW c \in Cpus, NEW p \in Slots,
         \/ SleepTest(c, p)
         \/ ForkAlloc(c, p)
         \/ WaitScan(c, p)
         \/ \E target \in KillTargets : Kill(c, p, target)
  PROVE  ProcInv'
<1>1. CASE SleepTest(c, p)
  BY <1>1, SleepTestLeavesStep, SleepTestBlocksStep
<1>2. CASE ForkAlloc(c, p)
  <2>1. nextpid > MaxPid \/ nextpid <= MaxPid
    BY ProcAssumption DEF ProcInv, TypeOK
  <2> QED
    BY <1>2, <2>1, LocalSteps, ForkAllocSlotStep
<1>3. CASE WaitScan(c, p)
  BY <1>3, WaitReapsStep, WaitReturnsStep, WaitSleepsStep
<1>4. CASE \E target \in KillTargets : Kill(c, p, target)
  BY <1>4, LocalSteps, KillSlotStep
<1> QED
  BY <1>1, <1>2, <1>3, <1>4

LEMMA ProcNext ==
  ProcInv /\ [Next]_vars => ProcInv'
<1> SUFFICES ASSUME ProcInv, [Next]_vars PROVE ProcInv'
  OBVIOUS
<1>1. ASSUME NEW c \in Cpus, NEW p \in Slots, KernelStep(c, p)
      PROVE  ProcInv'
  BY <1>1, LocalSteps, ForkDoneStep, ExitStep, ExitInitStep, SleepBlockStep,
     SleepResumeStep, SleepReacquireStep, BranchesStep
  DEF KernelStep
<1>2. ASSUME NEW c \in Cpus, NEW p \in Slots, SystemCall(c, p)
      PROVE  ProcInv'
  BY <1>2, LocalSteps, SleepStartStep, BranchesStep
  DEF SystemCall
<1>3. ASSUME NEW c \in Cpus, NEW p \in Slots,
             ForkFail(c, p) \/ Yield(c, p) \/ Switch(c, p)
      PROVE  ProcInv'
  BY <1>3, ForkFailStep, YieldStep, SchedStep, ResumeStep DEF Switch
<1>4. ASSUME NEW c \in Cpus, Scheduler(c)
      PROVE  ProcInv'
  BY <1>4, SchedulerStartStep, SchedulerRunStep, SchedulerEndStep DEF Scheduler
<1>5. CASE ClockTick \/ ClockWakeup
  BY <1>5, ClockTickStep, ClockWakeupStep
<1>6. CASE UNCHANGED vars
  BY <1>6 DEF vars, ProcInv, TypeOK, OneCpuPerProcess, InitStays, Tree, Forks,
    ForkHasEmbryo, EmbryosDiffer, EmbryoHasFork, Threads, Chans, TickLock, ClockCpu,
    NoMissedTick, NoMissedChild
<1> QED
  BY <1>1, <1>2, <1>3, <1>4, <1>5, <1>6 DEF Next, Frozen

(* The inductive invariant of the process table and the schedulers.        *)
THEOREM ProcInvariant == Spec => []ProcInv
BY ProcInit, ProcNext, PTL DEF Spec

(* Every field keeps its type: the table scans, np and p->parent never     *)
(* lead outside ptable.proc.                                               *)
THEOREM ProcTypeCorrect == Spec => []TypeOK
<1>1. ProcInv => TypeOK
  BY DEF ProcInv
<1> QED
  BY <1>1, ProcInvariant, PTL

(* proc.c, scheduler() and sched(): with ptable.lock passed across         *)
(* swtch(), no process is ever on two CPUs, nor is one picked up or freed  *)
(* while a CPU is still on its kernel stack.                               *)
THEOREM OneCpuPerProcessAlways == Spec => []OneCpuPerProcess
<1>1. ProcInv => OneCpuPerProcess
  BY DEF ProcInv
<1> QED
  BY <1>1, ProcInvariant, PTL

(* proc.c, wait(), exit() and kill(): a sleeping parent has a child to     *)
(* wait for, and misses neither its death nor its own.                     *)
THEOREM NoChildIsMissed == Spec => []NoMissedChild
<1>1. ProcInv => NoMissedChild
  BY DEF ProcInv
<1> QED
  BY <1>1, ProcInvariant, PTL

(* proc.c, sleep() as sysproc.c, sys_sleep() uses it: no tick is lost      *)
(* between the loop test and the sleep.                                    *)
THEOREM NoTickIsMissed == Spec => []NoMissedTick
<1>1. ProcInv => NoMissedTick
  BY DEF ProcInv
<1> QED
  BY <1>1, ProcInvariant, PTL

(* proc.c, fork() and exit(): the processes form a tree under initproc and *)
(* every slot that is not free will be reaped, used or given back by       *)
(* exactly one process.                                                    *)
THEOREM ProcessesFormTree == Spec => []ProcessTree
<1>1. ProcInv => ProcessTree
  <2> SUFFICES ASSUME ProcInv PROVE ProcessTree
    OBVIOUS
  <2>1. ASSUME NEW s \in Slots, state[s] = "EMBRYO"
        PROVE  Cardinality({p \in Slots : pc[p] = "fork" /\ ptr[p] = s}) = 1
    <3>1. PICK p \in Slots : pc[p] = "fork" /\ ptr[p] = s
      BY <2>1 DEF ProcInv, Forks, EmbryoHasFork
    <3>2. {q \in Slots : pc[q] = "fork" /\ ptr[q] = s} = {p}
      BY <3>1 DEF ProcInv, Forks, EmbryosDiffer
    <3> QED
      BY <3>2, FS_Singleton
  <2> QED
    BY <2>1, Places DEF ProcInv, ProcessTree, Tree, TypeOK, States, Free, Alive
<1> QED
  BY <1>1, ProcInvariant, PTL

============================================================================
