-------------------------------- MODULE Proc --------------------------------
(***************************************************************************)
(* Processes of xv6 (proc.c, with the callers in trap.c and sysproc.c):    *)
(* the process table, fork, exit, wait, kill, sleep and wakeup, and the    *)
(* per-CPU schedulers that pass ptable.lock across a context switch.       *)
(*                                                                         *)
(* A critical section under ptable.lock is one step, except that a process *)
(* which gives up its CPU keeps the lock until the scheduler of that CPU   *)
(* releases it, or until the process that runs next does; those steps are  *)
(* separate, with the lock explicit.  Everything done without the lock is  *)
(* a step of its own.                                                      *)
(***************************************************************************)
EXTENDS Integers, FiniteSets

CONSTANTS
  NPROC,        \* slots of the process table
  Cpus,         \* processors
  NoCpu,        \* holder of ptable.lock when it is free
  BootCpu,      \* the one with cpuid() = 0, which counts clock ticks
  MaxPid,       \* bound: past this pid allocproc() behaves as if full
  MaxSleep,     \* longest sys_sleep(), in ticks
  KillTargets,  \* pids that kill() is called with
  Calls         \* bound: what programs other than init do besides fork, wait

ASSUME ProcAssumption ==
  /\ NPROC \in Nat \ {0}
  /\ BootCpu \in Cpus /\ NoCpu \notin Cpus
  /\ MaxPid \in Nat \ {0}
  /\ MaxSleep \in Nat \ {0}
  /\ KillTargets \subseteq Nat
  /\ Calls \subseteq {"exit", "fault", "kill", "getppid", "sleep"}

Slots == 1..NPROC
InitProc == 1          \* initproc, the first slot allocproc() ever hands out
None == 0              \* a null pointer; also pid 0
Ticks == NPROC + 1     \* the address &ticks as a sleep channel
Handler == NPROC + 1   \* the clock handler, as holder of tickslock

VARIABLES
  state, pid, parent, chan, killed,   \* fields of struct proc, by slot
  pc,       \* where the kernel thread of the slot is
  ptr,      \* slot that fork() or getppid() holds a pointer to
  left,     \* sys_sleep(): ticks still to pass, n - (ticks - ticks0)
  nextpid,
  shell,    \* init.c: pid of the child it waits for, 0 before its fork()
  lock,     \* ptable.lock: the CPU that holds it
  tlock,    \* tickslock: the slot that holds it, or Handler
  cur,      \* c->proc of each CPU, None in the scheduler
  scan,     \* the scheduler's loop pointer p
  intr,     \* what the clock handler of the boot CPU still has to do
  panic

slotVars == <<state, pid, parent, chan, killed>>
threadVars == <<pc, ptr, left>>
cpuVars == <<cur, scan, intr>>
vars == <<state, pid, parent, chan, killed, pc, ptr, left, nextpid, shell,
          lock, tlock, cur, scan, intr, panic>>

States == {"UNUSED", "EMBRYO", "SLEEPING", "RUNNABLE", "RUNNING", "ZOMBIE"}

(* "call": past trap()'s check of killed, about to run a system call;      *)
(* "ret": on the way out of one, or in user space.                         *)
Points == {"call", "ret", "fork", "getppid", "waiting", "exit",
           "ticks", "ticksblock", "tickswait", "ticksacq"}

TypeOK ==
  /\ state \in [Slots -> States]
  /\ pid \in [Slots -> 0..MaxPid]
  /\ parent \in [Slots -> Slots \cup {None}]
  /\ chan \in [Slots -> Slots \cup {None, Ticks}]
  /\ killed \in [Slots -> BOOLEAN]
  /\ pc \in [Slots -> Points]
  /\ ptr \in [Slots -> Slots \cup {None}]
  /\ left \in [Slots -> 0..MaxSleep]
  /\ nextpid \in 2..(MaxPid + 1)
  /\ shell \in 0..MaxPid
  /\ lock \in Cpus \cup {NoCpu}
  /\ tlock \in Slots \cup {None, Handler}
  /\ cur \in [Cpus -> Slots \cup {None}]
  /\ scan \in [Cpus -> 1..(NPROC + 1)]
  /\ intr \in {"none", "wake", "yield"}
  /\ panic \in BOOLEAN

(* After userinit(): initproc is ready to run and no CPU has looked yet.   *)
Init ==
  /\ state = [s \in Slots |-> IF s = InitProc THEN "RUNNABLE" ELSE "UNUSED"]
  /\ pid = [s \in Slots |-> IF s = InitProc THEN 1 ELSE 0]
  /\ parent = [s \in Slots |-> None]
  /\ chan = [s \in Slots |-> None]
  /\ killed = [s \in Slots |-> FALSE]
  /\ pc = [s \in Slots |-> "ret"]
  /\ ptr = [s \in Slots |-> None]
  /\ left = [s \in Slots |-> 0]
  /\ nextpid = 2
  /\ shell = 0
  /\ lock = NoCpu /\ tlock = None
  /\ cur = [c \in Cpus |-> None]
  /\ scan = [c \in Cpus |-> 1]
  /\ intr = "none"
  /\ panic = FALSE

First(S) == CHOOSE s \in S : \A t \in S : s <= t

(* The process on CPU c executes its own code: it is not giving the CPU up *)
(* nor just being resumed, and no clock interrupt is being served there.   *)
Runs(c, p, point) ==
  /\ ~panic
  /\ cur[c] = p /\ p # None
  /\ lock # c
  /\ c = BootCpu => intr = "none"
  /\ pc[p] = point

Goto(p, point) == pc' = [pc EXCEPT ![p] = point]

(* wakeup1(): sleepers on channel ch become runnable.                      *)
Woken(st, ch) ==
  [s \in Slots |-> IF st[s] = "SLEEPING" /\ chan[s] = ch THEN "RUNNABLE"
                                                         ELSE st[s]]

----------------------------------------------------------------------------
(* trap(): the checks of p->killed around user space *)

TrapReturn(c, p) ==
  /\ Runs(c, p, "ret")
  /\ Goto(p, IF killed[p] THEN "exit" ELSE "call")
  /\ UNCHANGED <<slotVars, ptr, left, nextpid, shell, lock, tlock, cpuVars, panic>>

(* trap(), default case: a process that faults is killed and exits.        *)
Fault(c, p) ==
  /\ Runs(c, p, "ret")
  /\ killed' = [killed EXCEPT ![p] = TRUE]
  /\ Goto(p, "exit")
  /\ UNCHANGED <<state, pid, parent, chan, ptr, left, nextpid, shell, lock,
                 tlock, cpuVars, panic>>

(* sys_exit().                                                             *)
CallExit(c, p) ==
  /\ Runs(c, p, "call")
  /\ Goto(p, "exit")
  /\ UNCHANGED <<slotVars, ptr, left, nextpid, shell, lock, tlock, cpuVars, panic>>

----------------------------------------------------------------------------
(* fork() *)

(* init.c exits when its fork() fails; any other program may go on.        *)
ForkFailed(p) == Goto(p, IF p = InitProc THEN "exit" ELSE "ret")

(* Mutant: a full table is not noticed; the pointer runs past its end.     *)
ForkAllocPastEnd(c, p) ==
  /\ Runs(c, p, "call")
  /\ lock = NoCpu
  /\ p = InitProc => shell = 0
  /\ nextpid <= MaxPid
  /\ LET unused == {s \in Slots : state[s] = "UNUSED"}
         np == IF unused = {} THEN NPROC + 1 ELSE First(unused)
     IN /\ state' = [state EXCEPT ![np] = "EMBRYO"]
        /\ pid' = [pid EXCEPT ![np] = nextpid]
        /\ ptr' = [ptr EXCEPT ![p] = np]
  /\ nextpid' = nextpid + 1
  /\ Goto(p, "fork")
  /\ UNCHANGED <<parent, chan, killed, left, shell, lock, tlock, cpuVars, panic>>

(* allocproc() up to release(): the first UNUSED slot, or failure.         *)
ForkAlloc(c, p) ==
  /\ Runs(c, p, "call")
  /\ lock = NoCpu
  /\ p = InitProc => shell = 0
  /\ LET unused == {s \in Slots : state[s] = "UNUSED"} IN
       \/ /\ unused = {} \/ nextpid > MaxPid
          /\ ForkFailed(p)
          /\ UNCHANGED <<state, pid, ptr, nextpid>>
       \/ /\ unused # {} /\ nextpid <= MaxPid
          /\ LET np == First(unused) IN
               /\ state' = [state EXCEPT ![np] = "EMBRYO"]
               /\ pid' = [pid EXCEPT ![np] = nextpid]
               /\ ptr' = [ptr EXCEPT ![p] = np]
          /\ nextpid' = nextpid + 1
          /\ Goto(p, "fork")
  /\ UNCHANGED <<parent, chan, killed, left, shell, lock, tlock, cpuVars, panic>>

(* kalloc() or copyuvm() fails: the slot is given back without the lock,   *)
(* its pid field left as it is.                                            *)
ForkFail(c, p) ==
  /\ Runs(c, p, "fork")
  /\ state' = [state EXCEPT ![ptr[p]] = "UNUSED"]
  /\ ptr' = [ptr EXCEPT ![p] = None]
  /\ ForkFailed(p)
  /\ UNCHANGED <<pid, parent, chan, killed, left, nextpid, shell, lock, tlock,
                 cpuVars, panic>>

(* The child is filled in and made RUNNABLE; it starts in forkret().  Its  *)
(* parent field is set before the lock is taken, but until the child is    *)
(* RUNNABLE only wait() and exit() of this very process look for it.       *)
ForkDone(c, p) ==
  /\ Runs(c, p, "fork")
  /\ lock = NoCpu
  /\ parent' = [parent EXCEPT ![ptr[p]] = p]
  /\ state' = [state EXCEPT ![ptr[p]] = "RUNNABLE"]
  /\ ptr' = [ptr EXCEPT ![p] = None]
  /\ pc' = [pc EXCEPT ![p] = "ret", ![ptr[p]] = "ret"]
  /\ shell' = IF p = InitProc THEN pid[ptr[p]] ELSE shell
  /\ UNCHANGED <<pid, chan, killed, left, nextpid, lock, tlock, cpuVars, panic>>

----------------------------------------------------------------------------
(* exit(), wait(), kill(), getppid() *)

(* Mutant: exit() does not hand its children to init.                      *)
ExitKeepsChildren(c, p) ==
  /\ Runs(c, p, "exit")
  /\ p # InitProc
  /\ lock = NoCpu
  /\ lock' = c
  /\ state' = [Woken(state, parent[p]) EXCEPT ![p] = "ZOMBIE"]
  /\ UNCHANGED <<pid, parent, chan, killed, threadVars, nextpid, shell, tlock, cpuVars, panic>>

(* Mutant: the lock is released before the switch to the scheduler.        *)
ExitUnlocks(c, p) ==
  /\ Runs(c, p, "exit")
  /\ p # InitProc
  /\ lock = NoCpu
  /\ LET orphans == {s \in Slots : parent[s] = p} IN
       /\ parent' = [s \in Slots |-> IF s \in orphans THEN InitProc ELSE parent[s]]
       /\ state' = [Woken(state, parent[p]) EXCEPT ![p] = "ZOMBIE"]
  /\ UNCHANGED <<pid, chan, killed, threadVars, nextpid, shell, lock, tlock,
                 cpuVars, panic>>

(* Mutant: init is not woken for children that are dead already.           *)
ExitForgetsZombies(c, p) ==
  /\ Runs(c, p, "exit")
  /\ p # InitProc
  /\ lock = NoCpu
  /\ lock' = c
  /\ LET orphans == {s \in Slots : parent[s] = p} IN
       /\ parent' = [s \in Slots |-> IF s \in orphans THEN InitProc ELSE parent[s]]
       /\ state' = [Woken(state, parent[p]) EXCEPT ![p] = "ZOMBIE"]
  /\ UNCHANGED <<pid, chan, killed, threadVars, nextpid, shell, tlock, cpuVars,
                 panic>>

(* Mutant: the parent is not woken.                                        *)
ExitSilently(c, p) ==
  /\ Runs(c, p, "exit")
  /\ p # InitProc
  /\ lock = NoCpu
  /\ lock' = c
  /\ parent' = [s \in Slots |-> IF parent[s] = p THEN InitProc ELSE parent[s]]
  /\ state' = [state EXCEPT ![p] = "ZOMBIE"]
  /\ UNCHANGED <<pid, chan, killed, threadVars, nextpid, shell, tlock, cpuVars,
                 panic>>

(* exit() once files and directory are closed: wake the parent, give the   *)
(* children to init (waking it for the dead ones), become a ZOMBIE.  The   *)
(* lock stays held until the scheduler has left this kernel stack.         *)
Exit(c, p) ==
  /\ Runs(c, p, "exit")
  /\ p # InitProc
  /\ lock = NoCpu
  /\ lock' = c
  /\ LET orphans == {s \in Slots : parent[s] = p}
         woken == Woken(state, parent[p])
     IN /\ parent' = [s \in Slots |-> IF s \in orphans THEN InitProc ELSE parent[s]]
        /\ state' = [(IF \E s \in orphans : state[s] = "ZOMBIE"
                      THEN Woken(woken, InitProc) ELSE woken)
                     EXCEPT ![p] = "ZOMBIE"]
  /\ UNCHANGED <<pid, chan, killed, threadVars, nextpid, shell, tlock, cpuVars, panic>>

ExitInit(c, p) ==
  /\ Runs(c, p, "exit")
  /\ p = InitProc
  /\ panic' = TRUE      \* panic("init exiting")
  /\ UNCHANGED <<slotVars, threadVars, nextpid, shell, lock, tlock, cpuVars>>

(* One pass of wait()'s loop over the table, with the lock just acquired   *)
(* or handed over by the scheduler after a sleep.                          *)
WaitScan(c, p) ==
  /\ \/ Runs(c, p, "call") /\ lock = NoCpu /\ (p = InitProc => shell # 0)
     \/ ~panic /\ cur[c] = p /\ p # None /\ lock = c
          /\ state[p] = "RUNNING" /\ pc[p] = "waiting"
  /\ LET kids == {s \in Slots : parent[s] = p}
         dead == {s \in kids : state[s] = "ZOMBIE"}
         z == First(dead)
     IN \/ /\ dead # {}
           /\ pid' = [pid EXCEPT ![z] = 0]
           /\ parent' = [parent EXCEPT ![z] = None]
           /\ killed' = [killed EXCEPT ![z] = FALSE]
           /\ state' = [state EXCEPT ![z] = "UNUSED"]
           /\ chan' = [chan EXCEPT ![p] = None]
           /\ shell' = IF p = InitProc /\ pid[z] = shell THEN 0 ELSE shell
           /\ lock' = NoCpu
           /\ Goto(p, "ret")
        \/ /\ dead = {} /\ (kids = {} \/ killed[p])
           /\ chan' = [chan EXCEPT ![p] = None]
           /\ shell' = IF p = InitProc THEN 0 ELSE shell
           /\ lock' = NoCpu
           /\ Goto(p, "ret")
           /\ UNCHANGED <<pid, parent, killed, state>>
        \/ /\ dead = {} /\ kids # {} /\ ~killed[p]
           /\ chan' = [chan EXCEPT ![p] = p]
           /\ state' = [state EXCEPT ![p] = "SLEEPING"]
           /\ lock' = c
           /\ Goto(p, "waiting")
           /\ UNCHANGED <<pid, parent, killed, shell>>
  /\ UNCHANGED <<ptr, left, nextpid, tlock, cpuVars, panic>>

(* Mutant: a sleeping process is marked but not woken.                     *)
KillNoWakeup(c, p, target) ==
  /\ Runs(c, p, "call")
  /\ lock = NoCpu
  /\ killed' = [s \in Slots |-> killed[s] \/ pid[s] = target]
  /\ Goto(p, "ret")
  /\ UNCHANGED <<state, pid, parent, chan, ptr, left, nextpid, shell, lock,
                 tlock, cpuVars, panic>>

(* kill(): the first slot whose pid field matches, whatever its state.     *)
Kill(c, p, target) ==
  /\ Runs(c, p, "call")
  /\ lock = NoCpu
  /\ LET match == {s \in Slots : pid[s] = target}
         s == First(match)
     IN IF match = {}
        THEN UNCHANGED <<state, killed>>
        ELSE /\ killed' = [killed EXCEPT ![s] = TRUE]
             /\ state' = IF state[s] = "SLEEPING"
                         THEN [state EXCEPT ![s] = "RUNNABLE"] ELSE state
  /\ Goto(p, "ret")
  /\ UNCHANGED <<pid, parent, chan, ptr, left, nextpid, shell, lock, tlock, cpuVars, panic>>

(* sys_getppid(): myproc()->parent is loaded, then its pid; no lock.       *)
GetppidLoad(c, p) ==
  /\ Runs(c, p, "call")
  /\ ptr' = [ptr EXCEPT ![p] = parent[p]]
  /\ Goto(p, "getppid")
  /\ UNCHANGED <<slotVars, left, nextpid, shell, lock, tlock, cpuVars, panic>>

GetppidRead(c, p) ==
  /\ Runs(c, p, "getppid")
  /\ ptr' = [ptr EXCEPT ![p] = None]
  /\ Goto(p, "ret")
  /\ UNCHANGED <<slotVars, left, nextpid, shell, lock, tlock, cpuVars, panic>>

----------------------------------------------------------------------------
(* sys_sleep(): sleep() on a channel with a lock other than ptable.lock *)

SleepStart(c, p, n) ==
  /\ Runs(c, p, "call")
  /\ tlock = None
  /\ tlock' = p
  /\ left' = [left EXCEPT ![p] = n]
  /\ Goto(p, "ticks")
  /\ UNCHANGED <<slotVars, ptr, nextpid, shell, lock, cpuVars, panic>>

(* Mutant: tickslock is released before ptable.lock is taken.              *)
SleepTestUnlocks(c, p) ==
  /\ Runs(c, p, "ticks")
  /\ tlock' = None
  /\ IF left[p] = 0 \/ killed[p]
     THEN left' = [left EXCEPT ![p] = 0] /\ Goto(p, "ret")
     ELSE UNCHANGED left /\ Goto(p, "ticksblock")
  /\ UNCHANGED <<slotVars, ptr, nextpid, shell, lock, cpuVars, panic>>

(* The loop condition and the check of killed, holding tickslock only.     *)
SleepTest(c, p) ==
  /\ Runs(c, p, "ticks")
  /\ IF left[p] = 0 \/ killed[p]
     THEN tlock' = None /\ left' = [left EXCEPT ![p] = 0] /\ Goto(p, "ret")
     ELSE UNCHANGED <<tlock, left>> /\ Goto(p, "ticksblock")
  /\ UNCHANGED <<slotVars, ptr, nextpid, shell, lock, cpuVars, panic>>

(* sleep(): ptable.lock is taken before tickslock is released.             *)
SleepBlock(c, p) ==
  /\ Runs(c, p, "ticksblock")
  /\ lock = NoCpu
  /\ lock' = c
  /\ tlock' = None
  /\ chan' = [chan EXCEPT ![p] = Ticks]
  /\ state' = [state EXCEPT ![p] = "SLEEPING"]
  /\ Goto(p, "tickswait")
  /\ UNCHANGED <<pid, parent, killed, ptr, left, nextpid, shell, cpuVars, panic>>

(* The end of sleep(): tidy up, release ptable.lock, reacquire tickslock.  *)
SleepResume(c, p) ==
  /\ ~panic
  /\ cur[c] = p /\ p # None /\ lock = c
  /\ state[p] = "RUNNING" /\ pc[p] = "tickswait"
  /\ chan' = [chan EXCEPT ![p] = None]
  /\ lock' = NoCpu
  /\ Goto(p, "ticksacq")
  /\ UNCHANGED <<state, pid, parent, killed, ptr, left, nextpid, shell, tlock,
                 cpuVars, panic>>

SleepReacquire(c, p) ==
  /\ Runs(c, p, "ticksacq")
  /\ tlock = None
  /\ tlock' = p
  /\ Goto(p, "ticks")
  /\ UNCHANGED <<slotVars, ptr, left, nextpid, shell, lock, cpuVars, panic>>

----------------------------------------------------------------------------
(* Clock interrupts and the scheduler *)

(* Interrupts are on: the CPU holds no spinlock (pushcli/popcli).          *)
IntOn(c) ==
  /\ ~panic
  /\ lock # c
  /\ cur[c] # None => tlock # cur[c]
  /\ c = BootCpu => intr = "none"

(* trap(), IRQ_TIMER on the boot CPU: ticks++ under tickslock, then        *)
(* wakeup(&ticks) before it is released.                                   *)
ClockTick ==
  /\ IntOn(BootCpu)
  /\ tlock = None
  /\ tlock' = Handler
  /\ left' = [s \in Slots |-> IF left[s] > 0 THEN left[s] - 1 ELSE 0]
  /\ intr' = "wake"
  /\ UNCHANGED <<slotVars, pc, ptr, nextpid, shell, lock, cur, scan, panic>>

ClockWakeup ==
  /\ ~panic
  /\ intr = "wake"
  /\ lock = NoCpu
  /\ state' = Woken(state, Ticks)
  /\ tlock' = None
  /\ intr' = IF cur[BootCpu] = None THEN "none" ELSE "yield"
  /\ UNCHANGED <<pid, parent, chan, killed, threadVars, nextpid, shell, lock, cur,
                 scan, panic>>

(* yield() at the end of the clock interrupt.                              *)
Yield(c, p) ==
  /\ ~panic
  /\ cur[c] = p /\ p # None
  /\ lock = NoCpu
  /\ IF c = BootCpu THEN intr = "yield" ELSE tlock # p
  /\ intr' = IF c = BootCpu THEN "none" ELSE intr
  /\ lock' = c
  /\ state' = [state EXCEPT ![p] = "RUNNABLE"]
  /\ UNCHANGED <<pid, parent, chan, killed, threadVars, nextpid, shell, tlock, cur,
                 scan, panic>>

(* sched(): swtch() to the scheduler of this CPU, ptable.lock held.        *)
Sched(c, p) ==
  /\ ~panic
  /\ cur[c] = p /\ p # None
  /\ lock = c /\ state[p] # "RUNNING"
  /\ cur' = [cur EXCEPT ![c] = None]
  /\ UNCHANGED <<slotVars, threadVars, nextpid, shell, lock, tlock, scan, intr, panic>>

(* scheduler(): take the lock, run every RUNNABLE process found on the way *)
(* through the table, release the lock.                                    *)
SchedulerStart(c) ==
  /\ IntOn(c)
  /\ cur[c] = None /\ lock = NoCpu
  /\ lock' = c
  /\ UNCHANGED <<slotVars, threadVars, nextpid, shell, tlock, cpuVars, panic>>

Ready(c) == {s \in Slots : s >= scan[c] /\ state[s] = "RUNNABLE"}

SchedulerRun(c) ==
  /\ ~panic
  /\ cur[c] = None /\ lock = c /\ Ready(c) # {}
  /\ LET p == First(Ready(c)) IN
       /\ cur' = [cur EXCEPT ![c] = p]
       /\ state' = [state EXCEPT ![p] = "RUNNING"]
       /\ scan' = [scan EXCEPT ![c] = p + 1]
  /\ UNCHANGED <<pid, parent, chan, killed, threadVars, nextpid, shell, lock, tlock,
                 intr, panic>>

SchedulerEnd(c) ==
  /\ ~panic
  /\ cur[c] = None /\ lock = c /\ Ready(c) = {}
  /\ lock' = NoCpu
  /\ scan' = [scan EXCEPT ![c] = 1]     \* the loop pointer starts afresh
  /\ UNCHANGED <<slotVars, threadVars, nextpid, shell, tlock, cur, intr, panic>>

(* Back from swtch() in yield(), or for the first time in forkret(): the   *)
(* process releases the lock its scheduler acquired.                       *)
Resume(c, p) ==
  /\ ~panic
  /\ cur[c] = p /\ p # None /\ lock = c
  /\ state[p] = "RUNNING" /\ pc[p] \notin {"waiting", "tickswait"}
  /\ lock' = NoCpu
  /\ UNCHANGED <<slotVars, threadVars, nextpid, shell, tlock, cpuVars, panic>>

(* panic() spins for ever and freezes the other CPUs.                      *)
Frozen == panic /\ UNCHANGED vars

----------------------------------------------------------------------------
KernelStep(c, p) ==
  \/ TrapReturn(c, p) \/ ForkDone(c, p) \/ Exit(c, p) \/ ExitInit(c, p)
  \/ pc[p] = "waiting" /\ WaitScan(c, p)
  \/ GetppidRead(c, p)
  \/ SleepTest(c, p) \/ SleepBlock(c, p)
  \/ SleepResume(c, p) \/ SleepReacquire(c, p)

Switch(c, p) == Sched(c, p) \/ Resume(c, p)

(* init.c only alternates fork() and wait(); other programs are arbitrary. *)
SystemCall(c, p) ==
  \/ ForkAlloc(c, p)
  \/ pc[p] = "call" /\ WaitScan(c, p)
  \/ /\ p # InitProc
     /\ \/ "exit" \in Calls /\ CallExit(c, p)
        \/ "fault" \in Calls /\ Fault(c, p)
        \/ "kill" \in Calls /\ \E target \in KillTargets : Kill(c, p, target)
        \/ "getppid" \in Calls /\ GetppidLoad(c, p)
        \/ "sleep" \in Calls /\ \E n \in 0..MaxSleep : SleepStart(c, p, n)

Scheduler(c) == SchedulerStart(c) \/ SchedulerRun(c) \/ SchedulerEnd(c)

Next ==
  \/ \E c \in Cpus, p \in Slots :
        \/ KernelStep(c, p) \/ SystemCall(c, p) \/ ForkFail(c, p)
        \/ Yield(c, p) \/ Switch(c, p)
  \/ \E c \in Cpus : Scheduler(c)
  \/ ClockTick \/ ClockWakeup
  \/ Frozen

Spec == Init /\ [][Next]_vars

(* Spinlocks are eventually acquired, CPUs keep executing, the clock of    *)
(* every CPU keeps interrupting but leaves a process time for some step, a *)
(* process that has entered a system call goes on with it.                 *)
Fairness ==
  /\ \A p \in Slots :
        SF_vars(\E c \in Cpus : KernelStep(c, p) \/ SystemCall(c, p))
  /\ \A c \in Cpus : /\ WF_vars(\E p \in Slots : Switch(c, p))
                     /\ SF_vars(Scheduler(c))
                     /\ SF_vars(\E p \in Slots : Yield(c, p))
  /\ SF_vars(ClockTick) /\ SF_vars(ClockWakeup)

FairSpec == Spec /\ Fairness

----------------------------------------------------------------------------
(* Properties *)

(* A process runs on at most one CPU, RUNNING means being on one, and a    *)
(* CPU that is still on the kernel stack of a process that is no longer    *)
(* RUNNING holds ptable.lock: so wait() never frees a stack in use and no  *)
(* scheduler picks up a process before it has left its CPU.                *)
OneCpuPerProcess ==
  /\ \A c, d \in Cpus : cur[c] # None /\ cur[c] = cur[d] => c = d
  /\ \A c \in Cpus : cur[c] # None =>
       \/ state[cur[c]] = "RUNNING"
       \/ lock = c /\ state[cur[c]] \in {"RUNNABLE", "SLEEPING", "ZOMBIE"}
  /\ \A s \in Slots : state[s] = "RUNNING" => \E c \in Cpus : cur[c] = s

(* A process asleep in wait() still has a child, none of its children is   *)
(* dead, and nobody has killed it: neither exit() nor kill() can slip      *)
(* between wait()'s scan and its sleep().                                  *)
NoMissedChild ==
  \A p \in Slots : state[p] = "SLEEPING" /\ chan[p] = p =>
     /\ \E s \in Slots : parent[s] = p
     /\ \A s \in Slots : parent[s] = p => state[s] # "ZOMBIE"
     /\ ~killed[p]

(* A process asleep in sys_sleep() whose time is over is about to be woken *)
(* by the clock handler: sleep() takes ptable.lock before it gives up the  *)
(* lock that protects the condition.                                       *)
NoMissedTick ==
  \A p \in Slots : state[p] = "SLEEPING" /\ chan[p] = Ticks /\ left[p] = 0 =>
     intr = "wake"

(* Every process but the first has a parent that can still wait for it, an *)
(* EMBRYO belongs to exactly one fork() in progress, and a free slot is    *)
(* nobody's child: exit() and a failing fork() leak no slot.               *)
ProcessTree ==
  /\ \A s \in Slots : state[s] \notin {"UNUSED", "EMBRYO"} /\ s # InitProc =>
       parent[s] # None /\ state[parent[s]] \notin {"UNUSED", "EMBRYO", "ZOMBIE"}
  /\ \A s \in Slots : state[s] = "EMBRYO" =>
       Cardinality({p \in Slots : pc[p] = "fork" /\ ptr[p] = s}) = 1
  /\ \A s \in Slots : state[s] \in {"UNUSED", "EMBRYO"} => parent[s] = None

(* kill() takes effect: a process that is killed while it is runnable,     *)
(* waits for a child or sleeps in sys_sleep() exits in the end.  The run   *)
(* has one CPU, on which sys_sleep() goes from its test of killed to sleep *)
(* with interrupts off; a kill() from another CPU in between, which only   *)
(* the next tick makes good, is not among its behaviours.                  *)
KilledExits ==
  \A p \in Slots \ {InitProc} :
    (killed[p] /\ state[p] \notin {"UNUSED", "EMBRYO"})
       ~> (state[p] \in {"ZOMBIE", "UNUSED"} \/ panic)

(* An orphan's slot comes back: exit() hands it to init and wakes it.      *)
OrphansReaped ==
  \A p \in Slots \ {InitProc} :
    (state[p] = "ZOMBIE" /\ parent[p] = InitProc) ~> (state[p] = "UNUSED" \/ panic)

(* "Kill the process with the given pid": a slot without a process carries *)
(* no kill mark that the next process in it would inherit.                 *)
UnusedNotKilled == \A s \in Slots : state[s] = "UNUSED" => ~killed[s]

(* getppid() "para obtener el PID del proceso padre": the slot whose pid   *)
(* it is about to read still holds a process.                              *)
GetppidParentExists ==
  \A p \in Slots : pc[p] = "getppid" => state[ptr[p]] \notin {"UNUSED", "EMBRYO"}

============================================================================
