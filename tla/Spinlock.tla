------------------------------ MODULE Spinlock ------------------------------
(***************************************************************************)
(* Spin locks (spinlock.c): acquire() and release() with the nesting of    *)
(* pushcli() and popcli(), on several CPUs whose interrupt handlers take   *)
(* the same locks as the code they interrupt.                              *)
(*                                                                         *)
(* Each of pushcli(), the xchg, the release of the lock and popcli() is a  *)
(* step; interrupts arrive in between whenever they are enabled.  Kernel   *)
(* code takes nested locks in increasing order, which is the rule its      *)
(* callers follow.  Left out are holding() with the panics that use it,    *)
(* the intena that sched() saves for a process, and the call stack         *)
(* recorded for debugging.                                                 *)
(***************************************************************************)
EXTENDS Integers, FiniteSets

CONSTANTS
  CPUs, NoCPU,
  NLocks             \* bound: the spin locks 1 to NLocks

Locks == 1..NLocks
Levels == {0, 1}     \* code running with interrupts enabled, and a handler

ASSUME SpinAssumption == NoCPU \notin CPUs /\ NLocks \in Nat

VARIABLES
  locked,     \* lk->locked and lk->cpu: the CPU that holds each lock
  ifl,        \* FL_IF of each CPU: interrupts are enabled
  ncli, intena,
  level,      \* what each CPU runs
  want,       \* the lock that acquire() spins for at each level, 0 if none
  taken,      \* the locks taken at each level
  unlocked    \* release() has still to call popcli()

spinVars == <<locked, ifl, ncli, intena, level, want, taken, unlocked>>

SpinInit ==
  /\ locked = [l \in Locks |-> NoCPU]
  /\ ifl = [c \in CPUs |-> TRUE]
  /\ ncli = [c \in CPUs |-> 0]
  /\ intena = [c \in CPUs |-> FALSE]
  /\ level = [c \in CPUs |-> 0]
  /\ want = [c \in CPUs |-> [v \in Levels |-> 0]]
  /\ taken = [c \in CPUs |-> [v \in Levels |-> {}]]
  /\ unlocked = [c \in CPUs |-> FALSE]

Busy(c) == want[c][level[c]] # 0 \/ unlocked[c]

(* Mutant: every pushcli() overwrites intena.                              *)
SavedAlways(c) == ifl[c]

(* pushcli(): only the outermost call remembers whether interrupts were on *)
Saved(c) == IF ncli[c] = 0 THEN ifl[c] ELSE intena[c]

(* acquire() enters: pushcli().                                            *)
Pushcli(c, l) ==
  /\ ~Busy(c) /\ \A m \in taken[c][level[c]] : m < l
  /\ intena' = [intena EXCEPT ![c] = Saved(c)]
  /\ ifl' = [ifl EXCEPT ![c] = FALSE]
  /\ ncli' = [ncli EXCEPT ![c] = @ + 1]
  /\ want' = [want EXCEPT ![c][level[c]] = l]
  /\ UNCHANGED <<locked, level, taken, unlocked>>

(* The xchg of acquire() finds the lock free.                              *)
Xchg(c) ==
  LET l == want[c][level[c]] IN
  /\ l # 0 /\ locked[l] = NoCPU
  /\ locked' = [locked EXCEPT ![l] = c]
  /\ want' = [want EXCEPT ![c][level[c]] = 0]
  /\ taken' = [taken EXCEPT ![c][level[c]] = @ \cup {l}]
  /\ UNCHANGED <<ifl, ncli, intena, level, unlocked>>

(* release() up to popcli().                                               *)
Unlock(c, l) ==
  /\ ~Busy(c) /\ l \in taken[c][level[c]]
  /\ locked' = [locked EXCEPT ![l] = NoCPU]
  /\ taken' = [taken EXCEPT ![c][level[c]] = @ \ {l}]
  /\ unlocked' = [unlocked EXCEPT ![c] = TRUE]
  /\ UNCHANGED <<ifl, ncli, intena, level, want>>

(* Mutant: interrupts come back with the first popcli().                   *)
PopcliAtOnce(c) ==
  /\ unlocked[c]
  /\ ncli' = [ncli EXCEPT ![c] = @ - 1]
  /\ ifl' = [ifl EXCEPT ![c] = intena[c]]
  /\ unlocked' = [unlocked EXCEPT ![c] = FALSE]
  /\ UNCHANGED <<locked, intena, level, want, taken>>

(* popcli(): the outermost call enables what the outermost pushcli() found *)
Popcli(c) ==
  /\ unlocked[c]
  /\ ncli' = [ncli EXCEPT ![c] = @ - 1]
  /\ ifl' = [ifl EXCEPT ![c] = ncli[c] = 1 /\ intena[c]]
  /\ unlocked' = [unlocked EXCEPT ![c] = FALSE]
  /\ UNCHANGED <<locked, intena, level, want, taken>>

(* An interrupt gate clears FL_IF, and iret restores it.                   *)
Interrupt(c) ==
  /\ ifl[c] /\ level[c] = 0
  /\ level' = [level EXCEPT ![c] = 1]
  /\ ifl' = [ifl EXCEPT ![c] = FALSE]
  /\ UNCHANGED <<locked, ncli, intena, want, taken, unlocked>>

Iret(c) ==
  /\ level[c] = 1 /\ ~Busy(c) /\ taken[c][1] = {}
  /\ level' = [level EXCEPT ![c] = 0]
  /\ ifl' = [ifl EXCEPT ![c] = TRUE]
  /\ UNCHANGED <<locked, ncli, intena, want, taken, unlocked>>

SpinNext ==
  \E c \in CPUs :
    \/ \E l \in Locks : Pushcli(c, l) \/ Unlock(c, l)
    \/ Xchg(c) \/ Popcli(c) \/ Interrupt(c) \/ Iret(c)

SpinSpec == SpinInit /\ [][SpinNext]_spinVars

------------------------------------------------------------------------------
(* A CPU never spins for a lock that it holds itself: no handler           *)
(* interrupts a critical section on its own CPU, however deeply they nest  *)
(* (the panic("acquire") of acquire() is never reached).                   *)
NoSelfDeadlock ==
  \A c \in CPUs, v \in Levels : want[c][v] # 0 => locked[want[c][v]] # c

(* ncli counts the locks a CPU holds or is about to take or drop, and once *)
(* it is 0 the interrupts of the code outside any handler are back on.     *)
InterruptsRestored ==
  \A c \in CPUs :
    /\ ncli[c] = Cardinality(taken[c][0]) + Cardinality(taken[c][1])
                 + (IF want[c][level[c]] # 0 THEN 1 ELSE 0)
                 + (IF unlocked[c] THEN 1 ELSE 0)
    /\ level[c] = 0 => (ifl[c] <=> ncli[c] = 0)
=============================================================================
