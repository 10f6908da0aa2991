----------------------------- MODULE WordStack -----------------------------
(***************************************************************************)
(* wordstack.c (lab-05): a stack of words in shared memory.  Every command *)
(* is a process of its own; -w and -r wait for a semaphore, then lock the  *)
(* mutex.  -r computes the row it will take before it waits.               *)
(*                                                                         *)
(* The mutex is initialised without PTHREAD_PROCESS_SHARED: a process that *)
(* finds it locked sleeps on a futex private to it, which the unlock of    *)
(* another process does not wake.                                          *)
(*                                                                         *)
(* Environment: -c and -d are run while no other command is under way.     *)
(* Words are shorter than MAX_WORD: the loop of -w has no such bound, and  *)
(* what a longer word does to the rows behind its own is not modelled.     *)
(***************************************************************************)
EXTENDS Integers, FiniteSets

CONSTANTS
  StackProcs,      \* processes that may run a command at once
  NoProc,          \* nobody holds the mutex
  Words,
  ITEMS            \* rows of the heap

ASSUME WordStackAssumption ==
  /\ NoProc \notin StackProcs /\ IsFiniteSet(StackProcs)
  /\ ITEMS \in Nat \ {0} /\ Words \cap {"blank", "mixed"} = {}

VARIABLES
  exists,          \* the shared segment is there
  free, items,
  semFull, semEmpty,   \* values of the semaphores full and empty
  mutex,
  heap,            \* a word, "blank", or "mixed": a shorter word over another
  cmd              \* each process: pc, and the row or the word it handles

stackVars == <<exists, free, items, semFull, semEmpty, mutex, heap, cmd>>

NoCmd == [pc |-> "idle", arg |-> 0]
Rows == 0..(ITEMS - 1)
AtPc(S) == {p \in StackProcs : cmd[p].pc \in S}

StackInit ==
  /\ exists = FALSE
  /\ free = 0 /\ items = 0 /\ semFull = 0 /\ semEmpty = 0
  /\ mutex = NoProc
  /\ heap = [r \in Rows |-> "blank"]
  /\ cmd = [p \in StackProcs |-> NoCmd]

(* -c, of a new segment or of one that is there: it is reset, all but the  *)
(* words in its heap.                                                      *)
StackCreate ==
  /\ AtPc({"idle"}) = StackProcs
  /\ exists' = TRUE
  /\ free' = 0 /\ items' = 0 /\ semFull' = 0 /\ semEmpty' = ITEMS
  /\ mutex' = NoProc
  /\ UNCHANGED <<heap, cmd>>

(* -d: the next -c makes a segment of zeroes.                              *)
StackDestroy ==
  /\ exists /\ AtPc({"idle"}) = StackProcs
  /\ exists' = FALSE
  /\ free' = 0 /\ items' = 0 /\ semFull' = 0 /\ semEmpty' = 0
  /\ heap' = [r \in Rows |-> "blank"]
  /\ UNCHANGED <<mutex, cmd>>

PushStart(p) ==
  /\ exists /\ cmd[p] = NoCmd
  /\ \E w \in Words : cmd' = [cmd EXCEPT ![p] = [pc |-> "pushWait", arg |-> w]]
  /\ UNCHANGED <<exists, free, items, semFull, semEmpty, mutex, heap>>

(* Mutant: -w does not wait for a free row.                                *)
PushWithoutWait(p) ==
  /\ cmd[p].pc = "pushWait"
  /\ cmd' = [cmd EXCEPT ![p].pc = "pushLock"]
  /\ UNCHANGED <<exists, free, items, semFull, semEmpty, mutex, heap>>

PushWait(p) ==
  /\ cmd[p].pc = "pushWait"
  /\ semEmpty > 0
  /\ semEmpty' = semEmpty - 1
  /\ cmd' = [cmd EXCEPT ![p].pc = "pushLock"]
  /\ UNCHANGED <<exists, free, items, semFull, mutex, heap>>

(* The row to pop, read without the lock.                                  *)
PopStart(p) ==
  /\ exists /\ cmd[p] = NoCmd
  /\ LET wordIndex == IF free = 0 THEN 0 ELSE free - 1
     IN  cmd' = [cmd EXCEPT ![p] = [pc |-> "popWait", arg |-> wordIndex]]
  /\ UNCHANGED <<exists, free, items, semFull, semEmpty, mutex, heap>>

PopWait(p) ==
  /\ cmd[p].pc = "popWait"
  /\ semFull > 0
  /\ semFull' = semFull - 1
  /\ cmd' = [cmd EXCEPT ![p].pc = "popLock"]
  /\ UNCHANGED <<exists, free, items, semEmpty, mutex, heap>>

(* pthread_mutex_lock(): taken, or slept on for good.                      *)
StackLock(p) ==
  /\ cmd[p].pc \in {"pushLock", "popLock"}
  /\ LET push == cmd[p].pc = "pushLock"
     IN  IF mutex = NoProc
         THEN /\ mutex' = p
              /\ cmd' = [cmd EXCEPT ![p].pc = IF push THEN "push" ELSE "pop"]
         ELSE /\ cmd' = [cmd EXCEPT ![p].pc = IF push THEN "pushLost" ELSE "popLost"]
              /\ UNCHANGED mutex
  /\ UNCHANGED <<exists, free, items, semFull, semEmpty, heap>>

(* The critical section of -w.  strlen(word) characters are written over   *)
(* the row: what is longer shows behind them.                              *)
Push(p) ==
  /\ cmd[p].pc = "push"
  /\ \E v \in {cmd[p].arg} \cup (IF heap[free] = "blank" THEN {} ELSE {"mixed"}) :
       heap' = [heap EXCEPT ![free] = v]
  /\ items' = items + 1
  /\ free' = free + 1
  /\ mutex' = NoProc
  /\ cmd' = [cmd EXCEPT ![p] = [pc |-> "pushPost", arg |-> 0]]
  /\ UNCHANGED <<exists, semFull, semEmpty>>

(* The critical section of -r: the whole row is blanked.                   *)
Pop(p) ==
  /\ cmd[p].pc = "pop"
  /\ heap' = [heap EXCEPT ![cmd[p].arg] = "blank"]
  /\ items' = items - 1
  /\ free' = free - 1
  /\ mutex' = NoProc
  /\ cmd' = [cmd EXCEPT ![p] = [pc |-> "popPost", arg |-> 0]]
  /\ UNCHANGED <<exists, semFull, semEmpty>>

StackPost(p) ==
  /\ cmd[p].pc \in {"pushPost", "popPost"}
  /\ IF cmd[p].pc = "pushPost" THEN semFull' = semFull + 1 /\ UNCHANGED semEmpty
                               ELSE semEmpty' = semEmpty + 1 /\ UNCHANGED semFull
  /\ cmd' = [cmd EXCEPT ![p] = NoCmd]
  /\ UNCHANGED <<exists, free, items, mutex, heap>>

StackNext ==
  \/ StackCreate
  \/ StackDestroy
  \/ \E p \in StackProcs :
       \/ PushStart(p) \/ PushWait(p)
       \/ PopStart(p) \/ PopWait(p)
       \/ StackLock(p) \/ Push(p) \/ Pop(p) \/ StackPost(p)

StackSpec == StackInit /\ [][StackNext]_stackVars

(* Every row is accounted for, whatever processes wait, sleep on the mutex *)
(* for good or stand between two steps: the words are the permits of full, *)
(* those not posted yet and those about to be taken; the other rows are    *)
(* the permits of empty, those not posted and those about to be filled.    *)
(* So no process uses a row outside the heap.                              *)
RowsConserved ==
  exists =>
    /\ items = free
    /\ items = semFull + Cardinality(AtPc({"popLock", "popLost", "pop", "pushPost"}))
    /\ ITEMS - items =
         semEmpty + Cardinality(AtPc({"pushLock", "pushLost", "push", "popPost"}))
=============================================================================
