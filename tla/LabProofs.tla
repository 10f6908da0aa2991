------------------------------ MODULE LabProofs ------------------------------
(***************************************************************************)
(* Proofs about the programs of the laboratories: the word stack, the      *)
(* producer-consumer buffer, forkprio, the user-level threads and the page *)
(* simulator, for any number of processes, rows, items, children, threads, *)
(* frames and references.                                                  *)
(***************************************************************************)
EXTENDS WordStack, BoundedBuffer, ForkPrio, UThread, PageSim, FiniteSetTheorems,
        NaturalsInduction, WellFoundedInduction, TLAPS

(* The least element that the searches of the code look for.               *)
LEMMA LeastExists ==
  ASSUME NEW S \in SUBSET Nat, S # {}
  PROVE  \E x \in S : \A y \in S : x <= y
<1>1. \E x \in S : \A y \in S : ~(<<y, x>> \in OpToRel(<, Nat))
  BY NatLessThanWellFounded, WFMin, Zenon
<1>2. ASSUME NEW x \in Nat, NEW y \in Nat, y < x
      PROVE  <<y, x>> \in OpToRel(<, Nat)
  BY <1>2 DEF OpToRel
<1>3. \A x, y \in Nat : ~(y < x) => x <= y
  OBVIOUS
<1> QED
  BY <1>1, <1>2, <1>3, Zenon


------------------------------------------------------------------------------
(* wordstack.c.  RowsConserved says nothing while there is no segment, so  *)
(* the invariant adds that then no command is under way.                   *)

StackPcs == {"idle", "pushWait", "popWait", "pushLock", "popLock", "push", "pop",
             "pushLost", "popLost", "pushPost", "popPost"}

StackTypeOK ==
  /\ exists \in BOOLEAN
  /\ free \in Int /\ items \in Int
  /\ semFull \in Nat /\ semEmpty \in Nat
  /\ cmd \in [StackProcs -> [pc : StackPcs, arg : Words \cup Int]]

IdleWithoutSegment == ~exists => \A p \in StackProcs : cmd[p].pc = "idle"

(* The row a pop has chosen is one of the heap.                            *)
PopsInHeap ==
  \A p \in StackProcs : cmd[p].pc \in {"popWait", "popLock", "pop"} => cmd[p].arg \in Rows

StackInv == StackTypeOK /\ IdleWithoutSegment /\ RowsConserved /\ PopsInHeap

(* A step of process p moves at most p in or out of AtPc(S).               *)
LEMMA AtPcMoves ==
  ASSUME NEW p \in StackProcs, NEW S,
         \A q \in StackProcs \ {p} : cmd'[q].pc = cmd[q].pc
  PROVE  /\ Cardinality(AtPc(S)) \in Nat
         /\ (cmd[p].pc \in S <=> cmd'[p].pc \in S) => Cardinality(AtPc(S)') = Cardinality(AtPc(S))
         /\ cmd[p].pc \notin S /\ cmd'[p].pc \in S => Cardinality(AtPc(S)') = Cardinality(AtPc(S)) + 1
         /\ cmd[p].pc \in S /\ cmd'[p].pc \notin S => Cardinality(AtPc(S)') = Cardinality(AtPc(S)) - 1
<1>1. IsFiniteSet(AtPc(S))
  <2>1. AtPc(S) \subseteq StackProcs
    BY DEF AtPc
  <2> QED
    BY <2>1, FS_Subset, WordStackAssumption
<1>2. Cardinality(AtPc(S)) \in Nat
  BY <1>1, FS_CardinalityType
<1>3. CASE cmd[p].pc \in S <=> cmd'[p].pc \in S
  <2>1. AtPc(S)' = AtPc(S)
    BY <1>3 DEF AtPc
  <2> QED
    BY <1>2, <1>3, <2>1
<1>4. CASE cmd[p].pc \notin S /\ cmd'[p].pc \in S
  <2>1. AtPc(S)' = AtPc(S) \cup {p} /\ p \notin AtPc(S)
    BY <1>4 DEF AtPc
  <2>2. Cardinality(AtPc(S) \cup {p}) = Cardinality(AtPc(S)) + 1
    BY <1>1, <2>1, FS_AddElement
  <2> QED
    BY <1>2, <1>4, <2>1, <2>2
<1>5. CASE cmd[p].pc \in S /\ cmd'[p].pc \notin S
  <2>1. AtPc(S)' = AtPc(S) \ {p} /\ p \in AtPc(S)
    BY <1>5 DEF AtPc
  <2>2. Cardinality(AtPc(S) \ {p}) = Cardinality(AtPc(S)) - 1
    BY <1>1, <2>1, FS_RemoveElement
  <2> QED
    BY <1>2, <1>5, <2>1, <2>2
<1> QED
  BY <1>2, <1>3, <1>4, <1>5

LEMMA NobodyAtPc ==
  ASSUME NEW S, \A p \in StackProcs : cmd[p].pc \notin S
  PROVE  Cardinality(AtPc(S)) = 0
<1>1. AtPc(S) = {}
  BY DEF AtPc
<1> QED
  BY <1>1, FS_EmptySet

LEMMA StackInvInit == StackInit => StackInv
<1> SUFFICES ASSUME StackInit PROVE StackInv
  OBVIOUS
<1>1. StackTypeOK
  <2>1. exists \in BOOLEAN
    BY DEF StackInit
  <2>2. cmd \in [StackProcs -> [pc : StackPcs, arg : Words \cup Int]]
    BY DEF StackInit, NoCmd, StackPcs
  <2> QED
    BY <2>1, <2>2 DEF StackInit, StackTypeOK
<1> QED
  BY <1>1 DEF StackInit, StackInv, IdleWithoutSegment, RowsConserved, PopsInHeap, NoCmd

(* -c and -d find every process idle.                                      *)
LEMMA SegmentStep ==
  ASSUME StackInv, StackCreate \/ StackDestroy
  PROVE  StackInv'
<1>1. \A p \in StackProcs : cmd[p].pc = "idle" /\ cmd'[p].pc = "idle"
  BY DEF StackCreate, StackDestroy, AtPc
<1>2. StackTypeOK'
  <2>1. exists' \in BOOLEAN
    BY DEF StackCreate, StackDestroy
  <2>2. cmd' = cmd
    BY DEF StackCreate, StackDestroy
  <2> QED
    BY <2>1, <2>2, WordStackAssumption DEF StackInv, StackTypeOK, StackCreate, StackDestroy
<1>3. RowsConserved'
  <2>1. CASE StackCreate
    <3>1. /\ Cardinality(AtPc({"popLock", "popLost", "pop", "pushPost"})) = 0
          /\ Cardinality(AtPc({"pushLock", "pushLost", "push", "popPost"})) = 0
      BY <1>1, NobodyAtPc
    <3>2. cmd' = cmd
      BY <2>1 DEF StackCreate
    <3>3. /\ Cardinality(AtPc({"popLock", "popLost", "pop", "pushPost"})') = 0
          /\ Cardinality(AtPc({"pushLock", "pushLost", "push", "popPost"})') = 0
      BY <3>1, <3>2 DEF AtPc
    <3> QED
      BY <2>1, <3>3, WordStackAssumption DEF StackCreate, RowsConserved
  <2>2. CASE StackDestroy
    BY <2>2 DEF StackDestroy, RowsConserved
  <2> QED
    BY <2>1, <2>2
<1> QED
  BY <1>1, <1>2, <1>3 DEF StackInv, IdleWithoutSegment, PopsInHeap

(* The steps of one process.                                               *)
LEMMA CommandStep ==
  ASSUME StackInv, NEW p \in StackProcs,
         \/ PushStart(p) \/ PushWait(p) \/ PopStart(p) \/ PopWait(p)
         \/ StackLock(p) \/ Push(p) \/ Pop(p) \/ StackPost(p)
  PROVE  StackInv'
<1> DEFINE Taking == {"popLock", "popLost", "pop", "pushPost"}
           Filling == {"pushLock", "pushLost", "push", "popPost"}
           t == Cardinality(AtPc(Taking))
           f == Cardinality(AtPc(Filling))
<1>1. exists /\ exists' = exists
  BY DEF StackInv, StackTypeOK, IdleWithoutSegment, PushStart, PushWait, PopStart,
     PopWait, StackLock, Push, Pop, StackPost
<1>2. StackTypeOK'
  BY DEF StackInv, StackTypeOK, StackPcs, NoCmd, PushStart, PushWait, PopStart,
     PopWait, StackLock, Push, Pop, StackPost
<1>3. \A q \in StackProcs \ {p} : cmd'[q] = cmd[q]
  BY DEF StackInv, StackTypeOK, PushStart, PushWait, PopStart, PopWait, StackLock,
     Push, Pop, StackPost
<1>4. /\ t \in Nat /\ f \in Nat
      /\ (cmd[p].pc \in Taking <=> cmd'[p].pc \in Taking) => t' = t
      /\ cmd[p].pc \notin Taking /\ cmd'[p].pc \in Taking => t' = t + 1
      /\ cmd[p].pc \in Taking /\ cmd'[p].pc \notin Taking => t' = t - 1
      /\ (cmd[p].pc \in Filling <=> cmd'[p].pc \in Filling) => f' = f
      /\ cmd[p].pc \notin Filling /\ cmd'[p].pc \in Filling => f' = f + 1
      /\ cmd[p].pc \in Filling /\ cmd'[p].pc \notin Filling => f' = f - 1
  BY <1>3, AtPcMoves
<1>5. /\ free = items
      /\ semFull + t = items /\ semEmpty + f = ITEMS - items
  BY <1>1 DEF StackInv, RowsConserved
<1> HIDE DEF t, f
<1>6. /\ free' = items'
      /\ semFull' + t' = items' /\ semEmpty' + f' = ITEMS - items'
  <2>1. /\ free \in Int /\ items \in Int /\ semFull \in Nat /\ semEmpty \in Nat
        /\ ITEMS \in Nat /\ t \in Nat /\ f \in Nat
    BY <1>4, WordStackAssumption DEF StackInv, StackTypeOK
  <2>2. CASE PushStart(p)
    <3>1. cmd[p].pc = "idle" /\ cmd'[p].pc = "pushWait"
      BY <2>2 DEF StackInv, StackTypeOK, PushStart, NoCmd
    <3>2. items' = items /\ free' = free /\ semFull' = semFull /\ semEmpty' = semEmpty
      BY <2>2 DEF PushStart, NoCmd
    <3>3. t' = t /\ f' = f
      BY <1>4, <3>1
    <3> QED
      BY <1>5, <2>1, <3>2, <3>3
  <2>3. CASE PopStart(p)
    <3>1. cmd[p].pc = "idle" /\ cmd'[p].pc = "popWait"
      BY <2>3 DEF StackInv, StackTypeOK, PopStart, NoCmd
    <3>2. items' = items /\ free' = free /\ semFull' = semFull /\ semEmpty' = semEmpty
      BY <2>3 DEF PopStart, NoCmd
    <3>3. t' = t /\ f' = f
      BY <1>4, <3>1
    <3> QED
      BY <1>5, <2>1, <3>2, <3>3
  <2>4. CASE PushWait(p)
    <3>1. cmd[p].pc = "pushWait" /\ cmd'[p].pc = "pushLock"
      BY <2>4 DEF StackInv, StackTypeOK, PushWait
    <3>2. semEmpty' = semEmpty - 1 /\ items' = items /\ free' = free /\ semFull' = semFull
      BY <2>4 DEF PushWait
    <3>3. t' = t /\ f' = f + 1
      BY <1>4, <3>1
    <3> QED
      BY <1>5, <2>1, <3>2, <3>3
  <2>5. CASE PopWait(p)
    <3>1. cmd[p].pc = "popWait" /\ cmd'[p].pc = "popLock"
      BY <2>5 DEF StackInv, StackTypeOK, PopWait
    <3>2. semFull' = semFull - 1 /\ items' = items /\ free' = free /\ semEmpty' = semEmpty
      BY <2>5 DEF PopWait
    <3>3. t' = t + 1 /\ f' = f
      BY <1>4, <3>1
    <3> QED
      BY <1>5, <2>1, <3>2, <3>3
  <2>6. CASE StackLock(p)
    <3>1. \/ cmd[p].pc = "pushLock" /\ cmd'[p].pc \in {"push", "pushLost"}
          \/ cmd[p].pc = "popLock" /\ cmd'[p].pc \in {"pop", "popLost"}
      BY <2>6 DEF StackInv, StackTypeOK, StackLock
    <3>2. items' = items /\ free' = free /\ semFull' = semFull /\ semEmpty' = semEmpty
      BY <2>6 DEF StackLock
    <3>3. t' = t /\ f' = f
      BY <1>4, <3>1
    <3> QED
      BY <1>5, <2>1, <3>2, <3>3
  <2>7. CASE Push(p)
    <3>1. cmd[p].pc = "push" /\ cmd'[p].pc = "pushPost"
      BY <2>7 DEF StackInv, StackTypeOK, Push
    <3>2. items' = items + 1 /\ free' = free + 1 /\ semFull' = semFull /\ semEmpty' = semEmpty
      BY <2>7 DEF Push
    <3>3. t' = t + 1 /\ f' = f - 1
      BY <1>4, <3>1
    <3> QED
      BY <1>5, <2>1, <3>2, <3>3
  <2>8. CASE Pop(p)
    <3>1. cmd[p].pc = "pop" /\ cmd'[p].pc = "popPost"
      BY <2>8 DEF StackInv, StackTypeOK, Pop
    <3>2. items' = items - 1 /\ free' = free - 1 /\ semFull' = semFull /\ semEmpty' = semEmpty
      BY <2>8 DEF Pop
    <3>3. t' = t - 1 /\ f' = f + 1
      BY <1>4, <3>1
    <3> QED
      BY <1>5, <2>1, <3>2, <3>3
  <2>9. CASE StackPost(p)
    <3>1. cmd[p].pc \in {"pushPost", "popPost"} /\ cmd'[p].pc = "idle"
      BY <2>9 DEF StackInv, StackTypeOK, StackPost, NoCmd
    <3>2. /\ items' = items /\ free' = free
          /\ cmd[p].pc = "pushPost" => semFull' = semFull + 1 /\ semEmpty' = semEmpty
          /\ cmd[p].pc = "popPost" => semEmpty' = semEmpty + 1 /\ semFull' = semFull
      BY <2>9 DEF StackPost, NoCmd
    <3>3. /\ cmd[p].pc = "pushPost" => t' = t - 1 /\ f' = f
          /\ cmd[p].pc = "popPost" => t' = t /\ f' = f - 1
      BY <1>4, <3>1
    <3> QED
      BY <1>5, <2>1, <3>1, <3>2, <3>3
  <2> QED
    BY <2>2, <2>3, <2>4, <2>5, <2>6, <2>7, <2>8, <2>9
<1>7. RowsConserved'
  BY <1>6 DEF RowsConserved, t, f
<1>8. PopsInHeap'
  <2>1. free \in 0..ITEMS
    BY <1>4, <1>5, WordStackAssumption DEF StackInv, StackTypeOK
  <2>2. cmd'[p].pc \in {"popWait", "popLock", "pop"} => cmd'[p].arg \in Rows
    BY <2>1, WordStackAssumption DEF StackInv, StackTypeOK, PopsInHeap, Rows, NoCmd,
       PushStart, PushWait, PopStart, PopWait, StackLock, Push, Pop, StackPost
  <2> QED
    BY <1>3, <2>2 DEF StackInv, PopsInHeap
<1> QED
  BY <1>1, <1>2, <1>7, <1>8 DEF StackInv, IdleWithoutSegment

LEMMA StackInvNext == StackInv /\ [StackNext]_stackVars => StackInv'
<1> SUFFICES ASSUME StackInv, [StackNext]_stackVars PROVE StackInv'
  OBVIOUS
<1>1. CASE UNCHANGED stackVars
  BY <1>1 DEF stackVars, StackInv, StackTypeOK, IdleWithoutSegment, RowsConserved,
     AtPc, PopsInHeap
<1>2. CASE StackNext
  BY <1>2, SegmentStep, CommandStep DEF StackNext
<1> QED
  BY <1>1, <1>2

(* Words and permits always add up to the rows of the heap, for any number *)
(* of commands, however many of them sleep on the mutex for good.          *)
THEOREM StackConservesRows == StackSpec => []RowsConserved
<1>1. StackInv => RowsConserved
  BY DEF StackInv
<1> QED
  BY <1>1, StackInvInit, StackInvNext, PTL DEF StackSpec

(* heap[free] of a push and the row a pop has chosen lie inside the heap.  *)
UsesRows ==
  \A p \in StackProcs : /\ cmd[p].pc = "push" => free \in Rows
                        /\ cmd[p].pc = "pop" => cmd[p].arg \in Rows

(* wordstack.c: although a pop chooses its row before it has the mutex,    *)
(* the row index of every push and every pop is that of a row of the heap. *)
(* This is about the index only, not about how long a word is.             *)
THEOREM StackUsesRows == StackSpec => []UsesRows
<1>1. StackInv => UsesRows
  <2> SUFFICES ASSUME StackInv, NEW p \in StackProcs, cmd[p].pc = "push"
               PROVE  free \in Rows
    BY DEF StackInv, PopsInHeap, UsesRows
  <2>1. exists
    BY DEF StackInv, StackTypeOK, IdleWithoutSegment
  <2> DEFINE S == AtPc({"pushLock", "pushLost", "push", "popPost"})
             T == AtPc({"popLock", "popLost", "pop", "pushPost"})
  <2>2. IsFiniteSet(S) /\ IsFiniteSet(T)
    <3>1. S \subseteq StackProcs /\ T \subseteq StackProcs
      BY DEF AtPc
    <3> QED
      BY <3>1, FS_Subset, WordStackAssumption
  <2>3. p \in S
    BY DEF AtPc
  <2> HIDE DEF S, T
  <2>4. Cardinality(S) \in Nat /\ Cardinality(S) # 0 /\ Cardinality(T) \in Nat
    BY <2>2, <2>3, FS_CardinalityType, FS_EmptySet
  <2>5. free = semFull + Cardinality(T) /\ ITEMS - free = semEmpty + Cardinality(S)
    BY <2>1 DEF StackInv, RowsConserved, S, T
  <2> QED
    BY <2>4, <2>5, WordStackAssumption DEF StackInv, StackTypeOK, Rows
<1> QED
  BY <1>1, StackInvInit, StackInvNext, PTL DEF StackSpec

------------------------------------------------------------------------------
(* buf.c.  The loop variables tell which items are in the ring: those from *)
(* the consumer's to the producer's, never more than the ring has slots.   *)

BPcs == {"wait", "lock", "access", "post"}

Past(t) == IF bpc[t] = "wait" THEN 0 ELSE 1
Done(t) == bi[t] + (IF bpc[t] = "post" THEN 1 ELSE 0)

BoundedTypeOK ==
  /\ bsize \in Nat \ {0} /\ bitems \in Nat
  /\ ring \in [0..(bsize - 1) -> Int]
  /\ vacio \in Nat /\ lleno \in Nat
  /\ bmutex \in {"free", "destroyed"} \cup BThreads
  /\ bpc \in [BThreads -> BPcs]
  /\ bi \in [BThreads -> Nat]
  /\ reader_results \in Seq(Int)

(* The semaphores count the slots and the items nobody has claimed.        *)
SemaphoresCount ==
  /\ lleno + Past("consumer") = bi["producer"] - bi["consumer"]
  /\ vacio + Past("producer") = bsize - (bi["producer"] - bi["consumer"])

(* What is written and not read yet is in its slot.                        *)
ItemsInRing ==
  /\ \A i \in Nat : Done("consumer") <= i /\ i < Done("producer") => ring[i % bsize] = i
  /\ Len(reader_results) = Done("consumer")
  /\ \A k \in 1..Len(reader_results) : reader_results[k] = k - 1

(* Only a thread in its critical section holds the mutex; no thread goes   *)
(* past the last item.                                                     *)
HolderInside ==
  \A t \in BThreads : /\ bmutex = t => bpc[t] = "access"
                      /\ bi[t] + Past(t) <= bitems

BoundedInv == BoundedTypeOK /\ SemaphoresCount /\ ItemsInRing /\ HolderInside

(* Items less than bsize apart have different slots.                       *)
LEMMA SlotsDiffer ==
  ASSUME NEW n \in Nat \ {0}, NEW a \in Nat, NEW b \in Nat, a < b, b < a + n
  PROVE  a % n # b % n
<1> SUFFICES ASSUME a % n = b % n PROVE FALSE
  OBVIOUS
<1> DEFINE q == (b \div n) - (a \div n)
<1>1. /\ a = n * (a \div n) + (a % n) /\ a \div n \in Int
      /\ b = n * (b \div n) + (b % n) /\ b \div n \in Int
      /\ a % n \in 0..(n - 1)
  OBVIOUS
<1>2. q \in Int /\ b - a = n * q
  BY <1>1
<1>3. \A r \in Int : n * r < n /\ n * r > 0 => FALSE
  OBVIOUS
<1> HIDE DEF q
<1>4. n * q < n /\ n * q > 0
  BY <1>2
<1> QED
  BY <1>2, <1>3, <1>4

LEMMA SlotInRing ==
  ASSUME NEW n \in Nat \ {0}, NEW a \in Nat
  PROVE  a % n \in 0..(n - 1)
OBVIOUS

LEMMA SemaphoresSolved ==
  ASSUME BoundedInv
  PROVE  /\ lleno \in Nat /\ vacio \in Nat /\ bsize \in Nat
         /\ bi["producer"] \in Nat /\ bi["consumer"] \in Nat
         /\ lleno = bi["producer"] - bi["consumer"] - Past("consumer")
         /\ vacio = bsize - (bi["producer"] - bi["consumer"]) - Past("producer")
<1>1. /\ lleno \in Nat /\ vacio \in Nat /\ bsize \in Nat
      /\ bi["producer"] \in Nat /\ bi["consumer"] \in Nat
  BY DEF BoundedInv, BoundedTypeOK, BThreads
<1>2. Past("producer") \in Nat /\ Past("consumer") \in Nat
  BY DEF Past
<1> QED
  BY <1>1, <1>2 DEF BoundedInv, SemaphoresCount

LEMMA BoundedInvInit == BoundedInit => BoundedInv
<1> SUFFICES ASSUME BoundedInit PROVE BoundedInv
  OBVIOUS
<1>1. BoundedTypeOK
  BY BoundedBufferAssumption DEF BoundedInit, BoundedTypeOK, BThreads, BPcs
<1>2. SemaphoresCount
  BY BoundedBufferAssumption DEF BoundedInit, SemaphoresCount, Past, BThreads
<1>3. ItemsInRing
  BY DEF BoundedInit, ItemsInRing, Done, BThreads
<1>4. HolderInside
  BY DEF BoundedInit, HolderInside, Past, BThreads
<1> QED
  BY <1>1, <1>2, <1>3, <1>4 DEF BoundedInv

LEMMA SemWaitStep ==
  ASSUME BoundedInv, NEW t \in BThreads, SemWait(t)
  PROVE  BoundedInv'
<1> USE DEF BoundedInv
<1>1. BoundedTypeOK'
  BY DEF BoundedTypeOK, SemWait, BThreads, BPcs
<1>2. SemaphoresCount'
  <2>1. bi' = bi /\ bsize' = bsize
    BY DEF SemWait
  <2>2. /\ lleno \in Int /\ vacio \in Int /\ bsize \in Int
        /\ bi["producer"] \in Int /\ bi["consumer"] \in Int
        /\ lleno + Past("consumer") = bi["producer"] - bi["consumer"]
        /\ vacio + Past("producer") = bsize - (bi["producer"] - bi["consumer"])
    BY DEF BoundedTypeOK, SemaphoresCount, BThreads
  <2>3. CASE t = "producer"
    <3>1. /\ bpc["producer"] = "wait" /\ bpc'["producer"] = "lock"
          /\ bpc'["consumer"] = bpc["consumer"] /\ vacio' = vacio - 1 /\ lleno' = lleno
      BY <2>3 DEF SemWait, BoundedTypeOK, BThreads
    <3>2. Past("producer") = 0 /\ Past("producer")' = 1 /\ Past("consumer")' = Past("consumer")
      BY <3>1 DEF Past
    <3> QED
      BY <2>1, <2>2, <3>1, <3>2 DEF SemaphoresCount
  <2>4. CASE t = "consumer"
    <3>1. /\ bpc["consumer"] = "wait" /\ bpc'["consumer"] = "lock"
          /\ bpc'["producer"] = bpc["producer"] /\ lleno' = lleno - 1 /\ vacio' = vacio
      BY <2>4 DEF SemWait, BoundedTypeOK, BThreads
    <3>2. Past("consumer") = 0 /\ Past("consumer")' = 1 /\ Past("producer")' = Past("producer")
      BY <3>1 DEF Past
    <3> QED
      BY <2>1, <2>2, <3>1, <3>2 DEF SemaphoresCount
  <2> QED
    BY <2>3, <2>4 DEF BThreads
<1>3. ItemsInRing'
  <2>1. Done("producer")' = Done("producer") /\ Done("consumer")' = Done("consumer")
    BY DEF BoundedTypeOK, Done, SemWait, BThreads
  <2> QED
    BY <2>1 DEF ItemsInRing, SemWait
<1>4. HolderInside'
  BY DEF BoundedTypeOK, HolderInside, Past, SemWait, BThreads
<1> QED
  BY <1>1, <1>2, <1>3, <1>4

LEMMA MutexLockStep ==
  ASSUME BoundedInv, NEW t \in BThreads, MutexLock(t)
  PROVE  BoundedInv'
<1> USE DEF BoundedInv
<1>1. BoundedTypeOK'
  BY DEF BoundedTypeOK, MutexLock, BThreads, BPcs
<1>2. /\ Past("producer")' = Past("producer") /\ Past("consumer")' = Past("consumer")
      /\ Done("producer")' = Done("producer") /\ Done("consumer")' = Done("consumer")
  BY DEF BoundedTypeOK, Past, Done, MutexLock, BThreads
<1>3. SemaphoresCount'
  BY <1>2 DEF SemaphoresCount, MutexLock
<1>4. ItemsInRing'
  BY <1>2 DEF ItemsInRing, MutexLock
<1>5. HolderInside'
  BY <1>2 DEF BoundedTypeOK, HolderInside, MutexLock, BThreads
<1> QED
  BY <1>1, <1>3, <1>4, <1>5

(* The producer writes its item over a slot whose item has been read, and  *)
(* the consumer reads the slot of its own item.                            *)
LEMMA AccessBufStep ==
  ASSUME BoundedInv, NEW t \in BThreads, AccessBuf(t)
  PROVE  BoundedInv'
<1> USE DEF BoundedInv
<1>1. /\ bi["producer"] \in Nat /\ bi["consumer"] \in Nat /\ bsize \in Nat \ {0}
      /\ vacio \in Nat /\ lleno \in Nat
  BY DEF BoundedTypeOK, BThreads
<1>2. /\ Past("producer")' = Past("producer") /\ Past("consumer")' = Past("consumer")
      /\ \A u \in BThreads : Done(u)' = IF u = t THEN bi[u] + 1 ELSE Done(u)
      /\ Done(t) = bi[t] /\ Past(t) = 1
  BY DEF BoundedTypeOK, Past, Done, AccessBuf, BThreads
<1>3. SemaphoresCount'
  BY <1>2 DEF SemaphoresCount, AccessBuf
<1>4. HolderInside'
  BY <1>2 DEF BoundedTypeOK, HolderInside, AccessBuf, BThreads
<1>5. CASE t = "producer"
  <2>1. ring' = [ring EXCEPT ![bi["producer"] % bsize] = bi["producer"]]
        /\ reader_results' = reader_results /\ bsize' = bsize
    BY <1>5 DEF AccessBuf
  <2>2. BoundedTypeOK'
    <3>1. ring' \in [0..(bsize - 1) -> Int]
      <4> DEFINE slot == bi["producer"] % bsize
      <4>1. slot \in 0..(bsize - 1)
        BY <1>1, SlotInRing
      <4>2. ring' = [ring EXCEPT ![slot] = bi["producer"]]
        BY <2>1
      <4> HIDE DEF slot
      <4> QED
        BY <1>1, <4>1, <4>2 DEF BoundedTypeOK
    <3>2. bpc' \in [BThreads -> BPcs] /\ bmutex' \in {"free", "destroyed"} \cup BThreads
      BY DEF BoundedTypeOK, AccessBuf, BPcs
    <3> QED
      BY <2>1, <3>1, <3>2 DEF BoundedTypeOK, AccessBuf
  <2>3. bi["producer"] < bi["consumer"] + bsize
    BY <1>1, <1>2, <1>5 DEF SemaphoresCount
  <2>4. Done("consumer") \in Nat /\ Done("consumer") >= bi["consumer"] /\ Done("consumer")' = Done("consumer")
    BY <1>1, <1>2, <1>5 DEF Done, BThreads
  <2>5. ASSUME NEW i \in Nat, Done("consumer") <= i, i < bi["producer"] + 1
        PROVE  ring'[i % bsize] = i
    <3>1. CASE i = bi["producer"]
      BY <1>1, <2>1, <3>1, SlotInRing DEF BoundedTypeOK
    <3>2. CASE i < bi["producer"]
      <4>1. i % bsize # bi["producer"] % bsize
        BY <1>1, <2>3, <2>4, <2>5, <3>2, SlotsDiffer
      <4>2. ring[i % bsize] = i
        BY <1>1, <1>2, <1>5, <2>5, <3>2 DEF ItemsInRing
      <4> QED
        BY <1>1, <2>1, <4>1, <4>2, SlotInRing DEF BoundedTypeOK
    <3> QED
      BY <1>1, <2>5, <3>1, <3>2
  <2>6. ItemsInRing'
    BY <1>2, <1>5, <2>1, <2>4, <2>5 DEF ItemsInRing, BThreads
  <2> QED
    BY <1>3, <1>4, <2>2, <2>6
<1>6. CASE t = "consumer"
  <2>1. reader_results' = Append(reader_results, ring[bi["consumer"] % bsize])
        /\ ring' = ring /\ bsize' = bsize
    BY <1>6 DEF AccessBuf, BThreads
  <2>2. BoundedTypeOK'
    <3>1. reader_results' \in Seq(Int)
      <4>1. ring[bi["consumer"] % bsize] \in Int
        BY <1>1, SlotInRing DEF BoundedTypeOK
      <4> QED
        BY <2>1, <4>1 DEF BoundedTypeOK
    <3>2. bpc' \in [BThreads -> BPcs] /\ bmutex' \in {"free", "destroyed"} \cup BThreads
      BY DEF BoundedTypeOK, AccessBuf, BPcs
    <3> QED
      BY <2>1, <3>1, <3>2 DEF BoundedTypeOK, AccessBuf
  <2>3. bi["consumer"] < Done("producer") /\ Done("producer")' = Done("producer")
    BY <1>1, <1>2, <1>6 DEF SemaphoresCount, Done, BThreads
  <2>4. ring[bi["consumer"] % bsize] = bi["consumer"] /\ Len(reader_results) = bi["consumer"]
    BY <1>1, <1>2, <1>6, <2>3 DEF ItemsInRing
  <2>5. ItemsInRing'
    BY <1>1, <1>2, <1>6, <2>1, <2>3, <2>4, SMTT(30) DEF ItemsInRing, BoundedTypeOK, BThreads
  <2> QED
    BY <1>3, <1>4, <2>2, <2>5
<1> QED
  BY <1>5, <1>6 DEF BThreads

LEMMA SemPostStep ==
  ASSUME BoundedInv, NEW t \in BThreads, SemPost(t)
  PROVE  BoundedInv'
<1> USE DEF BoundedInv
<1>1. BoundedTypeOK'
  BY SMTT(30) DEF BoundedTypeOK, SemPost, BThreads, BPcs
<1>2. SemaphoresCount'
  <2>1. CASE t = "producer"
    <3>1. /\ bi'["producer"] = bi["producer"] + 1 /\ bi'["consumer"] = bi["consumer"]
          /\ lleno' = lleno + 1 /\ vacio' = vacio /\ bsize' = bsize
          /\ Past("producer")' = 0 /\ Past("producer") = 1
          /\ Past("consumer")' = Past("consumer") /\ Past("consumer") \in Nat
      BY <2>1 DEF BoundedTypeOK, Past, SemPost, BThreads
    <3>2. /\ lleno \in Nat /\ vacio \in Nat /\ bsize \in Nat
          /\ bi["producer"] \in Nat /\ bi["consumer"] \in Nat
          /\ lleno = bi["producer"] - bi["consumer"] - Past("consumer")
          /\ vacio = bsize - (bi["producer"] - bi["consumer"]) - Past("producer")
      BY SemaphoresSolved
    <3>3. /\ lleno' + Past("consumer")' = bi'["producer"] - bi'["consumer"]
          /\ vacio' + Past("producer")' = bsize' - (bi'["producer"] - bi'["consumer"])
      BY <3>1, <3>2
    <3> QED
      BY <3>3 DEF SemaphoresCount
  <2>2. CASE t = "consumer"
    <3>1. /\ bi'["consumer"] = bi["consumer"] + 1 /\ bi'["producer"] = bi["producer"]
          /\ vacio' = vacio + 1 /\ lleno' = lleno /\ bsize' = bsize
          /\ Past("consumer")' = 0 /\ Past("consumer") = 1
          /\ Past("producer")' = Past("producer") /\ Past("producer") \in Nat
      BY <2>2 DEF BoundedTypeOK, Past, SemPost, BThreads
    <3>2. /\ lleno \in Nat /\ vacio \in Nat /\ bsize \in Nat
          /\ bi["producer"] \in Nat /\ bi["consumer"] \in Nat
          /\ lleno = bi["producer"] - bi["consumer"] - Past("consumer")
          /\ vacio = bsize - (bi["producer"] - bi["consumer"]) - Past("producer")
      BY SemaphoresSolved
    <3>3. /\ lleno' + Past("consumer")' = bi'["producer"] - bi'["consumer"]
          /\ vacio' + Past("producer")' = bsize' - (bi'["producer"] - bi'["consumer"])
      BY <3>1, <3>2
    <3> QED
      BY <3>3 DEF SemaphoresCount
  <2> QED
    BY <2>1, <2>2 DEF BThreads
<1>3. ItemsInRing'
  <2>1. Done("producer")' = Done("producer") /\ Done("consumer")' = Done("consumer")
    BY DEF BoundedTypeOK, Done, SemPost, BThreads
  <2> QED
    BY <2>1 DEF ItemsInRing, SemPost
<1>4. HolderInside'
  BY DEF BoundedTypeOK, HolderInside, Past, SemPost, BThreads
<1> QED
  BY <1>1, <1>2, <1>3, <1>4

LEMMA MutexDestroyStep ==
  ASSUME BoundedInv, MutexDestroy
  PROVE  BoundedInv'
<1>1. BoundedTypeOK' /\ HolderInside'
  BY DEF BoundedInv, BoundedTypeOK, HolderInside, Past, MutexDestroy, BThreads
<1>2. SemaphoresCount' /\ ItemsInRing'
  BY DEF BoundedInv, SemaphoresCount, ItemsInRing, Past, Done, MutexDestroy
<1> QED
  BY <1>1, <1>2 DEF BoundedInv

LEMMA BoundedInvNext == BoundedInv /\ [BoundedNext]_boundedVars => BoundedInv'
<1> SUFFICES ASSUME BoundedInv, [BoundedNext]_boundedVars PROVE BoundedInv'
  OBVIOUS
<1>1. CASE UNCHANGED boundedVars
  BY <1>1 DEF boundedVars, BoundedInv, BoundedTypeOK, SemaphoresCount, ItemsInRing,
     HolderInside, Past, Done
<1>2. CASE BoundedNext
  BY <1>2, SemWaitStep, MutexLockStep, AccessBufStep, SemPostStep, MutexDestroyStep
     DEF BoundedNext
<1> QED
  BY <1>1, <1>2

(* The consumer reads every item once and in order, and until it has read  *)
(* the last one the two threads never block each other, although main()    *)
(* destroys the mutex under them.                                          *)
THEOREM ConsumerAlwaysReadsAll == BoundedSpec => []ConsumerReadsAll
<1>1. BoundedInv => ConsumerReadsAll
  <2> SUFFICES ASSUME BoundedInv, Len(reader_results) < bitems
               PROVE  \E t \in BThreads :
                        CASE bpc[t] = "wait" -> bi[t] < bitems
                                 /\ (IF t = "producer" THEN vacio ELSE lleno) > 0
                          [] bpc[t] = "lock" -> bmutex \in {"free", "destroyed"}
                          [] OTHER -> TRUE
    BY DEF BoundedInv, BoundedTypeOK, ItemsInRing, ConsumerReadsAll
  <2> USE DEF BoundedInv
  <2>1. CASE \E t \in BThreads : bpc[t] \in {"access", "post"}
    BY <2>1
  <2>2. CASE \A t \in BThreads : bpc[t] \in {"wait", "lock"}
    <3>1. bmutex \in {"free", "destroyed"}
      BY <2>2 DEF BoundedTypeOK, HolderInside, BThreads
    <3>2. CASE \E t \in BThreads : bpc[t] = "lock"
      BY <3>1, <3>2
    <3>3. CASE \A t \in BThreads : bpc[t] = "wait"
      <4>1. /\ bi["consumer"] \in Nat /\ bi["producer"] \in Nat
            /\ lleno \in Nat /\ vacio \in Nat /\ bsize \in Nat \ {0}
            /\ bpc["consumer"] = "wait" /\ bpc["producer"] = "wait"
        BY <3>3 DEF BoundedTypeOK, BThreads
      <4>2. /\ lleno = bi["producer"] - bi["consumer"]
            /\ vacio = bsize - (bi["producer"] - bi["consumer"])
            /\ bi["consumer"] < bitems
        BY <4>1 DEF SemaphoresCount, Past, ItemsInRing, Done
      <4>3. CASE lleno > 0
        BY <4>1, <4>2, <4>3 DEF BThreads
      <4>4. CASE lleno = 0
        <5>1. vacio > 0 /\ bi["producer"] < bitems
          BY <4>1, <4>2, <4>4
        <5> QED
          BY <4>1, <5>1 DEF BThreads
      <4> QED
        BY <4>1, <4>3, <4>4
    <3> QED
      BY <2>2, <3>2, <3>3
  <2> QED
    BY <2>1, <2>2 DEF BoundedTypeOK, BPcs
<1> QED
  BY <1>1, BoundedInvInit, BoundedInvNext, PTL DEF BoundedSpec

------------------------------------------------------------------------------
(* forkprio.c.  A father who waits or kills has every pid, and a loop that *)
(* is interrupted starts over, so the children before its k are served.    *)

FatherPcs == {"fork", "wait", "kill", "handler", "exit", "died"}
KidPcs == {"none", "born", "term", "busy", "reported", "killed"}
FatherKs == 1..(MaxChilds + 1)
Father == [pc : FatherPcs, k : FatherKs, p : {1, -1}, int : BOOLEAN]

ForkTypeOK ==
  /\ childs \in 0..MaxChilds
  /\ father \in Father
  /\ pids \in [Kids -> Int]
  /\ kid \in [Kids -> [pc : KidPcs, pend : SUBSET {"TERM", "INT"}]]

Served(k) == kid[k].pc \in Ended \/ "TERM" \in kid[k].pend

(* pids[] is filled as far as the loop has come, as long as no fork fails. *)
PidsFilled ==
  /\ father.pc = "fork" => father.k <= childs + 1
  /\ father.p = 1 /\ father.pc # "died" =>
       \A j \in 1..childs : father.pc # "fork" \/ j < father.k => pids[j] = j
  /\ father.pc \in {"wait", "kill", "handler"} => father.p = 1

KillsInOrder ==
  /\ father.pc \in {"kill", "handler"} => \A j \in 1..childs : j < father.k => Served(j)
  /\ father.pc = "exit" /\ father.p = 1 => \A j \in 1..childs : Served(j)

ForkInv == ForkTypeOK /\ ~stray /\ PidsFilled /\ KillsInOrder

LEMMA FatherFields ==
  ASSUME ForkTypeOK
  PROVE  /\ father.pc \in FatherPcs /\ father.k \in 1..(MaxChilds + 1) /\ father.p \in {1, -1}
         /\ father.int \in BOOLEAN /\ childs \in Nat /\ MaxChilds \in Nat /\ childs <= MaxChilds
         /\ \A j \in 1..childs : j \in Kids
BY ForkPrioAssumption DEF ForkTypeOK, Father, FatherKs, Kids

LEMMA FatherUpdates ==
  ASSUME ForkTypeOK, NEW c \in FatherPcs, NEW n \in FatherKs
  PROVE  /\ LET f == [father EXCEPT !.pc = c, !.k = n]
            IN  f \in Father /\ f.pc = c /\ f.k = n /\ f.p = father.p
         /\ LET f == [father EXCEPT !.k = n, !.p = -1]
            IN  f \in Father /\ f.pc = father.pc /\ f.k = n /\ f.p = -1
         /\ LET f == [father EXCEPT !.int = FALSE, !.k = n, !.pc = c]
            IN  f \in Father /\ f.pc = c /\ f.k = n /\ f.p = father.p
         /\ LET f == [father EXCEPT !.int = TRUE]
            IN  f \in Father /\ f.pc = father.pc /\ f.k = father.k /\ f.p = father.p
BY DEF ForkTypeOK, Father

LEMMA ForkInvInit == ForkInit => ForkInv
<1> SUFFICES ASSUME ForkInit PROVE ForkInv
  OBVIOUS
<1>1. ForkTypeOK
  BY ForkPrioAssumption DEF ForkInit, ForkTypeOK, Kids, Father, FatherKs, FatherPcs, KidPcs
<1>2. PidsFilled /\ KillsInOrder /\ ~stray
  BY ForkPrioAssumption DEF ForkInit, PidsFilled, KillsInOrder
<1> QED
  BY <1>1, <1>2 DEF ForkInv

(* A child that is served stays so: SIGTERM pending until it ends it.      *)
LEMMA ChildStep ==
  ASSUME ForkInv, NEW k \in Kids,
         ChildSigaction(k) \/ \E s \in {"TERM", "INT"} : ChildSignal(k, s)
  PROVE  ForkInv'
<1>1. UNCHANGED <<childs, father, pids, stray>>
  BY DEF ChildSigaction, ChildSignal
<1>2. ForkTypeOK'
  <2>1. CASE ChildSigaction(k)
    BY <2>1, <1>1 DEF ForkInv, ForkTypeOK, ChildSigaction, KidPcs
  <2>2. ASSUME NEW s \in {"TERM", "INT"}, ChildSignal(k, s) PROVE ForkTypeOK'
    BY <2>2, <1>1 DEF ForkInv, ForkTypeOK, ChildSignal, KidPcs, Ended
  <2> QED
    BY <2>1, <2>2
<1>3. ASSUME NEW j \in Kids, Served(j) PROVE Served(j)'
  <2>1. CASE j # k
    BY <1>3, <2>1 DEF ForkInv, ForkTypeOK, ChildSigaction, ChildSignal, Served
  <2>2. CASE j = k /\ ChildSigaction(k)
    BY <1>3, <2>2 DEF ForkInv, ForkTypeOK, ChildSigaction, Served, Ended
  <2>3. ASSUME j = k, NEW s \in {"TERM", "INT"}, ChildSignal(k, s) PROVE Served(j)'
    BY <1>3, <2>3 DEF ForkInv, ForkTypeOK, ChildSignal, Served, Ended
  <2> QED
    BY <2>1, <2>2, <2>3
<1>4. \A j \in 1..childs : j \in Kids
  BY FatherFields DEF ForkInv
<1>5. PidsFilled'
  BY <1>1 DEF ForkInv, PidsFilled
<1>6. KillsInOrder'
  BY <1>1, <1>3, <1>4 DEF ForkInv, KillsInOrder
<1> QED
  BY <1>1, <1>2, <1>5, <1>6 DEF ForkInv

LEMMA ForkChildStep ==
  ASSUME ForkInv, ForkChild
  PROVE  ForkInv'
<1> DEFINE k == father.k
<1>1. /\ father.pc = "fork" /\ "fork" \in FatherPcs /\ k \in 1..childs /\ k \in Kids
      /\ k + 1 \in FatherKs /\ k + 1 <= childs + 1
      /\ father.p \in {1, -1} /\ UNCHANGED <<childs, stray>>
  BY FatherFields DEF ForkInv, ForkChild, FatherKs, FatherPcs
<1> HIDE DEF k
<1>2. CASE /\ pids' = [pids EXCEPT ![k] = k] /\ kid' = [kid EXCEPT ![k].pc = "born"]
           /\ father' = [father EXCEPT !.pc = "fork", !.k = k + 1]
  <2>1. father' \in Father /\ father'.pc = "fork" /\ father'.k = k + 1 /\ father'.p = father.p
    BY <1>1, <1>2, FatherUpdates DEF ForkInv
  <2>2. ForkTypeOK'
    BY <1>1, <1>2, <2>1 DEF ForkInv, ForkTypeOK, KidPcs
  <2>3. ASSUME father.p = 1, NEW j \in 1..childs, j < k + 1 PROVE pids'[j] = j
    <3>1. j \in Kids /\ (j < k \/ j = k)
      BY <1>1, <2>3, FatherFields DEF ForkInv
    <3> QED
      BY <1>1, <1>2, <2>3, <3>1 DEF ForkInv, ForkTypeOK, PidsFilled, k
  <2>4. PidsFilled'
    BY <1>1, <2>1, <2>3 DEF PidsFilled
  <2> QED
    BY <1>1, <2>1, <2>2, <2>4 DEF ForkInv, KillsInOrder
<1>3. CASE /\ pids' = [pids EXCEPT ![k] = -1] /\ UNCHANGED kid
           /\ father' = [father EXCEPT !.k = k + 1, !.p = -1]
  <2>1. father' \in Father /\ father'.pc = "fork" /\ father'.k = k + 1 /\ father'.p = -1
    BY <1>1, <1>3, FatherUpdates DEF ForkInv
  <2>2. ForkTypeOK'
    BY <1>1, <1>3, <2>1 DEF ForkInv, ForkTypeOK
  <2> QED
    BY <1>1, <1>3, <2>1, <2>2 DEF ForkInv, PidsFilled, KillsInOrder
<1>4. CASE /\ father.p <= 0 /\ UNCHANGED <<pids, kid>>
           /\ father' = [father EXCEPT !.pc = "fork", !.k = k + 1]
  <2>1. father' \in Father /\ father'.pc = "fork" /\ father'.k = k + 1 /\ father'.p = -1
    <3>1. father.p = -1
      BY <1>1, <1>4
    <3> QED
      BY <1>1, <1>4, <3>1, FatherUpdates DEF ForkInv
  <2>2. ForkTypeOK'
    BY <1>1, <1>4, <2>1 DEF ForkInv, ForkTypeOK
  <2> QED
    BY <1>1, <1>4, <2>1, <2>2 DEF ForkInv, PidsFilled, KillsInOrder
<1> QED
  BY <1>2, <1>3, <1>4 DEF ForkChild, FatherTo, k

(* The moves of the father that touch no child.                            *)
LEMMA FatherMoves ==
  ASSUME ForkInv, FatherSigaction \/ FatherSleeps \/ FatherSignal
  PROVE  ForkInv'
<1>1. UNCHANGED <<childs, pids, kid, stray>>
  BY DEF FatherSigaction, FatherSleeps, FatherSignal
<1>2. 1 \in FatherKs
  BY FatherFields DEF ForkInv, FatherKs
<1>3. /\ father' \in Father /\ father'.p = father.p /\ father'.k = 1
      /\ \/ father.pc = "fork" /\ father.k > childs /\ father.p > 0 /\ father'.pc = "wait"
         \/ father.pc = "fork" /\ ~(father.p > 0) /\ father'.pc = "exit"
         \/ father.pc = "wait" /\ father'.pc = "kill"
         \/ father.pc = "fork" /\ father'.pc = "died"
         \/ father.pc \in {"wait", "kill"} /\ father'.pc = "handler"
  <2>1. CASE FatherSigaction
    <3>1. "wait" \in FatherPcs /\ "exit" \in FatherPcs
      BY DEF FatherPcs
    <3>2. CASE father.p > 0
      <4>1. father' = [father EXCEPT !.pc = "wait", !.k = 1]
        BY <2>1, <3>2, Zenon DEF FatherSigaction, FatherTo
      <4>2. father' \in Father /\ father'.p = father.p /\ father'.k = 1 /\ father'.pc = "wait"
        BY <1>2, <3>1, <4>1, FatherUpdates, ZenonT(60) DEF ForkInv
      <4> QED
        BY <2>1, <3>2, <4>2 DEF FatherSigaction
    <3>3. CASE ~(father.p > 0)
      <4>1. father' = [father EXCEPT !.pc = "exit", !.k = 1]
        BY <2>1, <3>3, Zenon DEF FatherSigaction, FatherTo
      <4>2. father' \in Father /\ father'.p = father.p /\ father'.k = 1 /\ father'.pc = "exit"
        BY <1>2, <3>1, <4>1, FatherUpdates, ZenonT(60) DEF ForkInv
      <4> QED
        BY <2>1, <3>3, <4>2 DEF FatherSigaction
    <3> QED
      BY <3>2, <3>3
  <2>2. CASE FatherSleeps
    <3>1. "kill" \in FatherPcs
      BY DEF FatherPcs
    <3> QED
      BY <1>2, <2>2, <3>1, FatherUpdates DEF ForkInv, FatherSleeps, FatherTo
  <2>3. CASE FatherSignal
    <3>1. "died" \in FatherPcs /\ "handler" \in FatherPcs
      BY DEF FatherPcs
    <3>2. CASE father.pc = "fork"
      <4>1. father' = [father EXCEPT !.int = FALSE, !.k = 1, !.pc = "died"]
        BY <2>3, <3>2 DEF FatherSignal
      <4> QED
        BY <1>2, <3>1, <3>2, <4>1, FatherUpdates, ZenonT(60) DEF ForkInv
    <3>3. CASE father.pc # "fork"
      <4>1. father' = [father EXCEPT !.int = FALSE, !.k = 1, !.pc = "handler"]
        BY <2>3, <3>3 DEF FatherSignal
      <4>2. father' \in Father /\ father'.p = father.p /\ father'.k = 1 /\ father'.pc = "handler"
        BY <1>2, <3>1, <4>1, FatherUpdates, ZenonT(60) DEF ForkInv
      <4> QED
        BY <2>3, <3>3, <4>2 DEF FatherSignal
    <3> QED
      BY <3>2, <3>3
  <2> QED
    BY <2>1, <2>2, <2>3
<1>4. ForkTypeOK'
  BY <1>1, <1>3 DEF ForkInv, ForkTypeOK
<1>5. childs \in Nat /\ father.p \in {1, -1} /\ father.k \in Nat
  BY FatherFields DEF ForkInv
<1>6. PidsFilled'
  BY <1>1, <1>3, <1>5 DEF ForkInv, PidsFilled
<1>7. KillsInOrder'
  BY <1>1, <1>3, <1>5 DEF ForkInv, KillsInOrder
<1> QED
  BY <1>1, <1>4, <1>6, <1>7 DEF ForkInv

LEMMA FatherKillsStep ==
  ASSUME ForkInv, FatherKills
  PROVE  ForkInv'
<1> DEFINE k == father.k
<1>1. /\ father.pc \in {"kill", "handler"} /\ father.p = 1 /\ k \in Nat /\ k > 0
      /\ UNCHANGED <<childs, pids>>
  BY FatherFields DEF ForkInv, PidsFilled, FatherKills
<1>2. \A j \in 1..childs : pids[j] = j
  BY <1>1 DEF ForkInv, PidsFilled
<1> HIDE DEF k
<1>3. CASE k <= childs
  <2>1. pids[k] = k /\ k \in Kids /\ k \in 1..childs /\ k + 1 \in FatherKs /\ father.pc \in FatherPcs
    BY <1>1, <1>2, <1>3, FatherFields DEF ForkInv, FatherKs
  <2>2. /\ stray' = (stray \/ pids[k] <= 0)
        /\ father' = [father EXCEPT !.pc = father.pc, !.k = k + 1]
        /\ kid' = [j \in Kids |-> [kid[j] EXCEPT
                     !.pend = IF pids[k] \in {-1, 0, j} THEN @ \cup {"TERM"} ELSE @]]
    <3>1. ~(k > childs)
      BY <1>1, <1>3, FatherFields DEF ForkInv
    <3> QED
      BY <3>1 DEF FatherKills, FatherTo, k
  <2>3. ~stray'
    <3>1. ~(pids[k] <= 0)
      BY <1>1, <2>1
    <3> QED
      BY <2>2, <3>1, Zenon DEF ForkInv
  <2>4. father' \in Father /\ father'.pc = father.pc /\ father'.k = k + 1 /\ father'.p = 1
    BY <1>1, <2>1, <2>2, FatherUpdates DEF ForkInv
  <2>5. ForkTypeOK'
    BY <1>1, <2>2, <2>4 DEF ForkInv, ForkTypeOK
  <2>6. \A j \in Kids : Served(j) \/ j = k => Served(j)'
    BY <2>1, <2>2 DEF ForkInv, ForkTypeOK, Served
  <2>7. PidsFilled'
    BY <1>1, <1>2, <2>4 DEF PidsFilled
  <2>8. KillsInOrder'
    <3>1. ASSUME NEW j \in 1..childs, j < k + 1 PROVE Served(j)'
      <4>1. j \in Kids /\ (j < k \/ j = k)
        BY <1>1, <3>1, FatherFields DEF ForkInv
      <4> QED
        BY <1>1, <2>6, <4>1 DEF ForkInv, KillsInOrder, k
    <3> QED
      BY <1>1, <2>4, <3>1 DEF KillsInOrder
  <2> QED
    BY <2>3, <2>5, <2>7, <2>8 DEF ForkInv
<1>4. CASE k > childs
  <2>1. /\ stray' = stray /\ kid' = kid
        /\ father' = [father EXCEPT !.pc = "exit", !.k = 1]
    <3>1. ~(k <= childs)
      BY <1>1, <1>4, FatherFields DEF ForkInv
    <3> QED
      BY <3>1 DEF FatherKills, FatherTo, k
  <2>2. father' \in Father /\ father'.pc = "exit" /\ father'.p = 1
    <3>1. "exit" \in FatherPcs /\ 1 \in FatherKs
      BY FatherFields DEF ForkInv, FatherPcs, FatherKs
    <3> QED
      BY <1>1, <2>1, <3>1, FatherUpdates DEF ForkInv
  <2>3. ForkTypeOK'
    BY <1>1, <2>1, <2>2 DEF ForkInv, ForkTypeOK
  <2>4. PidsFilled'
    BY <1>1, <1>2, <2>2 DEF PidsFilled
  <2>5. \A j \in 1..childs : Served(j)
    <3>1. \A j \in 1..childs : j < k
      BY <1>1, <1>4, FatherFields DEF ForkInv
    <3> QED
      BY <1>1, <3>1 DEF ForkInv, KillsInOrder, k
  <2>6. KillsInOrder'
    BY <1>1, <2>1, <2>2, <2>5 DEF KillsInOrder, Served
  <2> QED
    BY <2>1, <2>3, <2>4, <2>6 DEF ForkInv
<1> QED
  BY <1>1, <1>3, <1>4, FatherFields DEF ForkInv

LEMMA TerminalStep ==
  ASSUME ForkInv, Terminal
  PROVE  ForkInv'
<1>1. /\ UNCHANGED <<childs, pids, stray>> /\ father' \in Father
      /\ father'.pc = father.pc /\ father'.k = father.k /\ father'.p = father.p
  BY FatherUpdates, FatherFields DEF ForkInv, FatherKs, Terminal
<1>2. ForkTypeOK'
  BY <1>1 DEF ForkInv, ForkTypeOK, Terminal
<1>3. \A j \in Kids : Served(j) => Served(j)'
  BY DEF ForkInv, ForkTypeOK, Served, Terminal
<1>4. \A j \in 1..childs : j \in Kids
  BY FatherFields DEF ForkInv
<1>5. PidsFilled' /\ KillsInOrder'
  BY <1>1, <1>3, <1>4 DEF ForkInv, PidsFilled, KillsInOrder
<1> QED
  BY <1>1, <1>2, <1>5 DEF ForkInv

LEMMA ForkInvNext == ForkInv /\ [ForkNext]_forkVars => ForkInv'
<1> SUFFICES ASSUME ForkInv, [ForkNext]_forkVars PROVE ForkInv'
  OBVIOUS
<1>1. CASE UNCHANGED forkVars
  BY <1>1 DEF forkVars, ForkInv, ForkTypeOK, PidsFilled, KillsInOrder, Served
<1>2. CASE ForkNext
  BY <1>2, ChildStep, ForkChildStep, FatherMoves, FatherKillsStep, TerminalStep DEF ForkNext
<1> QED
  BY <1>1, <1>2

(* A father who got as far as waiting ends all his children and signals    *)
(* nobody else, for any number of them and wherever ^C interrupts him.     *)
THEOREM FatherLeavesNoChild == ForkSpec => []NoChildLeft
<1>1. ForkInv => NoChildLeft
  <2> SUFFICES ASSUME ForkInv, father.pc = "exit", father.p > 0, NEW k \in 1..childs
               PROVE  Served(k)
    BY DEF ForkInv, NoChildLeft, Served
  <2>1. father.p = 1
    BY FatherFields DEF ForkInv
  <2> QED
    BY <2>1 DEF ForkInv, KillsInOrder
<1> QED
  BY <1>1, ForkInvInit, ForkInvNext, PTL DEF ForkSpec

------------------------------------------------------------------------------
(* uthreadlib.c.  How far an entry lies behind another one, round the      *)
(* table.                                                                  *)
Round(t, u) == IF t <= u THEN u - t ELSE u - t + MAX_THREAD

ThreadTypeOK ==
  /\ tstate \in [Threads -> {"FREE", "RUNNABLE", "RUNNING"}]
  /\ current_thread \in Threads
  /\ last_index \in Threads
  /\ ran \in [Threads -> SUBSET Threads]
  /\ uphase \in {"create", "waiting", "exited", "overrun"}

(* main is never RUNNABLE, and starts the search at its own entry.         *)
MainRuns ==
  /\ tstate[0] = "RUNNING"
  /\ uphase = "create" => /\ current_thread = 0 /\ last_index = 0
                          /\ \A t \in Threads : ran[t] = {}

(* Those that ran since a waiting thread last did lie between it and the   *)
(* last one chosen.                                                        *)
TurnsInOrder ==
  uphase = "waiting" /\ current_thread # 0 =>
    /\ last_index = current_thread
    /\ tstate[current_thread] = "RUNNING" /\ ran[current_thread] = {}
    /\ \A t \in Threads : tstate[t] = "RUNNABLE" =>
         \A u \in ran[t] : Round(t, u) <= Round(t, last_index)

ThreadInv == ThreadTypeOK /\ MainRuns /\ TurnsInOrder

(* What the search of thread_schedule() returns.                           *)
LEMMA Indices ==
  ASSUME NEW l \in Threads, NEW i \in 1..(MAX_THREAD - 1)
  PROVE  /\ (l + i) % MAX_THREAD = IF l + i < MAX_THREAD THEN l + i ELSE l + i - MAX_THREAD
         /\ (l + i) % MAX_THREAD \in Threads
BY UThreadAssumption DEF Threads

LEMMA SearchFinds ==
  ASSUME last_index \in Threads, NEW ts
  PROVE  LET n == NextRunnable(ts) IN
         \/ /\ n = -1
            /\ \A t \in Threads : t # last_index => ts[t] # "RUNNABLE" \/ t = current_thread
         \/ /\ n \in Threads /\ ts[n] = "RUNNABLE" /\ n # current_thread /\ n # last_index
            /\ \A t \in Threads :
                 ts[t] = "RUNNABLE" /\ t # current_thread /\ t # n
                 => Round(t, last_index) < Round(t, n) \/ t = last_index
<1> DEFINE indice(i) == (last_index + i) % MAX_THREAD
           Fits(i) == ts[indice(i)] = "RUNNABLE" /\ indice(i) # current_thread
           found == {i \in 1..(MAX_THREAD - 1) : Fits(i)}
<1>1. NextRunnable(ts) = IF found = {} THEN -1
                         ELSE indice(CHOOSE i \in found : \A j \in found : i <= j)
  BY DEF NextRunnable
<1>2. \A t \in Threads : t # last_index => \E i \in 1..(MAX_THREAD - 1) : t = indice(i)
  <2> SUFFICES ASSUME NEW t \in Threads, t # last_index
               PROVE  \E i \in 1..(MAX_THREAD - 1) : t = indice(i)
    OBVIOUS
  <2> DEFINE i == IF last_index < t THEN t - last_index ELSE t - last_index + MAX_THREAD
  <2>1. i \in 1..(MAX_THREAD - 1)
    BY UThreadAssumption DEF Threads
  <2>2. t = IF last_index + i < MAX_THREAD THEN last_index + i ELSE last_index + i - MAX_THREAD
    BY UThreadAssumption DEF Threads
  <2> HIDE DEF i
  <2>3. t = indice(i)
    BY <2>1, <2>2, Indices
  <2> QED
    BY <2>1, <2>3
<1>3. CASE found = {}
  <2>1. \A i \in 1..(MAX_THREAD - 1) : ~Fits(i)
    BY <1>3
  <2> QED
    BY <1>1, <1>2, <1>3, <2>1
<1>4. CASE found # {}
  <2> DEFINE i == CHOOSE i \in found : \A j \in found : i <= j
  <2>1. found \in SUBSET Nat
    BY UThreadAssumption
  <2>2. i \in found /\ \A j \in found : i <= j
    <3> HIDE DEF found
    <3>1. \E x \in found : \A y \in found : x <= y
      BY <1>4, <2>1, LeastExists
    <3> QED
      BY <3>1
  <2>3. NextRunnable(ts) = indice(i)
    BY <1>1, <1>4
  <2> HIDE DEF i
  <2>4. i \in 1..(MAX_THREAD - 1) /\ Fits(i)
    BY <2>2
  <2> DEFINE n == indice(i)
  <2>5. /\ n = IF last_index + i < MAX_THREAD THEN last_index + i ELSE last_index + i - MAX_THREAD
        /\ n \in Threads
    BY <2>4, Indices
  <2>6. n # last_index
    BY <2>4, <2>5, UThreadAssumption DEF Threads
  <2>7. ASSUME NEW t \in Threads, ts[t] = "RUNNABLE", t # current_thread, t # n,
               t # last_index
        PROVE  Round(t, last_index) < Round(t, n)
    <3>1. PICK j \in 1..(MAX_THREAD - 1) : t = indice(j)
      BY <1>2, <2>7
    <3>2. j \in found
      BY <2>7, <3>1
    <3>3. i < j
      <4>1. i <= j
        BY <2>2, <3>2
      <4>2. i # j
        BY <2>7, <3>1
      <4> QED
        BY <2>4, <4>1, <4>2
    <3>4. t = IF last_index + j < MAX_THREAD THEN last_index + j ELSE last_index + j - MAX_THREAD
      BY <3>1, Indices
    <3> HIDE DEF n
    <3> QED
      BY <2>4, <2>5, <3>3, <3>4, UThreadAssumption DEF Threads, Round
  <2> QED
    BY <2>3, <2>4, <2>5, <2>6, <2>7
<1> QED
  BY <1>3, <1>4

LEMMA ThreadStart == ThreadInit => ThreadInv
<1> SUFFICES ASSUME ThreadInit PROVE ThreadInv
  OBVIOUS
<1>1. 0 \in Threads
  BY UThreadAssumption DEF Threads
<1> QED
  BY <1>1 DEF ThreadInit, ThreadInv, ThreadTypeOK, MainRuns, TurnsInOrder

(* What thread_schedule() does when the states are ts, in which the caller *)
(* is no longer RUNNING unless it is main.                                 *)
LEMMA ScheduleStep ==
  ASSUME ThreadTypeOK, NEW ts \in [Threads -> {"FREE", "RUNNABLE", "RUNNING"}],
         ts[0] = "RUNNING", last_index = current_thread, ran[current_thread] = {},
         \A t \in Threads : t # current_thread /\ ts[t] = "RUNNABLE" =>
           \A u \in ran[t] : Round(t, u) <= Round(t, last_index),
         Thread_schedule(ts), uphase' = "waiting"
  PROVE  /\ ThreadInv'
         /\ \A t \in Threads : t # current_thread /\ ts[t] = "RUNNABLE" /\ t # current_thread'
              => current_thread' \notin ran[t]
<1> DEFINE n == NextRunnable(ts)
           next == IF n = -1 THEN 0 ELSE n
<1>0. 0 \in Threads /\ -1 \notin Threads
  BY UThreadAssumption DEF Threads
<1>1. /\ last_index' = IF n = -1 THEN last_index ELSE n
      /\ current_thread' = next
      /\ tstate' = IF next = current_thread THEN ts ELSE [ts EXCEPT ![next] = "RUNNING"]
      /\ ran' = [t \in Threads |->
                   IF t = next \/ ts[t] # "RUNNABLE" THEN {} ELSE ran[t] \cup {next}]
  BY DEF Thread_schedule
<1>2. \/ /\ n = -1
         /\ \A t \in Threads : t # last_index => ts[t] # "RUNNABLE" \/ t = current_thread
      \/ /\ n \in Threads /\ ts[n] = "RUNNABLE" /\ n # current_thread /\ n # last_index
         /\ \A t \in Threads :
              ts[t] = "RUNNABLE" /\ t # current_thread /\ t # n
              => Round(t, last_index) < Round(t, n) \/ t = last_index
  BY SearchFinds DEF ThreadTypeOK
<1> HIDE DEF n
<1>3. next \in Threads /\ last_index' \in Threads
  BY <1>0, <1>1, <1>2 DEF ThreadTypeOK
<1>4. ran' \in [Threads -> SUBSET Threads]
  BY <1>1, <1>3 DEF ThreadTypeOK
<1>5. /\ tstate' \in [Threads -> {"FREE", "RUNNABLE", "RUNNING"}]
      /\ tstate'[0] = "RUNNING"
      /\ \A t \in Threads : t # next => tstate'[t] = ts[t]
  BY <1>0, <1>1, <1>3
<1>6. ThreadTypeOK' /\ MainRuns'
  BY <1>1, <1>3, <1>4, <1>5 DEF ThreadTypeOK, MainRuns
<1>7. ASSUME NEW t \in Threads, t # next, ts[t] = "RUNNABLE", n # -1
      PROVE  /\ \A u \in ran[t] : Round(t, u) < Round(t, next)
             /\ next \notin ran[t]
  <2>1. next = n
    BY <1>7
  <2>2. CASE t = current_thread
    BY <2>2
  <2>3. CASE t # current_thread
    <3>1. Round(t, last_index) < Round(t, next)
      BY <1>2, <1>7, <2>1, <2>3
    <3>2. \A u \in ran[t] : u \in Threads /\ Round(t, u) <= Round(t, last_index)
      BY <1>7, <2>3 DEF ThreadTypeOK
    <3>3. \A u \in Threads : Round(t, u) \in Int
      BY UThreadAssumption DEF Threads, Round
    <3>4. \A u \in ran[t] : Round(t, u) < Round(t, next)
      BY <1>3, <3>1, <3>2, <3>3 DEF ThreadTypeOK
    <3> QED
      BY <1>3, <3>3, <3>4
  <2> QED
    BY <2>2, <2>3
<1>8. TurnsInOrder'
  <2> SUFFICES ASSUME next # 0
               PROVE  /\ last_index' = next
                      /\ tstate'[next] = "RUNNING" /\ ran'[next] = {}
                      /\ \A t \in Threads : tstate'[t] = "RUNNABLE" =>
                           \A u \in ran'[t] : Round(t, u) <= Round(t, next)
    BY <1>1 DEF TurnsInOrder, Round
  <2>1. n # -1 /\ next = n /\ n # current_thread
    BY <1>2
  <2>2. tstate'[next] = "RUNNING"
    BY <1>1, <1>3, <2>1
  <2>3. ASSUME NEW t \in Threads, tstate'[t] = "RUNNABLE", NEW u \in ran'[t]
        PROVE  Round(t, u) <= Round(t, next)
    <3>1. t # next /\ ts[t] = "RUNNABLE"
      BY <1>5, <2>2, <2>3
    <3>2. u \in ran[t] \/ u = next
      BY <1>1, <2>3, <3>1
    <3>3. u \in ran[t] => Round(t, u) < Round(t, next)
      BY <1>7, <2>1, <3>1
    <3>4. Round(t, u) \in Int /\ Round(t, next) \in Int
      BY <1>3, <1>4, <2>3, UThreadAssumption DEF Threads, Round
    <3> QED
      BY <3>2, <3>3, <3>4
  <2> QED
    BY <1>1, <1>3, <2>1, <2>2, <2>3
<1>9. ASSUME NEW t \in Threads, t # current_thread, ts[t] = "RUNNABLE", t # next
      PROVE  next \notin ran[t]
  <2>0. t # last_index /\ -1 \notin Threads
    BY <1>0, <1>9
  <2>1. n # -1
    <3> SUFFICES ASSUME n = -1 PROVE FALSE
      OBVIOUS
    <3>1. ts[t] # "RUNNABLE" \/ t = current_thread
      BY <1>0, <1>2, <2>0
    <3> QED
      BY <1>9, <3>1
  <2> QED
    BY <1>7, <1>9, <2>1
<1> QED
  BY <1>1, <1>6, <1>8, <1>9 DEF ThreadInv

LEMMA ThreadStep ==
  ASSUME ThreadInv, ThreadNext
  PROVE  /\ ThreadInv'
         /\ \A t \in Threads :
              uphase = "waiting" /\ current_thread' # current_thread
                /\ tstate[t] = "RUNNABLE" /\ t # current_thread'
              => current_thread' \notin ran[t]
<1> USE DEF ThreadInv
<1>0. 0 \in Threads
  BY UThreadAssumption DEF Threads
<1>1. CASE Thread_create
  <2>1. UNCHANGED <<current_thread, last_index, ran>> /\ uphase = "create"
    BY <1>1 DEF Thread_create
  <2> DEFINE unused == {t \in Threads : tstate[t] = "FREE"}
             c == CHOOSE t \in unused : \A u \in unused : t <= u
  <2>2. CASE unused = {}
    <3>1. uphase' = "overrun" /\ tstate' = tstate
      BY <1>1, <2>2 DEF Thread_create
    <3> QED
      BY <2>1, <3>1 DEF ThreadTypeOK, MainRuns, TurnsInOrder
  <2>3. CASE unused # {}
    <3>1. uphase' = uphase /\ tstate' = [tstate EXCEPT ![c] = "RUNNABLE"]
      BY <1>1, <2>3 DEF Thread_create
    <3>2. c \in unused
      <4>1. unused \in SUBSET Nat
        BY UThreadAssumption DEF Threads
      <4> HIDE DEF unused
      <4>2. \E x \in unused : \A y \in unused : x <= y
        BY <2>3, <4>1, LeastExists
      <4> QED
        BY <4>2
    <3> HIDE DEF c
    <3>3. c \in Threads /\ c # 0
      BY <3>2 DEF MainRuns
    <3>4. tstate'[0] = "RUNNING"
      BY <1>0, <3>1, <3>3 DEF MainRuns, ThreadTypeOK
    <3>5. ThreadTypeOK' /\ MainRuns'
      BY <2>1, <3>1, <3>3, <3>4 DEF ThreadTypeOK, MainRuns
    <3> QED
      BY <2>1, <3>1, <3>5 DEF TurnsInOrder
  <2> QED
    BY <2>2, <2>3
<1>2. CASE MainSchedules
  <2>1. /\ uphase' = "waiting" /\ uphase = "create" /\ Thread_schedule(tstate)
        /\ current_thread = 0 /\ last_index = current_thread
        /\ \A t \in Threads : ran[t] = {}
    BY <1>2 DEF MainSchedules, MainRuns
  <2>2. tstate[0] = "RUNNING" /\ tstate \in [Threads -> {"FREE", "RUNNABLE", "RUNNING"}]
    BY DEF MainRuns, ThreadTypeOK
  <2>3. ran[current_thread] = {}
    BY <1>0, <2>1
  <2>4. ThreadInv'
    BY <2>1, <2>2, <2>3, ScheduleStep
  <2> QED
    BY <2>1, <2>4
<1>3. ASSUME NEW ts, NEW s \in {"FREE", "RUNNABLE"},
             ts = [tstate EXCEPT ![current_thread] = s],
             uphase = "waiting", current_thread # 0, Thread_schedule(ts), uphase' = "waiting"
      PROVE  /\ ThreadInv'
             /\ \A t \in Threads : tstate[t] = "RUNNABLE" /\ t # current_thread'
                  => current_thread' \notin ran[t]
  <2>1. /\ last_index = current_thread /\ ran[current_thread] = {}
        /\ tstate[current_thread] = "RUNNING"
        /\ \A t \in Threads : tstate[t] = "RUNNABLE" =>
             \A u \in ran[t] : Round(t, u) <= Round(t, last_index)
    BY <1>3 DEF TurnsInOrder
  <2>2. /\ ts \in [Threads -> {"FREE", "RUNNABLE", "RUNNING"}]
        /\ \A t \in Threads : t # current_thread => ts[t] = tstate[t]
    BY <1>3 DEF ThreadTypeOK
  <2>3. ts[0] = "RUNNING"
    BY <1>0, <1>3, <2>2 DEF MainRuns
  <2>4. \A t \in Threads : t # current_thread /\ ts[t] = "RUNNABLE" =>
           \A u \in ran[t] : Round(t, u) <= Round(t, last_index)
    BY <2>1, <2>2
  <2>5. /\ ThreadInv'
        /\ \A t \in Threads : t # current_thread /\ ts[t] = "RUNNABLE" /\ t # current_thread'
             => current_thread' \notin ran[t]
    BY <1>3, <2>1, <2>2, <2>3, <2>4, ScheduleStep
  <2>6. \A t \in Threads : tstate[t] = "RUNNABLE" => t # current_thread /\ ts[t] = "RUNNABLE"
    BY <2>1, <2>2
  <2> QED
    BY <2>5, <2>6
<1>4. CASE Thread_yield
  <2>1. /\ uphase = "waiting" /\ uphase' = "waiting" /\ current_thread # 0
        /\ Thread_schedule([tstate EXCEPT ![current_thread] = "RUNNABLE"])
    BY <1>4 DEF Thread_yield
  <2> QED
    BY <1>3, <2>1
<1>5. CASE Thread_exit
  <2>1. /\ uphase = "waiting" /\ uphase' = "waiting" /\ current_thread # 0
        /\ Thread_schedule([tstate EXCEPT ![current_thread] = "FREE"])
    BY <1>5 DEF Thread_exit
  <2> QED
    BY <1>3, <2>1
<1>6. CASE MainExits
  BY <1>6 DEF MainExits, ThreadTypeOK, MainRuns, TurnsInOrder
<1> QED
  BY <1>1, <1>2, <1>4, <1>5, <1>6 DEF ThreadNext

(* uthreadlib.c, thread_schedule(): the search that starts after the last  *)
(* thread chosen gives every RUNNABLE thread its turn before any other one *)
(* has two, for any table, any number of threads and of yields.            *)
THEOREM ThreadsTakeTurns == ThreadSpec => RoundRobin
<1>1. ThreadInv /\ [ThreadNext]_uthreadVars => ThreadInv'
  <2>1. CASE UNCHANGED uthreadVars
    BY <2>1 DEF uthreadVars, ThreadInv, ThreadTypeOK, MainRuns, TurnsInOrder
  <2> QED
    BY <2>1, ThreadStep
<1>2. ThreadInv /\ [ThreadNext]_uthreadVars =>
        [\A t \in Threads :
           uphase = "waiting" /\ current_thread' # current_thread
             /\ tstate[t] = "RUNNABLE" /\ t # current_thread'
           => current_thread' \notin ran[t]]_uthreadVars
  BY ThreadStep
<1> QED
  BY <1>1, <1>2, ThreadStart, PTL DEF ThreadSpec, RoundRobin

------------------------------------------------------------------------------
(* sim.c.  A page is in one place, FIFO fills and empties the frames round *)
(* the table, and the times of LRU follow the uses.                        *)

SimTypeOK ==
  /\ opcion \in {"f", "l"}
  /\ memoriaFisica \in [FrameIds -> PageRefs \cup {None}]
  /\ memoriaSecundaria \in [SlotIds -> PageRefs \cup {None}]
  /\ tabla_paginas \in [PageRefs -> Int]
  /\ indiceRAM \in FrameIds /\ indiceDISCO \in SlotIds
  /\ tiempo \in Nat /\ tiempoRAM \in [FrameIds -> Nat]
  /\ refs \in Nat /\ used \in [FrameIds -> Nat] /\ fullAt \in Nat

(* No page is in two frames, in two slots, or in a frame and a slot.       *)
OnePlace ==
  /\ \A i, j \in FrameIds : memoriaFisica[i] = memoriaFisica[j] => memoriaFisica[i] = None \/ i = j
  /\ \A i, j \in SlotIds :
       memoriaSecundaria[i] = memoriaSecundaria[j] => memoriaSecundaria[i] = None \/ i = j
  /\ \A i \in FrameIds, j \in SlotIds :
       memoriaFisica[i] = memoriaSecundaria[j] => memoriaFisica[i] = None

TableExact == \A g \in PageRefs : tabla_paginas[g] # -1 <=> InRAM(g) \/ OnDisk(g)

TimesBounded == \E b \in Nat : \A i \in FrameIds : tiempoRAM[i] <= b
UsedPast == \A i \in FrameIds : used[i] <= refs

(* -f fills the frames in order, and later takes them in the same order:   *)
(* the one at indiceRAM was filled first.                                  *)
FifoFills == opcion = "f" /\ Room =>
  \A i \in FrameIds : memoriaFisica[i] = None <=> indiceRAM <= i

Behind(i) == IF indiceRAM <= i THEN i - indiceRAM ELSE i - indiceRAM + Frames
FifoOrder == opcion = "f" =>
  \A i, j \in FrameIds : Behind(i) <= Behind(j) => used[i] <= used[j]

LruOrder == opcion = "l" /\ ~Room =>
  \A i, j \in FrameIds :
    used[j] > fullAt /\ used[i] < used[j] => tiempoRAM[i] < tiempoRAM[j]

SimInv ==
  /\ SimTypeOK /\ OnePlace /\ TableExact /\ TimesBounded /\ UsedPast
  /\ FifoFills /\ FifoOrder /\ LruOrder

LEMMA NoneIsNoPage == None \notin PageRefs /\ 0 \in FrameIds /\ 0 \in SlotIds
  /\ FrameIds \subseteq Nat /\ SlotIds \subseteq Nat /\ Frames \in Nat \ {0}
<1>1. None \notin (Nat \ {0}) \X (Nat \ {0})
  BY DEF None
<1> QED
  BY <1>1, PageSimAssumption DEF FrameIds, SlotIds

(* What the searches of the code return.                                   *)
LEMMA FirstFrameIs ==
  ASSUME NEW g, InRAM(g)
  PROVE  FirstFrame(g) \in FrameIds /\ memoriaFisica[FirstFrame(g)] = g
<1> DEFINE S == {i \in FrameIds : memoriaFisica[i] = g}
<1>1. S \in SUBSET Nat /\ S # {}
  BY NoneIsNoPage DEF InRAM
<1>2. PICK x \in S : \A y \in S : x <= y
  <2> HIDE DEF S
  <2> QED
    BY <1>1, LeastExists
<1>3. \A j \in 0..(x - 1) : j \in FrameIds /\ ~(x <= j)
  BY NoneIsNoPage DEF FrameIds
<1>4. \A j \in 0..(x - 1) : memoriaFisica[j] # g
  BY <1>2, <1>3
<1> QED
  BY <1>2, <1>4 DEF FirstFrame

LEMMA FirstSlotIs ==
  ASSUME NEW g, OnDisk(g)
  PROVE  FirstSlot(g) \in SlotIds /\ memoriaSecundaria[FirstSlot(g)] = g
<1> DEFINE S == {i \in SlotIds : memoriaSecundaria[i] = g}
<1>1. S \in SUBSET Nat /\ S # {}
  BY NoneIsNoPage DEF OnDisk
<1>2. PICK x \in S : \A y \in S : x <= y
  <2> HIDE DEF S
  <2> QED
    BY <1>1, LeastExists
<1>3. \A j \in 0..(x - 1) : j \in SlotIds /\ ~(x <= j)
  BY NoneIsNoPage, PageSimAssumption DEF SlotIds
<1>4. \A j \in 0..(x - 1) : memoriaSecundaria[j] # g
  BY <1>2, <1>3
<1> QED
  BY <1>2, <1>4 DEF FirstSlot

LEMMA OldestFrameIs ==
  ASSUME tiempoRAM \in [FrameIds -> Nat]
  PROVE  OldestFrame \in FrameIds
<1> DEFINE T == {tiempoRAM[i] : i \in FrameIds}
<1>1. T \in SUBSET Nat /\ T # {}
  BY NoneIsNoPage
<1>2. PICK m \in T : \A y \in T : m <= y
  <2> HIDE DEF T
  <2> QED
    BY <1>1, LeastExists
<1>3. \A j \in FrameIds : m <= tiempoRAM[j]
  BY <1>2
<1> DEFINE S == {i \in FrameIds : tiempoRAM[i] = m}
<1>4. S \in SUBSET Nat /\ S # {}
  BY <1>2, NoneIsNoPage
<1>5. PICK x \in S : \A y \in S : x <= y
  <2> HIDE DEF S
  <2> QED
    BY <1>4, LeastExists
<1>6. \A j \in 0..(x - 1) : j \in FrameIds /\ ~(x <= j)
  BY NoneIsNoPage DEF FrameIds
<1>7. \A j \in 0..(x - 1) : tiempoRAM[j] > tiempoRAM[x]
  <2> SUFFICES ASSUME NEW j \in 0..(x - 1) PROVE tiempoRAM[j] > m
    BY <1>5
  <2>1. j \in FrameIds /\ tiempoRAM[j] # m /\ m <= tiempoRAM[j]
    BY <1>3, <1>5, <1>6
  <2> QED
    BY <1>1, <2>1
<1>8. \A j \in FrameIds : tiempoRAM[x] <= tiempoRAM[j]
  BY <1>3, <1>5
<1> QED
  BY <1>5, <1>7, <1>8 DEF OldestFrame

LEMMA MaxTimeIs ==
  ASSUME tiempoRAM \in [FrameIds -> Nat], TimesBounded
  PROVE  MaxTime \in Nat /\ \A i \in FrameIds : tiempoRAM[i] <= MaxTime
<1>1. PICK b \in Nat : \A i \in FrameIds : tiempoRAM[i] <= b
  BY DEF TimesBounded
<1> DEFINE T == {b - tiempoRAM[i] : i \in FrameIds}
<1>2. T \in SUBSET Nat /\ T # {}
  BY <1>1, NoneIsNoPage
<1>3. PICK x \in T : \A y \in T : x <= y
  <2> HIDE DEF T
  <2> QED
    BY <1>2, LeastExists
<1>4. PICK k \in FrameIds : x = b - tiempoRAM[k]
  BY <1>3
<1>5. ASSUME NEW i \in FrameIds
      PROVE  tiempoRAM[i] <= tiempoRAM[k]
  <2>1. b - tiempoRAM[k] <= b - tiempoRAM[i]
    BY <1>3, <1>4
  <2>2. tiempoRAM[k] \in Nat /\ tiempoRAM[i] \in Nat
    OBVIOUS
  <2> QED
    BY <2>1, <2>2
<1> QED
  BY <1>5 DEF MaxTime

(* g comes into frame i, in which there was nothing, from nowhere.         *)
LEMMA FillPlaces ==
  ASSUME SimTypeOK, OnePlace, TableExact, NEW g \in PageRefs, ~InRAM(g), ~OnDisk(g),
         NEW i \in FrameIds, memoriaFisica[i] = None,
         memoriaFisica' = [memoriaFisica EXCEPT ![i] = g],
         memoriaSecundaria' = memoriaSecundaria,
         tabla_paginas' = [tabla_paginas EXCEPT ![g] = i + 1]
  PROVE  OnePlace' /\ TableExact'
<1>1. /\ memoriaFisica'[i] = g /\ \A j \in FrameIds : j # i => memoriaFisica'[j] = memoriaFisica[j]
      /\ \A j \in FrameIds : memoriaFisica[j] # g
      /\ \A j \in SlotIds : memoriaSecundaria[j] # g
  BY DEF SimTypeOK, InRAM, OnDisk
<1>2. OnePlace'
  BY <1>1 DEF OnePlace
<1>3. tabla_paginas'[g] # -1 /\ \A h \in PageRefs : h # g => tabla_paginas'[h] = tabla_paginas[h]
  BY NoneIsNoPage DEF SimTypeOK
<1>4. ASSUME NEW h \in PageRefs, h # g
      PROVE  InRAM(h)' <=> InRAM(h)
  BY <1>1, <1>4, NoneIsNoPage DEF InRAM
<1>5. \A h \in PageRefs : OnDisk(h)' <=> OnDisk(h)
  BY DEF OnDisk
<1>6. InRAM(g)'
  BY <1>1 DEF InRAM
<1> QED
  BY <1>2, <1>3, <1>4, <1>5, <1>6 DEF TableExact

(* g takes the frame of a page, which goes to slot d: a free one, or the   *)
(* one g was in.                                                           *)
LEMMA TradePlaces ==
  ASSUME SimTypeOK, OnePlace, TableExact, NEW g \in PageRefs, ~InRAM(g),
         NEW i \in FrameIds, NEW d \in SlotIds, ~Room,
         memoriaSecundaria[d] \in {None, g},
         \A j \in SlotIds : memoriaSecundaria[j] = g => j = d,
         memoriaFisica' = [memoriaFisica EXCEPT ![i] = g],
         memoriaSecundaria' = [memoriaSecundaria EXCEPT ![d] = memoriaFisica[i]],
         tabla_paginas' = [tabla_paginas EXCEPT ![g] = i + 1]
  PROVE  OnePlace' /\ TableExact' /\ ~Room'
<1>1. /\ memoriaFisica'[i] = g /\ \A j \in FrameIds : j # i => memoriaFisica'[j] = memoriaFisica[j]
      /\ memoriaSecundaria'[d] = memoriaFisica[i]
      /\ \A j \in SlotIds : j # d => memoriaSecundaria'[j] = memoriaSecundaria[j]
      /\ \A j \in FrameIds : memoriaFisica[j] # g /\ memoriaFisica[j] # None
  BY DEF SimTypeOK, InRAM, Room
<1>0. /\ \A j, k \in FrameIds : memoriaFisica[j] = memoriaFisica[k] => j = k
      /\ \A j \in FrameIds, k \in SlotIds : memoriaFisica[j] # memoriaSecundaria[k]
      /\ \A j, k \in SlotIds :
           memoriaSecundaria[j] = memoriaSecundaria[k] => memoriaSecundaria[j] = None \/ j = k
  BY <1>1 DEF OnePlace
<1>2. OnePlace'
  <2>1. ASSUME NEW j \in FrameIds, NEW k \in FrameIds, memoriaFisica'[j] = memoriaFisica'[k]
        PROVE  j = k
    BY <1>0, <1>1, <2>1
  <2>2. ASSUME NEW j \in SlotIds, NEW k \in SlotIds, memoriaSecundaria'[j] = memoriaSecundaria'[k]
        PROVE  memoriaSecundaria'[j] = None \/ j = k
    BY <1>0, <1>1, <2>2
  <2>3. ASSUME NEW j \in FrameIds, NEW k \in SlotIds
        PROVE  memoriaFisica'[j] # memoriaSecundaria'[k]
    BY <1>0, <1>1
  <2> QED
    BY <2>1, <2>2, <2>3 DEF OnePlace
<1>3. tabla_paginas'[g] # -1 /\ \A h \in PageRefs : h # g => tabla_paginas'[h] = tabla_paginas[h]
  BY NoneIsNoPage DEF SimTypeOK
<1>4. ASSUME NEW h \in PageRefs, h # g
      PROVE  InRAM(h)' \/ OnDisk(h)' <=> InRAM(h) \/ OnDisk(h)
  <2>1. h # None
    BY NoneIsNoPage
  <2>2. InRAM(h)' => InRAM(h)
    BY <1>1, <1>4 DEF InRAM
  <2>3. OnDisk(h)' => InRAM(h) \/ OnDisk(h)
    BY <1>1 DEF InRAM, OnDisk
  <2>4. InRAM(h) => InRAM(h)' \/ OnDisk(h)'
    BY <1>1 DEF InRAM, OnDisk
  <2>5. OnDisk(h) => OnDisk(h)'
    BY <1>1, <1>4, <2>1 DEF OnDisk
  <2> QED
    BY <2>2, <2>3, <2>4, <2>5
<1>5. InRAM(g)'
  BY <1>1 DEF InRAM
<1>6. ~Room'
  BY <1>1, NoneIsNoPage DEF Room, InRAM
<1> QED
  BY <1>2, <1>3, <1>4, <1>5, <1>6 DEF TableExact

(* The frame at indiceRAM is used and indiceRAM goes on: it is now the     *)
(* last one.                                                               *)
LEMMA FifoAdvances ==
  ASSUME SimTypeOK, UsedPast, FifoOrder, opcion = "f", opcion' = opcion,
         indiceRAM' = (indiceRAM + 1) % Frames,
         used' = [used EXCEPT ![indiceRAM] = refs + 1]
  PROVE  /\ FifoOrder' /\ indiceRAM' \in FrameIds
         /\ indiceRAM' = IF indiceRAM + 1 < Frames THEN indiceRAM + 1 ELSE 0
<1>1. /\ indiceRAM \in Int /\ 0 <= indiceRAM /\ indiceRAM < Frames /\ Frames \in Int
      /\ \A j \in FrameIds : j \in Int /\ 0 <= j /\ j < Frames
  BY NoneIsNoPage DEF SimTypeOK, FrameIds
<1>2. indiceRAM' = IF indiceRAM + 1 < Frames THEN indiceRAM + 1 ELSE 0
  BY <1>1
<1>3. indiceRAM' \in FrameIds
  BY <1>1, <1>2 DEF FrameIds
<1>4. /\ used'[indiceRAM] = refs + 1
      /\ \A j \in FrameIds : j # indiceRAM => used'[j] = used[j]
      /\ \A j \in FrameIds : used[j] \in Nat /\ used[j] <= refs /\ refs \in Nat
  BY DEF SimTypeOK, UsedPast
<1>5. ASSUME NEW i \in FrameIds, NEW j \in FrameIds, Behind(i)' <= Behind(j)'
      PROVE  used'[i] <= used'[j]
  <2>1. i = indiceRAM => j = indiceRAM
    BY <1>1, <1>2, <1>5 DEF Behind
  <2>2. CASE j = indiceRAM
    BY <1>4, <2>2
  <2>3. CASE j # indiceRAM
    <3>1. i # indiceRAM
      BY <2>1, <2>3
    <3>2. Behind(i) <= Behind(j)
      BY <1>1, <1>2, <1>5, <2>3, <3>1 DEF Behind
    <3>3. used[i] <= used[j]
      BY <3>2 DEF FifoOrder
    <3> QED
      BY <1>4, <2>3, <3>1, <3>3
  <2> QED
    BY <2>2, <2>3
<1> QED
  BY <1>2, <1>3, <1>5 DEF FifoOrder

LEMMA SimStart == SimInit => SimInv
<1> SUFFICES ASSUME SimInit PROVE SimInv
  OBVIOUS
<1>1. SimTypeOK
  BY NoneIsNoPage DEF SimInit, SimTypeOK
<1>2. OnePlace
  BY DEF SimInit, OnePlace
<1>3. TableExact
  BY NoneIsNoPage DEF SimInit, TableExact, InRAM, OnDisk
<1>4. TimesBounded
  BY DEF SimInit, TimesBounded
<1>5. UsedPast /\ FifoOrder
  BY DEF SimInit, UsedPast, FifoOrder
<1>6. FifoFills
  BY NoneIsNoPage DEF SimInit, FifoFills, FrameIds
<1>7. LruOrder
  BY NoneIsNoPage DEF SimInit, LruOrder, Room, InRAM
<1> QED
  BY <1>1, <1>2, <1>3, <1>4, <1>5, <1>6, <1>7 DEF SimInv

LEMMA HitStep ==
  ASSUME SimInv, NEW g \in PageRefs, Hit(g)
  PROVE  SimInv'
<1> USE DEF SimInv
<1>1. /\ UNCHANGED <<opcion, memoriaFisica, memoriaSecundaria, tabla_paginas, indiceRAM,
                     indiceDISCO, tiempo, fullAt>>
      /\ refs' = refs + 1 /\ InRAM(g)
  BY DEF Hit, Reading
<1>2. OnePlace' /\ TableExact' /\ FifoFills' /\ (Room' <=> Room)
  BY <1>1 DEF OnePlace, TableExact, FifoFills, Room, InRAM, OnDisk
<1>3. CASE opcion = "f"
  <2>1. UNCHANGED <<tiempoRAM, used>>
    BY <1>3 DEF Hit
  <2> QED
    BY <1>1, <1>2, <1>3, <2>1
    DEF SimTypeOK, TimesBounded, UsedPast, FifoOrder, Behind, LruOrder
<1>4. CASE opcion # "f"
  <2> DEFINE k == FirstFrame(g)
  <2>1. tiempoRAM' = [tiempoRAM EXCEPT ![k] = MaxTime + 1] /\ used' = [used EXCEPT ![k] = refs + 1]
    BY <1>4 DEF Hit, UsedNow
  <2>2. k \in FrameIds
    BY <1>1, FirstFrameIs
  <2> HIDE DEF k
  <2>3. MaxTime \in Nat /\ \A i \in FrameIds : tiempoRAM[i] <= MaxTime
    BY MaxTimeIs DEF SimTypeOK
  <2>4. SimTypeOK'
    BY <1>1, <2>1, <2>2, <2>3 DEF SimTypeOK
  <2>5. /\ tiempoRAM'[k] = MaxTime + 1 /\ used'[k] = refs + 1
        /\ \A i \in FrameIds : i # k => tiempoRAM'[i] = tiempoRAM[i] /\ used'[i] = used[i]
        /\ \A i \in FrameIds : tiempoRAM[i] \in Nat /\ used[i] \in Nat /\ used[i] <= refs
        /\ refs \in Nat
    BY <2>1, <2>2 DEF SimTypeOK, UsedPast
  <2>6. TimesBounded'
    <3>1. \A i \in FrameIds : tiempoRAM'[i] <= MaxTime + 1
      BY <2>3, <2>5
    <3> QED
      BY <2>3, <3>1 DEF TimesBounded
  <2>7. UsedPast'
    BY <1>1, <2>5 DEF UsedPast
  <2>8. LruOrder'
    <3> SUFFICES ASSUME ~Room, NEW i \in FrameIds, NEW j \in FrameIds,
                        used'[j] > fullAt, used'[i] < used'[j], opcion = "l"
                 PROVE  tiempoRAM'[i] < tiempoRAM'[j]
      BY <1>1, <1>2 DEF LruOrder
    <3>1. i # k
      BY <2>5
    <3>2. CASE j = k
      BY <2>3, <2>5, <3>1, <3>2
    <3>3. CASE j # k
      BY <2>5, <3>1, <3>3 DEF LruOrder
    <3> QED
      BY <3>2, <3>3
  <2> QED
    BY <1>1, <1>2, <1>4, <2>4, <2>6, <2>7, <2>8 DEF FifoOrder
<1> QED
  BY <1>3, <1>4

LEMMA FillStep ==
  ASSUME SimInv, NEW g \in PageRefs, Fill(g)
  PROVE  SimInv'
<1> USE DEF SimInv
<1> DEFINE i == FreeFrame
<1>1. /\ UNCHANGED <<opcion, memoriaSecundaria, indiceDISCO>>
      /\ refs' = refs + 1 /\ fullAt' = refs + 1 /\ ~InRAM(g) /\ ~OnDisk(g) /\ Room
      /\ tabla_paginas' = [tabla_paginas EXCEPT ![g] = i + 1]
      /\ memoriaFisica' = [memoriaFisica EXCEPT ![i] = g]
      /\ used' = [used EXCEPT ![i] = refs + 1]
      /\ indiceRAM' = IF opcion = "f" THEN (indiceRAM + 1) % Frames ELSE indiceRAM
  BY DEF Fill, Reading, UsedNow, Advance
<1>2. \/ tiempoRAM' = [tiempoRAM EXCEPT ![i] = tiempo] /\ tiempo' = tiempo + 1
      \/ UNCHANGED <<tiempoRAM, tiempo>>
  BY DEF Fill
<1>3. i \in FrameIds /\ memoriaFisica[i] = None
  <2>1. CASE opcion = "f"
    <3>1. indiceRAM \in FrameIds /\ indiceRAM \in Int
      BY NoneIsNoPage DEF SimTypeOK
    <3> QED
      BY <1>1, <2>1, <3>1 DEF FreeFrame, FifoFills
  <2>2. CASE opcion # "f"
    BY <1>1, <2>2, FirstFrameIs DEF FreeFrame, Room
  <2> QED
    BY <2>1, <2>2
<1>4. OnePlace' /\ TableExact'
  BY <1>1, <1>3, FillPlaces
<1>5. indiceRAM' \in FrameIds /\ FifoOrder'
  <2>1. CASE opcion = "f"
    BY <1>1, <2>1, FifoAdvances DEF FreeFrame
  <2>2. CASE opcion # "f"
    BY <1>1, <2>2 DEF FifoOrder, SimTypeOK
  <2> QED
    BY <2>1, <2>2
<1>6. FifoFills'
  <2> SUFFICES ASSUME opcion = "f", Room', NEW j \in FrameIds
               PROVE  memoriaFisica'[j] = None <=> indiceRAM' <= j
    BY <1>1 DEF FifoFills
  <2>1. i = indiceRAM
    BY DEF FreeFrame
  <2> HIDE DEF i
  <2>2. indiceRAM' = IF indiceRAM + 1 < Frames THEN indiceRAM + 1 ELSE 0
    BY <1>1, <2>1, FifoAdvances
  <2>3. \A k \in FrameIds : memoriaFisica'[k] = None <=> k # i /\ indiceRAM <= k
    BY <1>1, <1>3, NoneIsNoPage DEF FifoFills, SimTypeOK
  <2>4. PICK k \in FrameIds : k # i /\ indiceRAM <= k
    BY <2>3 DEF Room, InRAM
  <2>5. indiceRAM + 1 < Frames
    BY <1>3, <2>1, <2>4, NoneIsNoPage DEF FrameIds
  <2> QED
    BY <1>3, <2>1, <2>2, <2>3, <2>5, NoneIsNoPage DEF FrameIds
<1> HIDE DEF i
<1>7. SimTypeOK'
  BY <1>1, <1>2, <1>3, <1>5 DEF SimTypeOK
<1>8. /\ used'[i] = refs + 1 /\ refs \in Nat
      /\ \A j \in FrameIds : j # i => used'[j] = used[j]
      /\ \A j \in FrameIds : used[j] \in Nat /\ used[j] <= refs
  BY <1>1, <1>3 DEF SimTypeOK, UsedPast
<1>9. UsedPast'
  BY <1>1, <1>8 DEF UsedPast
<1>10. TimesBounded'
  <2>1. PICK b \in Nat : \A j \in FrameIds : tiempoRAM[j] <= b
    BY DEF TimesBounded
  <2>2. tiempo \in Nat /\ \A j \in FrameIds : tiempoRAM[j] \in Nat
    BY DEF SimTypeOK
  <2>3. \A j \in FrameIds : tiempoRAM'[j] = tiempoRAM[j] \/ tiempoRAM'[j] = tiempo
    BY <1>2, <1>3 DEF SimTypeOK
  <2>4. \A j \in FrameIds : tiempoRAM'[j] <= b + tiempo
    BY <2>1, <2>2, <2>3
  <2>5. b + tiempo \in Nat
    BY <2>2
  <2> QED
    BY <2>4, <2>5 DEF TimesBounded
<1>11. LruOrder'
  <2>1. \A j \in FrameIds : ~(used'[j] > fullAt')
    BY <1>1, <1>8
  <2> QED
    BY <2>1 DEF LruOrder
<1> QED
  BY <1>4, <1>5, <1>6, <1>7, <1>9, <1>10, <1>11

(* g takes the victim's frame.                                             *)
LEMMA ReplaceStep ==
  ASSUME SimInv, NEW g \in PageRefs, NEW d \in SlotIds, ~InRAM(g), ~Room,
         memoriaSecundaria[d] \in {None, g},
         \A j \in SlotIds : memoriaSecundaria[j] = g => j = d,
         memoriaSecundaria' = [memoriaSecundaria EXCEPT ![d] = memoriaFisica[Victim]],
         Replace(Victim, g), refs' = refs + 1, indiceDISCO' \in SlotIds,
         UNCHANGED <<opcion, tiempo, fullAt>>
  PROVE  SimInv'
<1> USE DEF SimInv
<1> DEFINE i == Victim
<1>1. /\ tabla_paginas' = [tabla_paginas EXCEPT ![g] = i + 1]
      /\ memoriaFisica' = [memoriaFisica EXCEPT ![i] = g]
      /\ tiempoRAM' = IF opcion = "f" THEN tiempoRAM
                      ELSE [j \in FrameIds |-> 1 + IF j = i THEN MaxTime + 1 ELSE tiempoRAM[j]]
      /\ used' = [used EXCEPT ![i] = refs + 1]
      /\ indiceRAM' = IF opcion = "f" THEN (indiceRAM + 1) % Frames ELSE indiceRAM
  BY DEF Replace, UsedNow, Advance
<1>2. i \in FrameIds
  BY OldestFrameIs DEF Victim, SimTypeOK
<1>3. OnePlace' /\ TableExact' /\ ~Room'
  BY <1>1, <1>2, TradePlaces
<1>4. indiceRAM' \in FrameIds /\ FifoOrder'
  <2>1. CASE opcion = "f"
    BY <1>1, <2>1, FifoAdvances DEF Victim
  <2>2. CASE opcion # "f"
    BY <1>1, <2>2 DEF FifoOrder, SimTypeOK
  <2> QED
    BY <2>1, <2>2
<1> HIDE DEF i
<1>5. MaxTime \in Nat /\ \A j \in FrameIds : tiempoRAM[j] <= MaxTime /\ tiempoRAM[j] \in Nat
  BY MaxTimeIs DEF SimTypeOK
<1>6. tiempoRAM' \in [FrameIds -> Nat]
  BY <1>1, <1>5 DEF SimTypeOK
<1>7. SimTypeOK'
  <2>1. /\ memoriaFisica' \in [FrameIds -> PageRefs \cup {None}]
        /\ memoriaSecundaria' \in [SlotIds -> PageRefs \cup {None}]
        /\ tabla_paginas' \in [PageRefs -> Int]
        /\ used' \in [FrameIds -> Nat] /\ refs' \in Nat
    <3>1. i + 1 \in Int
      BY <1>2, NoneIsNoPage
    <3>2. memoriaFisica[i] \in PageRefs \cup {None}
      BY <1>2 DEF SimTypeOK
    <3> QED
      BY <1>1, <1>2, <3>1, <3>2 DEF SimTypeOK, i
  <2> QED
    BY <1>4, <1>6, <2>1 DEF SimTypeOK
<1>8. /\ used'[i] = refs + 1 /\ refs \in Nat
      /\ \A j \in FrameIds : j # i => used'[j] = used[j]
      /\ \A j \in FrameIds : used[j] \in Nat /\ used[j] <= refs
  BY <1>1, <1>2 DEF SimTypeOK, UsedPast
<1>9. UsedPast'
  BY <1>8 DEF UsedPast
<1>10. TimesBounded'
  <2>1. \A j \in FrameIds : tiempoRAM'[j] <= MaxTime + 2
    BY <1>1, <1>5
  <2>2. MaxTime + 2 \in Nat
    BY <1>5
  <2> QED
    BY <2>1, <2>2 DEF TimesBounded
<1>11. LruOrder'
  <2> SUFFICES ASSUME opcion = "l", NEW j \in FrameIds, NEW k \in FrameIds,
                      used'[k] > fullAt, used'[j] < used'[k]
               PROVE  tiempoRAM'[j] < tiempoRAM'[k]
    BY DEF LruOrder
  <2>1. \A m \in FrameIds : tiempoRAM'[m] = 1 + IF m = i THEN MaxTime + 1 ELSE tiempoRAM[m]
    BY <1>1
  <2>2. j # i
    BY <1>8
  <2>3. CASE k = i
    BY <1>5, <2>1, <2>2, <2>3
  <2>4. CASE k # i
    <3>1. tiempoRAM[j] < tiempoRAM[k]
      BY <1>8, <2>2, <2>4 DEF LruOrder
    <3> QED
      BY <1>5, <2>1, <2>2, <2>4, <3>1
  <2> QED
    BY <2>3, <2>4
<1> QED
  BY <1>3, <1>4, <1>7, <1>9, <1>10, <1>11 DEF FifoFills

LEMMA SimStep == ASSUME SimInv, [SimNext]_simVars PROVE SimInv'
<1>1. CASE UNCHANGED simVars
  BY <1>1 DEF simVars, SimInv, SimTypeOK, OnePlace, TableExact, TimesBounded, UsedPast,
    FifoFills, FifoOrder, Behind, LruOrder, Room, InRAM, OnDisk
<1>2. ASSUME NEW g \in PageRefs, Evict(g) PROVE SimInv'
  <2>1. /\ refs' = refs + 1 /\ UNCHANGED <<opcion, tiempo, fullAt>>
        /\ ~InRAM(g) /\ ~OnDisk(g) /\ ~Room
    BY <1>2 DEF Evict, Reading
  <2>2. CASE memoriaSecundaria[indiceDISCO] # None
    <3>1. UNCHANGED <<memoriaFisica, memoriaSecundaria, tabla_paginas, indiceRAM,
                      indiceDISCO, tiempoRAM, used>>
      BY <1>2, <2>2 DEF Evict
    <3>2. \A i \in FrameIds : used[i] \in Nat /\ used[i] <= refs /\ refs \in Nat
      BY DEF SimInv, SimTypeOK, UsedPast
    <3>3. UsedPast'
      BY <2>1, <3>1, <3>2 DEF UsedPast
    <3>4. SimTypeOK'
      BY <2>1, <3>1 DEF SimInv, SimTypeOK
    <3> QED
      BY <2>1, <3>1, <3>3, <3>4 DEF SimInv, OnePlace, TableExact, TimesBounded,
        FifoFills, FifoOrder, Behind, LruOrder, Room, InRAM, OnDisk
  <2>3. CASE memoriaSecundaria[indiceDISCO] = None
    <3>1. /\ memoriaSecundaria' =
               [memoriaSecundaria EXCEPT ![indiceDISCO] = memoriaFisica[Victim]]
          /\ indiceDISCO' = (indiceDISCO + 1) % DiskSlots
          /\ Replace(Victim, g)
      BY <1>2, <2>3 DEF Evict
    <3>2. indiceDISCO \in SlotIds /\ \A j \in SlotIds : memoriaSecundaria[j] # g
      BY <2>1 DEF SimInv, SimTypeOK, OnDisk
    <3>3. indiceDISCO' \in SlotIds
      BY <3>1, <3>2, PageSimAssumption DEF SlotIds
    <3> QED
      BY <2>1, <2>3, <3>1, <3>2, <3>3, ReplaceStep
  <2> QED
    BY <2>2, <2>3
<1>3. ASSUME NEW g \in PageRefs, Swap(g) PROVE SimInv'
  <2> DEFINE d == FirstSlot(g)
  <2>1. /\ refs' = refs + 1 /\ UNCHANGED <<opcion, tiempo, fullAt, indiceDISCO>>
        /\ ~InRAM(g) /\ OnDisk(g) /\ ~Room
        /\ memoriaSecundaria' = [memoriaSecundaria EXCEPT ![d] = memoriaFisica[Victim]]
        /\ Replace(Victim, g)
    BY <1>3 DEF Swap, Reading
  <2>2. d \in SlotIds /\ memoriaSecundaria[d] = g
    BY <2>1, FirstSlotIs
  <2> HIDE DEF d
  <2>3. \A j \in SlotIds : memoriaSecundaria[j] = g => j = d
    BY <2>2, NoneIsNoPage DEF SimInv, OnePlace
  <2>4. indiceDISCO' \in SlotIds
    BY <2>1 DEF SimInv, SimTypeOK
  <2> QED
    BY <2>1, <2>2, <2>3, <2>4, ReplaceStep
<1> QED
  BY <1>1, <1>2, <1>3, HitStep, FillStep DEF SimNext

(* A set of places that holds at most one has the size that says whether   *)
(* it holds any.                                                           *)
LEMMA AtMostOne ==
  ASSUME NEW S, \A x, y \in S : x = y
  PROVE  Cardinality(S) = IF S = {} THEN 0 ELSE 1
<1>1. CASE S = {}
  BY <1>1, FS_EmptySet
<1>2. CASE S # {}
  <2>1. PICK x \in S : S = {x}
    BY <1>2
  <2> QED
    BY <1>2, <2>1, FS_Singleton
<1> QED
  BY <1>1, <1>2

LEMMA SimInvOrder == SimInv => VictimInOrder
<1> SUFFICES ASSUME SimInv PROVE VictimInOrder
  OBVIOUS
<1> USE DEF SimInv
<1>1. ASSUME NEW g \in PageRefs
      PROVE  Cardinality({i \in FrameIds : memoriaFisica[i] = g})
               + Cardinality({i \in SlotIds : memoriaSecundaria[i] = g})
             = IF tabla_paginas[g] = -1 THEN 0 ELSE 1
  <2> DEFINE R == {i \in FrameIds : memoriaFisica[i] = g}
             D == {i \in SlotIds : memoriaSecundaria[i] = g}
  <2>1. g # None
    BY NoneIsNoPage
  <2>2. (\A x, y \in R : x = y) /\ (\A x, y \in D : x = y) /\ (R = {} \/ D = {})
    BY <2>1 DEF OnePlace
  <2>3. Cardinality(R) = IF R = {} THEN 0 ELSE 1
    <3> HIDE DEF R
    <3> QED
      BY <2>2, AtMostOne
  <2>4. Cardinality(D) = IF D = {} THEN 0 ELSE 1
    <3> HIDE DEF D
    <3> QED
      BY <2>2, AtMostOne
  <2>5. tabla_paginas[g] # -1 <=> R # {} \/ D # {}
    BY DEF TableExact, InRAM, OnDisk
  <2> HIDE DEF R, D
  <2>6. Cardinality(R) + Cardinality(D) = IF tabla_paginas[g] = -1 THEN 0 ELSE 1
    BY <2>2, <2>3, <2>4, <2>5
  <2> QED
    BY <2>6 DEF R, D
<1>2. ASSUME ~Room, NEW i \in FrameIds, opcion = "f"
      PROVE  used[Victim] <= used[i]
  <2>1. Victim = indiceRAM /\ indiceRAM \in FrameIds
    BY <1>2 DEF Victim, SimTypeOK
  <2>2. Behind(indiceRAM) <= Behind(i)
    BY <2>1, NoneIsNoPage DEF Behind, FrameIds
  <2> QED
    BY <1>2, <2>1, <2>2 DEF FifoOrder
<1>3. ASSUME ~Room, opcion # "f"
      PROVE  \A i, j \in FrameIds :
               used[j] > fullAt /\ used[i] < used[j] => tiempoRAM[i] < tiempoRAM[j]
  BY <1>3 DEF LruOrder, SimTypeOK
<1> QED
  BY <1>1, <1>2, <1>3 DEF VictimInOrder

(* sim.c: the victim of -f is the page that came in first, that of -l none *)
(* that was used after another one since the memory filled up, and every   *)
(* page that was ever used is in one place, for any sizes and any input.   *)
THEOREM VictimsAlwaysInOrder == SimSpec => []VictimInOrder
BY SimStart, SimStep, SimInvOrder, PTL DEF SimSpec
=============================================================================
