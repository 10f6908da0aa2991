----------------------------- MODULE PipeProofs -----------------------------
(***************************************************************************)
(* Proofs about Pipe, for any processes, any buffer sizes and any PIPESIZE *)
(* that divides the modulus of the counters.                               *)
(***************************************************************************)
EXTENDS Pipe, TLAPS

------------------------------------------------------------------------------
(* Arithmetic modulo n.                                                    *)

LEMMA DivMod ==
  ASSUME NEW n \in Nat \ {0}, NEW a \in Int
  PROVE  /\ a = n * (a \div n) + (a % n)
         /\ a \div n \in Int /\ a % n \in 0..(n - 1)
OBVIOUS

LEMMA ModOf ==
  ASSUME NEW n \in Nat \ {0}, NEW q \in Int, NEW r \in 0..(n - 1)
  PROVE  (n * q + r) % n = r
OBVIOUS

LEMMA ModShift ==
  ASSUME NEW n \in Nat \ {0}, NEW a \in Int, NEW q \in Int
  PROVE  (a + n * q) % n = a % n
<1> DEFINE d == a \div n
           r == a % n
<1>1. a = n * d + r /\ d \in Int /\ r \in 0..(n - 1)
  BY DivMod
<1> HIDE DEF d, r
<1>2. a + n * q = n * (d + q) + r /\ d + q \in Int
  BY <1>1
<1> DEFINE e == d + q
<1>3. (n * e + r) % n = r
  BY <1>1, <1>2, ModOf
<1> QED
  BY <1>2, <1>3 DEF r

LEMMA ModAdd ==
  ASSUME NEW n \in Nat \ {0}, NEW a \in Int, NEW b \in Int
  PROVE  ((a % n) + b) % n = (a + b) % n
<1> DEFINE d == a \div n
           r == a % n
<1>1. a = n * d + r /\ d \in Int /\ r \in Int
  BY DivMod
<1> HIDE DEF d, r
<1>2. a + b = (r + b) + n * d /\ r + b \in Int
  BY <1>1
<1>3. ((r + b) + n * d) % n = (r + b) % n
  BY <1>1, <1>2, ModShift
<1> QED
  BY <1>2, <1>3 DEF r

LEMMA ModSmall ==
  ASSUME NEW n \in Nat \ {0}, NEW a \in 0..(n - 1)
  PROVE  a % n = a
OBVIOUS

------------------------------------------------------------------------------
(* The counters of the ring, which wrap at CounterMod.                     *)

LEMMA Sizes ==
  /\ PIPESIZE \in Nat \ {0} /\ CounterMod \in Nat \ {0} /\ PIPESIZE < CounterMod
  /\ CounterMod % PIPESIZE = 0
BY PipeAssumption

LEMMA CountAfterWrite ==
  ASSUME NEW w \in Int, NEW r \in Int, NEW k \in Nat, ((w - r) % CounterMod) + k < CounterMod
  PROVE  (((w + k) % CounterMod) - r) % CounterMod = ((w - r) % CounterMod) + k
<1> DEFINE m == CounterMod
           c == (w - r) % m
<1>1. m \in Nat \ {0} /\ w - r \in Int /\ w + k \in Int /\ -r \in Int /\ k \in Int
  BY Sizes
<1>2. c \in 0..(m - 1) /\ c + k < m
  BY <1>1, DivMod
<1>3. (((w + k) % m) + (-r)) % m = ((w + k) + (-r)) % m
  BY <1>1, ModAdd
<1>4. (c + k) % m = ((w - r) + k) % m
  BY <1>1, ModAdd, Zenon
<1>5. c + k \in 0..(m - 1)
  BY <1>1, <1>2
<1>6. (c + k) % m = c + k
  BY <1>1, <1>5, ModSmall
<1>7. (w + k) + (-r) = (w - r) + k
  OBVIOUS
<1>8. (w + k) % m \in Int
  BY <1>1, DivMod
<1>9. ((w + k) % m) + (-r) = ((w + k) % m) - r
  BY <1>8
<1> QED
  BY <1>3, <1>4, <1>6, <1>7, <1>9

LEMMA CountAfterRead ==
  ASSUME NEW w \in Int, NEW r \in Int, NEW k \in 0..((w - r) % CounterMod)
  PROVE  (w - ((r + k) % CounterMod)) % CounterMod = ((w - r) % CounterMod) - k
<1> DEFINE m == CounterMod
           c == (w - r) % m
           d == (r + k) \div m
           s == (r + k) % m
<1>1. m \in Nat \ {0} /\ w - r \in Int /\ r + k \in Int
  BY Sizes, DivMod
<1>2. c \in 0..(m - 1) /\ k \in 0..c /\ -k \in Int
  BY <1>1, DivMod
<1>3. r + k = m * d + s /\ d \in Int /\ s \in Int
  BY <1>1, DivMod
<1>4. (c + (-k)) % m = ((w - r) + (-k)) % m
  BY <1>1, <1>2, ModAdd, Zenon
<1> HIDE DEF s, d, c
<1>5. c + (-k) \in 0..(m - 1) /\ c + (-k) = c - k
  BY <1>1, <1>2
<1>6. (c + (-k)) % m = c - k
  BY <1>1, <1>5, ModSmall
<1>7. w - s = ((w - r) + (-k)) + m * d /\ (w - r) + (-k) \in Int
  BY <1>1, <1>3
<1>8. (((w - r) + (-k)) + m * d) % m = ((w - r) + (-k)) % m
  BY <1>1, <1>3, <1>7, ModShift
<1> QED
  BY <1>4, <1>6, <1>7, <1>8 DEF s, c

(* The slot of the byte i places after nread, seen from nwrite.            *)
LEMMA SlotOffset ==
  ASSUME NEW w \in Int, NEW r \in Int, NEW i \in Int
  PROVE  (((r + i) % PIPESIZE) - w) % PIPESIZE = (i - ((w - r) % CounterMod)) % PIPESIZE
<1> DEFINE n == PIPESIZE
           m == CounterMod
           c == (w - r) % m
<1>1. n \in Nat \ {0} /\ m \in Nat \ {0} /\ m % n = 0 /\ w - r \in Int /\ r + i \in Int /\ -w \in Int
  BY Sizes
<1>2. (((r + i) % n) + (-w)) % n = ((r + i) + (-w)) % n
  BY <1>1, ModAdd, Zenon
<1>3. c \in Int /\ (r + i) % n \in Int
  BY <1>1, DivMod
<1> DEFINE d == (w - r) \div m
           e == m \div n
<1>4. w - r = m * d + c /\ d \in Int /\ m = n * e /\ e \in Int
  BY <1>1, DivMod
<1> HIDE DEF c, d, e
<1>5. m * d = n * (e * d) /\ e * d \in Int
  BY <1>1, <1>4
<1> DEFINE f == -(e * d)
<1>6. f \in Int /\ (r + i) + (-w) = (i - c) + n * f /\ i - c \in Int
  BY <1>1, <1>3, <1>4, <1>5
<1> HIDE DEF f
<1>7. ((i - c) + n * f) % n = (i - c) % n
  BY <1>1, <1>6, ModShift
<1>8. ((r + i) % n) + (-w) = ((r + i) % n) - w
  BY <1>3
<1> QED
  BY <1>2, <1>6, <1>7, <1>8 DEF c

(* A counter that has wrapped addresses the same slot.                     *)
LEMMA WrapKeepsSlot ==
  ASSUME NEW a \in Int, NEW b \in Int
  PROVE  ((a % CounterMod) + b) % PIPESIZE = (a + b) % PIPESIZE
<1> DEFINE n == PIPESIZE
           m == CounterMod
<1>1. n \in Nat \ {0} /\ m \in Nat \ {0} /\ m % n = 0
  BY Sizes
<1> HIDE DEF n, m
<1> DEFINE d == a \div m
           r == a % m
           c == m \div n
<1>2. a = m * d + r /\ d \in Int /\ r \in Int
  BY <1>1, DivMod
<1>3. m = n * c /\ c \in Int
  BY <1>1, DivMod
<1> HIDE DEF d, r, c
<1>4. m * d = n * (c * d) /\ c * d \in Int
  BY <1>1, <1>2, <1>3
<1> DEFINE e == c * d
<1>5. e \in Int /\ a + b = (r + b) + n * e /\ r + b \in Int
  BY <1>1, <1>2, <1>4
<1> HIDE DEF e
<1>6. ((r + b) + n * e) % n = (r + b) % n
  BY <1>1, <1>5, ModShift
<1> QED
  BY <1>5, <1>6 DEF r, n, m

(* A byte still in the ring and the bytes written behind it.               *)
LEMMA OffsetOf ==
  ASSUME NEW c \in 0..PIPESIZE, NEW i \in 0..(PIPESIZE - 1)
  PROVE  (i - c) % PIPESIZE = IF i < c THEN PIPESIZE - c + i ELSE i - c
<1>1. PIPESIZE \in Nat \ {0}
  BY Sizes
<1>2. CASE i < c
  <2>1. PIPESIZE - c + i \in 0..(PIPESIZE - 1)
    BY <1>1, <1>2
  <2>2. (PIPESIZE * (-1) + (PIPESIZE - c + i)) % PIPESIZE = PIPESIZE - c + i
    BY <1>1, <2>1, ModOf
  <2>3. PIPESIZE * (-1) + (PIPESIZE - c + i) = i - c
    BY <1>1
  <2> QED
    BY <1>2, <2>2, <2>3
<1>3. CASE ~(i < c)
  <2>1. i - c \in 0..(PIPESIZE - 1)
    BY <1>1, <1>3
  <2> QED
    BY <1>1, <1>3, <2>1, ModSmall
<1> QED
  BY <1>2, <1>3

------------------------------------------------------------------------------
(* The inductive invariant.  SleepersHaveReason needs that a process about *)
(* to sleep still has its reason (it holds p->lock), that nobody is inside *)
(* a pipe it does not hold open, and that the flags follow the holders.    *)

Slot(i) == (nread + i) % PIPESIZE

RingOK ==
  /\ Count \in 0..PIPESIZE
  /\ \A i \in 0..(Count - 1) : data[Slot(i)] \in Bytes

(* readopen and writeopen say whether a process holds the end.             *)
OpenWhileHeld ==
  /\ readopen <=> holds \cap Readers # {}
  /\ writeopen <=> holds \cap Writers # {}
  /\ freed <=> holds = {}

InsideHolds == \A p \in Procs : pc[p] # "user" => p \in holds

(* p->lock is held over a step only by a process about to sleep, whose     *)
(* reason cannot go away before it does.                                   *)
BlockedHasReason ==
  /\ \A p \in Procs : pc[p] = "block" => lock = p
  /\ \A p \in Readers : pc[p] = "block" => Count = 0 /\ writeopen
  /\ \A p \in Writers : pc[p] = "block" => Count = PIPESIZE /\ readopen

PipeInv ==
  /\ TypeOK /\ RingOK /\ OpenWhileHeld /\ InsideHolds /\ BlockedHasReason
  /\ killed \subseteq Killable

LEMMA PipeFacts ==
  ASSUME PipeInv
  PROVE  /\ nread \in Int /\ nwrite \in Int
         /\ PIPESIZE \in Nat \ {0} /\ Count \in 0..PIPESIZE
         /\ \A i \in Int : Slot(i) \in 0..(PIPESIZE - 1)
<1>1. nread \in Int /\ nwrite \in Int
  BY DEF PipeInv, TypeOK
<1>2. Count \in 0..PIPESIZE
  BY DEF PipeInv, RingOK
<1>3. \A i \in Int : nread + i \in Int
  BY <1>1
<1>4. \A i \in Int : Slot(i) \in 0..(PIPESIZE - 1)
  BY <1>3, Sizes, DivMod DEF Slot
<1> QED
  BY <1>1, <1>2, <1>4, Sizes

(* What the copy loop of pipewrite() does to the ring: the bytes in it     *)
(* stay, and the first k of the buffer come behind them.                   *)
LEMMA WriteRing ==
  ASSUME PipeInv, NEW p \in Writers, WriteRun(p), NEW k, k = Smaller(Room, Len(todo[p]))
  PROVE  /\ k \in Nat /\ k <= Len(todo[p]) /\ Count + k <= PIPESIZE
         /\ k < Len(todo[p]) => Count + k = PIPESIZE
         /\ Count' = Count + k
         /\ data' \in [0..(PIPESIZE - 1) -> Bytes \cup {Garbage}]
         /\ nwrite' \in 0..(CounterMod - 1)
         /\ \A i \in 0..(Count - 1) : data'[Slot(i)] = data[Slot(i)]
         /\ \A i \in Count..(Count + k - 1) : data'[Slot(i)] = todo[p][i - Count + 1]
<1>1. /\ nread \in Int /\ nwrite \in Int /\ Count \in 0..PIPESIZE /\ PIPESIZE \in Nat \ {0}
      /\ \A i \in Int : Slot(i) \in 0..(PIPESIZE - 1)
  BY PipeFacts
<1>2. todo[p] \in Seq(Bytes) /\ Len(todo[p]) \in Nat
  BY DEF PipeInv, TypeOK
<1>3. /\ k \in Nat /\ k <= Len(todo[p]) /\ Count + k <= PIPESIZE
      /\ k < Len(todo[p]) => Count + k = PIPESIZE
  <2> DEFINE l == Len(todo[p])
             c == Count
  <2>1. k = IF PIPESIZE - c < l THEN PIPESIZE - c ELSE l
    BY DEF Smaller, Room
  <2>2. l \in Nat /\ c \in 0..PIPESIZE /\ PIPESIZE \in Nat
    BY <1>1, <1>2
  <2> HIDE DEF l, c
  <2>3. k \in Nat /\ k <= l /\ c + k <= PIPESIZE /\ (k < l => c + k = PIPESIZE)
    BY <2>1, <2>2
  <2> QED
    BY <2>3 DEF l, c
<1>4. /\ data' = [j \in 0..(PIPESIZE - 1) |->
            LET i == (j - nwrite) % PIPESIZE
            IN  IF i < k THEN todo[p][i + 1] ELSE data[j]]
      /\ nwrite' = (nwrite + k) % CounterMod /\ nread' = nread
  BY DEF WriteRun
<1>5. Count' = Count + k
  <2>1. ((nwrite - nread) % CounterMod) + k < CounterMod
    BY <1>1, <1>3, Sizes DEF Count
  <2>2. (((nwrite + k) % CounterMod) - nread) % CounterMod = ((nwrite - nread) % CounterMod) + k
    BY <1>1, <1>3, <2>1, CountAfterWrite, Zenon
  <2> QED
    BY <1>4, <2>2 DEF Count
<1>6. nwrite' \in 0..(CounterMod - 1)
  <2>1. nwrite + k \in Int
    BY <1>1, <1>3
  <2> QED
    BY <1>4, <2>1, Sizes, DivMod
<1>7. data' \in [0..(PIPESIZE - 1) -> Bytes \cup {Garbage}]
  <2> SUFFICES ASSUME NEW j \in 0..(PIPESIZE - 1)
               PROVE  data'[j] \in Bytes \cup {Garbage}
    BY <1>4
  <2> DEFINE i == (j - nwrite) % PIPESIZE
  <2>1. j - nwrite \in Int
    BY <1>1
  <2>2. i \in Nat
    BY <1>1, <2>1, DivMod
  <2>3. data'[j] = IF i < k THEN todo[p][i + 1] ELSE data[j]
    BY <1>4
  <2> HIDE DEF i
  <2>4. i < k => todo[p][i + 1] \in Bytes
    BY <1>2, <1>3, <2>2
  <2>5. data[j] \in Bytes \cup {Garbage}
    BY DEF PipeInv, TypeOK
  <2> QED
    BY <2>3, <2>4, <2>5
<1>8. ASSUME NEW i \in 0..(PIPESIZE - 1)
      PROVE  /\ i < Count => data'[Slot(i)] = data[Slot(i)]
             /\ Count <= i /\ i < Count + k => data'[Slot(i)] = todo[p][i - Count + 1]
  <2> DEFINE j == Slot(i)
  <2>1. j \in 0..(PIPESIZE - 1)
    BY <1>1, SMTT(30)
  <2>2. (j - nwrite) % PIPESIZE = IF i < Count THEN PIPESIZE - Count + i ELSE i - Count
    <3>1. (j - nwrite) % PIPESIZE = (i - Count) % PIPESIZE
      <4>1. i \in Int
        OBVIOUS
      <4> QED
        BY <1>1, <4>1, SlotOffset, Zenon DEF Slot, Count
    <3> QED
      BY <1>1, <3>1, OffsetOf
  <2> HIDE DEF j
  <2>3. CASE i < Count
    <3>1. ~(PIPESIZE - Count + i < k)
      BY <1>1, <1>3
    <3> QED
      BY <1>1, <1>4, <2>1, <2>2, <2>3, <3>1 DEF j
  <2>4. CASE ~(i < Count)
    <3>1. i < Count + k => i - Count < k
      BY <1>1, <1>3
    <3> QED
      BY <1>1, <1>4, <2>1, <2>2, <2>4, <3>1 DEF j
  <2> QED
    BY <2>3, <2>4
<1>9. /\ \A i \in 0..(Count - 1) : i \in 0..(PIPESIZE - 1) /\ i < Count
      /\ \A i \in Count..(Count + k - 1) : i \in 0..(PIPESIZE - 1) /\ Count <= i /\ i < Count + k
  <2> DEFINE c == Count
  <2>1. c \in 0..PIPESIZE /\ c + k <= PIPESIZE /\ PIPESIZE \in Nat /\ k \in Nat
    BY <1>1, <1>3
  <2> HIDE DEF c
  <2>2. /\ \A i \in 0..(c - 1) : i \in 0..(PIPESIZE - 1) /\ i < c
        /\ \A i \in c..(c + k - 1) : i \in 0..(PIPESIZE - 1) /\ c <= i /\ i < c + k
    BY <2>1
  <2> QED
    BY <2>2 DEF c
<1> QED
  BY <1>3, <1>5, <1>6, <1>7, <1>8, <1>9

(* What the copy loop of piperead() does: the oldest bytes leave the ring. *)
LEMMA ReadRing ==
  ASSUME PipeInv, NEW k \in 0..Count, nread' = (nread + k) % CounterMod, nwrite' = nwrite
  PROVE  /\ Count' = Count - k
         /\ nread' \in 0..(CounterMod - 1)
         /\ \A i \in Int : Slot(i)' = Slot(k + i)
<1>1. nread \in Int /\ nwrite \in Int /\ Count \in 0..PIPESIZE /\ PIPESIZE \in Nat \ {0}
  BY PipeFacts
<1>2. Count' = Count - k
  BY <1>1, CountAfterRead DEF Count
<1>3. nread' \in 0..(CounterMod - 1)
  <2>1. nread + k \in Int
    BY <1>1
  <2> QED
    BY <2>1, Sizes, DivMod
<1>4. ASSUME NEW i \in Int PROVE Slot(i)' = Slot(k + i)
  <2>1. nread + k \in Int
    BY <1>1
  <2> DEFINE a == nread + k
  <2>2. a \in Int /\ a + i = nread + (k + i)
    BY <1>1
  <2> HIDE DEF a
  <2>3. ((a % CounterMod) + i) % PIPESIZE = (a + i) % PIPESIZE
    BY <2>2, WrapKeepsSlot
  <2>4. Slot(i)' = ((a % CounterMod) + i) % PIPESIZE
    BY DEF Slot, a
  <2> QED
    BY <2>2, <2>3, <2>4 DEF Slot
<1> QED
  BY <1>2, <1>3, <1>4

LEMMA CountUnchanged ==
  ASSUME nread' = nread, nwrite' = nwrite
  PROVE  Count' = Count /\ \A i \in Int : Slot(i)' = Slot(i)
BY DEF Count, Slot

PcValues == {"user", "block", "asleep", "woken"}

LEMMA WakeupFacts ==
  ASSUME TypeOK, NEW S
  PROVE  /\ Wakeup(pc, S) \in [Procs -> PcValues]
         /\ \A q \in Procs : /\ Wakeup(pc, S)[q] = "block" <=> pc[q] = "block"
                             /\ Wakeup(pc, S)[q] = "user" <=> pc[q] = "user"
                             /\ Wakeup(pc, S)[q] = "asleep" => pc[q] = "asleep" /\ q \notin S
BY DEF TypeOK, Wakeup, PcValues

(* Nobody is about to sleep while p->lock is free.                         *)
LEMMA NobodyBlocked ==
  ASSUME PipeInv, lock = Nobody, NEW q \in Procs
  PROVE  pc[q] # "block"
BY PipeAssumption DEF PipeInv, BlockedHasReason

LEMMA PipeInvInit == Init => PipeInv /\ SleepersHaveReason
<1> SUFFICES ASSUME Init PROVE PipeInv /\ SleepersHaveReason
  OBVIOUS
<1>1. Count = 0
  <2>1. nread = 0 /\ nwrite = 0 /\ CounterMod \in Nat \ {0}
    BY Sizes DEF Init
  <2>2. 0 \in 0..(CounterMod - 1) /\ nwrite - nread = 0
    BY <2>1
  <2> QED
    BY <2>1, <2>2, ModSmall DEF Count
<1>2. TypeOK
  <2>1. readopen \in BOOLEAN /\ writeopen \in BOOLEAN /\ freed \in BOOLEAN
    BY DEF Init
  <2> QED
    BY <2>1, Sizes, PipeAssumption DEF Init, TypeOK
<1>3. RingOK
  BY <1>1, Sizes DEF RingOK
<1>4. OpenWhileHeld /\ InsideHolds
  BY DEF Init, OpenWhileHeld, InsideHolds, Procs
<1>5. BlockedHasReason /\ SleepersHaveReason
  BY DEF Init, BlockedHasReason, SleepersHaveReason, Procs
<1> QED
  BY <1>2, <1>3, <1>4, <1>5 DEF PipeInv, Init

LEMMA PipeallocStep ==
  ASSUME PipeInv, Pipealloc
  PROVE  PipeInv' /\ SleepersHaveReason'
<1>1. \A p \in Procs : pc[p] = "user" /\ pc'[p] = "user"
  BY DEF PipeInv, TypeOK, OpenWhileHeld, InsideHolds, Pipealloc
<1>2. Count' = 0
  <2>1. nread' = 0 /\ nwrite' = 0 /\ CounterMod \in Nat \ {0}
    BY Sizes DEF Pipealloc
  <2>2. 0 \in 0..(CounterMod - 1) /\ nwrite' - nread' = 0
    BY <2>1
  <2> QED
    BY <2>1, <2>2, ModSmall DEF Count
<1>3. TypeOK'
  <2>1. readopen' \in BOOLEAN /\ writeopen' \in BOOLEAN /\ freed' \in BOOLEAN
    BY DEF Pipealloc
  <2> QED
    BY <2>1, Sizes DEF PipeInv, TypeOK, Pipealloc
<1>4. RingOK'
  BY <1>2, Sizes DEF RingOK
<1>5. OpenWhileHeld'
  BY PipeAssumption DEF Pipealloc, OpenWhileHeld, Procs
<1>6. InsideHolds' /\ BlockedHasReason' /\ SleepersHaveReason' /\ (killed \subseteq Killable)'
  BY <1>1 DEF Pipealloc, InsideHolds, BlockedHasReason, SleepersHaveReason, Procs
<1> QED
  BY <1>3, <1>4, <1>5, <1>6 DEF PipeInv

(* read() and write() enter.                                               *)
LEMMA CallStep ==
  ASSUME PipeInv,
         \/ \E p \in Writers, s \in Buffers : WriteCall(p, s)
         \/ \E p \in Readers, n \in 1..MaxCount : ReadCall(p, n)
  PROVE  PipeInv' /\ (SleepersHaveReason => SleepersHaveReason')
<1>1. PICK p \in Procs : pc[p] = "user" /\ p \in holds /\ pc' = [pc EXCEPT ![p] = "woken"]
  BY DEF WriteCall, ReadCall, Procs
<1>2. UNCHANGED <<data, nread, nwrite, readopen, writeopen, freed, lock, got, killed, holds>>
  BY DEF WriteCall, ReadCall, pipeVars
<1>3. TypeOK'
  <2>1. todo' \in [Writers -> Seq(Bytes)] /\ want' \in [Readers -> 0..MaxCount]
    <3>1. ASSUME NEW w \in Writers, NEW s \in Buffers, WriteCall(w, s)
          PROVE  todo' \in [Writers -> Seq(Bytes)] /\ want' = want
      <4>1. s \in Seq(Bytes)
        BY DEF Buffers
      <4> QED
        BY <3>1, <4>1 DEF PipeInv, TypeOK, WriteCall
    <3>2. ASSUME NEW r \in Readers, NEW n \in 1..MaxCount, ReadCall(r, n)
          PROVE  todo' = todo /\ want' \in [Readers -> 0..MaxCount]
      BY <3>2, PipeAssumption DEF PipeInv, TypeOK, ReadCall
    <3> QED
      BY <3>1, <3>2 DEF PipeInv, TypeOK
  <2>2. pc' \in [Procs -> PcValues]
    BY <1>1 DEF PipeInv, TypeOK, PcValues
  <2> QED
    BY <1>2, <2>1, <2>2 DEF PipeInv, TypeOK, PcValues
<1>4. Count' = Count /\ \A i \in Int : Slot(i)' = Slot(i)
  BY <1>2, CountUnchanged
<1>5. \A q \in Procs : (pc'[q] = pc[q] \/ q = p) /\ pc'[p] = "woken"
  BY <1>1 DEF PipeInv, TypeOK
<1>6. RingOK'
  <2>1. \A i \in 0..(Count - 1) : i \in Int
    BY PipeFacts
  <2> QED
    BY <1>2, <1>4, <2>1 DEF PipeInv, RingOK
<1>7. OpenWhileHeld' /\ InsideHolds' /\ BlockedHasReason' /\ (killed \subseteq Killable)'
  BY <1>1, <1>2, <1>4, <1>5 DEF PipeInv, OpenWhileHeld, InsideHolds, BlockedHasReason, Procs
<1>8. SleepersHaveReason => SleepersHaveReason'
  BY <1>1, <1>2, <1>4, <1>5 DEF SleepersHaveReason, Procs
<1> QED
  BY <1>3, <1>6, <1>7, <1>8 DEF PipeInv

LEMMA WriteRunStep ==
  ASSUME PipeInv, NEW p \in Writers, WriteRun(p)
  PROVE  /\ PipeInv'
         /\ SleepersHaveReason => SleepersHaveReason'
<1> DEFINE k == Smaller(Room, Len(todo[p]))
<1>1. /\ k \in Nat /\ k <= Len(todo[p]) /\ Count + k <= PIPESIZE
      /\ k < Len(todo[p]) => Count + k = PIPESIZE
      /\ Count' = Count + k
      /\ data' \in [0..(PIPESIZE - 1) -> Bytes \cup {Garbage}]
      /\ nwrite' \in 0..(CounterMod - 1)
      /\ \A i \in 0..(Count - 1) : data'[Slot(i)] = data[Slot(i)]
      /\ \A i \in Count..(Count + k - 1) : data'[Slot(i)] = todo[p][i - Count + 1]
  BY WriteRing
<1>2. /\ p \in Procs /\ p \notin Readers /\ p \in holds /\ lock = Nobody
      /\ Count \in 0..PIPESIZE /\ PIPESIZE \in Nat
      /\ todo[p] \in Seq(Bytes) /\ Len(todo[p]) \in Nat
  <2>1. p \in Procs /\ p \notin Readers /\ lock = Nobody /\ pc[p] = "woken"
    BY PipeAssumption DEF WriteRun, Procs
  <2>2. p \in holds
    BY <2>1 DEF PipeInv, InsideHolds
  <2>3. todo[p] \in Seq(Bytes) /\ Len(todo[p]) \in Nat
    BY DEF PipeInv, TypeOK
  <2> QED
    BY <2>1, <2>2, <2>3, PipeFacts
<1>3. \/ /\ k = Len(todo[p])
         /\ todo' = [todo EXCEPT ![p] = << >>]
         /\ pc' = [Wakeup(pc, Readers) EXCEPT ![p] = "user"]
         /\ lock' = lock
      \/ /\ k < Len(todo[p]) /\ (~readopen \/ p \in killed)
         /\ todo' = [todo EXCEPT ![p] = << >>]
         /\ pc' = [pc EXCEPT ![p] = "user"]
         /\ lock' = lock
      \/ /\ k < Len(todo[p]) /\ readopen
         /\ todo' = [todo EXCEPT ![p] = SubSeq(@, k + 1, Len(@))]
         /\ pc' = [Wakeup(pc, Readers) EXCEPT ![p] = "block"]
         /\ lock' = p
  BY DEF WriteRun, KeepLock
<1>4. UNCHANGED <<nread, readopen, writeopen, freed, want, got, killed, holds>>
  BY DEF WriteRun
<1> HIDE DEF k
<1>5. TypeOK'
  <2>1. todo' \in [Writers -> Seq(Bytes)]
    <3>1. << >> \in Seq(Bytes) /\ SubSeq(todo[p], k + 1, Len(todo[p])) \in Seq(Bytes)
      BY <1>1, <1>2
    <3> QED
      BY <1>3, <3>1 DEF PipeInv, TypeOK
  <2>2. pc' \in [Procs -> PcValues]
    BY <1>3, WakeupFacts DEF PipeInv, TypeOK, PcValues
  <2> QED
    BY <1>1, <1>2, <1>3, <1>4, <2>1, <2>2 DEF PipeInv, TypeOK, PcValues
<1>6. RingOK'
  <2>1. Count' \in 0..PIPESIZE
    BY <1>1, <1>2
  <2>2. ASSUME NEW i \in 0..(Count' - 1) PROVE (data')[Slot(i)'] \in Bytes
    <3>1. Slot(i)' = Slot(i)
      BY <1>4 DEF Slot
    <3>2. CASE i < Count
      <4>1. i \in 0..(Count - 1)
        BY <1>2, <3>2
      <4> QED
        BY <1>1, <3>1, <4>1 DEF PipeInv, RingOK
    <3>3. CASE ~(i < Count)
      <4>1. i \in Count..(Count + k - 1) /\ i - Count + 1 \in 1..Len(todo[p])
        BY <1>1, <1>2, <3>3
      <4> QED
        BY <1>1, <1>2, <3>1, <4>1
    <3> QED
      BY <3>2, <3>3
  <2> QED
    BY <2>1, <2>2 DEF RingOK
<1>7. OpenWhileHeld' /\ (killed \subseteq Killable)'
  BY <1>4 DEF PipeInv, OpenWhileHeld
<1>8. \A q \in Procs \ {p} :
        /\ pc'[q] # "user" => pc[q] # "user"
        /\ pc'[q] # "block"
        /\ pc'[q] = "asleep" => pc[q] = "asleep"
  BY <1>2, <1>3, WakeupFacts, NobodyBlocked DEF PipeInv, TypeOK
<1>9. InsideHolds'
  BY <1>2, <1>4, <1>8 DEF PipeInv, InsideHolds
<1>10. pc'[p] \in {"user", "block"}
       /\ (pc'[p] = "block" => lock' = p /\ k < Len(todo[p]) /\ readopen)
  BY <1>2, <1>3, WakeupFacts DEF PipeInv, TypeOK
<1>11. BlockedHasReason'
  <2>1. \A q \in Procs : pc'[q] = "block" => q = p
    BY <1>8
  <2>2. pc'[p] = "block" => lock' = p /\ Count' = PIPESIZE /\ readopen'
    BY <1>1, <1>2, <1>4, <1>10
  <2> QED
    BY <1>2, <2>1, <2>2 DEF BlockedHasReason, Procs
<1>12. ASSUME SleepersHaveReason PROVE SleepersHaveReason'
  <2>1. ASSUME NEW q \in Readers, pc'[q] = "asleep"
        PROVE  writeopen' /\ killed' \cap Writers # {}
    <3>1. q \in Procs /\ q # p
      BY <1>2 DEF Procs
    <3>2. pc[q] = "asleep" /\ writeopen /\ readopen
      BY <1>8, <1>12, <2>1, <3>1
         DEF SleepersHaveReason, PipeInv, TypeOK, OpenWhileHeld, InsideHolds
    <3>3. p \in killed
      BY <1>2, <1>3, <2>1, <3>1, <3>2, WakeupFacts DEF PipeInv, TypeOK
    <3> QED
      BY <1>4, <3>2, <3>3
  <2>2. ASSUME NEW q \in Writers, pc'[q] = "asleep" PROVE Count' = PIPESIZE /\ readopen'
    <3>1. q # p /\ q \in Procs
      BY <1>10, <2>2 DEF Procs
    <3>2. Count = PIPESIZE /\ readopen
      BY <1>8, <1>12, <2>2, <3>1 DEF SleepersHaveReason
    <3> QED
      BY <1>1, <1>2, <1>4, <3>2
  <2> QED
    BY <2>1, <2>2 DEF SleepersHaveReason
<1> QED
  BY <1>5, <1>6, <1>7, <1>9, <1>11, <1>12 DEF PipeInv

LEMMA ReadRunStep ==
  ASSUME PipeInv, NEW p \in Readers, ReadRun(p)
  PROVE  PipeInv' /\ (SleepersHaveReason => SleepersHaveReason')
<1>1. /\ p \in Procs /\ p \notin Writers /\ p \in holds /\ lock = Nobody
      /\ Count \in 0..PIPESIZE /\ PIPESIZE \in Nat \ {0} /\ want[p] \in Nat
      /\ 0 \in 0..MaxCount
  BY PipeAssumption, PipeFacts DEF PipeInv, TypeOK, InsideHolds, ReadRun, Procs
<1>2. UNCHANGED <<data, nwrite, readopen, writeopen, freed, todo, killed, holds>>
  BY DEF ReadRun
<1>3. OpenWhileHeld' /\ (killed \subseteq Killable)'
  BY <1>2 DEF PipeInv, OpenWhileHeld
<1>4. CASE /\ Count = 0 /\ writeopen
           /\ \/ pc' = [pc EXCEPT ![p] = "user"] /\ want' = [want EXCEPT ![p] = 0] /\ lock' = lock
              \/ pc' = [pc EXCEPT ![p] = "block"] /\ want' = want /\ lock' = p
           /\ UNCHANGED <<nread, got>>
  <2>1. Count' = Count /\ \A i \in Int : Slot(i)' = Slot(i)
    BY <1>2, <1>4, CountUnchanged
  <2>2. TypeOK'
    <3>1. pc' \in [Procs -> PcValues]
      BY <1>4 DEF PipeInv, TypeOK, PcValues
    <3>2. want' \in [Readers -> 0..MaxCount] /\ lock' \in Procs \cup {Nobody}
      BY <1>1, <1>4 DEF PipeInv, TypeOK
    <3> QED
      BY <1>2, <1>4, <3>1, <3>2 DEF PipeInv, TypeOK, PcValues
  <2>3. RingOK'
    BY <1>1, <1>4, <2>1 DEF RingOK
  <2>4. /\ \A q \in Procs \ {p} : pc'[q] = pc[q] /\ pc'[q] # "block"
        /\ pc'[p] \in {"user", "block"} /\ (pc'[p] = "block" => lock' = p)
    BY <1>1, <1>4, NobodyBlocked DEF PipeInv, TypeOK
  <2>5. InsideHolds'
    BY <1>1, <1>2, <2>4 DEF PipeInv, InsideHolds
  <2>6. BlockedHasReason'
    BY <1>1, <1>2, <1>4, <2>1, <2>4 DEF BlockedHasReason, Procs
  <2>7. SleepersHaveReason => SleepersHaveReason'
    BY <1>1, <1>2, <1>4, <2>1, <2>4 DEF SleepersHaveReason, Procs
  <2> QED
    BY <1>3, <2>2, <2>3, <2>5, <2>6, <2>7 DEF PipeInv
<1>5. CASE /\ Count > 0 \/ ~writeopen
           /\ got' = [i \in 1..ReadCount(p) |-> data[(nread + i - 1) % PIPESIZE]]
           /\ nread' = (nread + ReadCount(p)) % CounterMod
           /\ pc' = [Wakeup(pc, Writers) EXCEPT ![p] = "user"]
           /\ want' = [want EXCEPT ![p] = 0]
           /\ lock' = lock
  <2> DEFINE k == ReadCount(p)
  <2>1. k \in 0..Count
    BY <1>1 DEF ReadCount, Smaller
  <2>2. /\ Count' = Count - k /\ nread' \in 0..(CounterMod - 1)
        /\ \A i \in Int : Slot(i)' = Slot(k + i)
    BY <1>2, <1>5, <2>1, ReadRing
  <2>3. got' \in Seq(Bytes)
    <3>1. ASSUME NEW i \in 1..k PROVE data[(nread + i - 1) % PIPESIZE] \in Bytes
      <4>1. i - 1 \in 0..(Count - 1)
        BY <1>1, <2>1
      <4>2. nread + i - 1 = nread + (i - 1)
        BY PipeFacts
      <4> QED
        BY <4>1, <4>2 DEF PipeInv, RingOK, Slot
    <3>2. k \in Nat
      BY <1>1, <2>1
    <3> HIDE DEF k
    <3>3. got' \in [1..k -> Bytes]
      BY <1>5, <3>1 DEF k
    <3> QED
      BY <3>2, <3>3
  <2> HIDE DEF k
  <2>4. TypeOK'
    <3>1. pc' \in [Procs -> PcValues]
      BY <1>5, WakeupFacts DEF PipeInv, PcValues
    <3>2. want' \in [Readers -> 0..MaxCount]
      BY <1>1, <1>5 DEF PipeInv, TypeOK
    <3> QED
      BY <1>2, <1>5, <2>2, <2>3, <3>1, <3>2 DEF PipeInv, TypeOK, PcValues
  <2>5. RingOK'
    <3>1. Count' \in 0..PIPESIZE
      BY <1>1, <2>1, <2>2
    <3>2. ASSUME NEW i \in 0..(Count' - 1) PROVE data'[Slot(i)'] \in Bytes
      <4>1. i \in Int /\ k + i \in 0..(Count - 1)
        BY <1>1, <2>1, <2>2
      <4> QED
        BY <1>2, <2>2, <4>1 DEF PipeInv, RingOK
    <3> QED
      BY <3>1, <3>2 DEF RingOK
  <2>6. /\ \A q \in Procs \ {p} :
             /\ pc'[q] # "user" => pc[q] # "user"
             /\ pc'[q] # "block"
             /\ pc'[q] = "asleep" => pc[q] = "asleep" /\ q \notin Writers
        /\ pc'[p] = "user"
    BY <1>1, <1>5, WakeupFacts, NobodyBlocked DEF PipeInv, TypeOK
  <2>7. InsideHolds'
    BY <1>1, <1>2, <2>6 DEF PipeInv, InsideHolds
  <2>8. BlockedHasReason'
    BY <2>6 DEF BlockedHasReason, Procs
  <2>9. ASSUME SleepersHaveReason PROVE SleepersHaveReason'
    <3>1. ASSUME NEW q \in Readers, pc[q] = "asleep"
          PROVE  writeopen /\ killed \cap Writers # {}
      BY <1>1, <1>5, <2>9, <3>1 DEF SleepersHaveReason
    <3> QED
      BY <1>1, <1>2, <2>6, <3>1 DEF SleepersHaveReason, Procs
  <2> QED
    BY <1>3, <2>4, <2>5, <2>7, <2>8, <2>9 DEF PipeInv
<1> QED
  BY <1>4, <1>5 DEF ReadRun, KeepLock

LEMMA SleepStep ==
  ASSUME PipeInv, NEW p \in Procs, Sleep(p)
  PROVE  PipeInv' /\ (SleepersHaveReason => SleepersHaveReason')
<1>1. UNCHANGED <<data, nread, nwrite, readopen, writeopen, freed, todo, want, got, killed, holds>>
  BY DEF Sleep, pipeVars
<1>2. Count' = Count /\ \A i \in Int : Slot(i)' = Slot(i)
  BY <1>1, CountUnchanged
<1>3. pc[p] = "block" /\ pc'[p] = "asleep" /\ \A q \in Procs \ {p} : pc'[q] = pc[q]
  BY DEF PipeInv, TypeOK, Sleep
<1>4. TypeOK'
  BY <1>1 DEF PipeInv, TypeOK, Sleep
<1>5. RingOK'
  <2>1. \A i \in 0..(Count - 1) : i \in Int
    BY PipeFacts
  <2> QED
    BY <1>1, <1>2, <2>1 DEF PipeInv, RingOK
<1>6. OpenWhileHeld' /\ InsideHolds' /\ (killed \subseteq Killable)'
  BY <1>1, <1>3 DEF PipeInv, OpenWhileHeld, InsideHolds
<1>7. BlockedHasReason'
  <2>1. \A q \in Procs : pc'[q] # "block"
    BY <1>3 DEF PipeInv, BlockedHasReason
  <2> QED
    BY <2>1 DEF BlockedHasReason, Procs
<1>8. SleepersHaveReason => SleepersHaveReason'
  BY <1>1, <1>2, <1>3 DEF PipeInv, BlockedHasReason, SleepersHaveReason, Procs
<1> QED
  BY <1>4, <1>5, <1>6, <1>7, <1>8 DEF PipeInv

LEMMA KillStep ==
  ASSUME PipeInv, NEW p \in Procs, Kill(p)
  PROVE  PipeInv' /\ (SleepersHaveReason => SleepersHaveReason')
<1>1. UNCHANGED <<data, nread, nwrite, readopen, writeopen, freed, lock, todo, want, got, holds>>
  BY DEF Kill, pipeVars
<1>2. Count' = Count /\ \A i \in Int : Slot(i)' = Slot(i)
  BY <1>1, CountUnchanged
<1>3. /\ pc' \in [Procs -> PcValues]
      /\ \A q \in Procs : /\ pc'[q] = "block" <=> pc[q] = "block"
                          /\ pc'[q] = "user" <=> pc[q] = "user"
                          /\ pc'[q] = "asleep" => pc[q] = "asleep"
  BY WakeupFacts DEF PipeInv, Kill
<1>4. TypeOK' /\ (killed \subseteq Killable)'
  BY <1>1, <1>3 DEF PipeInv, TypeOK, PcValues, Kill
<1>5. RingOK'
  <2>1. \A i \in 0..(Count - 1) : i \in Int
    BY PipeFacts
  <2> QED
    BY <1>1, <1>2, <2>1 DEF PipeInv, RingOK
<1>6. OpenWhileHeld' /\ InsideHolds' /\ BlockedHasReason'
  BY <1>1, <1>2, <1>3 DEF PipeInv, OpenWhileHeld, InsideHolds, BlockedHasReason, Procs
<1>7. SleepersHaveReason => SleepersHaveReason'
  <2>1. killed \subseteq killed'
    BY DEF Kill
  <2> QED
    BY <1>1, <1>2, <1>3, <2>1 DEF SleepersHaveReason, Procs
<1> QED
  BY <1>4, <1>5, <1>6, <1>7 DEF PipeInv

(* The last descriptor of an end wakes the other end.                      *)
LEMMA CloseStep ==
  ASSUME PipeInv, NEW p \in Procs, Close(p)
  PROVE  PipeInv' /\ (SleepersHaveReason => SleepersHaveReason')
<1>1. UNCHANGED <<data, nread, nwrite, lock, todo, want, got, killed>>
  BY DEF Close
<1>2. Count' = Count /\ \A i \in Int : Slot(i)' = Slot(i)
  BY <1>1, CountUnchanged
<1>3. pc[p] = "user" /\ p \in holds /\ lock = Nobody /\ holds' = holds \ {p}
  BY DEF Close
<1>4. /\ readopen' \in BOOLEAN /\ writeopen' \in BOOLEAN /\ freed' \in BOOLEAN
      /\ readopen' <=> readopen /\ holds' \cap Readers # {}
      /\ writeopen' <=> writeopen /\ holds' \cap Writers # {}
      /\ freed' <=> ~readopen' /\ ~writeopen'
  BY DEF Close, BothSidesClosed
<1>5. /\ pc' \in [Procs -> PcValues]
      /\ \A q \in Procs : /\ pc'[q] # "block"
                          /\ pc'[q] = "user" <=> pc[q] = "user"
                          /\ pc'[q] = "asleep" => pc[q] = "asleep"
  BY <1>3, WakeupFacts, NobodyBlocked DEF PipeInv, TypeOK, PcValues, Close
<1>6. TypeOK' /\ (killed \subseteq Killable)'
  BY <1>1, <1>3, <1>4, <1>5 DEF PipeInv, TypeOK, PcValues
<1>7. RingOK'
  <2>1. \A i \in 0..(Count - 1) : i \in Int
    BY PipeFacts
  <2> QED
    BY <1>1, <1>2, <2>1 DEF PipeInv, RingOK
<1>8. OpenWhileHeld'
  <2>1. /\ readopen' <=> holds' \cap Readers # {}
        /\ writeopen' <=> holds' \cap Writers # {}
    BY <1>3, <1>4 DEF PipeInv, OpenWhileHeld
  <2>2. holds' \subseteq Readers \cup Writers
    BY <1>3 DEF PipeInv, TypeOK, Procs
  <2>3. freed' <=> holds' = {}
    BY <1>4, <2>1, <2>2
  <2> QED
    BY <2>1, <2>3 DEF OpenWhileHeld
<1>9. InsideHolds' /\ BlockedHasReason'
  BY <1>3, <1>5 DEF PipeInv, InsideHolds, BlockedHasReason, Procs
<1>10. ASSUME SleepersHaveReason PROVE SleepersHaveReason'
  <2>1. ASSUME NEW q \in Readers, pc'[q] = "asleep"
        PROVE  writeopen' /\ (Count' = 0 \/ killed' \cap Writers # {})
    <3>1. /\ pc[q] = "asleep" /\ writeopen /\ q \in Procs
          /\ Count = 0 \/ killed \cap Writers # {}
      BY <1>5, <1>10, <2>1 DEF SleepersHaveReason, Procs
    <3>2. CASE writeopen' = writeopen
      BY <1>1, <1>2, <3>1, <3>2
    <3>3. CASE writeopen' # writeopen
      <4>1. pc' = Wakeup(pc, Readers)
        BY <3>3 DEF Close
      <4> QED
        BY <2>1, <3>1, <4>1, WakeupFacts DEF PipeInv
    <3> QED
      BY <3>2, <3>3
  <2>2. ASSUME NEW q \in Writers, pc'[q] = "asleep" PROVE Count' = PIPESIZE /\ readopen'
    <3>1. pc[q] = "asleep" /\ Count = PIPESIZE /\ readopen /\ q \in Procs /\ q \in holds /\ q # p
      BY <1>3, <1>5, <1>10, <2>2 DEF SleepersHaveReason, PipeInv, InsideHolds, Procs
    <3>2. writeopen' = writeopen
      <4>1. writeopen /\ holds' \cap Writers # {}
        BY <1>3, <3>1, <2>2 DEF PipeInv, OpenWhileHeld
      <4> QED
        BY <1>4, <4>1 DEF PipeInv, TypeOK
    <3>3. CASE readopen' = readopen
      BY <1>2, <3>1, <3>3
    <3>4. CASE readopen' # readopen
      <4>1. pc' = Wakeup(pc, Writers)
        BY <3>2, <3>4 DEF Close
      <4> QED
        BY <2>2, <3>1, <4>1, WakeupFacts DEF PipeInv
    <3> QED
      BY <3>3, <3>4
  <2> QED
    BY <2>1, <2>2 DEF SleepersHaveReason
<1> QED
  BY <1>6, <1>7, <1>8, <1>9, <1>10 DEF PipeInv

LEMMA PipeStutter ==
  ASSUME PipeInv, UNCHANGED vars
  PROVE  PipeInv' /\ (SleepersHaveReason => SleepersHaveReason')
<1>1. Count' = Count /\ \A i \in Int : Slot(i)' = Slot(i)
  BY CountUnchanged DEF vars
<1>2. RingOK'
  <2>1. \A i \in 0..(Count - 1) : i \in Int
    BY PipeFacts
  <2> QED
    BY <1>1, <2>1 DEF PipeInv, RingOK, vars
<1> QED
  BY <1>1, <1>2 DEF vars, PipeInv, TypeOK, OpenWhileHeld, InsideHolds, BlockedHasReason,
     SleepersHaveReason

LEMMA PipeNext ==
  ASSUME PipeInv, [Next]_vars
  PROVE  /\ PipeInv'
         /\ SleepersHaveReason => SleepersHaveReason'
<1>1. CASE UNCHANGED vars
  BY <1>1, PipeStutter
<1>2. CASE Next
  BY <1>2, PipeallocStep, WriteRunStep, CallStep, ReadRunStep, SleepStep, KillStep, CloseStep
     DEF Next
<1> QED
  BY <1>1, <1>2

------------------------------------------------------------------------------
(* The inductive invariant of the pipe: see PipeInv.                       *)
THEOREM PipeInvariant == Spec => []PipeInv
<1>1. Init => PipeInv
  BY PipeInvInit
<1>2. PipeInv /\ [Next]_vars => PipeInv'
  BY PipeNext
<1> QED
  BY <1>1, <1>2, PTL DEF Spec

(* Every variable of the pipe keeps its type: what is read are bytes that  *)
(* were written, never the Garbage of a fresh page.                        *)
THEOREM PipeTypeCorrect == Spec => []TypeOK
<1>1. PipeInv => TypeOK
  BY DEF PipeInv
<1> QED
  BY <1>1, PipeInvariant, PTL

(* No process sleeps in the pipe without a reason, whoever is killed: the  *)
(* only wakeup that can be missing is the one that a killed writer owes to *)
(* the readers.                                                            *)
THEOREM SleepersAlwaysHaveReason == Spec => []SleepersHaveReason
<1>1. Init => PipeInv /\ SleepersHaveReason
  BY PipeInvInit
<1>2. PipeInv /\ SleepersHaveReason /\ [Next]_vars => (PipeInv /\ SleepersHaveReason)'
  BY PipeNext
<1> QED
  BY <1>1, <1>2, PTL DEF Spec

(* The page of the pipe goes only when nobody holds it or is inside it.    *)
THEOREM PipeFreedWhenUnused == Spec => []FreedWhenUnused
<1>1. PipeInv => FreedWhenUnused
  BY DEF PipeInv, OpenWhileHeld, InsideHolds, FreedWhenUnused
<1> QED
  BY <1>1, PipeInvariant, PTL

------------------------------------------------------------------------------
(* The pipe implements Channel.                                            *)

(* The queue that the ring stands for.                                     *)
ContentsOK ==
  /\ Contents \in Seq(Bytes) /\ Len(Contents) = Count
  /\ \A i \in 1..Count : Contents[i] = data[Slot(i - 1)]

LEMMA ContentsFacts == PipeInv => ContentsOK
<1> SUFFICES ASSUME PipeInv PROVE ContentsOK
  OBVIOUS
<1> DEFINE n == Count
<1>1. n \in Nat /\ nread \in Int
  BY PipeFacts
<1>2. \A i \in 1..n : nread + i - 1 = nread + (i - 1) /\ i - 1 \in 0..(n - 1)
  BY <1>1
<1>3. \A i \in 1..n : Contents[i] = data[Slot(i - 1)] /\ data[Slot(i - 1)] \in Bytes
  BY <1>2 DEF Contents, Slot, PipeInv, RingOK
<1>4. Contents = [i \in 1..n |-> Contents[i]]
  BY DEF Contents
<1> HIDE DEF n
<1>5. Contents \in [1..n -> Bytes]
  BY <1>3, <1>4
<1>6. Contents \in Seq(Bytes) /\ Len(Contents) = n
  BY <1>1, <1>5
<1> QED
  BY <1>3, <1>6 DEF n, ContentsOK

LEMMA ContentsFactsNext == PipeInv' => ContentsOK'
BY ContentsFacts, PTL

LEMMA ChannelInit == Init => Ch!Init
<1> SUFFICES ASSUME Init PROVE Ch!Init
  OBVIOUS
<1>1. PipeInv
  BY PipeInvInit
<1>2. Count = 0
  <2>1. nread = 0 /\ nwrite = 0 /\ CounterMod \in Nat \ {0}
    BY Sizes DEF Init
  <2>2. 0 \in 0..(CounterMod - 1) /\ nwrite - nread = 0
    BY <2>1
  <2> QED
    BY <2>1, <2>2, ModSmall DEF Count
<1>3. Contents = << >>
  BY <1>1, <1>2, ContentsFacts DEF ContentsOK
<1> QED
  BY <1>3 DEF Init, Ch!Init

LEMMA ChannelOpen ==
  ASSUME PipeInv, PipeInv', Pipealloc
  PROVE  Ch!Open
<1>1. Count' = 0
  <2>1. nread' = 0 /\ nwrite' = 0 /\ CounterMod \in Nat \ {0}
    BY Sizes DEF Pipealloc
  <2>2. 0 \in 0..(CounterMod - 1) /\ nwrite' - nread' = 0
    BY <2>1
  <2> QED
    BY <2>1, <2>2, ModSmall DEF Count
<1>2. Contents' = << >>
  BY <1>1, ContentsFactsNext DEF ContentsOK
<1>3. ~readopen /\ ~writeopen
  BY DEF PipeInv, OpenWhileHeld, Pipealloc
<1> QED
  BY <1>2, <1>3 DEF Ch!Open, Pipealloc

(* The copy loop of pipewrite() appends.                                   *)
LEMMA ChannelPut ==
  ASSUME PipeInv, PipeInv', NEW p \in Writers, WriteRun(p)
  PROVE  Ch!Put
<1> DEFINE k == Smaller(Room, Len(todo[p]))
<1>1. /\ k \in Nat /\ Count' = Count + k /\ Count + k <= PIPESIZE
      /\ \A i \in 0..(Count - 1) : data'[Slot(i)] = data[Slot(i)]
  BY WriteRing
<1> HIDE DEF k
<1>2. Count \in Nat /\ Count' \in Nat /\ Count <= Count'
  BY <1>1, PipeFacts
<1>3. writeopen
  <2>1. pc[p] = "woken" /\ p \in Procs
    BY DEF WriteRun, Procs
  <2> QED
    BY <2>1 DEF PipeInv, InsideHolds, OpenWhileHeld
<1>4. /\ Contents \in Seq(Bytes) /\ Len(Contents) = Count
      /\ Contents' \in Seq(Bytes) /\ Len(Contents') = Count'
  BY ContentsFacts, ContentsFactsNext DEF ContentsOK
<1>5. ASSUME NEW i \in 1..Count PROVE Contents'[i] = Contents[i]
  <2>1. i \in 1..Count' /\ i - 1 \in 0..(Count - 1)
    BY <1>1, <1>2
  <2>2. Slot(i - 1)' = Slot(i - 1)
    BY DEF Slot, WriteRun
  <2>3. Contents'[i] = data'[Slot(i - 1)'] /\ Contents[i] = data[Slot(i - 1)]
    BY <2>1, ContentsFacts, ContentsFactsNext DEF ContentsOK
  <2> QED
    BY <1>1, <2>1, <2>2, <2>3
<1>6. SubSeq(Contents', 1, Len(Contents)) = Contents
  <2> DEFINE q == Contents
             r == Contents'
             n == Count
             m == Count'
  <2>1. /\ q \in Seq(Bytes) /\ Len(q) = n /\ r \in Seq(Bytes) /\ Len(r) = m
        /\ n \in Nat /\ m \in Nat /\ n <= m /\ \A i \in 1..n : r[i] = q[i]
    BY <1>2, <1>4, <1>5
  <2> HIDE DEF q, r, n, m
  <2>2. SubSeq(r, 1, n) = q
    BY <2>1
  <2> QED
    BY <2>1, <2>2 DEF q, r, n
<1> QED
  BY <1>1, <1>2, <1>3, <1>4, <1>6 DEF Ch!Put, WriteRun

(* The copy loop of piperead() takes from the front.                       *)
LEMMA ChannelTake ==
  ASSUME PipeInv, PipeInv', NEW p \in Readers, ReadRun(p)
  PROVE  Ch!Take \/ UNCHANGED <<Contents, got, readopen, writeopen>>
<1>1. UNCHANGED <<data, nwrite, readopen, writeopen>>
  BY DEF ReadRun
<1>2. CASE UNCHANGED <<nread, got>>
  BY <1>1, <1>2 DEF Contents, Count
<1>3. CASE /\ got' = [i \in 1..ReadCount(p) |-> data[(nread + i - 1) % PIPESIZE]]
           /\ nread' = (nread + ReadCount(p)) % CounterMod
  <2> DEFINE k == ReadCount(p)
  <2>1. Count \in Nat /\ nread \in Int /\ want[p] \in Nat
    BY PipeFacts DEF PipeInv, TypeOK
  <2>2. k \in 0..Count /\ k \in Nat
    BY <2>1 DEF ReadCount, Smaller
  <2>3. Count' = Count - k /\ \A i \in Int : Slot(i)' = Slot(k + i)
    BY <1>1, <1>3, <2>2, ReadRing
  <2>4. readopen
    <3>1. pc[p] = "woken" /\ p \in Procs
      BY DEF ReadRun, Procs
    <3> QED
      BY <3>1 DEF PipeInv, InsideHolds, OpenWhileHeld
  <2>5. /\ Contents \in Seq(Bytes) /\ Len(Contents) = Count
        /\ Contents' \in Seq(Bytes) /\ Len(Contents') = Count'
    BY ContentsFacts, ContentsFactsNext DEF ContentsOK
  <2>6. got' = [i \in 1..k |-> Contents[i]]
    <3>1. \A i \in 1..k : i \in 1..Count
      BY <2>1, <2>2
    <3>2. \A i \in 1..k : Contents[i] = data[(nread + i - 1) % PIPESIZE]
      BY <3>1 DEF Contents
    <3> QED
      BY <1>3, <3>2
  <2> HIDE DEF k
  <2>7. ASSUME NEW i \in 1..Count' PROVE Contents'[i] = Contents[k + i]
    <3>1. i \in Int /\ i - 1 \in Int /\ k + i \in 1..Count /\ k + (i - 1) = (k + i) - 1
      BY <2>1, <2>2, <2>3
    <3>2. Contents'[i] = data'[Slot(i - 1)'] /\ Contents[k + i] = data[Slot((k + i) - 1)]
      BY <3>1, ContentsFacts, ContentsFactsNext DEF ContentsOK
    <3>3. Slot(i - 1)' = Slot(k + (i - 1))
      BY <2>3, <3>1
    <3> QED
      BY <1>1, <3>1, <3>2, <3>3
  <2>8. /\ got' = SubSeq(Contents, 1, k) /\ Contents' = SubSeq(Contents, k + 1, Len(Contents))
    <3> DEFINE q == Contents
               r == Contents'
               n == Count
    <3>1. /\ q \in Seq(Bytes) /\ Len(q) = n /\ r \in Seq(Bytes) /\ Len(r) = n - k
          /\ n \in Nat /\ k \in 0..n /\ \A i \in 1..(n - k) : r[i] = q[k + i]
          /\ got' = [i \in 1..k |-> q[i]]
      BY <2>1, <2>2, <2>3, <2>5, <2>6, <2>7
    <3> HIDE DEF q, r, n
    <3>2. got' = SubSeq(q, 1, k)
      BY <3>1
    <3>3. r = SubSeq(q, k + 1, n)
      BY <3>1
    <3> QED
      BY <3>1, <3>2, <3>3 DEF q, r
  <2>9. k \in 0..Len(Contents)
    BY <2>2, <2>5
  <2> QED
    BY <1>1, <2>4, <2>8, <2>9 DEF Ch!Take
<1> QED
  BY <1>2, <1>3 DEF ReadRun

LEMMA ChannelClose ==
  ASSUME PipeInv, PipeInv', NEW p \in Procs, Close(p)
  PROVE  Ch!CloseRead \/ Ch!CloseWrite \/ UNCHANGED <<Contents, got, readopen, writeopen>>
<1>1. UNCHANGED <<Contents, got>>
  BY DEF Close, Contents, Count
<1>2. /\ readopen \in BOOLEAN /\ writeopen \in BOOLEAN
      /\ readopen' \in BOOLEAN /\ writeopen' \in BOOLEAN
      /\ (readopen' => readopen) /\ (writeopen' => writeopen)
  BY DEF PipeInv, TypeOK, Close
<1>3. readopen' = readopen \/ writeopen' = writeopen
  <2>1. CASE p \notin Readers
    <3>1. holds' \cap Readers = holds \cap Readers
      BY <2>1 DEF Close
    <3>2. readopen' <=> readopen
      BY <3>1 DEF PipeInv, OpenWhileHeld
    <3> QED
      BY <1>2, <3>2
  <2>2. CASE p \in Readers
    <3>1. holds' \cap Writers = holds \cap Writers
      BY <2>2, PipeAssumption DEF Close
    <3>2. writeopen' <=> writeopen
      BY <3>1 DEF PipeInv, OpenWhileHeld
    <3> QED
      BY <1>2, <3>2
  <2> QED
    BY <2>1, <2>2
<1> QED
  BY <1>1, <1>2, <1>3 DEF Ch!CloseRead, Ch!CloseWrite

LEMMA ChannelNext ==
  ASSUME PipeInv, PipeInv', [Next]_vars
  PROVE  [Ch!Next]_(Ch!vars)
<1>1. CASE UNCHANGED vars
  BY <1>1 DEF vars, Ch!vars, Contents, Count
<1>2. CASE Pipealloc
  BY <1>2, ChannelOpen DEF Ch!Next
<1>3. ASSUME NEW p \in Writers, WriteRun(p) PROVE [Ch!Next]_(Ch!vars)
  BY <1>3, ChannelPut DEF Ch!Next
<1>4. ASSUME NEW p \in Readers, ReadRun(p) PROVE [Ch!Next]_(Ch!vars)
  BY <1>4, ChannelTake DEF Ch!Next, Ch!vars
<1>5. ASSUME NEW p \in Procs, Close(p) PROVE [Ch!Next]_(Ch!vars)
  BY <1>5, ChannelClose DEF Ch!Next, Ch!vars
<1>6. CASE \/ \E p \in Writers, s \in Buffers : WriteCall(p, s)
           \/ \E p \in Readers, n \in 1..MaxCount : ReadCall(p, n)
           \/ \E p \in Procs : Sleep(p) \/ Kill(p)
  BY <1>6 DEF WriteCall, ReadCall, Sleep, Kill, pipeVars, Ch!vars, Contents, Count
<1> QED
  BY <1>1, <1>2, <1>3, <1>4, <1>5, <1>6 DEF Next

(* Bytes come out in the order they went in, each once, for any PIPESIZE,  *)
(* however often the counters wrap and whoever is killed.                  *)
THEOREM PipeImplementsChannel == Spec => ImplementsChannel
<1>1. PipeInv /\ PipeInv' /\ [Next]_vars => [Ch!Next]_(Ch!vars)
  BY ChannelNext
<1> QED
  BY <1>1, ChannelInit, PipeInvariant, PTL DEF Spec, ImplementsChannel, Ch!Spec
=============================================================================
