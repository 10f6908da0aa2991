---------------------------- MODULE KernelProofs ----------------------------
(***************************************************************************)
(* Proofs about three services of the kernel and one of the C library.     *)
(* The console input (module Console), for any number of readers, any ring *)
(* and any modulus of its counters; the transactions of write() and the    *)
(* block map they fill (module FileData), for any geometry of the disk and *)
(* any lengths and offsets; the spin locks (module Spinlock), for any      *)
(* number of CPUs and locks; malloc() and free() (module Umalloc), for any *)
(* size of the heap and of the requests.                                   *)
(***************************************************************************)
EXTENDS Console, FileData, Spinlock, Umalloc, FiniteSetTheorems,
        NaturalsInduction, WellFoundedInduction, TLAPS

(* The least element that LeastOf and the loops of the code look for.      *)
LEMMA LeastExists ==
  ASSUME NEW S \in SUBSET Nat, S # {}
  PROVE  \E x \in S : \A y \in S : x <= y
<1>1. \E x \in S : \A y \in S : ~(<<y, x>> \in OpToRel(<, Nat))
  BY NatLessThanWellFounded, WFMin, Zenon
<1>2. ASSUME NEW x \in Nat, NEW y \in Nat, y < x
      PROVE  <<y, x>> \in OpToRel(<, Nat)
  BY <1>2 DEF OpToRel
<1>3. \A x, y \in Nat : ~(y < x) => x <= y
  OBVIOUS
<1> QED
  BY <1>1, <1>2, <1>3, Zenon

------------------------------------------------------------------------------
(* Console input.                                                          *)

Counters == 0..(InputMod - 1)

(* The counters of the ring as unsigned numbers.                           *)
LEMMA DistIs ==
  ASSUME NEW a \in Counters, NEW b \in Counters
  PROVE  /\ Dist(a, b) = IF a <= b THEN b - a ELSE b - a + InputMod
         /\ Dist(a, b) \in Nat /\ Dist(a, b) < InputMod
BY ConsAssumption DEF Dist, Counters

LEMMA PlusIs ==
  ASSUME NEW a \in Counters, NEW k \in Nat, k < InputMod
  PROVE  /\ (a + k) % InputMod = IF a + k < InputMod THEN a + k ELSE a + k - InputMod
         /\ (a + k) % InputMod \in Counters
BY ConsAssumption DEF Counters

LEMMA MinusIs ==
  ASSUME NEW a \in Counters, NEW k \in Nat, k < InputMod
  PROVE  /\ (a - k) % InputMod = IF k <= a THEN a - k ELSE a - k + InputMod
         /\ (a - k) % InputMod \in Counters
BY ConsAssumption DEF Counters

(* input.r, input.w and input.e go round the ring in this order.           *)
InOrder(r, w, e) == Dist(r, w) <= Dist(r, e) /\ Dist(r, e) <= INPUT_BUF

(* A key is stored: input.e goes on by one, the other counters stay.       *)
LEMMA StoreMoves ==
  ASSUME NEW r \in Counters, NEW w \in Counters, NEW e \in Counters,
         InOrder(r, w, e), Dist(r, e) < INPUT_BUF
  PROVE  LET f == (e + 1) % InputMod IN
         /\ f \in Counters /\ Dist(r, f) = Dist(r, e) + 1
         /\ InOrder(r, w, f) /\ InOrder(r, f, f) /\ Dist(r, f) > 0
         /\ Dist(r, f) = INPUT_BUF => f = (r + INPUT_BUF) % InputMod
<1> DEFINE f == (e + 1) % InputMod
<1>1. /\ f = IF e + 1 < InputMod THEN e + 1 ELSE e + 1 - InputMod
      /\ f \in Counters
  BY PlusIs, ConsAssumption
<1> HIDE DEF f
<1>2. f \in Counters
  BY <1>1
<1>3. /\ InputMod \in Nat /\ INPUT_BUF \in Nat /\ INPUT_BUF < InputMod
      /\ r \in Int /\ 0 <= r /\ r < InputMod
      /\ e \in Int /\ 0 <= e /\ e < InputMod
      /\ f \in Int /\ 0 <= f /\ f < InputMod
      /\ Dist(r, e) = IF r <= e THEN e - r ELSE e - r + InputMod
      /\ Dist(r, f) = IF r <= f THEN f - r ELSE f - r + InputMod
  BY <1>2, DistIs, ConsAssumption DEF Counters
<1>4. Dist(r, f) = Dist(r, e) + 1
  BY <1>1, <1>3
<1>5. (r + INPUT_BUF) % InputMod
        = IF r + INPUT_BUF < InputMod THEN r + INPUT_BUF ELSE r + INPUT_BUF - InputMod
  BY <1>3, PlusIs
<1>6. Dist(r, f) = INPUT_BUF => f = (r + INPUT_BUF) % InputMod
  BY <1>3, <1>5
<1>7. Dist(r, e) \in Nat /\ Dist(r, w) \in Nat
  BY DistIs
<1> QED
  BY <1>1, <1>4, <1>6, <1>7, ConsAssumption DEF InOrder, f

(* k of the uncommitted characters are taken back.                         *)
LEMMA EraseMoves ==
  ASSUME NEW r \in Counters, NEW w \in Counters, NEW e \in Counters,
         InOrder(r, w, e), NEW k \in 0..Dist(w, e)
  PROVE  LET f == (e - k) % InputMod IN
         f \in Counters /\ Dist(r, f) = Dist(r, e) - k /\ InOrder(r, w, f)
<1> DEFINE f == (e - k) % InputMod
<1>1. Dist(w, e) \in Nat /\ Dist(w, e) < InputMod /\ Dist(r, w) \in Nat
      /\ Dist(r, e) \in Nat
  BY DistIs
<1>2. k \in Nat /\ k < InputMod
  BY <1>1, ConsAssumption
<1>3. /\ f = IF k <= e THEN e - k ELSE e - k + InputMod
      /\ f \in Counters
  BY <1>2, MinusIs
<1> HIDE DEF f
<1>6. /\ InputMod \in Nat /\ INPUT_BUF \in Nat /\ INPUT_BUF < InputMod
      /\ r \in Int /\ 0 <= r /\ r < InputMod
      /\ w \in Int /\ 0 <= w /\ w < InputMod
      /\ e \in Int /\ 0 <= e /\ e < InputMod
      /\ f \in Int /\ 0 <= f /\ f < InputMod
      /\ Dist(r, w) = IF r <= w THEN w - r ELSE w - r + InputMod
      /\ Dist(w, e) = IF w <= e THEN e - w ELSE e - w + InputMod
      /\ Dist(r, e) = IF r <= e THEN e - r ELSE e - r + InputMod
      /\ Dist(r, f) = IF r <= f THEN f - r ELSE f - r + InputMod
  BY <1>1, <1>3, DistIs, ConsAssumption DEF Counters
<1>4. Dist(r, e) = Dist(r, w) + Dist(w, e)
  BY <1>6 DEF InOrder
<1>5. Dist(r, f) = Dist(r, e) - k
  BY <1>1, <1>2, <1>3, <1>4, <1>6
<1> QED
  BY <1>1, <1>2, <1>3, <1>4, <1>5, ConsAssumption DEF InOrder, f

(* k of the committed characters are read.                                 *)
LEMMA ReadMoves ==
  ASSUME NEW r \in Counters, NEW w \in Counters, NEW e \in Counters,
         InOrder(r, w, e), NEW k \in 0..Dist(r, w)
  PROVE  LET f == (r + k) % InputMod IN
         /\ f \in Counters /\ InOrder(f, w, e)
         /\ Dist(f, w) = Dist(r, w) - k /\ Dist(f, e) = Dist(r, e) - k
<1> DEFINE f == (r + k) % InputMod
<1>1. Dist(r, w) < InputMod /\ Dist(r, w) \in Nat /\ Dist(r, e) \in Nat
  BY DistIs
<1>2. k \in Nat /\ k < InputMod
  BY <1>1, ConsAssumption
<1>3. /\ f = IF r + k < InputMod THEN r + k ELSE r + k - InputMod
      /\ f \in Counters
  BY <1>2, PlusIs
<1> HIDE DEF f
<1>6. /\ InputMod \in Nat /\ INPUT_BUF \in Nat /\ INPUT_BUF < InputMod
      /\ r \in Int /\ 0 <= r /\ r < InputMod
      /\ w \in Int /\ 0 <= w /\ w < InputMod
      /\ e \in Int /\ 0 <= e /\ e < InputMod
      /\ f \in Int /\ 0 <= f /\ f < InputMod
      /\ Dist(r, w) = IF r <= w THEN w - r ELSE w - r + InputMod
      /\ Dist(f, w) = IF f <= w THEN w - f ELSE w - f + InputMod
      /\ Dist(r, e) = IF r <= e THEN e - r ELSE e - r + InputMod
      /\ Dist(f, e) = IF f <= e THEN e - f ELSE e - f + InputMod
  BY <1>1, <1>3, DistIs, ConsAssumption DEF Counters
<1>4. Dist(f, w) = Dist(r, w) - k
  BY <1>2, <1>3, <1>6
<1>5. Dist(f, e) = Dist(r, e) - k
  BY <1>2, <1>3, <1>6 DEF InOrder
<1> QED
  BY <1>1, <1>2, <1>3, <1>4, <1>5, ConsAssumption DEF InOrder, f

Chars == {"x", "\n", "^D"}
Reads == [pc : {"idle", "run", "block", "asleep"}, n : Nat, got : Nat, killed : BOOLEAN]

(* What keeps its type in the console.                                     *)
ConsTypeOK ==
  /\ inbuf \in [0..(INPUT_BUF - 1) -> Chars]
  /\ ir \in Counters /\ iw \in Counters /\ ie \in Counters
  /\ rd \in [ConsReaders -> Reads]

(* A reader that is about to sleep, or asleep, has left nothing behind and *)
(* missed nothing since.                                                   *)
WaitersSeeEmpty ==
  \A p \in ConsReaders : rd[p].pc \in {"block", "asleep"} => Avail = 0

ConsInv == ConsTypeOK /\ InputNeverStuck /\ WaitersSeeEmpty

(* ^U takes back no more than there is to edit.                            *)
LEMMA KillTakes ==
  ASSUME Edited \in Nat
  PROVE  KillCount \in 0..Edited
<1> DEFINE E == Edited
           Stop(k) == k = E \/ CharAt(ie - 1 - k) = "\n"
           S == {k \in 0..E : Stop(k)}
<1> HIDE DEF E
<1>1. E \in Nat
  BY DEF E
<1> HIDE DEF Stop
<1>2. S \subseteq Nat /\ E \in S
  BY <1>1 DEF Stop
<1>3. PICK k \in S : \A j \in S : k <= j
  BY <1>2, LeastExists
<1>4. k \in 0..E /\ Stop(k) /\ \A j \in 0..(k - 1) : ~Stop(j)
  BY <1>1, <1>3
<1>5. \E i \in 0..E : Stop(i) /\ \A j \in 0..(i - 1) : ~Stop(j)
  BY <1>4
<1>6. \E i \in 0..E : /\ i = E \/ CharAt(ie - 1 - i) = "\n"
                      /\ \A j \in 0..(i - 1) : j # E /\ CharAt(ie - 1 - j) # "\n"
  BY <1>5, Zenon DEF Stop
<1> QED
  BY <1>6, Zenon DEF KillCount, E

(* A read() ends within the committed characters.                          *)
LEMMA FirstStop ==
  ASSUME Avail \in Nat, NEW m \in Nat, Stops(m) # {}
  PROVE  First(Stops(m)) \in 1..Avail
<1>1. Stops(m) \subseteq Nat /\ Stops(m) \subseteq 1..Avail
  BY DEF Stops
<1>2. \E x \in Stops(m) : \A y \in Stops(m) : x <= y
  BY <1>1, LeastExists
<1> QED
  BY <1>1, <1>2 DEF First

LEMMA ConsStart == ConsInit => ConsInv
<1> SUFFICES ASSUME ConsInit PROVE ConsInv
  OBVIOUS
<1>1. 0 \in Counters
  BY ConsAssumption DEF Counters
<1>2. Dist(0, 0) = 0
  BY <1>1, DistIs
<1>3. ConsTypeOK
  BY <1>1 DEF ConsInit, ConsTypeOK, Chars, Reads, NoRead
<1>4. InputNeverStuck
  BY <1>2, ConsAssumption DEF ConsInit, InputNeverStuck, Avail
<1>5. WaitersSeeEmpty
  BY DEF ConsInit, WaitersSeeEmpty, NoRead
<1> QED
  BY <1>3, <1>4, <1>5 DEF ConsInv

LEMMA EraseKeyKeepsInv ==
  ASSUME ConsInv, NEW c \in {"^H", "^U"}, EraseKey(c)
  PROVE  ConsInv'
<1>1. ir \in Counters /\ iw \in Counters /\ ie \in Counters
  BY DEF ConsInv, ConsTypeOK
<1>2. Edited \in Nat /\ Dist(ir, ie) \in Nat
  BY <1>1, DistIs DEF Edited
<1>3. PICK k \in 0..Dist(iw, ie) : ie' = (ie - k) % InputMod
  BY <1>2, KillTakes DEF EraseKey, Edited
<1>4. InOrder(ir, iw, ie)
  BY DEF ConsInv, InputNeverStuck, InOrder
<1>5. ie' \in Counters /\ Dist(ir, ie') = Dist(ir, ie) - k /\ InOrder(ir, iw, ie')
  BY <1>1, <1>3, <1>4, EraseMoves
<1>6. ir' = ir /\ iw' = iw /\ inbuf' = inbuf /\ rd' = rd
  BY DEF EraseKey
<1>7. ConsTypeOK'
  BY <1>5, <1>6 DEF ConsInv, ConsTypeOK
<1>8. InputNeverStuck'
  <2>1. k \in Nat /\ Dist(ir, ie) <= INPUT_BUF /\ INPUT_BUF \in Nat
    BY <1>1, <1>4, DistIs, ConsAssumption DEF InOrder
  <2>2. Dist(ir, ie') = INPUT_BUF => Dist(ir, ie) = INPUT_BUF
    BY <1>2, <1>5, <2>1
  <2> QED
    BY <1>5, <1>6, <2>2 DEF ConsInv, InputNeverStuck, InOrder, Avail, Dist
<1>9. WaitersSeeEmpty'
  BY <1>6 DEF ConsInv, WaitersSeeEmpty, Avail, Dist
<1> QED
  BY <1>7, <1>8, <1>9 DEF ConsInv

(* wakeup(&input.r) leaves nobody asleep, and under cons.lock nobody is    *)
(* about to sleep.                                                         *)
LEMMA WokenAwake ==
  ASSUME ConsTypeOK, ConsLockFree
  PROVE  /\ Woken \in [ConsReaders -> Reads]
         /\ \A p \in ConsReaders : Woken[p].pc \notin {"block", "asleep"}
BY DEF ConsTypeOK, Woken, Reads, ConsLockFree

LEMMA StoreKeyKeepsInv ==
  ASSUME ConsInv, NEW key \in Keys \ {"^H", "^U"}, StoreKey(key), ConsLockFree
  PROVE  ConsInv'
<1>1. ir \in Counters /\ iw \in Counters /\ ie \in Counters
  BY DEF ConsInv, ConsTypeOK
<1>2. InOrder(ir, iw, ie)
  BY DEF ConsInv, InputNeverStuck, InOrder
<1>3. CASE ~(Dist(ir, ie) < INPUT_BUF)
  <2>1. UNCHANGED consVars
    BY <1>3 DEF StoreKey
  <2> QED
    BY <2>1 DEF consVars, ConsInv, ConsTypeOK, InputNeverStuck, WaitersSeeEmpty,
                Avail, Dist
<1>4. CASE Dist(ir, ie) < INPUT_BUF
  <2> DEFINE c == IF key = "\r" THEN "\n" ELSE key
             e == (ie + 1) % InputMod
  <2>1. c \in Chars
    BY DEF Keys, Chars
  <2>2. /\ e \in Counters /\ Dist(ir, e) = Dist(ir, ie) + 1
        /\ InOrder(ir, iw, e) /\ InOrder(ir, e, e) /\ Dist(ir, e) > 0
        /\ Dist(ir, e) = INPUT_BUF => e = (ir + INPUT_BUF) % InputMod
    BY <1>1, <1>2, <1>4, StoreMoves
  <2>3. /\ inbuf' = [inbuf EXCEPT ![ie % INPUT_BUF] = c]
        /\ ie' = e /\ ir' = ir
        /\ IF Commits(c, e) THEN iw' = e /\ rd' = Woken ELSE iw' = iw /\ rd' = rd
    BY <1>4 DEF StoreKey
  <2> HIDE DEF c, e
  <2>4. Dist(ir, e) = INPUT_BUF => Commits(c, e)
    BY <2>2 DEF Commits
  <2>5. inbuf' \in [0..(INPUT_BUF - 1) -> Chars]
    BY <2>1, <2>3 DEF ConsInv, ConsTypeOK
  <2>6. CASE Commits(c, e)
    <3>1. iw' = e /\ rd' = Woken
      BY <2>3, <2>6
    <3>2. rd' \in [ConsReaders -> Reads] /\ \A p \in ConsReaders : rd'[p].pc \notin {"block", "asleep"}
      BY <3>1, WokenAwake DEF ConsInv
    <3>3. ConsTypeOK'
      BY <1>1, <2>2, <2>3, <2>5, <3>1, <3>2 DEF ConsTypeOK
    <3>4. InputNeverStuck'
      BY <2>2, <2>3, <3>1 DEF InputNeverStuck, InOrder, Avail, Dist
    <3>5. WaitersSeeEmpty'
      BY <3>2 DEF WaitersSeeEmpty
    <3> QED
      BY <3>3, <3>4, <3>5 DEF ConsInv
  <2>7. CASE ~Commits(c, e)
    <3>1. iw' = iw /\ rd' = rd
      BY <2>3, <2>7
    <3>2. ConsTypeOK'
      BY <1>1, <2>2, <2>3, <2>5, <3>1 DEF ConsInv, ConsTypeOK
    <3>3. InputNeverStuck'
      BY <2>2, <2>3, <2>4, <2>7, <3>1 DEF InputNeverStuck, InOrder, Avail, Dist
    <3>4. WaitersSeeEmpty'
      BY <2>3, <3>1 DEF ConsInv, WaitersSeeEmpty, Avail, Dist
    <3> QED
      BY <3>2, <3>3, <3>4 DEF ConsInv
  <2> QED
    BY <2>6, <2>7
<1> QED
  BY <1>3, <1>4

(* consoleread() takes k committed characters; a process that will sleep   *)
(* has taken them all.                                                     *)
LEMMA TakenKeepsInv ==
  ASSUME ConsInv, NEW k \in 0..Dist(ir, iw), ir' = (ir + k) % InputMod,
         NEW p \in ConsReaders, NEW r \in Reads, rd' = [rd EXCEPT ![p] = r],
         r.pc \in {"block", "asleep"} => k = Dist(ir, iw),
         UNCHANGED <<inbuf, iw, ie>>
  PROVE  ConsInv'
<1>1. ir \in Counters /\ iw \in Counters /\ ie \in Counters
  BY DEF ConsInv, ConsTypeOK
<1>2. InOrder(ir, iw, ie)
  BY DEF ConsInv, InputNeverStuck, InOrder
<1>3. /\ ir' \in Counters /\ InOrder(ir', iw, ie)
      /\ Dist(ir', iw) = Dist(ir, iw) - k /\ Dist(ir', ie) = Dist(ir, ie) - k
  BY <1>1, <1>2, ReadMoves
<1>4. /\ Dist(ir, iw) \in Nat /\ Dist(ir, ie) \in Nat /\ k \in Nat
      /\ Dist(ir, ie) <= INPUT_BUF /\ INPUT_BUF \in Nat /\ k <= Dist(ir, iw)
  BY <1>1, <1>2, DistIs, ConsAssumption DEF InOrder
<1>5. ConsTypeOK'
  BY <1>1, <1>3 DEF ConsInv, ConsTypeOK
<1>6. InputNeverStuck'
  <2>1. Dist(ir', ie) = INPUT_BUF => Dist(ir, ie) = INPUT_BUF /\ Dist(ir', iw) = Dist(ir, iw)
    BY <1>3, <1>4
  <2>2. Dist(ir, ie) = INPUT_BUF => Dist(ir, iw) > 0
    BY DEF ConsInv, InputNeverStuck, Avail
  <2> QED
    BY <1>3, <2>1, <2>2 DEF InputNeverStuck, InOrder, Avail, Dist
<1>7. WaitersSeeEmpty'
  <2>1. Dist(ir, iw) = 0 => Dist(ir', iw) = 0
    BY <1>3, <1>4
  <2>2. k = Dist(ir, iw) => Dist(ir', iw) = 0
    BY <1>3, <1>4
  <2>3. \A q \in ConsReaders : rd[q].pc \in {"block", "asleep"} => Dist(ir, iw) = 0
    BY DEF ConsInv, WaitersSeeEmpty, Avail
  <2>4. \A q \in ConsReaders : rd'[q] = IF q = p THEN r ELSE rd[q]
    BY DEF ConsInv, ConsTypeOK
  <2>5. \A q \in ConsReaders : rd'[q].pc \in {"block", "asleep"} => Dist(ir', iw) = 0
    BY <2>1, <2>2, <2>3, <2>4
  <2> QED
    BY <2>5 DEF WaitersSeeEmpty, Avail, Dist
<1> QED
  BY <1>5, <1>6, <1>7 DEF ConsInv

LEMMA ConsoleReadKeepsInv ==
  ASSUME ConsInv, NEW p \in ConsReaders, ConsoleRead(p)
  PROVE  ConsInv'
<1> DEFINE m == rd[p].n
           j == First(Stops(m))
<1>1. ir \in Counters /\ iw \in Counters /\ rd[p] \in Reads
  BY DEF ConsInv, ConsTypeOK
<1>2. Dist(ir, iw) \in Nat /\ Avail \in Nat /\ Avail = Dist(ir, iw)
  BY <1>1, DistIs DEF Avail
<1>3. m \in Nat /\ NoRead \in Reads /\ NoRead.pc = "idle"
  BY <1>1 DEF Reads, NoRead
<1>4. UNCHANGED <<inbuf, iw, ie>>
  BY DEF ConsoleRead
<1>5. CASE Stops(m) # {} /\ rd' = [rd EXCEPT ![p] = NoRead]
           /\ ir' = (ir + (IF CharAt(ir + j - 1) = "\n" THEN j
                           ELSE EofTakes(rd[p].got, j))) % InputMod
  <2>1. j \in 1..Avail
    BY <1>2, <1>3, <1>5, FirstStop
  <2>2. PICK k \in {j - 1, j} : ir' = (ir + k) % InputMod
    BY <1>5 DEF EofTakes
  <2>3. k \in 0..Dist(ir, iw)
    BY <1>2, <2>1, <2>2
  <2> QED
    BY <1>3, <1>4, <1>5, <2>2, <2>3, TakenKeepsInv
<1>6. CASE Avail >= m /\ ir' = (ir + m) % InputMod /\ rd' = [rd EXCEPT ![p] = NoRead]
  <2>1. m \in 0..Dist(ir, iw)
    BY <1>2, <1>3, <1>6
  <2> QED
    BY <1>3, <1>4, <1>6, <2>1, TakenKeepsInv
<1>7. CASE /\ Avail < m /\ ir' = iw
           /\ rd' = [rd EXCEPT ![p] = IF rd[p].killed THEN NoRead
                       ELSE [rd[p] EXCEPT !.pc = "block", !.n = m - Avail,
                                          !.got = rd[p].got + Avail]]
  <2> DEFINE k == Dist(ir, iw)
             r == IF rd[p].killed THEN NoRead
                  ELSE [rd[p] EXCEPT !.pc = "block", !.n = m - Avail,
                                     !.got = rd[p].got + Avail]
  <2>1. k \in 0..Dist(ir, iw)
    BY <1>2
  <2>2. iw = (ir + k) % InputMod
    <3>1. /\ k \in Nat /\ k < InputMod /\ k = IF ir <= iw THEN iw - ir ELSE iw - ir + InputMod
      BY <1>1, DistIs
    <3> HIDE DEF k
    <3>2. (ir + k) % InputMod = IF ir + k < InputMod THEN ir + k ELSE ir + k - InputMod
      BY <1>1, <3>1, PlusIs
    <3> QED
      BY <1>1, <3>1, <3>2, ConsAssumption DEF Counters
  <2>3. m - Avail \in Nat /\ rd[p].got + Avail \in Nat
    BY <1>1, <1>2, <1>3, <1>7 DEF Reads
  <2>4. r \in Reads
    BY <1>1, <1>3, <2>3 DEF Reads
  <2>5. rd' = [rd EXCEPT ![p] = r]
    BY <1>7
  <2> HIDE DEF r
  <2> QED
    BY <1>4, <1>7, <2>1, <2>2, <2>4, <2>5, TakenKeepsInv
<1> QED
  BY <1>5, <1>6, <1>7 DEF ConsoleRead

LEMMA ReadStartKeepsInv ==
  ASSUME ConsInv, NEW p \in ConsReaders, ReadStart(p)
  PROVE  ConsInv'
<1>1. PICK n \in 1..MaxRead :
        rd' = [rd EXCEPT ![p] = [NoRead EXCEPT !.pc = "run", !.n = n]]
  BY DEF ReadStart
<1> DEFINE r == [NoRead EXCEPT !.pc = "run", !.n = n]
<1>2. r \in Reads /\ r.pc = "run"
  <2>1. n \in Nat
    BY ConsAssumption
  <2>2. NoRead \in Reads
    BY DEF Reads, NoRead
  <2> QED
    BY <2>1, <2>2 DEF Reads
<1> HIDE DEF r
<1>3. rd' = [rd EXCEPT ![p] = r] /\ UNCHANGED <<inbuf, ir, iw, ie>>
  BY <1>1 DEF ReadStart, r
<1>4. ConsTypeOK' /\ InputNeverStuck'
  BY <1>2, <1>3 DEF ConsInv, ConsTypeOK, InputNeverStuck, Avail, Dist
<1>5. WaitersSeeEmpty'
  BY <1>2, <1>3 DEF ConsInv, ConsTypeOK, WaitersSeeEmpty, Avail, Dist
<1> QED
  BY <1>4, <1>5 DEF ConsInv

(* A process moves on without touching the ring.                           *)
LEMMA RingKeptInv ==
  ASSUME ConsInv, NEW p \in ConsReaders, NEW r \in Reads, rd' = [rd EXCEPT ![p] = r],
         r.pc \in {"block", "asleep"} => rd[p].pc \in {"block", "asleep"},
         UNCHANGED <<inbuf, ir, iw, ie>>
  PROVE  ConsInv'
<1>1. ConsTypeOK' /\ InputNeverStuck'
  BY DEF ConsInv, ConsTypeOK, InputNeverStuck, Avail, Dist
<1>2. WaitersSeeEmpty'
  BY DEF ConsInv, ConsTypeOK, WaitersSeeEmpty, Avail, Dist
<1> QED
  BY <1>1, <1>2 DEF ConsInv

LEMMA ConsSleepKeepsInv ==
  ASSUME ConsInv, NEW p \in ConsReaders, ConsSleep(p)
  PROVE  ConsInv'
<1>1. rd[p] \in Reads
  BY DEF ConsInv, ConsTypeOK
<1> DEFINE r == [rd[p] EXCEPT !.pc = "asleep"]
<1>2. r \in Reads
  BY <1>1 DEF Reads
<1>3. rd' = [rd EXCEPT ![p] = r] /\ UNCHANGED <<inbuf, ir, iw, ie>> /\ rd[p].pc = "block"
  BY DEF ConsSleep, ConsInv, ConsTypeOK
<1> HIDE DEF r
<1> QED
  BY <1>2, <1>3, RingKeptInv

LEMMA ConsKillKeepsInv ==
  ASSUME ConsInv, NEW p \in ConsReaders, ConsKill(p)
  PROVE  ConsInv'
<1>1. rd[p] \in Reads
  BY DEF ConsInv, ConsTypeOK
<1> DEFINE l == IF rd[p].pc = "asleep" THEN "run" ELSE rd[p].pc
           r == [rd[p] EXCEPT !.killed = TRUE, !.pc = l]
<1>2. r \in Reads /\ r.pc = l
  BY <1>1 DEF Reads
<1>3. rd' = [rd EXCEPT ![p] = r] /\ UNCHANGED <<inbuf, ir, iw, ie>>
  BY DEF ConsKill
<1> HIDE DEF r
<1> QED
  BY <1>2, <1>3, RingKeptInv

LEMMA ConsNextKeepsInv == ConsInv /\ [ConsNext]_consVars => ConsInv'
<1> SUFFICES ASSUME ConsInv, [ConsNext]_consVars PROVE ConsInv'
  OBVIOUS
<1>1. ASSUME NEW key \in Keys, key \in {"^H", "^U"}, EraseKey(key) PROVE ConsInv'
  BY <1>1, EraseKeyKeepsInv
<1>2. ASSUME NEW key \in Keys, key \notin {"^H", "^U"}, StoreKey(key), ConsLockFree PROVE ConsInv'
  BY <1>2, StoreKeyKeepsInv
<1>3. CASE ConsoleIntr
  BY <1>1, <1>2, <1>3 DEF ConsoleIntr
<1>4. CASE \E p \in ConsReaders : ReadStart(p) \/ ConsoleRead(p) \/ ConsSleep(p) \/ ConsKill(p)
  BY <1>4, ReadStartKeepsInv, ConsoleReadKeepsInv, ConsSleepKeepsInv, ConsKillKeepsInv
<1>5. CASE UNCHANGED consVars
  BY <1>5 DEF consVars, ConsInv, ConsTypeOK, InputNeverStuck, WaitersSeeEmpty,
              Avail, Dist
<1> QED
  BY <1>3, <1>4, <1>5 DEF ConsNext

(* The inductive invariant of the console.                                 *)
THEOREM ConsInvariant == ConsSpec => []ConsInv
BY ConsStart, ConsNextKeepsInv, PTL DEF ConsSpec

(* console.c, consoleread(): a process sleeps only while nothing is        *)
(* committed, whatever is typed, taken back or put back, and whenever it   *)
(* is killed.                                                              *)
THEOREM ReadersAlwaysSleepOnEmpty == ConsSpec => []ReadersSleepOnEmpty
<1>1. ConsInv => ReadersSleepOnEmpty
  BY DEF ConsInv, WaitersSeeEmpty, ReadersSleepOnEmpty
<1> QED
  BY <1>1, ConsInvariant, PTL

(* console.c, consoleintr(): the three counters keep their order and the   *)
(* ring never holds a full line that cannot be read, however often the     *)
(* counters wrap around.                                                   *)
THEOREM InputIsNeverStuck == ConsSpec => []InputNeverStuck
<1>1. ConsInv => InputNeverStuck
  BY DEF ConsInv
<1> QED
  BY <1>1, ConsInvariant, PTL

------------------------------------------------------------------------------
(* File contents: what a transaction of a write() logs.                    *)

(* n bytes at offset o lie in at most k + 1 blocks if n is at most k       *)
(* blocks.                                                                 *)
LEMMA BlocksTouched ==
  ASSUME NEW o \in Nat, NEW n \in Nat \ {0}, NEW k \in Nat, n <= k * BSIZE
  PROVE  /\ IsFiniteSet(Visited(o, n) \ {NDIRECT})
         /\ Cardinality(Visited(o, n) \ {NDIRECT}) <= k + 1
         /\ Cardinality(Visited(o, n) \ {NDIRECT}) \in Nat
<1> DEFINE a == o \div BSIZE
           b == (o + n - 1) \div BSIZE
           T == {Slot(bn) : bn \in a..b}
<1>1. BSIZE \in Nat \ {0} /\ o + n - 1 \in Int
  BY FileDataAssumption
<1>2. a \in Int /\ b \in Int /\ b - a <= k
  <2>1. a \in Int /\ BSIZE * a <= o /\ o < BSIZE * a + BSIZE
    BY <1>1
  <2>2. b \in Int /\ BSIZE * b <= o + n - 1
    BY <1>1
  <2> HIDE DEF a, b
  <2>3. BSIZE * (b - a) < BSIZE * (k + 1)
    BY <1>1, <2>1, <2>2
  <2>4. ASSUME b - a >= k + 1 PROVE FALSE
    <3>1. BSIZE * (b - a) >= BSIZE * (k + 1)
      BY <1>1, <2>1, <2>2, <2>4
    <3> QED
      BY <1>1, <2>1, <2>2, <2>3, <3>1
  <2> QED
    BY <2>1, <2>2, <2>4
<1>4. Visited(o, n) \ {NDIRECT} \subseteq T
  BY DEF Visited
<1> HIDE DEF a, b
<1>3. IsFiniteSet(a..b) /\ Cardinality(a..b) <= k + 1
  <2>1. IsFiniteSet(a..b) /\ Cardinality(a..b) = IF a > b THEN 0 ELSE b - a + 1
    BY <1>2, FS_Interval, Zenon
  <2> QED
    BY <1>2, <2>1
<1>5. IsFiniteSet(T) /\ Cardinality(T) <= Cardinality(a..b)
  <2>1. [bn \in a..b |-> Slot(bn)] \in Surjection(a..b, T)
    BY DEF Surjection
  <2> QED
    BY <1>3, <2>1, FS_Surjection
<1> HIDE DEF T
<1>6. /\ IsFiniteSet(Visited(o, n) \ {NDIRECT})
      /\ Cardinality(Visited(o, n) \ {NDIRECT}) <= Cardinality(T)
  BY <1>4, <1>5, FS_Subset
<1>7. Cardinality(T) \in Nat /\ Cardinality(a..b) \in Nat
      /\ Cardinality(Visited(o, n) \ {NDIRECT}) \in Nat
  BY <1>3, <1>5, <1>6, FS_CardinalityType
<1> QED
  BY <1>3, <1>5, <1>6, <1>7

(* A round of filewrite() fits the reservation of begin_op().              *)
LEMMA ChunkFits ==
  ASSUME NEW i, NEW o \in Nat, NEW n \in Nat \ {0}, n <= MaxWrite
  PROVE  Logs(i, o, n) \in Nat /\ Logs(i, o, n) <= MAXOPBLOCKS
<1> DEFINE k == (MAXOPBLOCKS - 1 - 1 - 2) \div 2
           c == Cardinality(Visited(o, n) \ {NDIRECT})
<1>1. MAXOPBLOCKS \in Nat /\ k \in Nat /\ 2 * k <= MAXOPBLOCKS - 4
  BY FileDataAssumption
<1>2. n <= k * BSIZE
  BY DEF MaxWrite
<1> HIDE DEF k
<1>3. c \in Nat /\ c <= k + 1
  BY <1>1, <1>2, BlocksTouched
<1> HIDE DEF c
<1>4. PICK x \in {0, 1}, y \in {0, 1}, z \in {0, 1} : Logs(i, o, n) = c + x + y + z
  BY DEF Logs, c
<1> QED
  BY <1>1, <1>3, <1>4

DataTypeOK ==
  /\ off \in [Files -> Nat]
  /\ fsize \in [Inodes -> Nat]
  /\ io \in [FileProcs -> {NoIO} \cup [file : Files, left : Nat \ {0}]]
  /\ logged \in Nat

DataInv == DataTypeOK /\ TransactionFits

LEMMA DataStart == DataInit => DataInv
<1> SUFFICES ASSUME DataInit PROVE DataInv
  OBVIOUS
<1>1. fsize \in [Inodes -> Nat]
  <2>1. \A n \in ImageSizes : n \in Nat
    BY FileDataAssumption
  <2>2. PICK n \in ImageSizes : fsize = [i \in Inodes |-> IF i = 1 THEN n ELSE 0]
    BY DEF DataInit
  <2> QED
    BY <2>1, <2>2
<1>2. off \in [Files -> Nat] /\ io \in [FileProcs -> {NoIO}] /\ logged = 0
  BY DEF DataInit
<1>3. DataTypeOK
  BY <1>1, <1>2 DEF DataTypeOK
<1> QED
  BY <1>2, <1>3, FileDataAssumption DEF DataInv, TransactionFits

LEMMA WriteStartKeepsInv ==
  ASSUME DataInv, NEW p \in FileProcs, NEW f \in Files, NEW n \in Lengths,
         WriteStart(p, f, n)
  PROVE  DataInv'
<1>1. [file |-> f, left |-> n] \in [file : Files, left : Nat \ {0}]
  BY FileDataAssumption
<1> DEFINE r == [file |-> f, left |-> n]
<1> HIDE DEF r
<1>2. io' = [io EXCEPT ![p] = r] /\ r \in [file : Files, left : Nat \ {0}]
  BY <1>1 DEF WriteStart, r
<1>3. off' = off /\ fsize' = fsize /\ logged' = logged /\ inodeOf' = inodeOf
  BY DEF WriteStart
<1>4. Files' = Files /\ Inodes' = Inodes
  BY <1>3 DEF Files, Inodes
<1>5. io' \in [FileProcs -> {NoIO} \cup [file : Files, left : Nat \ {0}]]
  BY <1>2 DEF DataInv, DataTypeOK
<1> QED
  BY <1>3, <1>4, <1>5 DEF DataInv, DataTypeOK, TransactionFits

LEMMA WriteChunkKeepsInv ==
  ASSUME DataInv, NEW p \in FileProcs, WriteChunk(p)
  PROVE  DataInv'
<1> DEFINE IOs == {NoIO} \cup [file : Files, left : Nat \ {0}]
           f == io[p].file
           i == inodeOf[f]
           o == off[f]
           n == IF io[p].left > MaxWrite THEN MaxWrite ELSE io[p].left
<1>1. inodeOf' = inodeOf /\ Files' = Files /\ Inodes' = Inodes
  BY DEF WriteChunk, Files, Inodes
<1>2. /\ io[p] \in [file : Files, left : Nat \ {0}]
      /\ f \in Files /\ io[p].left \in Nat \ {0}
  BY DEF WriteChunk, DataInv, DataTypeOK
<1>3. MaxWrite \in Nat \ {0}
  <2>1. (MAXOPBLOCKS - 1 - 1 - 2) \div 2 \in Nat \ {0} /\ BSIZE \in Nat \ {0}
    BY FileDataAssumption
  <2> QED
    BY <2>1 DEF MaxWrite
<1>4. o \in Nat /\ i \in Inodes
  BY <1>2 DEF DataInv, DataTypeOK, Inodes
<1>5. n \in Nat \ {0} /\ n <= MaxWrite /\ n <= io[p].left
  BY <1>2, <1>3
<1>6. CASE io' = [io EXCEPT ![p] = NoIO] /\ logged' = 0 /\ UNCHANGED <<fsize, off>>
  <2>1. io' \in [FileProcs -> IOs]
    BY <1>6 DEF DataInv, DataTypeOK
  <2> QED
    BY <1>1, <1>6, <2>1, FileDataAssumption DEF DataInv, DataTypeOK, TransactionFits
<1>7. CASE UNCHANGED <<fsize, off, io, logged>>
  BY <1>1, <1>7 DEF DataInv, DataTypeOK, TransactionFits
<1>8. CASE /\ fsize' = [fsize EXCEPT ![i] = IF o + n > @ THEN o + n ELSE @]
           /\ off' = [off EXCEPT ![f] = o + n]
           /\ logged' = Logs(i, o, n)
           /\ io' = [io EXCEPT ![p] = IF io[p].left = n THEN NoIO
                                      ELSE [file |-> f, left |-> io[p].left - n]]
  <2> DEFINE r == IF io[p].left = n THEN NoIO ELSE [file |-> f, left |-> io[p].left - n]
  <2>1. r \in IOs
    <3>1. CASE io[p].left = n
      BY <3>1
    <3>2. CASE io[p].left # n
      <4>1. io[p].left - n \in Nat \ {0}
        BY <1>2, <1>5, <3>2
      <4>2. [file |-> f, left |-> io[p].left - n] \in [file : Files, left : Nat \ {0}]
        BY <1>2, <4>1
      <4> QED
        BY <3>2, <4>2
    <3> QED
      BY <3>1, <3>2
  <2>2. io' = [io EXCEPT ![p] = r]
    BY <1>8
  <2>3. io' \in [FileProcs -> IOs]
    <3> HIDE DEF r
    <3> QED
      BY <2>1, <2>2 DEF DataInv, DataTypeOK
  <2>4. logged' \in Nat /\ logged' <= MAXOPBLOCKS
    BY <1>4, <1>5, <1>8, ChunkFits
  <2>5. o + n \in Nat
    BY <1>4, <1>5
  <2>6. fsize' \in [Inodes -> Nat] /\ off' \in [Files -> Nat]
    <3> DEFINE e == o + n
    <3> HIDE DEF e
    <3>1. fsize' = [fsize EXCEPT ![i] = IF e > @ THEN e ELSE @]
          /\ off' = [off EXCEPT ![f] = e] /\ e \in Nat
      BY <1>8, <2>5 DEF e
    <3> HIDE DEF f, i
    <3> QED
      BY <1>2, <1>4, <3>1 DEF DataInv, DataTypeOK
  <2> QED
    BY <1>1, <2>3, <2>4, <2>6 DEF DataInv, DataTypeOK, TransactionFits
<1> QED
  BY <1>6, <1>7, <1>8 DEF WriteChunk

LEMMA DataNextKeepsInv == DataInv /\ [DataNext]_dataVars => DataInv'
<1> SUFFICES ASSUME DataInv, [DataNext]_dataVars PROVE DataInv'
  OBVIOUS
<1>1. CASE \E p \in FileProcs : \/ \E f \in Files, n \in Lengths : WriteStart(p, f, n)
                                \/ WriteChunk(p)
  BY <1>1, WriteStartKeepsInv, WriteChunkKeepsInv
<1>2. ASSUME NEW f \in Files, NEW n \in Lengths, Fileread(f, n)
      PROVE  DataInv'
  <2> DEFINE got == Readi(inodeOf[f], off[f], n)
  <2>1. inodeOf[f] \in Inodes /\ off[f] \in Nat /\ fsize[inodeOf[f]] \in Nat /\ n \in Nat
    BY FileDataAssumption DEF DataInv, DataTypeOK, Inodes
  <2>2. got \in Int /\ got > 0
    BY <1>2, <2>1 DEF Fileread, Readi
  <2>3. UNCHANGED <<fsize, io, logged, inodeOf>> /\ Files' = Files /\ Inodes' = Inodes
    BY <1>2 DEF Fileread, Files, Inodes
  <2>4. off' = [off EXCEPT ![f] = @ + got]
    BY <1>2 DEF Fileread
  <2> HIDE DEF got
  <2>5. off' \in [Files -> Nat]
    BY <2>1, <2>2, <2>4 DEF DataInv, DataTypeOK
  <2> QED
    BY <2>3, <2>5 DEF DataInv, DataTypeOK, TransactionFits
<1>3. ASSUME NEW i \in Inodes, Itrunc(i) PROVE DataInv'
  <2>1. UNCHANGED <<io, inodeOf>> /\ Files' = Files /\ Inodes' = Inodes
    BY <1>3 DEF Itrunc, Files, Inodes
  <2>2. fsize' \in [Inodes -> Nat] /\ off' \in [Files -> Nat] /\ logged' = 2
    BY <1>3 DEF Itrunc, DataInv, DataTypeOK
  <2> QED
    BY <2>1, <2>2, FileDataAssumption DEF DataInv, DataTypeOK, TransactionFits
<1>4. CASE UNCHANGED dataVars
  BY <1>4 DEF dataVars, DataInv, DataTypeOK, TransactionFits, Files, Inodes
<1> QED
  BY <1>1, <1>2, <1>3, <1>4 DEF DataNext

(* file.c, filewrite(): whatever the offsets, the lengths and the geometry *)
(* of the disk, a round logs at most the MAXOPBLOCKS blocks that           *)
(* begin_op() reserves, because it writes at most half of what the bitmap, *)
(* the indirect block, the inode and one block of misalignment leave.      *)
THEOREM TransactionsAlwaysFit == DataSpec => []TransactionFits
<1>1. DataInv => TransactionFits
  BY DEF DataInv
<1> QED
  BY <1>1, DataStart, DataNextKeepsInv, PTL DEF DataSpec

------------------------------------------------------------------------------
(* The block map.  balloc() hands out free blocks in the order of their    *)
(* numbers, so a round of writei() gets as many different ones as it needs *)
(* while there are that many.                                              *)

LEMMA InRange ==
  ASSUME NEW N \in Nat, NEW S \in SUBSET (0..N)
  PROVE  \A y \in S : y \in Nat /\ y \in Int /\ y <= N /\ N - y \in Nat
OBVIOUS

LEMMA GreatestExists ==
  ASSUME NEW N \in Nat, NEW S \in SUBSET (0..N), S # {}
  PROVE  \E x \in S : \A y \in S : y <= x
<1> DEFINE T == {N - y : y \in S}
<1>0. \A y \in S : y \in Int /\ N - y \in Nat
  BY InRange
<1>1. T \in SUBSET Nat /\ T # {}
  BY <1>0
<1>2. PICK m \in T : \A y \in T : m <= y
  <2> HIDE DEF T
  <2> QED
    BY <1>1, LeastExists
<1>3. PICK x \in S : m = N - x
  BY <1>2
<1>4. \A y \in S : N - x <= N - y
  BY <1>2, <1>3
<1>6. \A y \in S : y <= x
  BY <1>0, <1>4
<1> QED
  BY <1>6

Lower(x, S) == {y \in S : y < x}

LEMMA LowerFinite ==
  ASSUME NEW N \in Nat, NEW S \in SUBSET (0..N), NEW x
  PROVE  /\ IsFiniteSet(S) /\ Cardinality(S) \in Nat
         /\ IsFiniteSet(Lower(x, S)) /\ Rank(x, S) = Cardinality(Lower(x, S))
         /\ Rank(x, S) \in Nat
<1>1. IsFiniteSet(0..N)
  BY FS_Interval
<1>2. IsFiniteSet(S) /\ IsFiniteSet(Lower(x, S))
  BY <1>1, FS_Subset DEF Lower
<1>3. Rank(x, S) = Cardinality(Lower(x, S))
  BY DEF Rank, Lower
<1> QED
  BY <1>2, <1>3, FS_CardinalityType

LEMMA RankLess ==
  ASSUME NEW N \in Nat, NEW S \in SUBSET (0..N), NEW x \in S
  PROVE  Rank(x, S) < Cardinality(S)
<1>1. Lower(x, S) \subseteq S \ {x}
  BY DEF Lower
<1>2. IsFiniteSet(S) /\ Cardinality(S) \in Nat /\ Rank(x, S) \in Nat
      /\ Rank(x, S) = Cardinality(Lower(x, S))
  BY LowerFinite
<1>3. IsFiniteSet(S \ {x}) /\ Cardinality(S \ {x}) = Cardinality(S) - 1
  BY <1>2, FS_RemoveElement
<1>4. Cardinality(Lower(x, S)) <= Cardinality(S \ {x})
  BY <1>1, <1>3, FS_Subset
<1> QED
  BY <1>2, <1>3, <1>4

LEMMA RankGrows ==
  ASSUME NEW N \in Nat, NEW S \in SUBSET (0..N), NEW x \in S, NEW y \in S, x < y
  PROVE  Rank(x, S) < Rank(y, S)
<1> DEFINE T == Lower(y, S)
<1>1. T \in SUBSET (0..N) /\ x \in T
  BY DEF Lower
<1>2. Lower(x, T) = Lower(x, S)
  <2>1. \A z \in S : z \in Int
    BY InRange
  <2>2. \A z \in S : z < x => z < y
    BY <2>1
  <2> QED
    BY <2>2 DEF Lower
<1>3. Rank(x, T) < Cardinality(T)
  <2> HIDE DEF T
  <2> QED
    BY <1>1, RankLess
<1>4. Rank(x, T) = Cardinality(Lower(x, T)) /\ Rank(x, S) = Cardinality(Lower(x, S))
  <2> HIDE DEF T
  <2> QED
    BY <1>1, LowerFinite
<1>5. Rank(y, S) = Cardinality(T)
  BY LowerFinite
<1> QED
  BY <1>2, <1>3, <1>4, <1>5

(* Different members have different ranks, and every rank below the number *)
(* of members is taken.                                                    *)
LEMMA RankDiffers ==
  ASSUME NEW N \in Nat, NEW S \in SUBSET (0..N), NEW x \in S, NEW y \in S,
         Rank(x, S) = Rank(y, S)
  PROVE  x = y
<1>1. x \in Int /\ y \in Int
  OBVIOUS
<1>2. Rank(x, S) \in Nat /\ Rank(y, S) \in Nat
  BY LowerFinite
<1>3. x < y => Rank(x, S) < Rank(y, S)
  BY RankGrows
<1>4. y < x => Rank(y, S) < Rank(x, S)
  BY RankGrows
<1> QED
  BY <1>1, <1>2, <1>3, <1>4

LEMMA RankFound ==
  ASSUME NEW N \in Nat, NEW S \in SUBSET (0..N), NEW r \in Nat, r < Cardinality(S)
  PROVE  \E x \in S : Rank(x, S) = r
<1>1. IsFiniteSet(S) /\ Cardinality(S) \in Nat
  BY LowerFinite
<1>2. S # {}
  BY <1>1, FS_EmptySet
<1> DEFINE T == {x \in S : Rank(x, S) >= r}
<1>0. \A x \in S : x \in Int /\ x \in Nat
  BY InRange
<1>3. \A x \in S : x \in Int /\ Rank(x, S) \in Nat
  BY <1>0, LowerFinite, Zenon
<1>4. T # {}
  <2>1. PICK m \in S : \A y \in S : y <= m
    BY <1>2, GreatestExists
  <2>2. Lower(m, S) = S \ {m}
    <3>1. \A y \in S : y < m <=> y # m
      BY <1>0, <2>1
    <3> QED
      BY <3>1 DEF Lower
  <2>3. Rank(m, S) = Cardinality(S) - 1
    <3>1. Rank(m, S) = Cardinality(Lower(m, S))
      BY LowerFinite
    <3>2. Cardinality(S \ {m}) = Cardinality(S) - 1
      BY <1>1, FS_RemoveElement
    <3> QED
      BY <2>2, <3>1, <3>2
  <2>4. Rank(m, S) >= r
    BY <1>1, <2>3
  <2> QED
    BY <2>4
<1>5. T \in SUBSET Nat
  BY <1>0
<1>6. PICK x \in T : \A y \in T : x <= y
  <2> HIDE DEF T
  <2> QED
    BY <1>4, <1>5, LeastExists
<1>7. ASSUME Rank(x, S) > r PROVE FALSE
  <2> DEFINE L == Lower(x, S)
  <2>1. L \in SUBSET (0..N)
    BY DEF Lower
  <2>2. L # {}
    <3>0. x \in S /\ Rank(x, S) = Cardinality(L)
      BY LowerFinite
    <3>1. Cardinality(L) # 0
      BY <1>3, <1>7, <3>0
    <3> QED
      BY <3>1, FS_EmptySet
  <2>3. PICK z \in L : \A y \in L : y <= z
    <3> HIDE DEF L
    <3> QED
      BY <2>1, <2>2, GreatestExists
  <2>4. z \in S /\ z < x
    BY DEF Lower
  <2>5. Lower(z, S) = L \ {z}
    <3>1. \A y \in S : y < z => y < x /\ y # z
      BY <1>3, <2>4
    <3>2. \A y \in S : y < x /\ y # z => y < z
      <4> SUFFICES ASSUME NEW y \in S, y < x, y # z PROVE y < z
        OBVIOUS
      <4>1. y <= z
        BY <2>3 DEF Lower
      <4> QED
        BY <1>3, <2>4, <4>1
    <3> QED
      BY <3>1, <3>2 DEF Lower
  <2>6. Rank(z, S) = Rank(x, S) - 1
    <3>1. IsFiniteSet(L) /\ Rank(x, S) = Cardinality(L)
      BY LowerFinite
    <3>2. Cardinality(L \ {z}) = Cardinality(L) - 1
      <4> HIDE DEF L
      <4> QED
        BY <3>1, FS_RemoveElement
    <3>3. Rank(z, S) = Cardinality(Lower(z, S))
      BY LowerFinite
    <3> QED
      BY <2>5, <3>1, <3>2, <3>3
  <2>7. Rank(z, S) >= r
    BY <1>3, <1>7, <2>4, <2>6
  <2>8. z \in T
    BY <2>4, <2>7
  <2> QED
    BY <1>3, <1>6, <2>4, <2>8
<1>8. x \in S /\ Rank(x, S) >= r
  OBVIOUS
<1>9. Rank(x, S) = r
  BY <1>3, <1>7, <1>8
<1> QED
  BY <1>8, <1>9

(* Block bn starts at or before byte x exactly when it is not past the     *)
(* block of x.                                                             *)
LEMMA BlockOfByte ==
  ASSUME NEW x \in Int, NEW bn \in Nat
  PROVE  /\ x \div BSIZE \in Int
         /\ bn <= x \div BSIZE <=> bn * BSIZE <= x
<1> DEFINE b == x \div BSIZE
<1>1. BSIZE \in Nat \ {0}
  BY FileDataAssumption
<1>2. b \in Int /\ BSIZE * b <= x /\ x < BSIZE * b + BSIZE
  BY <1>1
<1> HIDE DEF b
<1>3. ASSUME bn <= b PROVE bn * BSIZE <= x
  <2>1. bn * BSIZE <= BSIZE * b
    BY <1>1, <1>2, <1>3
  <2>2. bn * BSIZE \in Int /\ BSIZE * b \in Int
    BY <1>1, <1>2
  <2> QED
    BY <1>2, <2>1, <2>2
<1>4. ASSUME ~(bn <= b) PROVE ~(bn * BSIZE <= x)
  <2>1. b + 1 <= bn
    BY <1>2, <1>4
  <2>2. BSIZE * (b + 1) <= bn * BSIZE
    BY <1>1, <1>2, <2>1
  <2>3. BSIZE * (b + 1) = BSIZE * b + BSIZE
    BY <1>1, <1>2
  <2>4. bn * BSIZE \in Int /\ BSIZE * b \in Int
    BY <1>1, <1>2
  <2> QED
    BY <1>1, <1>2, <2>2, <2>3, <2>4
<1> QED
  BY <1>2, <1>3, <1>4 DEF b

(* The addresses of the blocks of a file and the one of its indirect block *)
(* have slots of their own.                                                *)
LEMMA SlotsIn ==
  /\ MAXFILE \in Nat /\ NDIRECT \in Nat /\ NDIRECT < MAXFILE /\ BSIZE \in Nat \ {0}
  /\ \A bn \in 0..(MAXFILE - 1) : Slot(bn) \in AddrSlots /\ Slot(bn) # NDIRECT
  /\ NDIRECT \in AddrSlots
  /\ \A bn, cn \in Nat : Slot(bn) = Slot(cn) => bn = cn
  /\ \A bn \in Nat : Slot(bn) # NDIRECT
BY FileDataAssumption DEF MAXFILE, AddrSlots, Slot

(* What bmap() visits for n bytes at o, for a file that may be that long.  *)
LEMMA VisitedIs ==
  ASSUME NEW o \in Nat, NEW n \in Nat, n # 0 \/ o = 0, o + n <= MAXFILE * BSIZE
  PROVE  /\ Visited(o, n) \in SUBSET AddrSlots
         /\ \A bn \in 0..(MAXFILE - 1) : Slot(bn) \in Visited(o, n) => bn * BSIZE < o + n
         /\ \A bn \in 0..(MAXFILE - 1) :
              bn * BSIZE < o + n /\ Slot(bn) \notin Visited(o, n) => bn * BSIZE < o
<1> DEFINE a == o \div BSIZE
           b == (o + n - 1) \div BSIZE
           T == {Slot(bn) : bn \in a..b}
<1>1. o + n - 1 \in Int /\ o \in Int
  OBVIOUS
<1>2. a \in Int /\ b \in Int /\ 0 <= a
  <2>1. 0 * BSIZE <= o
    BY SlotsIn
  <2> QED
    BY <1>1, <2>1, BlockOfByte, SlotsIn
<1>3. b < MAXFILE
  <2>1. ~(MAXFILE * BSIZE <= o + n - 1)
    BY <1>1, SlotsIn
  <2>2. ~(MAXFILE <= b)
    BY <1>1, <2>1, BlockOfByte, SlotsIn
  <2> QED
    BY <1>2, <2>2, SlotsIn
<1>4. Visited(o, n) = T \cup (IF \E bn \in a..b : bn >= NDIRECT THEN {NDIRECT} ELSE {})
  BY DEF Visited
<1>b. \A bn \in Nat : bn <= b <=> bn * BSIZE <= o + n - 1
  BY <1>1, BlockOfByte
<1>a. \A bn \in Nat : bn <= a <=> bn * BSIZE <= o
  BY <1>1, BlockOfByte
<1> HIDE DEF a, b
<1>5. \A bn \in a..b : bn \in 0..(MAXFILE - 1)
  BY <1>2, <1>3, SlotsIn
<1>6. Visited(o, n) \in SUBSET AddrSlots
  BY <1>4, <1>5, SlotsIn
<1>7. \A bn \in 0..(MAXFILE - 1) : Slot(bn) \in Visited(o, n) <=> bn \in a..b
  <2> SUFFICES ASSUME NEW bn \in 0..(MAXFILE - 1)
               PROVE  Slot(bn) \in T <=> bn \in a..b
    BY <1>4, SlotsIn
  <2>1. \A cn \in a..b : cn \in Nat
    BY <1>5
  <2> QED
    BY <2>1, SlotsIn
<1> HIDE DEF T
<1>8. ASSUME NEW bn \in 0..(MAXFILE - 1), bn \in a..b
      PROVE  bn * BSIZE < o + n
  <2>1. bn \in Nat /\ bn <= b
    BY <1>2, <1>8
  <2>2. bn * BSIZE <= o + n - 1
    BY <1>b, <2>1
  <2>3. bn * BSIZE \in Int
    BY <2>1, SlotsIn
  <2> QED
    BY <2>2, <2>3
<1>9. ASSUME NEW bn \in 0..(MAXFILE - 1), bn * BSIZE < o + n, bn \notin a..b
      PROVE  bn * BSIZE < o
  <2>0. bn \in Nat /\ bn * BSIZE \in Int /\ BSIZE \in Nat \ {0}
    BY SlotsIn
  <2>1. bn * BSIZE <= o + n - 1
    BY <1>9, <2>0
  <2>2. bn <= b
    BY <1>b, <2>0, <2>1
  <2>3. bn + 1 <= a
    BY <1>2, <1>9, <2>0, <2>2
  <2>4. (bn + 1) * BSIZE <= o
    BY <1>a, <2>0, <2>3
  <2>5. (bn + 1) * BSIZE = bn * BSIZE + BSIZE
    BY <2>0
  <2> QED
    BY <2>0, <2>4, <2>5
<1> QED
  BY <1>6, <1>7, <1>8, <1>9

AddrTypeOK ==
  /\ addr \in [Inodes -> [AddrSlots -> 0..NBlocks]]
  /\ bitmap \in SUBSET DataBlocks

(* No block is in two places.                                              *)
AddrsDiffer ==
  \A i, j \in Inodes, s, t \in AddrSlots :
    addr[i][s] = addr[j][t] /\ addr[i][s] # 0 => i = j /\ s = t

BitmapExact ==
  \A b \in DataBlocks : b \in bitmap <=> \E i \in Inodes, s \in AddrSlots : addr[i][s] = b

SizesExact ==
  \A i \in Inodes, bn \in 0..(MAXFILE - 1) :
    addr[i][Slot(bn)] # 0 <=> bn * BSIZE < fsize[i]

OffsetsIn == \A f \in Files : off[f] <= fsize[inodeOf[f]]

BlocksInv == AddrTypeOK /\ AddrsDiffer /\ BitmapExact /\ SizesExact /\ OffsetsIn

(* The blocks that balloc() gives to the slots U, one by one.              *)
LEMMA BallocGives ==
  ASSUME bitmap \in SUBSET DataBlocks, NEW U \in SUBSET AddrSlots,
         Cardinality(U) <= NBlocks - Cardinality(bitmap)
  PROVE  /\ \A s \in U : Balloc(Rank(s, U)) \in DataBlocks \ bitmap
         /\ \A s, t \in U : Balloc(Rank(s, U)) = Balloc(Rank(t, U)) => s = t
<1> DEFINE F == DataBlocks \ bitmap
<1>1. NBlocks \in Nat /\ MAXFILE \in Nat
  BY FileDataAssumption, SlotsIn
<1>2. F \in SUBSET (0..NBlocks) /\ U \in SUBSET (0..MAXFILE)
  BY <1>1 DEF DataBlocks, AddrSlots
<1>3. Cardinality(F) = NBlocks - Cardinality(bitmap)
  <2>1. IsFiniteSet(DataBlocks) /\ Cardinality(DataBlocks) = NBlocks
    <3>1. /\ IsFiniteSet(1..NBlocks)
          /\ Cardinality(1..NBlocks) = IF 1 > NBlocks THEN 0 ELSE NBlocks - 1 + 1
      <4>1. NBlocks \in Int /\ 1 \in Int
        BY <1>1
      <4> QED
        BY <4>1, FS_Interval, Zenon
    <3> QED
      BY <1>1, <3>1 DEF DataBlocks
  <2>2. DataBlocks \cap bitmap = bitmap
    OBVIOUS
  <2> QED
    BY <2>1, <2>2, FS_Difference
<1>4. Cardinality(U) \in Nat /\ \A s \in U : Rank(s, U) \in Nat /\ Rank(s, U) < Cardinality(U)
  BY <1>1, <1>2, LowerFinite, RankLess
<1>5. Cardinality(F) \in Nat
  <2> HIDE DEF F
  <2> QED
    BY <1>1, <1>2, LowerFinite
<1>6. ASSUME NEW s \in U
      PROVE  Balloc(Rank(s, U)) \in F /\ Rank(Balloc(Rank(s, U)), F) = Rank(s, U)
  <2>1. Rank(s, U) \in Nat /\ Rank(s, U) < Cardinality(F)
    BY <1>3, <1>4, <1>5
  <2>2. \E x \in F : Rank(x, F) = Rank(s, U)
    <3> HIDE DEF F
    <3> QED
      BY <1>1, <1>2, <2>1, RankFound
  <2> QED
    BY <2>2 DEF Balloc
<1>7. ASSUME NEW s \in U, NEW t \in U, Balloc(Rank(s, U)) = Balloc(Rank(t, U))
      PROVE  s = t
  <2>1. Rank(s, U) = Rank(t, U)
    BY <1>6, <1>7
  <2> QED
    BY <1>1, <1>2, <2>1, RankDiffers
<1> QED
  BY <1>6, <1>7

(* The slots U of inode i get different blocks that were free.             *)
LEMMA SlotsFilled ==
  ASSUME AddrTypeOK, AddrsDiffer, BitmapExact, NEW i \in Inodes, NEW U \in SUBSET AddrSlots,
         NEW m, m \in [AddrSlots -> 0..NBlocks],
         \A s \in U : addr[i][s] = 0 /\ m[s] \in DataBlocks \ bitmap,
         \A s \in AddrSlots \ U : m[s] = addr[i][s],
         \A s, t \in U : m[s] = m[t] => s = t,
         addr' = [addr EXCEPT ![i] = m],
         \A b : b \in bitmap' <=> b \in bitmap \/ \E s \in U : b = m[s],
         Inodes' = Inodes
  PROVE  AddrTypeOK' /\ AddrsDiffer' /\ BitmapExact'
<1>1. /\ addr'[i] = m /\ \A j \in Inodes : j # i => addr'[j] = addr[j]
      /\ addr' \in [Inodes -> [AddrSlots -> 0..NBlocks]]
  BY DEF AddrTypeOK
<1>2. AddrTypeOK'
  BY <1>1 DEF AddrTypeOK
<1>3. \A j \in Inodes, s \in AddrSlots : addr[j][s] = 0 \/ addr[j][s] \in bitmap
  <2>1. \A j \in Inodes, s \in AddrSlots : addr[j][s] = 0 \/ addr[j][s] \in DataBlocks
    BY FileDataAssumption DEF AddrTypeOK, DataBlocks
  <2> QED
    BY <2>1 DEF BitmapExact
<1>4. \A j \in Inodes, s \in AddrSlots :
        addr'[j][s] = IF j = i /\ s \in U THEN m[s] ELSE addr[j][s]
  BY <1>1
<1>5. AddrsDiffer'
  <2> SUFFICES ASSUME NEW j \in Inodes, NEW k \in Inodes, NEW s \in AddrSlots, NEW t \in AddrSlots,
                      addr'[j][s] = addr'[k][t], addr'[j][s] # 0
               PROVE  j = k /\ s = t
    BY DEF AddrsDiffer
  <2>1. CASE j = i /\ s \in U
    <3>1. addr'[j][s] = m[s] /\ m[s] \notin bitmap
      BY <1>4, <2>1
    <3>2. k = i /\ t \in U
      BY <1>3, <1>4, <3>1
    <3> QED
      BY <1>4, <2>1, <3>1, <3>2
  <2>2. CASE ~(j = i /\ s \in U)
    <3>1. addr'[j][s] = addr[j][s] /\ addr[j][s] \in bitmap
      BY <1>3, <1>4, <2>2
    <3>2. ~(k = i /\ t \in U)
      BY <1>4, <3>1
    <3>3. addr[j][s] = addr[k][t] /\ addr[j][s] # 0
      BY <1>4, <3>1, <3>2
    <3> QED
      BY <3>3 DEF AddrsDiffer
  <2> QED
    BY <2>1, <2>2
<1>6. BitmapExact'
  <2> SUFFICES ASSUME NEW b \in DataBlocks
               PROVE  b \in bitmap' <=> \E j \in Inodes, s \in AddrSlots : addr'[j][s] = b
    BY DEF BitmapExact
  <2>0. b # 0
    BY DEF DataBlocks
  <2>1. ASSUME b \in bitmap PROVE \E j \in Inodes, s \in AddrSlots : addr'[j][s] = b
    <3>1. PICK j \in Inodes, s \in AddrSlots : addr[j][s] = b
      BY <2>1 DEF BitmapExact
    <3>2. addr'[j][s] = b
      BY <1>4, <2>0, <3>1
    <3> QED
      BY <3>2
  <2>2. ASSUME NEW s \in U, b = m[s] PROVE \E j \in Inodes, t \in AddrSlots : addr'[j][t] = b
    BY <1>4, <2>2
  <2>3. ASSUME NEW j \in Inodes, NEW s \in AddrSlots, addr'[j][s] = b PROVE b \in bitmap'
    BY <1>3, <1>4, <2>0, <2>3
  <2> QED
    BY <2>1, <2>2, <2>3
<1> QED
  BY <1>2, <1>5, <1>6

(* writei(): the blocks from f->off on get an address if they have none;   *)
(* with off <= size, those below it had one already, so the file has no    *)
(* hole.                                                                   *)
LEMMA WriteChunkKeepsBlocks ==
  ASSUME DataInv, BlocksInv, NEW p \in FileProcs, WriteChunk(p)
  PROVE  BlocksInv'
<1> DEFINE f == io[p].file
           i == inodeOf[f]
           o == off[f]
           n == IF io[p].left > MaxWrite THEN MaxWrite ELSE io[p].left
           V == Visited(o, n)
           U == Unmapped(i, o, n)
           m == Mapped(i, o, n)
<1> USE DEF BlocksInv
<1>1. inodeOf' = inodeOf /\ Files' = Files /\ Inodes' = Inodes
  BY DEF WriteChunk, Files, Inodes
<1>2. f \in Files /\ io[p].left \in Nat \ {0}
  BY DEF WriteChunk, DataInv, DataTypeOK
<1>3. MaxWrite \in Nat \ {0}
  <2>1. (MAXOPBLOCKS - 1 - 1 - 2) \div 2 \in Nat \ {0} /\ BSIZE \in Nat \ {0}
    BY FileDataAssumption
  <2> QED
    BY <2>1 DEF MaxWrite
<1>4. o \in Nat /\ i \in Inodes /\ fsize[i] \in Nat
  BY <1>2 DEF DataInv, DataTypeOK, Inodes
<1>5. n \in Nat \ {0}
  BY <1>2, <1>3
<1>6. CASE UNCHANGED <<bitmap, addr, fsize, off>>
  BY <1>1, <1>6 DEF AddrTypeOK, AddrsDiffer, BitmapExact, SizesExact, OffsetsIn
<1>7. CASE /\ o <= fsize[i] /\ o + n <= MAXFILE * BSIZE
           /\ Cardinality(U) <= NBlocks - Cardinality(bitmap)
           /\ addr' = [addr EXCEPT ![i] = m]
           /\ bitmap' = bitmap \cup {m[s] : s \in V}
           /\ fsize' = [fsize EXCEPT ![i] = IF o + n > @ THEN o + n ELSE @]
           /\ off' = [off EXCEPT ![f] = o + n]
  <2> HIDE DEF f, i, o, n
  <2>1. /\ V \in SUBSET AddrSlots
        /\ \A bn \in 0..(MAXFILE - 1) : Slot(bn) \in V => bn * BSIZE < o + n
        /\ \A bn \in 0..(MAXFILE - 1) :
             bn * BSIZE < o + n /\ Slot(bn) \notin V => bn * BSIZE < o
    BY <1>4, <1>5, <1>7, VisitedIs
  <2> HIDE DEF V
  <2>2. U = {s \in V : addr[i][s] = 0} /\ U \in SUBSET AddrSlots
    BY <2>1 DEF Unmapped, V
  <2>3. m = [s \in AddrSlots |-> IF s \in U THEN Balloc(Rank(s, U)) ELSE addr[i][s]]
    BY DEF Mapped
  <2> HIDE DEF U, m
  <2>4. /\ \A s \in U : Balloc(Rank(s, U)) \in DataBlocks \ bitmap
        /\ \A s, t \in U : Balloc(Rank(s, U)) = Balloc(Rank(t, U)) => s = t
    BY <1>7, <2>2, BallocGives DEF AddrTypeOK
  <2>5. /\ \A s \in U : m[s] = Balloc(Rank(s, U)) /\ m[s] \in DataBlocks \ bitmap
        /\ \A s \in AddrSlots \ U : m[s] = addr[i][s]
    BY <2>2, <2>3, <2>4
  <2>6. m \in [AddrSlots -> 0..NBlocks]
    <3>1. \A s \in AddrSlots : addr[i][s] \in 0..NBlocks
      BY <1>4 DEF AddrTypeOK
    <3>2. DataBlocks \subseteq 0..NBlocks
      BY FileDataAssumption DEF DataBlocks
    <3>3. \A s \in AddrSlots : m[s] \in 0..NBlocks
      BY <2>5, <3>1, <3>2
    <3> QED
      BY <2>3, <3>3
  <2>7. \A s, t \in U : m[s] = m[t] => s = t
    BY <2>4, <2>5
  <2>8. \A s \in AddrSlots : addr[i][s] = 0 \/ addr[i][s] \in bitmap
    <3>1. \A s \in AddrSlots : addr[i][s] = 0 \/ addr[i][s] \in DataBlocks
      BY <1>4, FileDataAssumption DEF AddrTypeOK, DataBlocks
    <3> QED
      BY <1>4, <3>1 DEF BitmapExact
  <2>9. \A b : b \in bitmap' <=> b \in bitmap \/ \E s \in U : b = m[s]
    <3>1. \A s \in V : s \in U \/ (m[s] = addr[i][s] /\ addr[i][s] \in bitmap)
      BY <2>1, <2>2, <2>5, <2>8
    <3>2. \A s \in U : s \in V
      BY <2>2
    <3>3. \A b : b \in bitmap' <=> b \in bitmap \/ \E s \in V : b = m[s]
      BY <1>7
    <3> QED
      BY <3>1, <3>2, <3>3
  <2>10. addr' = [addr EXCEPT ![i] = m]
    BY <1>7
  <2>11. \A s \in U : addr[i][s] = 0
    BY <2>2
  <2>12. AddrTypeOK' /\ AddrsDiffer' /\ BitmapExact'
    <3>1. AddrTypeOK /\ AddrsDiffer /\ BitmapExact
      OBVIOUS
    <3>2. \A s \in U : addr[i][s] = 0 /\ m[s] \in DataBlocks \ bitmap
      BY <2>5, <2>11
    <3>3. \A s \in AddrSlots \ U : m[s] = addr[i][s]
      BY <2>5
    <3>4. i \in Inodes /\ U \in SUBSET AddrSlots /\ Inodes' = Inodes
      BY <1>1, <1>4, <2>2
    <3> QED
      BY <3>1, <3>2, <3>3, <3>4, <2>6, <2>7, <2>9, <2>10, SlotsFilled, ZenonT(60)
  <2>13. /\ fsize'[i] = IF o + n > fsize[i] THEN o + n ELSE fsize[i]
         /\ \A j \in Inodes : j # i => fsize'[j] = fsize[j]
         /\ addr'[i] = m /\ \A j \in Inodes : j # i => addr'[j] = addr[j]
    BY <1>4, <1>7 DEF DataInv, DataTypeOK, AddrTypeOK
  <2>14. SizesExact'
    <3> SUFFICES ASSUME NEW j \in Inodes, NEW bn \in 0..(MAXFILE - 1)
                 PROVE  addr'[j][Slot(bn)] # 0 <=> bn * BSIZE < fsize'[j]
      BY <1>1 DEF SizesExact
    <3>0. addr[j][Slot(bn)] # 0 <=> bn * BSIZE < fsize[j]
      BY DEF SizesExact
    <3>1. CASE j # i
      BY <2>13, <3>0, <3>1
    <3>2. CASE j = i
      <4>0. Slot(bn) \in AddrSlots /\ bn * BSIZE \in Int
        BY SlotsIn
      <4>1. m[Slot(bn)] # 0 <=> Slot(bn) \in V \/ addr[i][Slot(bn)] # 0
        <5>1. 0 \notin DataBlocks
          BY DEF DataBlocks
        <5> QED
          BY <2>1, <2>2, <2>5, <4>0, <5>1
      <4>2. Slot(bn) \in V \/ bn * BSIZE < fsize[i] <=> bn * BSIZE < fsize'[i]
        <5> DEFINE x == bn * BSIZE
        <5>1. x \in Int /\ o + n \in Int
          BY <1>4, <1>5, <4>0
        <5>2. (Slot(bn) \in V => x < o + n) /\ (x < o + n /\ Slot(bn) \notin V => x < o)
          BY <2>1
        <5> HIDE DEF x
        <5>3. o <= fsize[i]
          BY <1>7
        <5>4. Slot(bn) \in V \/ x < fsize[i] <=> x < fsize'[i]
          BY <1>4, <1>5, <2>13, <5>1, <5>2, <5>3
        <5> QED
          BY <5>4 DEF x
      <4> QED
        BY <2>13, <3>0, <3>2, <4>1, <4>2
    <3> QED
      BY <3>1, <3>2
  <2>15. OffsetsIn'
    <3> SUFFICES ASSUME NEW h \in Files PROVE off'[h] <= fsize'[inodeOf[h]]
      BY <1>1 DEF OffsetsIn
    <3>1. inodeOf[h] \in Inodes /\ off[h] \in Nat /\ fsize[inodeOf[h]] \in Nat
          /\ off[h] <= fsize[inodeOf[h]]
      BY DEF Inodes, OffsetsIn, DataInv, DataTypeOK
    <3>2. o + n \in Nat
      BY <1>4, <1>5
    <3>3. fsize'[inodeOf[h]] >= fsize[inodeOf[h]] /\ fsize'[i] >= o + n
      BY <1>4, <2>13, <3>1, <3>2
    <3>4. CASE h = f
      <4>1. off'[h] = o + n /\ inodeOf[h] = i
        BY <1>2, <1>7, <3>4 DEF DataInv, DataTypeOK, i
      <4> QED
        BY <3>3, <4>1
    <3>5. CASE h # f
      <4>1. off'[h] = off[h]
        BY <1>2, <1>7, <3>5 DEF DataInv, DataTypeOK
      <4>2. fsize'[inodeOf[h]] \in Nat
        BY <1>4, <2>13, <3>1, <3>2
      <4> QED
        BY <3>1, <3>3, <4>1, <4>2
    <3> QED
      BY <3>4, <3>5
  <2> QED
    BY <2>12, <2>14, <2>15
<1> QED
  BY <1>6, <1>7 DEF WriteChunk

(* itrunc(): the blocks it frees are those that no other inode refers to.  *)
LEMMA ItruncKeepsBlocks ==
  ASSUME DataInv, BlocksInv, NEW i \in Inodes, Itrunc(i)
  PROVE  BlocksInv'
<1> USE DEF BlocksInv
<1>1. inodeOf' = inodeOf /\ Files' = Files /\ Inodes' = Inodes
  BY DEF Itrunc, Files, Inodes
<1>2. /\ bitmap' = bitmap \ {addr[i][s] : s \in AddrSlots}
      /\ addr' = [addr EXCEPT ![i] = [s \in AddrSlots |-> 0]]
      /\ fsize' = [fsize EXCEPT ![i] = 0]
      /\ off' = [f \in Files |-> IF inodeOf[f] = i THEN 0 ELSE off[f]]
  BY DEF Itrunc, Bfree
<1>3. /\ \A s \in AddrSlots : addr'[i][s] = 0
      /\ \A j \in Inodes : j # i => addr'[j] = addr[j]
      /\ fsize'[i] = 0 /\ \A j \in Inodes : j # i => fsize'[j] = fsize[j]
  BY <1>2 DEF AddrTypeOK, DataInv, DataTypeOK
<1>4. AddrTypeOK'
  <2>1. 0 \in 0..NBlocks
    BY FileDataAssumption
  <2> QED
    BY <1>1, <1>2, <2>1 DEF AddrTypeOK
<1>5. AddrsDiffer'
  BY <1>1, <1>3 DEF AddrsDiffer
<1>6. BitmapExact'
  <2> SUFFICES ASSUME NEW b \in DataBlocks
               PROVE  b \in bitmap' <=> \E j \in Inodes, s \in AddrSlots : addr'[j][s] = b
    BY <1>1 DEF BitmapExact
  <2>0. b # 0
    BY DEF DataBlocks
  <2>1. b \in bitmap' <=> b \in bitmap /\ \A s \in AddrSlots : addr[i][s] # b
    BY <1>2
  <2>2. ASSUME b \in bitmap' PROVE \E j \in Inodes, s \in AddrSlots : addr'[j][s] = b
    <3>1. PICK j \in Inodes, s \in AddrSlots : addr[j][s] = b
      BY <2>1, <2>2 DEF BitmapExact
    <3>2. j # i
      BY <2>1, <2>2, <3>1
    <3> QED
      BY <1>3, <3>1, <3>2
  <2>3. ASSUME NEW j \in Inodes, NEW s \in AddrSlots, addr'[j][s] = b PROVE b \in bitmap'
    <3>1. j # i /\ addr[j][s] = b
      BY <1>3, <2>0, <2>3
    <3>2. b \in bitmap
      BY <3>1 DEF BitmapExact
    <3>3. \A t \in AddrSlots : addr[i][t] # b
      BY <2>0, <3>1 DEF AddrsDiffer
    <3> QED
      BY <2>1, <3>2, <3>3
  <2> QED
    BY <2>2, <2>3
<1>7. SizesExact'
  <2> SUFFICES ASSUME NEW j \in Inodes, NEW bn \in 0..(MAXFILE - 1)
               PROVE  addr'[j][Slot(bn)] # 0 <=> bn * BSIZE < fsize'[j]
    BY <1>1 DEF SizesExact
  <2>1. CASE j = i
    <3>1. Slot(bn) \in AddrSlots /\ ~(bn * BSIZE < 0)
      BY SlotsIn
    <3> QED
      BY <1>3, <2>1, <3>1
  <2>2. CASE j # i
    BY <1>3, <2>2 DEF SizesExact
  <2> QED
    BY <2>1, <2>2
<1>8. OffsetsIn'
  <2> SUFFICES ASSUME NEW h \in Files PROVE off'[h] <= fsize'[inodeOf[h]]
    BY <1>1 DEF OffsetsIn
  <2>1. inodeOf[h] \in Inodes /\ off[h] <= fsize[inodeOf[h]]
    BY DEF Inodes, OffsetsIn
  <2> QED
    BY <1>2, <1>3, <2>1
<1> QED
  BY <1>4, <1>5, <1>6, <1>7, <1>8

LEMMA FilereadKeepsBlocks ==
  ASSUME DataInv, BlocksInv, NEW f \in Files, NEW n \in Lengths, Fileread(f, n)
  PROVE  BlocksInv'
<1> DEFINE i == inodeOf[f]
           got == Readi(i, off[f], n)
<1>1. inodeOf' = inodeOf /\ Files' = Files /\ Inodes' = Inodes
  BY DEF Fileread, Files, Inodes
<1>2. i \in Inodes /\ off[f] \in Nat /\ fsize[i] \in Nat /\ n \in Nat
  BY FileDataAssumption DEF DataInv, DataTypeOK, Inodes
<1>3. off[f] + got <= fsize[i]
  BY <1>2 DEF Readi
<1>4. UNCHANGED <<bitmap, addr, fsize>> /\ off' = [off EXCEPT ![f] = @ + got]
  BY DEF Fileread
<1>5. AddrTypeOK' /\ AddrsDiffer' /\ BitmapExact' /\ SizesExact'
  BY <1>1, <1>4 DEF BlocksInv, AddrTypeOK, AddrsDiffer, BitmapExact, SizesExact
<1>6. OffsetsIn'
  <2> HIDE DEF got
  <2>1. \A h \in Files : off'[h] = IF h = f THEN off[f] + got ELSE off[h]
    BY <1>4 DEF DataInv, DataTypeOK
  <2> QED
    BY <1>1, <1>3, <1>4, <2>1 DEF BlocksInv, OffsetsIn
<1> QED
  BY <1>5, <1>6 DEF BlocksInv

LEMMA BlocksNextKeepsInv == DataInv /\ BlocksInv /\ [DataNext]_dataVars => BlocksInv'
<1> SUFFICES ASSUME DataInv, BlocksInv, [DataNext]_dataVars PROVE BlocksInv'
  OBVIOUS
<1>1. CASE UNCHANGED <<bitmap, addr, fsize, off, inodeOf>>
  BY <1>1 DEF BlocksInv, AddrTypeOK, AddrsDiffer, BitmapExact, SizesExact, OffsetsIn,
              Files, Inodes
<1>2. ASSUME NEW p \in FileProcs, NEW f \in Files, NEW n \in Lengths, WriteStart(p, f, n)
      PROVE  BlocksInv'
  BY <1>1, <1>2 DEF WriteStart
<1>3. CASE UNCHANGED dataVars
  BY <1>1, <1>3 DEF dataVars
<1> QED
  BY <1>2, <1>3, WriteChunkKeepsBlocks, FilereadKeepsBlocks, ItruncKeepsBlocks DEF DataNext

(* The image that mkfs made.                                               *)
LEMMA BlocksStart == DataInit => BlocksInv
<1> SUFFICES ASSUME DataInit PROVE BlocksInv
  OBVIOUS
<1>1. PICK n \in ImageSizes :
        /\ bitmap = MkfsBalloc(n)
        /\ addr = [i \in Inodes |-> IF i = 1 THEN Iappend(n)
                                    ELSE [s \in AddrSlots |-> 0]]
        /\ fsize = [i \in Inodes |-> IF i = 1 THEN n ELSE 0]
  BY DEF DataInit
<1> DEFINE V == Visited(0, n)
<1>2. n \in Nat /\ n <= MAXFILE * BSIZE /\ Cardinality(V) <= NBlocks /\ NBlocks \in Nat
  BY FileDataAssumption, ImageAssumption
<1>3. /\ V \in SUBSET AddrSlots
      /\ \A bn \in 0..(MAXFILE - 1) : Slot(bn) \in V => bn * BSIZE < n
      /\ \A bn \in 0..(MAXFILE - 1) : bn * BSIZE < n /\ Slot(bn) \notin V => bn * BSIZE < 0
  <2>1. 0 \in Nat /\ 0 + n <= MAXFILE * BSIZE /\ 0 + n = n
    BY <1>2
  <2> QED
    BY <1>2, <2>1, VisitedIs
<1>4. 1 \in Inodes
  BY FileDataAssumption DEF DataInit, Inodes, Files
<1>5. addr[1] = [s \in AddrSlots |-> IF s \in V THEN 1 + Rank(s, V) ELSE 0]
  BY <1>1, <1>4 DEF Iappend
<1>6. bitmap = 1..Cardinality(V)
  BY <1>1 DEF MkfsBalloc
<1> HIDE DEF V
<1>7. V \in SUBSET (0..MAXFILE) /\ MAXFILE \in Nat
  BY <1>3, SlotsIn DEF AddrSlots
<1>8. /\ Cardinality(V) \in Nat
      /\ \A s \in V : Rank(s, V) \in Nat /\ Rank(s, V) < Cardinality(V)
  BY <1>7, LowerFinite, RankLess
<1>9. \A s, t \in V : Rank(s, V) = Rank(t, V) => s = t
  BY <1>7, RankDiffers
<1>10. \A r \in Nat : r < Cardinality(V) => \E s \in V : Rank(s, V) = r
  BY <1>7, RankFound
<1>11. /\ \A s \in V : addr[1][s] = 1 + Rank(s, V) /\ addr[1][s] # 0
                       /\ addr[1][s] \in bitmap
       /\ \A s \in AddrSlots \ V : addr[1][s] = 0
       /\ \A i \in Inodes, s \in AddrSlots : i # 1 => addr[i][s] = 0
  <2>1. \A s \in V : addr[1][s] = 1 + Rank(s, V)
    BY <1>3, <1>5
  <2>2. \A s \in V : 1 + Rank(s, V) # 0 /\ 1 + Rank(s, V) \in 1..Cardinality(V)
    BY <1>8
  <2>3. \A s \in AddrSlots \ V : addr[1][s] = 0
    BY <1>5
  <2>4. \A i \in Inodes, s \in AddrSlots : i # 1 => addr[i][s] = 0
    BY <1>1
  <2> QED
    BY <1>6, <2>1, <2>2, <2>3, <2>4
<1>12. \A i \in Inodes, s \in AddrSlots : addr[i][s] # 0 => i = 1 /\ s \in V
  BY <1>11
<1>13. AddrTypeOK
  <2>1. bitmap \in SUBSET DataBlocks
    BY <1>2, <1>6, <1>8 DEF DataBlocks
  <2>2. \A i \in Inodes, s \in AddrSlots : addr[i][s] = 0 \/ addr[i][s] \in bitmap
    BY <1>11, <1>12
  <2>3. \A i \in Inodes, s \in AddrSlots : addr[i][s] \in 0..NBlocks
    <3>1. \A b \in bitmap : b \in 0..NBlocks
      BY <1>2, <2>1 DEF DataBlocks
    <3>2. 0 \in 0..NBlocks
      BY <1>2
    <3> QED
      BY <2>2, <3>1, <3>2
  <2>4. addr = [i \in Inodes |-> [s \in AddrSlots |-> addr[i][s]]]
    <3>1. \A i \in Inodes : addr[i] = [s \in AddrSlots |-> addr[i][s]]
      BY <1>1 DEF Iappend
    <3>2. addr = [i \in Inodes |-> addr[i]]
      BY <1>1
    <3> QED
      BY <3>1, <3>2
  <2>5. addr \in [Inodes -> [AddrSlots -> 0..NBlocks]]
    BY <2>3, <2>4
  <2> QED
    BY <2>1, <2>5 DEF AddrTypeOK
<1>14. AddrsDiffer
  <2> SUFFICES ASSUME NEW i \in Inodes, NEW j \in Inodes, NEW s \in AddrSlots,
                      NEW t \in AddrSlots, addr[i][s] = addr[j][t], addr[i][s] # 0
               PROVE  i = j /\ s = t
    BY DEF AddrsDiffer
  <2>1. i = 1 /\ j = 1 /\ s \in V /\ t \in V
    BY <1>12
  <2>2. 1 + Rank(s, V) = 1 + Rank(t, V)
    BY <1>11, <2>1
  <2>3. Rank(s, V) = Rank(t, V)
    BY <1>8, <2>1, <2>2
  <2> QED
    BY <1>9, <2>1, <2>3
<1>15. BitmapExact
  <2> SUFFICES ASSUME NEW b \in DataBlocks
               PROVE  b \in bitmap <=> \E i \in Inodes, s \in AddrSlots : addr[i][s] = b
    BY DEF BitmapExact
  <2>1. b \in Nat /\ b # 0 /\ b - 1 \in Nat
    BY DEF DataBlocks
  <2>2. ASSUME b \in bitmap PROVE \E i \in Inodes, s \in AddrSlots : addr[i][s] = b
    <3>1. b - 1 < Cardinality(V)
      BY <1>6, <1>8, <2>1, <2>2
    <3>2. PICK s \in V : Rank(s, V) = b - 1
      BY <1>10, <2>1, <3>1
    <3>3. addr[1][s] = b
      BY <1>11, <2>1, <3>2
    <3> QED
      BY <1>3, <1>4, <3>3
  <2>3. ASSUME NEW i \in Inodes, NEW s \in AddrSlots, addr[i][s] = b PROVE b \in bitmap
    BY <1>11, <1>12, <2>1, <2>3
  <2> QED
    BY <2>2, <2>3
<1>16. SizesExact
  <2> SUFFICES ASSUME NEW i \in Inodes, NEW bn \in 0..(MAXFILE - 1)
               PROVE  addr[i][Slot(bn)] # 0 <=> bn * BSIZE < fsize[i]
    BY DEF SizesExact
  <2>1. Slot(bn) \in AddrSlots /\ ~(bn * BSIZE < 0)
    BY SlotsIn
  <2>2. CASE i = 1
    <3>1. fsize[i] = n
      BY <1>1, <2>2
    <3>2. Slot(bn) \in V <=> bn * BSIZE < n
      BY <1>3, <2>1
    <3> QED
      BY <1>11, <2>1, <2>2, <3>1, <3>2
  <2>3. CASE i # 1
    <3>1. fsize[i] = 0
      BY <1>1, <2>3
    <3> QED
      BY <1>11, <2>1, <2>3, <3>1
  <2> QED
    BY <2>2, <2>3
<1>17. OffsetsIn
  <2>1. \A f \in Files : off[f] = 0 /\ inodeOf[f] \in Inodes
    BY DEF DataInit, Inodes
  <2>2. \A i \in Inodes : 0 <= fsize[i]
    BY <1>1, <1>2
  <2> QED
    BY <2>1, <2>2 DEF OffsetsIn
<1> QED
  BY <1>13, <1>14, <1>15, <1>16, <1>17 DEF BlocksInv

LEMMA BlocksInvSuffices == BlocksInv => BlocksExact
<1> SUFFICES ASSUME BlocksInv PROVE BlocksExact
  OBVIOUS
<1> DEFINE A(r) == addr[r[1]][r[2]]
           refs == {r \in Inodes \X AddrSlots : A(r) # 0}
<1>1. \A r \in refs : r[1] \in Inodes /\ r[2] \in AddrSlots /\ r = <<r[1], r[2]>>
                      /\ A(r) # 0
  OBVIOUS
<1>2. \A i \in Inodes, s \in AddrSlots : addr[i][s] # 0 => <<i, s>> \in refs
                                         /\ A(<<i, s>>) = addr[i][s]
  OBVIOUS
<1>3. bitmap \in SUBSET DataBlocks /\ 0 \notin bitmap
  BY DEF BlocksInv, AddrTypeOK, DataBlocks
<1>4. \A i \in Inodes, s \in AddrSlots : addr[i][s] # 0 => addr[i][s] \in bitmap
  <2>1. \A i \in Inodes, s \in AddrSlots : addr[i][s] # 0 => addr[i][s] \in DataBlocks
    BY FileDataAssumption DEF BlocksInv, AddrTypeOK, DataBlocks
  <2> QED
    BY <2>1 DEF BlocksInv, BitmapExact
<1>5. \A r, q \in refs : A(r) = A(q) => r = q
  <2> SUFFICES ASSUME NEW r \in refs, NEW q \in refs, A(r) = A(q) PROVE r = q
    OBVIOUS
  <2>1. r[1] = q[1] /\ r[2] = q[2]
    BY <1>1 DEF BlocksInv, AddrsDiffer
  <2> QED
    BY <1>1, <2>1
<1>6. \A r \in refs : A(r) \in bitmap
  BY <1>1, <1>4
<1>7. \A b \in bitmap : \E r \in refs : A(r) = b
  <2> SUFFICES ASSUME NEW b \in bitmap PROVE \E r \in refs : A(r) = b
    OBVIOUS
  <2>1. PICK i \in Inodes, s \in AddrSlots : addr[i][s] = b
    BY <1>3 DEF BlocksInv, BitmapExact
  <2>2. <<i, s>> \in refs /\ A(<<i, s>>) = b
    BY <1>2, <1>3, <2>1
  <2> HIDE DEF refs, A
  <2> QED
    BY <2>2
<1> HIDE DEF refs, A
<1>8. bitmap = {A(r) : r \in refs}
  BY <1>6, <1>7
<1>9. IsFiniteSet(bitmap)
  <2>1. NBlocks \in Nat
    BY FileDataAssumption
  <2>2. bitmap \in SUBSET (0..NBlocks)
    BY <1>3, <2>1 DEF DataBlocks
  <2> QED
    BY <2>1, <2>2, LowerFinite
<1>10. Cardinality(bitmap) = Cardinality(refs)
  <2> DEFINE g == [b \in bitmap |-> CHOOSE r \in refs : A(r) = b]
  <2>1. \A b \in bitmap : g[b] \in refs /\ A(g[b]) = b
    BY <1>7
  <2>2. g \in [bitmap -> refs]
    BY <2>1
  <2> HIDE DEF g
  <2>3. \A b, c \in bitmap : g[b] = g[c] => b = c
    BY <2>1
  <2>4. \A r \in refs : \E b \in bitmap : g[b] = r
    BY <1>5, <1>6, <2>1
  <2>5. g \in Bijection(bitmap, refs)
    BY <2>2, <2>3, <2>4 DEF Bijection, Injection, Surjection, IsInjective
  <2>6. ExistsBijection(bitmap, refs)
    BY <2>5 DEF ExistsBijection
  <2> QED
    BY <1>9, <2>6, FS_Bijection
<1>11. \A i \in Inodes, bn \in 0..(MAXFILE - 1) :
         addr[i][Slot(bn)] # 0 <=> bn * BSIZE < fsize[i]
  BY DEF BlocksInv, SizesExact
<1>12. \A f \in Files : off[f] <= fsize[inodeOf[f]]
  BY DEF BlocksInv, OffsetsIn
<1> QED
  BY <1>8, <1>10, <1>11, <1>12 DEF BlocksExact, refs, A

(* fs.c, bmap(), balloc(), itrunc() and bfree(): for any number of files   *)
(* and processes and any geometry, the bitmap marks exactly the blocks the *)
(* inodes refer to, no block is referred to twice, a file has an address   *)
(* for every block below its size and for no other, and no offset is past  *)
(* the end of its file.                                                    *)
THEOREM BlocksAlwaysExact == DataSpec => []BlocksExact
<1>1. DataInit => DataInv /\ BlocksInv
  BY DataStart, BlocksStart
<1>2. DataInv /\ BlocksInv /\ [DataNext]_dataVars => DataInv' /\ BlocksInv'
  BY DataNextKeepsInv, BlocksNextKeepsInv
<1> QED
  BY <1>1, <1>2, BlocksInvSuffices, PTL DEF DataSpec

------------------------------------------------------------------------------
(* Spin locks (module Spinlock).  NoSelfDeadlock and InterruptsRestored    *)
(* are not inductive: that a CPU does not spin for its own lock rests on   *)
(* the handler finding no lock taken below it, which rests on ncli being 0 *)
(* whenever an interrupt comes in, which rests on the count.  SpinInv      *)
(* states all of these together.                                           *)

SpinTypeOK ==
  /\ locked \in [Locks -> CPUs \cup {NoCPU}]
  /\ ifl \in [CPUs -> BOOLEAN]
  /\ ncli \in [CPUs -> Int]
  /\ intena \in [CPUs -> BOOLEAN]
  /\ level \in [CPUs -> Levels]
  /\ want \in [CPUs -> [Levels -> 0..NLocks]]
  /\ taken \in [CPUs -> [Levels -> SUBSET Locks]]
  /\ unlocked \in [CPUs -> BOOLEAN]

(* lk->cpu is the CPU that took the lock, at one level or the other.       *)
HolderTook ==
  \A c \in CPUs, l \in Locks :
    locked[l] = c <=> l \in taken[c][0] \cup taken[c][1]

(* The level that does not run holds no lock and waits for none.           *)
OtherLevelIdle(c) ==
  /\ level[c] = 0 => taken[c][1] = {} /\ want[c][1] = 0
  /\ level[c] = 1 => taken[c][0] = {} /\ want[c][0] = 0

(* acquire() and release() do not overlap on a CPU, and the lock acquire() *)
(* asks for comes after those taken.                                       *)
AcquireInOrder(c) ==
  want[c][level[c]] # 0 =>
    ~unlocked[c] /\ \A m \in taken[c][level[c]] : m < want[c][level[c]]

NcliCounts(c) ==
  ncli[c] = Cardinality(taken[c][0]) + Cardinality(taken[c][1])
            + (IF want[c][level[c]] # 0 THEN 1 ELSE 0)
            + (IF unlocked[c] THEN 1 ELSE 0)

(* Interrupts are off in a handler and wherever ncli is not 0, and intena  *)
(* is what they were outside.                                              *)
InterruptFlag(c) ==
  /\ level[c] = 0 => (ifl[c] <=> ncli[c] = 0) /\ (ncli[c] # 0 => intena[c])
  /\ level[c] = 1 => ~ifl[c] /\ (ncli[c] # 0 => ~intena[c])

CpuInv(c) ==
  OtherLevelIdle(c) /\ AcquireInOrder(c) /\ NcliCounts(c) /\ InterruptFlag(c)

SpinInv == SpinTypeOK /\ HolderTook /\ \A c \in CPUs : CpuInv(c)

------------------------------------------------------------------------------
(* Sets of locks are finite, and taking or dropping one changes their size *)
(* by one.                                                                 *)
LEMMA TakenSize ==
  ASSUME NEW S \in SUBSET Locks
  PROVE  /\ IsFiniteSet(S) /\ Cardinality(S) \in Nat
         /\ Cardinality(S) = 0 <=> S = {}
         /\ \A l \in Locks \ S : Cardinality(S \cup {l}) = Cardinality(S) + 1
         /\ \A l \in S : Cardinality(S \ {l}) = Cardinality(S) - 1
<1>1. IsFiniteSet(Locks)
  BY FS_Interval, SpinAssumption DEF Locks
<1>2. IsFiniteSet(S)
  BY <1>1, FS_Subset
<1>3. Cardinality(S) \in Nat /\ (Cardinality(S) = 0 <=> S = {})
  BY <1>2, FS_CardinalityType, FS_EmptySet
<1>4. \A l \in Locks \ S : Cardinality(S \cup {l}) = Cardinality(S) + 1
  BY <1>2, FS_AddElement
<1>5. \A l \in S : Cardinality(S \ {l}) = Cardinality(S) - 1
  BY <1>2, FS_RemoveElement
<1> QED
  BY <1>2, <1>3, <1>4, <1>5

LEMMA SpinInvInit == SpinInit => SpinInv
<1> SUFFICES ASSUME SpinInit PROVE SpinInv
  OBVIOUS
<1> USE DEF SpinInit
<1>1. SpinTypeOK
  BY SpinAssumption DEF SpinTypeOK, Levels
<1>2. HolderTook
  BY SpinAssumption DEF HolderTook, Levels
<1>3. ASSUME NEW c \in CPUs PROVE CpuInv(c)
  BY FS_EmptySet DEF CpuInv, OtherLevelIdle, AcquireInOrder, NcliCounts,
     InterruptFlag, Levels
<1> QED
  BY <1>1, <1>2, <1>3 DEF SpinInv

(* What a step of CPU c does not touch stays as it was: the invariants of  *)
(* the other CPUs.                                                         *)
LEMMA OtherCpus ==
  ASSUME SpinInv, NEW c \in CPUs, NEW d \in CPUs, d # c,
         ifl'[d] = ifl[d], ncli'[d] = ncli[d], intena'[d] = intena[d],
         level'[d] = level[d], want'[d] = want[d], taken'[d] = taken[d],
         unlocked'[d] = unlocked[d]
  PROVE  CpuInv(d)'
BY DEF SpinInv, CpuInv, OtherLevelIdle, AcquireInOrder, NcliCounts, InterruptFlag

LEMMA PushcliStep ==
  ASSUME SpinInv, NEW c \in CPUs, NEW l \in Locks, Pushcli(c, l)
  PROVE  SpinInv'
<1>1. SpinTypeOK'
  BY SpinAssumption DEF SpinInv, SpinTypeOK, Pushcli, Saved, Locks, Levels
<1>2. HolderTook'
  BY DEF SpinInv, HolderTook, Pushcli
<1>3. ASSUME NEW d \in CPUs PROVE CpuInv(d)'
  <2>1. CASE d # c
    BY <2>1, OtherCpus DEF SpinInv, SpinTypeOK, Pushcli
  <2>2. CASE d = c
    <3>1. CpuInv(c) /\ level[c] \in {0, 1} /\ l # 0
      BY SpinAssumption DEF SpinInv, SpinTypeOK, Levels, Locks
    <3>2. OtherLevelIdle(c)'
      BY <3>1 DEF SpinInv, SpinTypeOK, CpuInv, OtherLevelIdle, Pushcli, Levels
    <3>3. AcquireInOrder(c)'
      BY <3>1 DEF SpinInv, SpinTypeOK, AcquireInOrder, Pushcli, Busy, Levels
    <3>4. NcliCounts(c)'
      BY <3>1, TakenSize DEF SpinInv, SpinTypeOK, CpuInv, NcliCounts, Pushcli, Busy, Levels
    <3>5. InterruptFlag(c)'
      BY <3>1, TakenSize DEF SpinInv, SpinTypeOK, CpuInv, NcliCounts, InterruptFlag, Pushcli, Saved, Levels
    <3> QED
      BY <2>2, <3>2, <3>3, <3>4, <3>5 DEF CpuInv
  <2> QED
    BY <2>1, <2>2
<1> QED
  BY <1>1, <1>2, <1>3 DEF SpinInv

LEMMA XchgStep ==
  ASSUME SpinInv, NEW c \in CPUs, Xchg(c)
  PROVE  SpinInv'
<1> DEFINE v == level[c]
           l == want[c][v]
<1>1. v \in Levels /\ l \in Locks /\ locked[l] = NoCPU /\ CpuInv(c)
  BY SpinAssumption DEF SpinInv, SpinTypeOK, Xchg, Locks
<1>2. l \notin taken[c][0] /\ l \notin taken[c][1]
  BY <1>1, SpinAssumption DEF SpinInv, HolderTook
<1>3. /\ locked' = [locked EXCEPT ![l] = c]
      /\ want' = [want EXCEPT ![c][v] = 0]
      /\ taken' = [taken EXCEPT ![c][v] = @ \cup {l}]
      /\ UNCHANGED <<ifl, ncli, intena, level, unlocked>>
  BY DEF Xchg
<1> HIDE DEF l, v
<1>4. SpinTypeOK'
  BY <1>1, <1>3, SpinAssumption DEF SpinInv, SpinTypeOK
<1>5. HolderTook'
  <2> SUFFICES ASSUME NEW d \in CPUs, NEW m \in Locks
               PROVE  (locked[m] = d <=> m \in taken[d][0] \cup taken[d][1])'
    BY DEF HolderTook
  <2>1. CASE m # l
    BY <1>1, <1>3, <2>1 DEF SpinInv, SpinTypeOK, HolderTook, Levels
  <2>2. CASE m = l
    BY <1>1, <1>2, <1>3, <2>2, SpinAssumption DEF SpinInv, SpinTypeOK, HolderTook, Levels
  <2> QED
    BY <2>1, <2>2
<1>6. ASSUME NEW d \in CPUs PROVE CpuInv(d)'
  <2>1. CASE d # c
    BY <1>3, <2>1, OtherCpus DEF SpinInv, SpinTypeOK
  <2>2. CASE d = c
    <3>1. OtherLevelIdle(c)'
      BY <1>1, <1>3 DEF SpinInv, SpinTypeOK, CpuInv, OtherLevelIdle, Levels, v
    <3>2. AcquireInOrder(c)'
      BY <1>1, <1>3 DEF SpinInv, SpinTypeOK, AcquireInOrder, Levels, v
    <3>3. NcliCounts(c)'
      <4>1. Cardinality(taken[c][0]) \in Nat /\ Cardinality(taken[c][1]) \in Nat
        BY TakenSize DEF SpinInv, SpinTypeOK, Levels
      <4>2. ~unlocked[c] /\ ncli[c] = Cardinality(taken[c][0]) + Cardinality(taken[c][1]) + 1
        <5>1. l # 0 /\ ~unlocked[c]
          BY <1>1 DEF CpuInv, AcquireInOrder, Locks, l, v
        <5> QED
          BY <1>1, <4>1, <5>1 DEF CpuInv, NcliCounts, l, v
      <4>3. want'[c][v] = 0 /\ level'[c] = v
        BY <1>1, <1>3 DEF SpinInv, SpinTypeOK, v
      <4>4. Cardinality(taken[c][v] \cup {l}) = Cardinality(taken[c][v]) + 1
        <5>1. taken[c][v] \in SUBSET Locks /\ l \in Locks \ taken[c][v]
          BY <1>1, <1>2 DEF SpinInv, SpinTypeOK, Levels
        <5> QED
          BY <5>1, TakenSize
      <4>5. \A u \in Levels : taken'[c][u] = IF u = v THEN taken[c][v] \cup {l} ELSE taken[c][u]
        BY <1>1, <1>3 DEF SpinInv, SpinTypeOK
      <4> QED
        BY <1>1, <1>3, <4>1, <4>2, <4>3, <4>4, <4>5 DEF SpinInv, SpinTypeOK, NcliCounts, Levels
    <3>4. InterruptFlag(c)'
      BY <1>1, <1>3 DEF SpinInv, SpinTypeOK, CpuInv, InterruptFlag
    <3> QED
      BY <2>2, <3>1, <3>2, <3>3, <3>4 DEF CpuInv
  <2> QED
    BY <2>1, <2>2
<1> QED
  BY <1>4, <1>5, <1>6 DEF SpinInv

LEMMA UnlockStep ==
  ASSUME SpinInv, NEW c \in CPUs, NEW l \in Locks, Unlock(c, l)
  PROVE  SpinInv'
<1> DEFINE v == level[c]
<1>1. v \in Levels /\ l \in taken[c][v] /\ want[c][v] = 0 /\ ~unlocked[c] /\ CpuInv(c)
  BY DEF SpinInv, SpinTypeOK, Unlock, Busy
<1>2. /\ locked' = [locked EXCEPT ![l] = NoCPU]
      /\ taken' = [taken EXCEPT ![c][v] = @ \ {l}]
      /\ unlocked' = [unlocked EXCEPT ![c] = TRUE]
      /\ UNCHANGED <<ifl, ncli, intena, level, want>>
  BY DEF Unlock
<1>3. /\ \A u \in Levels : taken'[c][u] = IF u = v THEN taken[c][v] \ {l} ELSE taken[c][u]
      /\ unlocked'[c]
  BY <1>1, <1>2 DEF SpinInv, SpinTypeOK
<1> HIDE DEF v
<1>4. SpinTypeOK'
  BY <1>1, <1>2 DEF SpinInv, SpinTypeOK
<1>5. HolderTook'
  <2> SUFFICES ASSUME NEW d \in CPUs, NEW m \in Locks
               PROVE  (locked[m] = d <=> m \in taken[d][0] \cup taken[d][1])'
    BY DEF HolderTook
  <2>1. CASE m # l
    BY <1>1, <1>2, <2>1 DEF SpinInv, SpinTypeOK, HolderTook, Levels
  <2>2. CASE m = l
    <3>1. locked[l] = c /\ locked'[l] # d
      BY <1>1, <1>2, SpinAssumption DEF SpinInv, SpinTypeOK, HolderTook, Levels
    <3>2. CASE d = c
      <4>1. l \notin taken'[c][v]
        BY <1>1, <1>3
      <4>2. \A u \in Levels \ {v} : taken[c][u] = {}
        BY <1>1 DEF CpuInv, OtherLevelIdle, Levels, v
      <4> QED
        BY <1>1, <1>3, <2>2, <3>1, <3>2, <4>1, <4>2 DEF Levels
    <3>3. CASE d # c
      BY <1>2, <2>2, <3>1, <3>3 DEF SpinInv, SpinTypeOK, HolderTook
    <3> QED
      BY <3>2, <3>3
  <2> QED
    BY <2>1, <2>2
<1>6. ASSUME NEW d \in CPUs PROVE CpuInv(d)'
  <2>1. CASE d # c
    BY <1>2, <2>1, OtherCpus DEF SpinInv, SpinTypeOK
  <2>2. CASE d = c
    <3>1. OtherLevelIdle(c)'
      BY <1>1, <1>2, <1>3 DEF CpuInv, OtherLevelIdle, Levels, v
    <3>2. AcquireInOrder(c)'
      BY <1>1, <1>2 DEF AcquireInOrder, v
    <3>3. NcliCounts(c)'
      <4>1. /\ Cardinality(taken[c][0]) \in Nat /\ Cardinality(taken[c][1]) \in Nat
            /\ ncli[c] = Cardinality(taken[c][0]) + Cardinality(taken[c][1])
        BY <1>1, TakenSize DEF SpinInv, SpinTypeOK, CpuInv, NcliCounts, Levels, v
      <4>2. Cardinality(taken[c][v] \ {l}) = Cardinality(taken[c][v]) - 1
        <5>1. taken[c][v] \in SUBSET Locks /\ l \in taken[c][v]
          BY <1>1 DEF SpinInv, SpinTypeOK, Levels
        <5> QED
          BY <5>1, TakenSize
      <4>3. want'[c][level'[c]] = 0 /\ ncli'[c] = ncli[c]
        BY <1>1, <1>2 DEF v
      <4> QED
        BY <1>1, <1>3, <4>1, <4>2, <4>3 DEF NcliCounts, Levels
    <3>4. InterruptFlag(c)'
      BY <1>1, <1>2 DEF CpuInv, InterruptFlag
    <3> QED
      BY <2>2, <3>1, <3>2, <3>3, <3>4 DEF CpuInv
  <2> QED
    BY <2>1, <2>2
<1> QED
  BY <1>4, <1>5, <1>6 DEF SpinInv

LEMMA PopcliStep ==
  ASSUME SpinInv, NEW c \in CPUs, Popcli(c)
  PROVE  SpinInv'
<1>1. /\ CpuInv(c) /\ unlocked[c] /\ level[c] \in Levels /\ ncli[c] \in Int
      /\ ncli'[c] = ncli[c] - 1 /\ ~unlocked'[c]
      /\ ifl'[c] = (ncli[c] = 1 /\ intena[c])
  BY DEF SpinInv, SpinTypeOK, Popcli
<1>2. SpinTypeOK'
  BY DEF SpinInv, SpinTypeOK, Popcli
<1>3. HolderTook'
  BY DEF SpinInv, HolderTook, Popcli
<1>4. ASSUME NEW d \in CPUs PROVE CpuInv(d)'
  <2>1. CASE d # c
    BY <2>1, OtherCpus DEF SpinInv, SpinTypeOK, Popcli
  <2>2. CASE d = c
    <3>1. OtherLevelIdle(c)' /\ AcquireInOrder(c)'
      BY <1>1 DEF CpuInv, OtherLevelIdle, AcquireInOrder, Popcli
    <3>2. /\ Cardinality(taken[c][0]) \in Nat /\ Cardinality(taken[c][1]) \in Nat
          /\ want[c][level[c]] = 0
      BY <1>1, TakenSize DEF SpinInv, SpinTypeOK, CpuInv, AcquireInOrder, Levels
    <3>3. NcliCounts(c)' /\ ncli[c] > 0
      BY <1>1, <3>2 DEF CpuInv, NcliCounts, Popcli
    <3>4. InterruptFlag(c)'
      <4>1. level'[c] = level[c] /\ intena'[c] = intena[c]
        BY DEF Popcli
      <4>2. CASE ncli[c] = 1
        <5>1. ifl'[c] = intena[c] /\ ncli'[c] = 0
          BY <1>1, <4>2 DEF SpinInv, SpinTypeOK
        <5> QED
          BY <1>1, <3>3, <4>1, <5>1 DEF CpuInv, InterruptFlag
      <4>3. CASE ncli[c] # 1
        <5>1. ncli[c] # 0 /\ ncli'[c] # 0
          BY <1>1, <3>3, <4>3
        <5>2. ~ifl'[c]
          BY <1>1, <4>3, Zenon
        <5> QED
          BY <1>1, <4>1, <5>1, <5>2 DEF CpuInv, InterruptFlag
      <4> QED
        BY <4>2, <4>3
    <3> QED
      BY <2>2, <3>1, <3>3, <3>4 DEF CpuInv
  <2> QED
    BY <2>1, <2>2
<1> QED
  BY <1>2, <1>3, <1>4 DEF SpinInv

(* An interrupt finds ncli 0, so nothing is taken below the handler.       *)
LEMMA InterruptStep ==
  ASSUME SpinInv, NEW c \in CPUs, Interrupt(c)
  PROVE  SpinInv'
<1>1. /\ CpuInv(c) /\ level[c] = 0 /\ level'[c] = 1 /\ ~ifl'[c] /\ ncli[c] = 0
  BY DEF SpinInv, SpinTypeOK, CpuInv, InterruptFlag, Interrupt
<1>2. /\ taken[c][0] = {} /\ taken[c][1] = {} /\ ~unlocked[c]
      /\ want[c][0] = 0 /\ want[c][1] = 0
  <2>1. /\ Cardinality(taken[c][0]) \in Nat /\ Cardinality(taken[c][1]) \in Nat
        /\ Cardinality(taken[c][0]) = 0 => taken[c][0] = {}
    BY TakenSize DEF SpinInv, SpinTypeOK, Levels
  <2>2. taken[c][1] = {} /\ want[c][1] = 0
    BY <1>1 DEF CpuInv, OtherLevelIdle
  <2>3. NcliCounts(c)
    BY <1>1 DEF CpuInv
  <2> QED
    BY <1>1, <2>1, <2>2, <2>3 DEF NcliCounts
<1>3. SpinTypeOK'
  BY DEF SpinInv, SpinTypeOK, Interrupt, Levels
<1>4. HolderTook'
  BY DEF SpinInv, HolderTook, Interrupt
<1>5. ASSUME NEW d \in CPUs PROVE CpuInv(d)'
  <2>1. CASE d # c
    BY <2>1, OtherCpus DEF SpinInv, SpinTypeOK, Interrupt
  <2>2. CASE d = c
    <3>1. NcliCounts(c)'
      BY <1>1, <1>2, FS_EmptySet DEF NcliCounts, Interrupt
    <3> QED
      BY <1>1, <1>2, <2>2, <3>1 DEF CpuInv, OtherLevelIdle, AcquireInOrder,
         InterruptFlag, Interrupt
  <2> QED
    BY <2>1, <2>2
<1> QED
  BY <1>3, <1>4, <1>5 DEF SpinInv

LEMMA IretStep ==
  ASSUME SpinInv, NEW c \in CPUs, Iret(c)
  PROVE  SpinInv'
<1>1. /\ CpuInv(c) /\ level[c] = 1 /\ level'[c] = 0 /\ ifl'[c]
      /\ taken[c][1] = {} /\ want[c][1] = 0 /\ ~unlocked[c]
  BY DEF SpinInv, SpinTypeOK, Iret, Busy
<1>2. taken[c][0] = {} /\ want[c][0] = 0 /\ ncli[c] = 0
  <2>1. taken[c][0] = {} /\ want[c][0] = 0
    BY <1>1 DEF CpuInv, OtherLevelIdle
  <2>2. ncli[c] = Cardinality({}) + Cardinality({})
    <3>1. NcliCounts(c)
      BY <1>1 DEF CpuInv
    <3> QED
      BY <1>1, <2>1, <3>1, FS_EmptySet DEF NcliCounts
  <2> QED
    BY <2>1, <2>2, FS_EmptySet
<1>3. SpinTypeOK'
  BY DEF SpinInv, SpinTypeOK, Iret, Levels
<1>4. HolderTook'
  BY DEF SpinInv, HolderTook, Iret
<1>5. ASSUME NEW d \in CPUs PROVE CpuInv(d)'
  <2>1. CASE d # c
    BY <2>1, OtherCpus DEF SpinInv, SpinTypeOK, Iret
  <2>2. CASE d = c
    <3>1. NcliCounts(c)'
      BY <1>1, <1>2, FS_EmptySet DEF NcliCounts, Iret
    <3> QED
      BY <1>1, <1>2, <2>2, <3>1 DEF CpuInv, OtherLevelIdle, AcquireInOrder,
         InterruptFlag, Iret
  <2> QED
    BY <2>1, <2>2
<1> QED
  BY <1>3, <1>4, <1>5 DEF SpinInv

------------------------------------------------------------------------------
LEMMA SpinInvNext == SpinInv /\ [SpinNext]_spinVars => SpinInv'
<1> SUFFICES ASSUME SpinInv, [SpinNext]_spinVars PROVE SpinInv'
  OBVIOUS
<1>1. CASE UNCHANGED spinVars
  BY <1>1 DEF spinVars, SpinInv, SpinTypeOK, HolderTook, CpuInv, OtherLevelIdle,
     AcquireInOrder, NcliCounts, InterruptFlag
<1>2. ASSUME NEW c \in CPUs, NEW l \in Locks, Pushcli(c, l) PROVE SpinInv'
  BY <1>2, PushcliStep
<1>3. ASSUME NEW c \in CPUs, NEW l \in Locks, Unlock(c, l) PROVE SpinInv'
  BY <1>3, UnlockStep
<1>4. ASSUME NEW c \in CPUs, Xchg(c) PROVE SpinInv'
  BY <1>4, XchgStep
<1>5. ASSUME NEW c \in CPUs, Popcli(c) PROVE SpinInv'
  BY <1>5, PopcliStep
<1>6. ASSUME NEW c \in CPUs, Interrupt(c) PROVE SpinInv'
  BY <1>6, InterruptStep
<1>7. ASSUME NEW c \in CPUs, Iret(c) PROVE SpinInv'
  BY <1>7, IretStep
<1> QED
  BY <1>1, <1>2, <1>3, <1>4, <1>5, <1>6, <1>7 DEF SpinNext

(* SpinInv is an invariant of the specification.                           *)
THEOREM SpinInvariant == SpinSpec => []SpinInv
BY SpinInvInit, SpinInvNext, PTL DEF SpinSpec

(* acquire() never spins for a lock its own CPU holds: a lock is asked for *)
(* above those taken at the same level, and a handler runs over code that  *)
(* holds none.                                                             *)
THEOREM SpinNeverSelfDeadlocks == SpinSpec => []NoSelfDeadlock
<1>1. SpinInv => NoSelfDeadlock
  <2> SUFFICES ASSUME SpinInv, NEW c \in CPUs, NEW v \in Levels, want[c][v] # 0,
                      locked[want[c][v]] = c
               PROVE  FALSE
    BY DEF NoSelfDeadlock
  <2>1. CpuInv(c) /\ level[c] = v /\ want[c][v] \in Locks
    BY SpinAssumption DEF SpinInv, SpinTypeOK, CpuInv, OtherLevelIdle, Levels, Locks
  <2>2. want[c][v] \in taken[c][v]
    BY <2>1 DEF SpinInv, SpinTypeOK, HolderTook, CpuInv, OtherLevelIdle, Levels
  <2>3. want[c][v] < want[c][v]
    BY <2>1, <2>2 DEF CpuInv, AcquireInOrder
  <2> QED
    BY <2>1, <2>3 DEF Locks
<1> QED
  BY <1>1, SpinInvariant, PTL

(* ncli counts the locks held, asked for or being dropped, and outside a   *)
(* handler interrupts are on exactly when it is 0: whatever nests, popcli()*)
(* gives back what the outermost pushcli() found.                          *)
THEOREM SpinRestoresInterrupts == SpinSpec => []InterruptsRestored
<1>1. SpinInv => InterruptsRestored
  BY DEF SpinInv, CpuInv, NcliCounts, InterruptFlag, InterruptsRestored
<1> QED
  BY <1>1, SpinInvariant, PTL

------------------------------------------------------------------------------
(* The user-level allocator.                                               *)

Steps == 0..(MaxHeap + 1)

(* g follows s.ptr from freep for n steps.                                 *)
Follows(g, n) == g = [i \in 0..n |-> IF i = 0 THEN freep ELSE ptr[g[i - 1]]]

LEMMA FollowsExists ==
  ASSUME NEW n \in Nat
  PROVE  \E g : Follows(g, n)
<1> DEFINE S == {m \in Nat : ~\E g : Follows(g, m)}
<1> SUFFICES ASSUME S # {} PROVE FALSE
  OBVIOUS
<1>1. PICK m \in S : \A y \in S : m <= y
  <2>1. S \in SUBSET Nat
    OBVIOUS
  <2> HIDE DEF S
  <2> QED
    BY <2>1, LeastExists
<1>2. m \in Nat /\ ~\E g : Follows(g, m)
  BY <1>1
<1>3. CASE m = 0
  <2> DEFINE h == [i \in 0..m |-> freep]
  <2>1. h = [i \in 0..m |-> IF i = 0 THEN freep ELSE ptr[h[i - 1]]]
    BY <1>3
  <2> QED
    BY <1>2, <2>1 DEF Follows
<1>4. CASE m # 0
  <2>1. m - 1 \in Nat /\ m - 1 \notin S
    BY <1>1, <1>2, <1>4
  <2>2. PICK g : Follows(g, m - 1)
    BY <2>1
  <2>3. /\ \A i \in 0..(m - 1) : g[i] = IF i = 0 THEN freep ELSE ptr[g[i - 1]]
    BY <2>2 DEF Follows
  <2> DEFINE h == [i \in 0..m |-> IF i = m THEN ptr[g[m - 1]] ELSE g[i]]
  <2>4. \A i \in 0..m : h[i] = IF i = 0 THEN freep ELSE ptr[h[i - 1]]
    BY <1>2, <1>4, <2>3
  <2>5. h = [i \in 0..m |-> IF i = 0 THEN freep ELSE ptr[h[i - 1]]]
    BY <2>4
  <2> HIDE DEF h
  <2> QED
    BY <1>2, <2>5 DEF Follows
<1> QED
  BY <1>3, <1>4

(* The walk along the list, step by step.                                  *)
LEMMA WalkIs ==
  /\ WalkFrom(0) = freep
  /\ \A k \in 1..(MaxHeap + 1) : WalkFrom(k) = ptr[WalkFrom(k - 1)]
<1> DEFINE w == CHOOSE g : g = [i \in 0..(MaxHeap + 1) |-> IF i = 0 THEN freep ELSE ptr[g[i - 1]]]
<1>1. MaxHeap + 1 \in Nat
  BY UmallocAssumption
<1>2. \E g : g = [i \in 0..(MaxHeap + 1) |-> IF i = 0 THEN freep ELSE ptr[g[i - 1]]]
  BY <1>1, FollowsExists DEF Follows
<1>3. w = [i \in 0..(MaxHeap + 1) |-> IF i = 0 THEN freep ELSE ptr[w[i - 1]]]
  BY <1>2, Zenon
<1>4. \A k : WalkFrom(k) = w[k]
  BY Zenon DEF WalkFrom
<1> HIDE DEF w
<1>5. \A k \in 0..(MaxHeap + 1) : w[k] = IF k = 0 THEN freep ELSE ptr[w[k - 1]]
  BY <1>3
<1> QED
  BY <1>1, <1>4, <1>5

Addrs == 0..MaxHeap

(* s.ptr of each block of the list F is the next one, and 0 that of the    *)
(* last.                                                                   *)
IsNext(q, a, F) ==
  /\ q \in F
  /\ \/ q > a /\ \A f \in F : ~(a < f /\ f < q)
     \/ q = 0 /\ \A f \in F : f <= a

Linked(pt, F) == \A a \in F : IsNext(pt[a], a, F)

(* Following the list from any of its blocks leads to all of them.         *)
LEMMA ClosedIsAll ==
  ASSUME NEW F \in SUBSET Addrs, NEW pt, Linked(pt, F), 0 \in F,
         NEW V \in SUBSET F, V # {}, \A v \in V : pt[v] \in V
  PROVE  V = F
<1>1. MaxHeap \in Nat
  BY UmallocAssumption
<1>0. \A x \in F : x \in Nat /\ x <= MaxHeap
  BY <1>1 DEF Addrs
<1>2. 0 \in V
  <2>1. PICK m \in V : \A v \in V : v <= m
    BY <1>1, GreatestExists DEF Addrs
  <2>2. pt[m] \in V /\ IsNext(pt[m], m, F)
    BY DEF Linked
  <2>3. pt[m] <= m /\ pt[m] \in Int /\ m \in Int
    BY <1>0, <2>1, <2>2
  <2> QED
    BY <2>2, <2>3 DEF IsNext
<1>3. SUFFICES ASSUME NEW f \in F, f \notin V PROVE FALSE
  OBVIOUS
<1> DEFINE U == {v \in V : v < f}
<1>4. U \in SUBSET (0..MaxHeap) /\ 0 \in U /\ f \in Int
  BY <1>0, <1>1, <1>2, <1>3
<1>5. PICK v \in U : \A u \in U : u <= v
  <2> HIDE DEF U
  <2> QED
    BY <1>1, <1>4, GreatestExists
<1>6. v \in V /\ v < f /\ pt[v] \in V /\ IsNext(pt[v], v, F) /\ pt[v] # f
  BY <1>3, <1>5 DEF Linked
<1>7. v \in Int /\ pt[v] \in Int
  BY <1>0, <1>6
<1>8. CASE pt[v] > v /\ \A x \in F : ~(v < x /\ x < pt[v])
  <2>1. pt[v] < f
    BY <1>3, <1>4, <1>6, <1>7, <1>8
  <2>2. pt[v] \in U
    BY <1>6, <2>1
  <2> QED
    BY <1>5, <1>7, <1>8, <2>2
<1>9. CASE \A x \in F : x <= v
  BY <1>3, <1>4, <1>6, <1>7, <1>9
<1> QED
  BY <1>6, <1>8, <1>9 DEF IsNext

(* No two blocks have the same next one.                                   *)
LEMMA LinkedInjective ==
  ASSUME NEW F \in SUBSET Addrs, NEW pt, Linked(pt, F), NEW a \in F, NEW b \in F, pt[a] = pt[b]
  PROVE  a = b
<1>1. MaxHeap \in Nat
  BY UmallocAssumption
<1>0. \A x \in F : x \in Nat
  BY <1>1 DEF Addrs
<1>2. a \in Nat /\ b \in Nat /\ IsNext(pt[a], a, F) /\ IsNext(pt[b], b, F) /\ pt[a] \in Nat
  BY <1>0 DEF Linked, IsNext
<1> QED
  BY <1>2 DEF IsNext

(* A list with the base on it, from freep on.                              *)
ListIs(F) == F \in SUBSET Addrs /\ 0 \in F /\ freep \in F /\ Linked(ptr, F)

LEMMA WalkIn ==
  ASSUME NEW F, ListIs(F)
  PROVE  \A k \in Steps : WalkFrom(k) \in F
<1> DEFINE S == {k \in Steps : WalkFrom(k) \notin F}
<1> SUFFICES ASSUME S # {} PROVE FALSE
  OBVIOUS
<1>1. MaxHeap \in Nat
  BY UmallocAssumption
<1>2. PICK m \in S : \A y \in S : m <= y
  <2>1. S \in SUBSET Nat
    BY <1>1 DEF Steps
  <2> HIDE DEF S
  <2> QED
    BY <2>1, LeastExists
<1>3. m \in Steps /\ WalkFrom(m) \notin F
  BY <1>2
<1>4. m # 0
  BY <1>3, WalkIs DEF ListIs
<1>5. m - 1 \in Steps /\ m - 1 \notin S
  BY <1>1, <1>2, <1>3, <1>4 DEF Steps
<1>6. WalkFrom(m - 1) \in F /\ WalkFrom(m) = ptr[WalkFrom(m - 1)]
  BY <1>1, <1>3, <1>4, <1>5, WalkIs DEF Steps
<1> QED
  BY <1>3, <1>6 DEF ListIs, Linked, IsNext

(* It comes round again.                                                   *)
LEMMA WalkReturns ==
  ASSUME NEW F, ListIs(F)
  PROVE  \E n \in 1..(MaxHeap + 1) : WalkFrom(n) = freep
<1>1. MaxHeap \in Nat
  BY UmallocAssumption
<1>2. \A k \in Steps : WalkFrom(k) \in F /\ WalkFrom(k) \in Addrs
  BY WalkIn DEF ListIs
<1> DEFINE Starts == {i \in Steps : \E j \in Steps : i < j /\ WalkFrom(i) = WalkFrom(j)}
<1>3. Starts # {}
  <2> DEFINE f == [k \in Steps |-> WalkFrom(k)]
  <2>1. f \in [Steps -> Addrs]
    BY <1>2
  <2>2. IsFiniteSet(Steps) /\ Cardinality(Steps) = MaxHeap + 2
    <3>0. PICK m : m = MaxHeap + 1
      OBVIOUS
    <3>1. 0 \in Int /\ m \in Int /\ ~(0 > m)
      BY <1>1, <3>0
    <3>2. IsFiniteSet(0..m) /\ Cardinality(0..m) = IF 0 > m THEN 0 ELSE m - 0 + 1
      BY <3>1, FS_Interval, Zenon
    <3> QED
      BY <1>1, <3>0, <3>1, <3>2 DEF Steps
  <2>3. IsFiniteSet(Addrs) /\ Cardinality(Addrs) = MaxHeap + 1
    <3>1. 0 \in Int /\ MaxHeap \in Int /\ ~(0 > MaxHeap)
      BY <1>1
    <3>2. /\ IsFiniteSet(0..MaxHeap)
          /\ Cardinality(0..MaxHeap) = IF 0 > MaxHeap THEN 0 ELSE MaxHeap - 0 + 1
      BY <3>1, FS_Interval, Zenon
    <3> QED
      BY <1>1, <3>1, <3>2 DEF Addrs
  <2>4. Cardinality(Addrs) < Cardinality(Steps)
    BY <1>1, <2>2, <2>3
  <2> HIDE DEF f
  <2>5. PICK x \in Steps, y \in Steps : x # y /\ f[x] = f[y]
    BY <2>1, <2>2, <2>3, <2>4, FS_PigeonHole
  <2>6. WalkFrom(x) = WalkFrom(y) /\ (x < y \/ y < x)
    BY <1>1, <2>5 DEF f, Steps
  <2> QED
    BY <2>6
<1>4. PICK i \in Starts : \A y \in Starts : i <= y
  <2>1. Starts \in SUBSET Nat
    BY <1>1 DEF Steps
  <2> HIDE DEF Starts
  <2> QED
    BY <1>3, <2>1, LeastExists
<1>5. PICK j \in Steps : i < j /\ WalkFrom(i) = WalkFrom(j)
  BY <1>4
<1>6. CASE i = 0
  BY <1>1, <1>5, <1>6, WalkIs DEF Steps
<1>7. CASE i # 0
  <2>1. /\ i \in 1..(MaxHeap + 1) /\ j \in 1..(MaxHeap + 1)
        /\ i - 1 \in Steps /\ j - 1 \in Steps /\ i - 1 < j - 1
    BY <1>1, <1>4, <1>5, <1>7 DEF Steps
  <2>2. ptr[WalkFrom(i - 1)] = ptr[WalkFrom(j - 1)]
    BY <1>5, <2>1, WalkIs
  <2>3. WalkFrom(i - 1) = WalkFrom(j - 1)
    BY <1>2, <2>1, <2>2, LinkedInjective DEF ListIs
  <2>4. i - 1 \in Starts
    BY <2>1, <2>3
  <2> QED
    BY <1>1, <1>4, <2>1, <2>4
<1> QED
  BY <1>6, <1>7

(* One round of the loops of free() and malloc() sees every block of the   *)
(* list.                                                                   *)
LEMMA RoundSeesAll ==
  ASSUME NEW F, ListIs(F)
  PROVE  /\ Rounds \in 1..(MaxHeap + 1) /\ WalkFrom(Rounds) = freep
         /\ {WalkFrom(k) : k \in 1..Rounds} = F
<1>1. MaxHeap \in Nat
  BY UmallocAssumption
<1> DEFINE S == {n \in 1..(MaxHeap + 1) : WalkFrom(n) = freep}
           Once(n) == WalkFrom(n) = freep /\ \A i \in 1..(n - 1) : WalkFrom(i) # freep
<1>2. PICK n \in S : \A y \in S : n <= y
  <2>1. S \in SUBSET Nat /\ S # {}
    BY <1>1, WalkReturns
  <2> HIDE DEF S
  <2> QED
    BY <2>1, LeastExists
<1>3. \E m \in 1..(MaxHeap + 1) : Once(m)
  <2>1. n \in 1..(MaxHeap + 1) /\ WalkFrom(n) = freep
    BY <1>2
  <2>2. \A i \in 1..(n - 1) : i \in 1..(MaxHeap + 1) /\ ~(n <= i)
    BY <1>1, <2>1
  <2> QED
    BY <1>2, <2>1, <2>2
<1>4. Rounds \in 1..(MaxHeap + 1) /\ Once(Rounds)
  BY <1>3, Zenon DEF Rounds
<1> DEFINE V == {WalkFrom(k) : k \in 1..Rounds}
<1>5. V \in SUBSET F /\ V # {}
  BY <1>1, <1>4, WalkIn DEF Steps
<1>6. ASSUME NEW v \in V PROVE ptr[v] \in V
  <2>1. PICK k \in 1..Rounds : v = WalkFrom(k)
    BY <1>6
  <2>2. CASE k = Rounds
    <3>1. WalkFrom(1) = ptr[WalkFrom(0)] /\ 1 \in 1..Rounds
      BY <1>1, <1>4, WalkIs
    <3> QED
      BY <1>4, <2>1, <2>2, <3>1, WalkIs
  <2>3. CASE k # Rounds
    <3>1. k + 1 \in 1..Rounds /\ k + 1 \in 1..(MaxHeap + 1) /\ (k + 1) - 1 = k
      BY <1>1, <1>4, <2>1, <2>3
    <3>2. WalkFrom(k + 1) = ptr[WalkFrom(k)]
      BY <3>1, WalkIs
    <3> QED
      BY <2>1, <3>1, <3>2
  <2> QED
    BY <2>2, <2>3
<1> HIDE DEF V
<1>7. V = F
  BY <1>5, <1>6, ClosedIsAll DEF ListIs
<1> QED
  BY <1>4, <1>7 DEF V

(* A block goes into the list after the last one below it.                 *)
LEMMA InsertLinked ==
  ASSUME NEW F \in SUBSET Addrs, NEW pt, Linked(pt, F), 0 \in F,
         NEW b \in Addrs, b \notin F, NEW p \in F, p < b, b < pt[p] \/ pt[p] = 0,
         NEW qt, qt[p] = b, qt[b] = pt[p], \A x \in F : x # p => qt[x] = pt[x]
  PROVE  Linked(qt, F \cup {b})
<1>1. MaxHeap \in Nat
  BY UmallocAssumption
<1>2. \A x \in F : x \in Nat
  BY <1>1 DEF Addrs
<1>3. b \in Nat /\ p \in Nat /\ IsNext(pt[p], p, F) /\ pt[p] \in Nat
  <2>1. b \in Nat
    BY <1>1 DEF Addrs
  <2> QED
    BY <1>2, <2>1 DEF Linked, IsNext
<1> SUFFICES ASSUME NEW a \in F \cup {b} PROVE IsNext(qt[a], a, F \cup {b})
  BY DEF Linked
<1>4. CASE a = p
  BY <1>2, <1>3, <1>4 DEF IsNext
<1>5. CASE a = b
  BY <1>2, <1>3, <1>5 DEF IsNext
<1>6. CASE a # p /\ a # b
  <2>1. a \in F /\ a \in Nat /\ qt[a] = pt[a] /\ IsNext(pt[a], a, F) /\ pt[a] \in Nat
    BY <1>2, <1>6 DEF Linked, IsNext
  <2>2. pt[a] # pt[p]
    BY <1>6, <2>1, LinkedInjective
  <2> QED
    BY <1>2, <1>3, <1>6, <2>1, <2>2 DEF IsNext
<1> QED
  BY <1>4, <1>5, <1>6

(* The block after a is taken out.                                         *)
LEMMA RemoveLinked ==
  ASSUME NEW F \in SUBSET Addrs, NEW pt, Linked(pt, F), 0 \in F,
         NEW a \in F, NEW u, u = pt[a], u # 0,
         NEW qt, qt[a] = pt[u], \A x \in F : x # a /\ x # u => qt[x] = pt[x]
  PROVE  Linked(qt, F \ {u}) /\ u \in F /\ a < u
<1>1. MaxHeap \in Nat
  BY UmallocAssumption
<1>2. \A x \in F : x \in Nat
  BY <1>1 DEF Addrs
<1>3. a \in Nat /\ IsNext(u, a, F) /\ u \in F /\ u \in Nat /\ a < u
  BY <1>2 DEF Linked, IsNext
<1>4. IsNext(pt[u], u, F) /\ pt[u] \in F /\ pt[u] \in Nat
  BY <1>2, <1>3 DEF Linked, IsNext
<1> SUFFICES ASSUME NEW x \in F, x # u PROVE IsNext(qt[x], x, F \ {u})
  BY <1>3 DEF Linked
<1>5. CASE x = a
  BY <1>2, <1>3, <1>4, <1>5 DEF IsNext
<1>6. CASE x # a
  <2>1. qt[x] = pt[x] /\ IsNext(pt[x], x, F) /\ x \in Nat
    BY <1>2, <1>6 DEF Linked
  <2>2. pt[x] # u
    BY <1>6, LinkedInjective
  <2> QED
    BY <2>1, <2>2 DEF IsNext
<1> QED
  BY <1>5, <1>6

(* free() finds the place of a block that is not in the list.              *)
LEMMA PredIs ==
  ASSUME NEW F, ListIs(F), NEW b \in Addrs, b \notin F
  PROVE  Pred(b) \in F /\ Pred(b) < b /\ (b < ptr[Pred(b)] \/ ptr[Pred(b)] = 0)
<1>1. MaxHeap \in Nat
  BY UmallocAssumption
<1>2. \A x \in F : x \in Nat /\ x <= MaxHeap
  BY <1>1 DEF Addrs, ListIs
<1>3. b \in Nat /\ b # 0 /\ 0 \in F
  BY <1>1 DEF Addrs, ListIs
<1>4. \A x \in F : ptr[x] \in Nat /\ ptr[x] \in F /\ IsNext(ptr[x], x, F)
  BY <1>2 DEF ListIs, Linked, IsNext
<1>5. \A x \in F : Before(b, x) => x < b /\ (b < ptr[x] \/ ptr[x] = 0)
  BY <1>2, <1>3, <1>4 DEF Before, IsNext
<1>6. \E x \in F : Before(b, x)
  <2> DEFINE U == {x \in F : x < b}
  <2>1. U \in SUBSET (0..MaxHeap) /\ 0 \in U
    BY <1>1, <1>2, <1>3
  <2>2. PICK x \in U : \A y \in U : y <= x
    <3> HIDE DEF U
    <3> QED
      BY <1>1, <2>1, GreatestExists
  <2>3. x \in F /\ x < b /\ \A y \in F : y < b => y <= x
    BY <2>2
  <2>4. ptr[x] # b /\ IsNext(ptr[x], x, F) /\ ptr[x] \in Nat
    BY <1>4, <2>3
  <2>5. Before(b, x)
    BY <1>2, <1>3, <1>4, <2>3, <2>4 DEF Before, IsNext
  <2> QED
    BY <2>3, <2>5
<1>7. /\ Rounds \in 1..(MaxHeap + 1) /\ WalkFrom(Rounds) = freep
      /\ {WalkFrom(k) : k \in 1..Rounds} = F
  BY RoundSeesAll
<1> DEFINE Earliest(k) == Before(b, WalkFrom(k)) /\ \A i \in 0..(k - 1) : ~Before(b, WalkFrom(i))
           S == {k \in 0..(Rounds - 1) : Before(b, WalkFrom(k))}
<1>8. S # {} /\ S \in SUBSET Nat
  <2>1. PICK k \in 1..Rounds : Before(b, WalkFrom(k))
    BY <1>6, <1>7
  <2>2. CASE k = Rounds
    <3>1. Before(b, WalkFrom(0)) /\ 0 \in 0..(Rounds - 1)
      BY <1>1, <1>7, <2>1, <2>2, WalkIs
    <3> QED
      BY <3>1
  <2>3. CASE k # Rounds
    BY <1>1, <1>7, <2>1, <2>3
  <2> QED
    BY <1>1, <1>7, <2>2, <2>3
<1>9. PICK k \in S : \A i \in S : k <= i
  <2> HIDE DEF S
  <2> QED
    BY <1>8, LeastExists
<1>10. \E i \in 0..(Rounds - 1) : Earliest(i)
  <2>1. k \in 0..(Rounds - 1) /\ Before(b, WalkFrom(k))
    BY <1>9
  <2>2. \A i \in 0..(k - 1) : i \in 0..(Rounds - 1) /\ ~(k <= i)
    BY <1>1, <1>7, <2>1
  <2> QED
    BY <1>9, <2>1, <2>2
<1> DEFINE i == CHOOSE j \in 0..(Rounds - 1) : Earliest(j)
<1>11. i \in 0..(Rounds - 1) /\ Earliest(i)
  BY <1>10, Zenon
<1>12. Pred(b) = WalkFrom(i)
  BY Zenon DEF Pred
<1> HIDE DEF i
<1>13. Before(b, Pred(b)) /\ Pred(b) \in F
  <2>1. i \in Steps
    BY <1>1, <1>7, <1>11 DEF Steps
  <2> QED
    BY <1>11, <1>12, <2>1, WalkIn
<1> QED
  BY <1>5, <1>13

------------------------------------------------------------------------------
(* The blocks tile the heap of t units: none reaches into the next one,    *)
(* and every address is in one.                                            *)
Blocks(sz) == {a \in 1..MaxHeap : sz[a] > 0}

Within(sz, t) == \A b \in Blocks(sz) : b + sz[b] <= t + 1
Ordered(sz) == \A b, c \in Blocks(sz) : b < c => b + sz[b] <= c
Covers(sz, t) == \A x \in 1..t : \E b \in Blocks(sz) : b <= x /\ x < b + sz[b]

Tiles(sz, t) == Within(sz, t) /\ Ordered(sz) /\ Covers(sz, t)

(* Two blocks that touch become one.                                       *)
LEMMA MergeTiles ==
  ASSUME NEW sz \in [Addrs -> Nat], NEW t \in Nat, Tiles(sz, t),
         NEW b \in Blocks(sz), NEW c \in Blocks(sz), c = b + sz[b],
         NEW s2 \in [Addrs -> Nat], s2[b] = sz[b] + sz[c], s2[c] = 0,
         \A a \in Addrs : a # b /\ a # c => s2[a] = sz[a]
  PROVE  Tiles(s2, t) /\ Blocks(s2) = Blocks(sz) \ {c}
<1>1. MaxHeap \in Nat
  BY UmallocAssumption
<1>2. /\ \A a \in 1..MaxHeap : a \in Addrs /\ a \in Nat /\ sz[a] \in Nat /\ s2[a] \in Nat
      /\ b \in 1..MaxHeap /\ c \in 1..MaxHeap /\ sz[b] > 0 /\ sz[c] > 0
  BY <1>1 DEF Addrs, Blocks
<1>3. Blocks(s2) = Blocks(sz) \ {c}
  BY <1>2 DEF Blocks
<1>4. \A a \in Blocks(sz) : a \in Nat /\ sz[a] \in Nat /\ a \in Addrs
  BY <1>2 DEF Blocks
<1>5. \A a \in Blocks(s2) : a # c /\ a \in Blocks(sz) /\ (a # b => s2[a] = sz[a])
  BY <1>3, <1>4
<1>6. ASSUME NEW a \in Blocks(s2) PROVE a + s2[a] <= t + 1
  BY <1>2, <1>4, <1>5, <1>6 DEF Tiles, Within
<1>7. ASSUME NEW a \in Blocks(s2), NEW d \in Blocks(s2), a < d PROVE a + s2[a] <= d
  <2>1. a \in Blocks(sz) /\ d \in Blocks(sz) /\ d # c /\ a + sz[a] <= d
    BY <1>5, <1>7 DEF Tiles, Ordered
  <2>2. CASE a = b
    <3>1. c <= d
      BY <2>1, <2>2
    <3>2. c < d
      BY <1>2, <1>4, <2>1, <3>1
    <3>3. c + sz[c] <= d
      BY <2>1, <3>2 DEF Tiles, Ordered
    <3> QED
      BY <1>2, <1>4, <2>1, <2>2, <3>3
  <2>3. CASE a # b
    BY <1>5, <2>1, <2>3
  <2> QED
    BY <2>2, <2>3
<1>8. ASSUME NEW x \in 1..t PROVE \E a \in Blocks(s2) : a <= x /\ x < a + s2[a]
  <2>1. PICK a \in Blocks(sz) : a <= x /\ x < a + sz[a]
    BY DEF Tiles, Covers
  <2>2. CASE a = b \/ a = c
    <3>1. b \in Blocks(s2) /\ b <= x /\ x < b + s2[b]
      BY <1>2, <1>3, <2>1, <2>2
    <3> QED
      BY <3>1
  <2>3. CASE a # b /\ a # c
    BY <1>3, <1>4, <2>1, <2>3
  <2> QED
    BY <2>2, <2>3
<1> QED
  BY <1>3, <1>6, <1>7, <1>8 DEF Tiles, Within, Ordered, Covers

(* The same, with what is asked of s2 in one formula.                      *)
Merged(sz, s2, t, b, c) ==
  /\ sz \in [Addrs -> Nat] /\ s2 \in [Addrs -> Nat] /\ t \in Nat /\ Tiles(sz, t)
  /\ b \in Blocks(sz) /\ c \in Blocks(sz) /\ c = b + sz[b]
  /\ s2[b] = sz[b] + sz[c] /\ s2[c] = 0
  /\ \A a \in Addrs : a # b /\ a # c => s2[a] = sz[a]

LEMMA MergedTiles ==
  ASSUME NEW sz, NEW s2, NEW t, NEW b, NEW c, Merged(sz, s2, t, b, c)
  PROVE  Tiles(s2, t) /\ Blocks(s2) = Blocks(sz) \ {c}
BY MergeTiles DEF Merged

(* Three blocks that touch become one.                                     *)
LEMMA MergeTwice ==
  ASSUME NEW sz \in [Addrs -> Nat], NEW t \in Nat, Tiles(sz, t),
         NEW b \in Blocks(sz), NEW c \in Blocks(sz), NEW d \in Blocks(sz),
         b # c, b # d, c # d, c = b + sz[b], d = c + sz[c],
         NEW s2 \in [Addrs -> Nat], s2[b] = sz[b] + (sz[c] + sz[d]), s2[c] = 0, s2[d] = 0,
         \A a \in Addrs : a # b /\ a # c /\ a # d => s2[a] = sz[a]
  PROVE  Tiles(s2, t) /\ Blocks(s2) = Blocks(sz) \ {c, d}
<1>1. PICK s1 : s1 = [sz EXCEPT ![c] = sz[c] + sz[d], ![d] = 0]
  OBVIOUS
<1>2. \A a \in Blocks(sz) : a \in Addrs /\ sz[a] \in Nat
  BY DEF Blocks, Addrs
<1>3. /\ s1 \in [Addrs -> Nat] /\ s1[c] = sz[c] + sz[d] /\ s1[d] = 0 /\ s1[b] = sz[b]
      /\ \A a \in Addrs : a # c /\ a # d => s1[a] = sz[a]
  BY <1>1, <1>2
<1>4. Tiles(s1, t) /\ Blocks(s1) = Blocks(sz) \ {d}
  BY <1>3, MergeTiles
<1>6. /\ b \in Blocks(s1) /\ c \in Blocks(s1) /\ s2[b] = s1[b] + s1[c] /\ c = b + s1[b]
      /\ \A a \in Addrs : a # b /\ a # c => s2[a] = s1[a]
  BY <1>3, <1>4
<1>7. Merged(s1, s2, t, b, c)
  BY <1>3, <1>4, <1>6 DEF Merged
<1>8. Tiles(s2, t) /\ Blocks(s2) = Blocks(s1) \ {c}
  BY <1>7, MergedTiles
<1> QED
  BY <1>4, <1>8

(* A block is cut in two.                                                  *)
Cut(sz, s2, t, p, r, n) ==
  /\ sz \in [Addrs -> Nat] /\ t \in Nat /\ t <= MaxHeap /\ Tiles(sz, t)
  /\ p \in Blocks(sz) /\ r \in Nat /\ n \in Nat /\ r > 0 /\ n > 0 /\ r + n = sz[p]
  /\ s2 = [sz EXCEPT ![p] = r, ![p + r] = n]

LEMMA SplitTiles ==
  ASSUME NEW sz, NEW s2, NEW t, NEW p, NEW r, NEW n, Cut(sz, s2, t, p, r, n)
  PROVE  /\ p + r \in 1..MaxHeap /\ p + r \notin Blocks(sz) /\ s2 \in [Addrs -> Nat]
         /\ s2[p] = r /\ s2[p + r] = n /\ \A a \in Addrs : a # p /\ a # p + r => s2[a] = sz[a]
         /\ Tiles(s2, t) /\ Blocks(s2) = Blocks(sz) \cup {p + r}
<1>0. /\ sz \in [Addrs -> Nat] /\ t \in Nat /\ t <= MaxHeap /\ Tiles(sz, t)
      /\ p \in Blocks(sz) /\ r \in Nat /\ n \in Nat /\ r > 0 /\ n > 0 /\ r + n = sz[p]
      /\ s2 = [sz EXCEPT ![p] = r, ![p + r] = n]
  BY DEF Cut
<1> USE <1>0
<1>1. MaxHeap \in Nat
  BY UmallocAssumption
<1>2. /\ \A a \in 1..MaxHeap : a \in Addrs /\ a \in Nat /\ sz[a] \in Nat
      /\ p \in 1..MaxHeap /\ p + sz[p] <= t + 1
  <2>1. p + sz[p] <= t + 1
    BY DEF Tiles, Within
  <2> QED
    BY <1>1, <2>1 DEF Addrs, Blocks
<1>3. p + r \in 1..MaxHeap /\ p + r \in Addrs /\ p + r # p
  BY <1>1, <1>2 DEF Addrs
<1>4. \A a \in Blocks(sz) : a \in Nat /\ sz[a] \in Nat /\ a \in Addrs /\ sz[a] > 0
  BY <1>2 DEF Blocks
<1>5. p + r \notin Blocks(sz)
  BY <1>2, <1>4 DEF Tiles, Ordered
<1>6. /\ s2 \in [Addrs -> Nat] /\ s2[p] = r /\ s2[p + r] = n
      /\ \A a \in Addrs : a # p /\ a # p + r => s2[a] = sz[a]
  BY <1>2, <1>3
<1>7. Blocks(s2) = Blocks(sz) \cup {p + r}
  BY <1>2, <1>3, <1>4, <1>6 DEF Blocks
<1>8. PICK q : q = p + r
  OBVIOUS
<1>9. \A a \in Blocks(s2) : a \in Blocks(sz) \/ a = q
  BY <1>7, <1>8
<1>10. \A a \in Blocks(sz) : a # p => s2[a] = sz[a] /\ a # q
  BY <1>4, <1>5, <1>6, <1>8
<1>11. q \in Nat /\ p \in Nat /\ q + s2[q] = p + sz[p] /\ p + s2[p] = q
  BY <1>2, <1>3, <1>4, <1>6, <1>8
<1>12. ASSUME NEW a \in Blocks(s2) PROVE a + s2[a] <= t + 1
  <2>1. CASE a = q
    BY <1>2, <1>11, <2>1
  <2>2. CASE a = p
    BY <1>2, <1>4, <1>6, <1>11, <2>2
  <2>3. CASE a # p /\ a # q
    BY <1>9, <1>10, <1>12, <2>3 DEF Tiles, Within
  <2> QED
    BY <2>1, <2>2, <2>3
<1>13. ASSUME NEW a \in Blocks(s2), NEW d \in Blocks(s2), a < d PROVE a + s2[a] <= d
  <2>1. CASE a = q
    <3>1. d \in Blocks(sz) /\ d \in Nat /\ p < d
      <4>1. d # q
        BY <1>11, <1>13, <2>1
      <4>2. d \in Blocks(sz) /\ d \in Nat
        BY <1>4, <1>9, <1>13, <4>1
      <4> QED
        BY <1>8, <1>11, <1>13, <2>1, <4>2
    <3>2. p + sz[p] <= d
      BY <3>1 DEF Tiles, Ordered
    <3> QED
      BY <1>11, <2>1, <3>2
  <2>2. CASE a = p
    <3>1. CASE d = q
      BY <1>11, <2>2, <3>1
    <3>2. CASE d # q
      <4>1. d \in Blocks(sz) /\ p + sz[p] <= d
        BY <1>9, <1>13, <2>2, <3>2 DEF Tiles, Ordered
      <4> QED
        BY <1>4, <1>6, <2>2, <4>1
    <3> QED
      BY <3>1, <3>2
  <2>3. CASE a # p /\ a # q
    <3>1. a \in Blocks(sz) /\ s2[a] = sz[a]
      BY <1>9, <1>10, <2>3
    <3>2. CASE d # q
      BY <1>9, <1>13, <3>1, <3>2 DEF Tiles, Ordered
    <3>3. CASE d = q
      <4>1. a < p
        <5>1. SUFFICES ASSUME p < a PROVE FALSE
          BY <1>4, <1>11, <2>3, <3>1
        <5>2. p + sz[p] <= a
          BY <3>1, <5>1 DEF Tiles, Ordered
        <5> QED
          BY <1>4, <1>8, <1>13, <3>1, <3>3, <5>2
      <4>2. a + sz[a] <= p
        BY <3>1, <4>1 DEF Tiles, Ordered
      <4> QED
        BY <1>4, <1>8, <3>1, <3>3, <4>2
    <3> QED
      BY <3>2, <3>3
  <2> QED
    BY <2>1, <2>2, <2>3
<1>14. ASSUME NEW x \in 1..t PROVE \E a \in Blocks(s2) : a <= x /\ x < a + s2[a]
  <2>1. PICK a \in Blocks(sz) : a <= x /\ x < a + sz[a]
    BY DEF Tiles, Covers
  <2>2. CASE a = p
    <3>1. (q <= x /\ x < q + s2[q]) \/ (p <= x /\ x < p + s2[p])
      BY <1>4, <1>11, <2>1, <2>2
    <3> QED
      BY <1>7, <1>8, <3>1
  <2>3. CASE a # p
    BY <1>7, <1>10, <2>1, <2>3
  <2> QED
    BY <2>2, <2>3
<1> QED
  BY <1>3, <1>5, <1>6, <1>7, <1>12, <1>13, <1>14 DEF Tiles, Within, Ordered, Covers

------------------------------------------------------------------------------
(* The list of free blocks, by what their headers say.                     *)
ListOf(sz, H) == {0} \cup (Blocks(sz) \ H)

(* No block of the list touches the next one.                              *)
Apart(sz, pt, F) == \A b \in F : b # 0 => b + sz[b] # pt[b]

LEMMA BlocksAre ==
  ASSUME NEW sz \in [Addrs -> Nat]
  PROVE  /\ MaxHeap \in Nat /\ 0 \in Addrs
         /\ \A a \in Blocks(sz) : a \in Addrs /\ a \in Nat /\ a # 0 /\ sz[a] \in Nat /\ sz[a] > 0
         /\ \A H : ListOf(sz, H) \in SUBSET Addrs /\ 0 \in ListOf(sz, H)
         /\ \A a \in Addrs : a \in Nat /\ (a # 0 /\ sz[a] > 0 => a \in Blocks(sz))
<1>1. MaxHeap \in Nat
  BY UmallocAssumption
<1>2. /\ \A a \in Blocks(sz) : a \in Addrs /\ a \in Nat /\ a # 0 /\ sz[a] \in Nat /\ sz[a] > 0
      /\ \A a \in Addrs : a \in Nat /\ (a # 0 /\ sz[a] > 0 => a \in Blocks(sz))
      /\ 0 \in Addrs
  BY <1>1 DEF Blocks, Addrs
<1> QED
  BY <1>1, <1>2 DEF ListOf

(* What free() is given: the list F and block b of n units outside it,     *)
(* among the blocks of sz, of which H are in use.                          *)
Given(sz, H, t, F, b) ==
  /\ sz \in [Addrs -> Nat] /\ sz[0] = 0 /\ t \in Nat /\ Tiles(sz, t)
  /\ H \in SUBSET Blocks(sz) /\ b \in Blocks(sz) /\ b \notin H
  /\ F = ListOf(sz, H \cup {b}) /\ ListIs(F) /\ Apart(sz, ptr, F)
  /\ size \in [Addrs -> Nat] /\ ptr \in [Addrs -> Addrs]
  /\ \A a \in Addrs : a # b => size[a] = sz[a]

(* What it has to leave: the block is in the list, or part of one.         *)
Left(s2, p2, f2, H, t) ==
  /\ s2 \in [Addrs -> Nat] /\ s2[0] = 0 /\ Tiles(s2, t) /\ H \in SUBSET Blocks(s2)
  /\ p2 \in [Addrs -> Addrs] /\ f2 \in ListOf(s2, H) /\ Linked(p2, ListOf(s2, H))
  /\ Apart(s2, p2, ListOf(s2, H))

(* The place in the list of the block that is given back.                  *)
Place(F, b, p, u) ==
  p = Pred(b) /\ u = ptr[p] /\ p \in F /\ p < b /\ (b < u \/ u = 0) /\ u \in F

LEMMA PlaceIs ==
  ASSUME NEW sz, NEW H, NEW t, NEW F, NEW b, Given(sz, H, t, F, b),
         NEW p, p = Pred(b), NEW u, u = ptr[p]
  PROVE  /\ Place(F, b, p, u)
         /\ b \in Nat /\ p \in Nat /\ u \in Nat /\ b \in Addrs /\ p \in Addrs /\ u \in Addrs
         /\ b # 0 /\ b # p /\ b # u /\ b \notin F
         /\ (u # 0 => u \in Blocks(sz) /\ p # u) /\ (p # 0 => p \in Blocks(sz))
<1>1. /\ b \in Addrs /\ b \in Nat /\ b # 0 /\ b \notin F /\ F \in SUBSET Addrs /\ MaxHeap \in Nat
      /\ \A x \in F : x \in Nat /\ x \in Addrs /\ (x # 0 => x \in Blocks(sz))
  BY BlocksAre DEF Given, ListOf
<1>2. p \in F /\ p < b /\ (b < u \/ u = 0)
  BY <1>1, PredIs DEF Given
<1>3. u \in F
  BY <1>2 DEF Given, ListIs, Linked, IsNext
<1> QED
  BY <1>1, <1>2, <1>3 DEF Place

LEMMA FreeAlone ==
  ASSUME NEW sz, NEW H, NEW t, NEW F, NEW b, Given(sz, H, t, F, b),
         NEW p, p = Pred(b), NEW u, u = ptr[p], FreeBlock(b, sz[b]),
         b + sz[b] # u, p + sz[p] # b
  PROVE  Left(size', ptr', freep', H, t)
<1>1. /\ p \in F /\ p < b /\ (b < u \/ u = 0) /\ u \in F
      /\ b \in Nat /\ p \in Nat /\ u \in Nat /\ b \in Addrs /\ p \in Addrs /\ u \in Addrs
      /\ b # 0 /\ b # p /\ b # u /\ b \notin F
  BY PlaceIs DEF Place
<1>2. /\ sz \in [Addrs -> Nat] /\ size \in [Addrs -> Nat] /\ ptr \in [Addrs -> Addrs]
      /\ sz[0] = 0 /\ Tiles(sz, t) /\ H \in SUBSET Blocks(sz) /\ b \in Blocks(sz) /\ b \notin H
      /\ F = ListOf(sz, H \cup {b}) /\ Linked(ptr, F) /\ Apart(sz, ptr, F) /\ F \in SUBSET Addrs
      /\ 0 \in F /\ \A a \in Addrs : a # b => size[a] = sz[a]
  BY DEF Given, ListIs
<1>3. p + size[p] # b /\ DOMAIN size = Addrs /\ DOMAIN ptr = Addrs /\ \A a \in Addrs : a # -1
  BY <1>1, <1>2, BlocksAre
<1>4. size' = [[a \in DOMAIN size |-> IF a = -1 THEN 0 ELSE size[a]] EXCEPT ![b] = sz[b]]
      /\ ptr' = [[a \in DOMAIN ptr |-> IF a = -1 THEN 0 ELSE ptr[a]] EXCEPT ![b] = u, ![p] = b]
      /\ freep' = p
  BY <1>3, Zenon DEF FreeBlock
<1>5. size' = sz
  BY <1>1, <1>2, <1>3, <1>4
<1>6. PICK p2 : p2 = ptr'
  OBVIOUS
<1>7. /\ p2 \in [Addrs -> Addrs] /\ p2[b] = u /\ p2[p] = b
      /\ \A x \in Addrs : x # b /\ x # p => p2[x] = ptr[x]
  BY <1>1, <1>2, <1>3, <1>4, <1>6
<1>8. ListOf(sz, H) = F \cup {b}
  BY <1>2 DEF ListOf
<1>9. Linked(p2, F \cup {b})
  BY <1>1, <1>2, <1>7, InsertLinked
<1>10. Apart(sz, p2, F \cup {b})
  BY <1>1, <1>2, <1>7 DEF Apart
<1>11. p \in F \cup {b}
  BY <1>1
<1>12. Left(sz, p2, p, H, t)
  BY <1>2, <1>7, <1>8, <1>9, <1>10, <1>11 DEF Left
<1> QED
  BY <1>4, <1>5, <1>6, <1>12

LEMMA FreeJoinsUp ==
  ASSUME NEW sz, NEW H, NEW t, NEW F, NEW b, Given(sz, H, t, F, b),
         NEW p, p = Pred(b), NEW u, u = ptr[p], FreeBlock(b, sz[b]),
         b + sz[b] = u, p + sz[p] # b
  PROVE  Left(size', ptr', freep', H, t)
<1>1. /\ p \in F /\ p < b /\ (b < u \/ u = 0) /\ u \in F
      /\ b \in Nat /\ p \in Nat /\ u \in Nat /\ b \in Addrs /\ p \in Addrs /\ u \in Addrs
      /\ b # 0 /\ b # p /\ b # u /\ b \notin F /\ (u # 0 => u \in Blocks(sz) /\ p # u)
  BY PlaceIs DEF Place
<1>2. /\ sz \in [Addrs -> Nat] /\ size \in [Addrs -> Nat] /\ ptr \in [Addrs -> Addrs] /\ t \in Nat
      /\ sz[0] = 0 /\ Tiles(sz, t) /\ H \in SUBSET Blocks(sz) /\ b \in Blocks(sz) /\ b \notin H
      /\ F = ListOf(sz, H \cup {b}) /\ Linked(ptr, F) /\ Apart(sz, ptr, F) /\ F \in SUBSET Addrs
      /\ 0 \in F /\ \A a \in Addrs : a # b => size[a] = sz[a]
  BY DEF Given, ListIs
<1>3. p + size[p] # b /\ DOMAIN size = Addrs /\ DOMAIN ptr = Addrs
  BY <1>1, <1>2
<1>4. sz[b] \in Nat /\ sz[b] > 0 /\ sz[u] \in Nat /\ size[u] = sz[u] /\ ptr[u] \in Addrs
  BY <1>1, <1>2, BlocksAre
<1>5. u # 0 /\ u \in Blocks(sz) /\ p # u /\ u \notin H
  <2>1. u # 0
    BY <1>1, <1>4
  <2> QED
    BY <1>1, <1>2, <2>1 DEF ListOf
<1>6. size' = [[a \in DOMAIN size |-> IF a = u THEN 0 ELSE size[a]] EXCEPT ![b] = sz[b] + size[u]]
      /\ ptr' = [[a \in DOMAIN ptr |-> IF a = u THEN 0 ELSE ptr[a]] EXCEPT ![b] = ptr[u], ![p] = b]
      /\ freep' = p
  BY <1>3, Zenon DEF FreeBlock
<1>7. PICK s2, p2 : s2 = size' /\ p2 = ptr'
  OBVIOUS
<1>8. /\ s2 \in [Addrs -> Nat] /\ s2[b] = sz[b] + sz[u] /\ s2[u] = 0
      /\ \A a \in Addrs : a # b /\ a # u => s2[a] = sz[a]
  BY <1>1, <1>2, <1>3, <1>4, <1>6, <1>7
<1>9. /\ p2 \in [Addrs -> Addrs] /\ p2[b] = ptr[u] /\ p2[p] = b
      /\ \A x \in Addrs : x # b /\ x # p /\ x # u => p2[x] = ptr[x]
  <2>1. 0 \in Addrs
    BY <1>2, BlocksAre
  <2> QED
    BY <1>1, <1>2, <1>3, <1>4, <1>5, <1>6, <1>7, <2>1
<1>10. Tiles(s2, t) /\ Blocks(s2) = Blocks(sz) \ {u}
  BY <1>1, <1>2, <1>5, <1>8, MergeTiles
<1>11. ListOf(s2, H) = (F \cup {b}) \ {u} /\ H \in SUBSET Blocks(s2)
  BY <1>1, <1>2, <1>5, <1>10 DEF ListOf
<1>12. Linked(p2, (F \cup {b}) \ {u})
  <2> DEFINE q == [ptr EXCEPT ![b] = u, ![p] = b]
             G == F \cup {b}
  <2>1. q[b] = u /\ q[p] = b /\ \A x \in F : x # p => q[x] = ptr[x]
    BY <1>1, <1>2
  <2> HIDE DEF q
  <2>2. Linked(q, G)
    <3>1. q[b] = ptr[p] /\ (b < ptr[p] \/ ptr[p] = 0) /\ p < b
      BY <1>1, <2>1
    <3>2. q[p] = b /\ \A x \in F : x # p => q[x] = ptr[x]
      BY <2>1
    <3>3. F \in SUBSET Addrs /\ Linked(ptr, F) /\ 0 \in F /\ b \in Addrs /\ b \notin F /\ p \in F
      BY <1>1, <1>2
    <3> QED
      BY <3>1, <3>2, <3>3, InsertLinked
  <2>3. G \in SUBSET Addrs /\ 0 \in G /\ b \in G
    BY <1>1, <1>2
  <2>4. q[u] = ptr[u]
    BY <1>1, <1>5, <2>1
  <2>5. \A x \in G : x # b /\ x # u => p2[x] = q[x]
    BY <1>2, <1>9, <2>1
  <2> HIDE DEF G
  <2>6. Linked(p2, G \ {u})
    BY <1>5, <1>9, <2>1, <2>2, <2>3, <2>4, <2>5, RemoveLinked
  <2> QED
    BY <2>6 DEF G
<1>13. Apart(s2, p2, (F \cup {b}) \ {u})
  <2>1. u + sz[u] # ptr[u]
    BY <1>1, <1>2, <1>5 DEF Apart
  <2>2. b + s2[b] # p2[b]
    BY <1>1, <1>4, <1>8, <1>9, <2>1
  <2>3. p # 0 => p + s2[p] # p2[p]
    BY <1>1, <1>5, <1>8, <1>9
  <2>4. ASSUME NEW x \in F, x # p, x # u, x # 0 PROVE x + s2[x] # p2[x]
    BY <1>1, <1>2, <1>8, <1>9, <2>4 DEF Apart
  <2> QED
    BY <2>2, <2>3, <2>4 DEF Apart
<1>14. p \in (F \cup {b}) \ {u} /\ s2[0] = 0
  <2>1. 0 \in Addrs
    BY <1>2, BlocksAre
  <2> QED
    BY <1>1, <1>2, <1>5, <1>8, <2>1
<1>15. Left(s2, p2, p, H, t)
  BY <1>8, <1>9, <1>10, <1>11, <1>12, <1>13, <1>14 DEF Left
<1> QED
  BY <1>6, <1>7, <1>15

LEMMA FreeJoinsDown ==
  ASSUME NEW sz, NEW H, NEW t, NEW F, NEW b, Given(sz, H, t, F, b),
         NEW p, p = Pred(b), NEW u, u = ptr[p], FreeBlock(b, sz[b]),
         b + sz[b] # u, p + sz[p] = b
  PROVE  Left(size', ptr', freep', H, t)
<1>1. /\ p \in F /\ p < b /\ (b < u \/ u = 0) /\ u \in F
      /\ b \in Nat /\ p \in Nat /\ u \in Nat /\ b \in Addrs /\ p \in Addrs /\ u \in Addrs
      /\ b # 0 /\ b # p /\ b # u /\ b \notin F /\ (p # 0 => p \in Blocks(sz))
  BY PlaceIs DEF Place
<1>2. /\ sz \in [Addrs -> Nat] /\ size \in [Addrs -> Nat] /\ ptr \in [Addrs -> Addrs] /\ t \in Nat
      /\ sz[0] = 0 /\ Tiles(sz, t) /\ H \in SUBSET Blocks(sz) /\ b \in Blocks(sz) /\ b \notin H
      /\ F = ListOf(sz, H \cup {b}) /\ Linked(ptr, F) /\ Apart(sz, ptr, F) /\ F \in SUBSET Addrs
      /\ 0 \in F /\ \A a \in Addrs : a # b => size[a] = sz[a]
  BY DEF Given, ListIs
<1>3. /\ p + size[p] = b /\ DOMAIN size = Addrs /\ DOMAIN ptr = Addrs /\ size[p] = sz[p]
      /\ \A a \in Addrs : a # -1
  BY <1>1, <1>2, BlocksAre
<1>4. sz[b] \in Nat /\ sz[b] > 0 /\ sz[p] \in Nat /\ 0 \in Addrs
  BY <1>1, <1>2, BlocksAre
<1>5. p # 0 /\ p \in Blocks(sz)
  BY <1>1, <1>2
<1>6. size' = [[a \in DOMAIN size |-> IF a = -1 THEN 0 ELSE size[a]] EXCEPT ![p] = @ + sz[b], ![b] = 0]
      /\ ptr' = [[a \in DOMAIN ptr |-> IF a = -1 THEN 0 ELSE ptr[a]] EXCEPT ![p] = u, ![b] = 0]
      /\ freep' = p
  BY <1>3, Zenon DEF FreeBlock
<1>7. PICK s2, p2 : s2 = size' /\ p2 = ptr'
  OBVIOUS
<1>8. /\ s2 \in [Addrs -> Nat] /\ s2[p] = sz[p] + sz[b] /\ s2[b] = 0
      /\ \A a \in Addrs : a # b /\ a # p => s2[a] = sz[a]
  BY <1>1, <1>2, <1>3, <1>4, <1>6, <1>7
<1>9. p2 \in [Addrs -> Addrs] /\ \A x \in Addrs : x # b => p2[x] = ptr[x]
  BY <1>1, <1>2, <1>3, <1>4, <1>6, <1>7
<1>10. Tiles(s2, t) /\ Blocks(s2) = Blocks(sz) \ {b}
  BY <1>1, <1>2, <1>5, <1>8, MergeTiles
<1>11. ListOf(s2, H) = F /\ H \in SUBSET Blocks(s2)
  BY <1>1, <1>2, <1>10 DEF ListOf
<1>12. Linked(p2, F)
  <2>1. \A x \in F : p2[x] = ptr[x]
    BY <1>1, <1>2, <1>9
  <2> QED
    BY <1>2, <2>1 DEF Linked
<1>13. Apart(s2, p2, F)
  <2>1. p + s2[p] # p2[p]
    BY <1>1, <1>4, <1>8, <1>9
  <2>2. ASSUME NEW x \in F, x # p, x # 0 PROVE x + s2[x] # p2[x]
    BY <1>1, <1>2, <1>8, <1>9, <2>2 DEF Apart
  <2> QED
    BY <2>1, <2>2 DEF Apart
<1>14. s2[0] = 0
  BY <1>1, <1>2, <1>4, <1>5, <1>8
<1>15. Left(s2, p2, p, H, t)
  BY <1>1, <1>8, <1>9, <1>10, <1>11, <1>12, <1>13, <1>14 DEF Left
<1> QED
  BY <1>6, <1>7, <1>15

LEMMA FreeJoinsBoth ==
  ASSUME NEW sz, NEW H, NEW t, NEW F, NEW b, Given(sz, H, t, F, b),
         NEW p, p = Pred(b), NEW u, u = ptr[p], FreeBlock(b, sz[b]),
         b + sz[b] = u, p + sz[p] = b
  PROVE  Left(size', ptr', freep', H, t)
<1>1. /\ p \in F /\ p < b /\ (b < u \/ u = 0) /\ u \in F
      /\ b \in Nat /\ p \in Nat /\ u \in Nat /\ b \in Addrs /\ p \in Addrs /\ u \in Addrs
      /\ b # 0 /\ b # p /\ b # u /\ b \notin F /\ (p # 0 => p \in Blocks(sz))
      /\ (u # 0 => u \in Blocks(sz) /\ p # u)
  BY PlaceIs DEF Place
<1>2. /\ sz \in [Addrs -> Nat] /\ size \in [Addrs -> Nat] /\ ptr \in [Addrs -> Addrs] /\ t \in Nat
      /\ sz[0] = 0 /\ Tiles(sz, t) /\ H \in SUBSET Blocks(sz) /\ b \in Blocks(sz) /\ b \notin H
      /\ F = ListOf(sz, H \cup {b}) /\ Linked(ptr, F) /\ Apart(sz, ptr, F) /\ F \in SUBSET Addrs
      /\ 0 \in F /\ \A a \in Addrs : a # b => size[a] = sz[a]
  BY DEF Given, ListIs
<1>3. /\ p + size[p] = b /\ DOMAIN size = Addrs /\ DOMAIN ptr = Addrs
      /\ size[p] = sz[p] /\ size[u] = sz[u]
  BY <1>1, <1>2
<1>4. sz[b] \in Nat /\ sz[b] > 0 /\ sz[p] \in Nat /\ sz[u] \in Nat /\ 0 \in Addrs /\ ptr[u] \in Addrs
  BY <1>1, <1>2, BlocksAre
<1>5. p # 0 /\ p \in Blocks(sz) /\ u # 0 /\ u \in Blocks(sz) /\ p # u /\ u \notin H
  <2>1. u # 0 /\ p # 0
    BY <1>1, <1>2, <1>4
  <2> QED
    BY <1>1, <1>2, <2>1 DEF ListOf
<1>6. size' = [[a \in DOMAIN size |-> IF a = u THEN 0 ELSE size[a]]
                 EXCEPT ![p] = @ + (sz[b] + size[u]), ![b] = 0]
      /\ ptr' = [[a \in DOMAIN ptr |-> IF a = u THEN 0 ELSE ptr[a]] EXCEPT ![p] = ptr[u], ![b] = 0]
      /\ freep' = p
  BY <1>3, Zenon DEF FreeBlock
<1>7. PICK s2, p2 : s2 = size' /\ p2 = ptr'
  OBVIOUS
<1>8. /\ s2 \in [Addrs -> Nat] /\ s2[p] = sz[p] + (sz[b] + sz[u]) /\ s2[b] = 0 /\ s2[u] = 0
      /\ \A a \in Addrs : a # b /\ a # p /\ a # u => s2[a] = sz[a]
  <2>1. PICK s0 : s0 = [a \in DOMAIN size |-> IF a = u THEN 0 ELSE size[a]]
    OBVIOUS
  <2>2. /\ s0 \in [Addrs -> Nat] /\ s0[p] = sz[p] /\ s0[u] = 0
        /\ \A a \in Addrs : a # b /\ a # u => s0[a] = sz[a]
    BY <1>1, <1>2, <1>3, <1>5, <2>1
  <2>3. s2 = [s0 EXCEPT ![p] = s0[p] + (sz[b] + sz[u]), ![b] = 0]
    BY <1>3, <1>6, <1>7, <2>1
  <2>4. s0[p] + (sz[b] + sz[u]) \in Nat /\ b # p /\ u # p /\ b # u
    BY <1>1, <1>4, <1>5, <2>2
  <2>5. s2 \in [Addrs -> Nat]
    BY <2>2, <2>3, <2>4
  <2>6. s2[p] = s0[p] + (sz[b] + sz[u]) /\ s2[b] = 0 /\ s2[u] = 0
    BY <1>1, <2>2, <2>3, <2>4
  <2>7. \A a \in Addrs : a # b /\ a # p => s2[a] = s0[a]
    BY <2>2, <2>3
  <2> QED
    BY <2>2, <2>5, <2>6, <2>7
<1>9. /\ p2 \in [Addrs -> Addrs] /\ p2[p] = ptr[u]
      /\ \A x \in Addrs : x # b /\ x # p /\ x # u => p2[x] = ptr[x]
  BY <1>1, <1>2, <1>3, <1>4, <1>5, <1>6, <1>7
<1>10. Tiles(s2, t) /\ Blocks(s2) = Blocks(sz) \ {u, b}
  BY <1>1, <1>2, <1>4, <1>5, <1>8, MergeTwice
<1>11. ListOf(s2, H) = F \ {u} /\ H \in SUBSET Blocks(s2)
  BY <1>1, <1>2, <1>5, <1>10 DEF ListOf
<1>12. Linked(p2, F \ {u})
  <2>1. \A x \in F : x # p /\ x # u => p2[x] = ptr[x]
    BY <1>1, <1>2, <1>9
  <2> QED
    BY <1>1, <1>2, <1>5, <1>9, <2>1, RemoveLinked
<1>13. Apart(s2, p2, F \ {u})
  <2>1. u + sz[u] # ptr[u]
    BY <1>1, <1>2, <1>5 DEF Apart
  <2>2. p + s2[p] # p2[p]
    BY <1>1, <1>4, <1>8, <1>9, <2>1
  <2>3. ASSUME NEW x \in F, x # p, x # u, x # 0 PROVE x + s2[x] # p2[x]
    BY <1>1, <1>2, <1>8, <1>9, <2>3 DEF Apart
  <2> QED
    BY <2>2, <2>3 DEF Apart
<1>14. s2[0] = 0 /\ p \in F \ {u}
  BY <1>1, <1>2, <1>4, <1>5, <1>8
<1>15. Left(s2, p2, p, H, t)
  BY <1>8, <1>9, <1>10, <1>11, <1>12, <1>13, <1>14 DEF Left
<1> QED
  BY <1>6, <1>7, <1>15

(* free(), joining with none, one or both of the neighbours.               *)
LEMMA FreeBlockLeaves ==
  ASSUME NEW sz, NEW H, NEW t, NEW F, NEW b, Given(sz, H, t, F, b), FreeBlock(b, sz[b])
  PROVE  Left(size', ptr', freep', H, t)
<1>1. PICK p, u : p = Pred(b) /\ u = ptr[p]
  OBVIOUS
<1> QED
  BY <1>1, FreeAlone, FreeJoinsUp, FreeJoinsDown, FreeJoinsBoth

------------------------------------------------------------------------------
(* What holds between the calls: every address of the heap is in one block,*)
(* the list from freep on is the base and the blocks that are not in use,  *)
(* in address order, and no two of them touch.                             *)
HeapInv ==
  /\ ptr \in [Addrs -> Addrs] /\ size \in [Addrs -> Nat] /\ size[0] = 0
  /\ brk \in Addrs /\ req \in Nat /\ held \in SUBSET Blocks(size)
  /\ Tiles(size, brk) /\ ListIs(ListOf(size, held)) /\ Apart(size, ptr, ListOf(size, held))

LEMMA HeapInitInv == HeapInit => HeapInv
<1> SUFFICES ASSUME HeapInit PROVE HeapInv
  OBVIOUS
<1>1. MaxHeap \in Nat /\ 0 \in Addrs
  BY UmallocAssumption DEF Addrs
<1>2. /\ ptr \in [Addrs -> Addrs] /\ size \in [Addrs -> Nat] /\ \A a \in Addrs : size[a] = 0 /\ ptr[a] = 0
      /\ brk = 0 /\ req = 0 /\ held = {} /\ freep = 0
  BY <1>1 DEF HeapInit, Addrs
<1>3. Blocks(size) = {}
  BY <1>1, <1>2 DEF Blocks, Addrs
<1>4. ListOf(size, held) = {0}
  BY <1>3 DEF ListOf
<1>5. Tiles(size, brk)
  BY <1>2, <1>3 DEF Tiles, Within, Ordered, Covers
<1>6. ListIs({0})
  BY <1>1, <1>2 DEF ListIs, Linked, IsNext
<1>7. Apart(size, ptr, {0})
  BY DEF Apart
<1> QED
  BY <1>1, <1>2, <1>3, <1>4, <1>5, <1>6, <1>7 DEF HeapInv

(* What free() leaves is the invariant again.                              *)
LEMMA LeftInv ==
  ASSUME Left(size', ptr', freep', held', brk'), brk' \in Addrs, req' \in Nat
  PROVE  HeapInv'
<1>1. size' \in [Addrs -> Nat]
  BY DEF Left
<1>2. ListOf(size', held') \in SUBSET Addrs /\ 0 \in ListOf(size', held')
  BY <1>1, BlocksAre
<1>3. ListIs(ListOf(size, held))'
  BY <1>2 DEF Left, ListIs
<1> QED
  BY <1>3 DEF Left, HeapInv

LEMMA FreeInv ==
  ASSUME HeapInv, NEW b \in held, Free(b)
  PROVE  HeapInv'
<1>1. PICK H, F : H = held \ {b} /\ F = ListOf(size, held)
  OBVIOUS
<1>2. b \in Blocks(size) /\ H \cup {b} = held /\ b \notin H /\ H \in SUBSET Blocks(size)
  BY <1>1 DEF HeapInv
<1>3. brk \in Nat
  BY UmallocAssumption DEF HeapInv, Addrs
<1>4. Given(size, H, brk, F, b)
  BY <1>1, <1>2, <1>3 DEF HeapInv, Given
<1>5. Left(size', ptr', freep', H, brk)
  BY <1>4, FreeBlockLeaves DEF Free
<1>6. held' = H /\ brk' = brk /\ req' = req
  BY <1>1 DEF Free
<1>7. Left(size', ptr', freep', held', brk') /\ brk' \in Addrs /\ req' \in Nat
  BY <1>5, <1>6 DEF HeapInv
<1> QED
  BY <1>7, LeftInv

(* sbrk() adds a block above the others.                                   *)
Grown(sz, s2, t, n, b) ==
  /\ sz \in [Addrs -> Nat] /\ t \in Addrs /\ Tiles(sz, t)
  /\ n \in Nat /\ n > 0 /\ t + n <= MaxHeap /\ b = t + 1 /\ s2 = [sz EXCEPT ![b] = n]

LEMMA GrownTiles ==
  ASSUME NEW sz, NEW s2, NEW t, NEW n, NEW b, Grown(sz, s2, t, n, b)
  PROVE  /\ b \in 1..MaxHeap /\ b \notin Blocks(sz) /\ s2 \in [Addrs -> Nat] /\ s2[b] = n
         /\ \A a \in Addrs : a # b => s2[a] = sz[a]
         /\ Blocks(s2) = Blocks(sz) \cup {b} /\ Tiles(s2, t + n)
<1>0. /\ sz \in [Addrs -> Nat] /\ t \in Addrs /\ Within(sz, t) /\ Ordered(sz) /\ Covers(sz, t)
      /\ n \in Nat /\ n > 0 /\ t + n <= MaxHeap /\ b = t + 1 /\ s2 = [sz EXCEPT ![b] = n]
  BY DEF Grown, Tiles
<1>1. MaxHeap \in Nat /\ t \in Nat
  BY <1>0, UmallocAssumption DEF Addrs
<1>2. b \in 1..MaxHeap /\ b \in Addrs /\ b \in Nat
  BY <1>0, <1>1 DEF Addrs
<1>3. \A a \in Blocks(sz) : a \in Nat /\ a \in Addrs /\ sz[a] \in Nat /\ sz[a] > 0
  BY <1>0, BlocksAre
<1>4. \A a \in Blocks(sz) : a + sz[a] <= t + 1
  BY <1>0 DEF Within
<1>5. \A a \in Blocks(sz) : a < b /\ a # b
  BY <1>0, <1>1, <1>3, <1>4
<1>6. s2 \in [Addrs -> Nat] /\ s2[b] = n /\ \A a \in Addrs : a # b => s2[a] = sz[a]
  BY <1>0, <1>2
<1>7. Blocks(s2) = Blocks(sz) \cup {b}
  BY <1>0, <1>1, <1>2, <1>6 DEF Blocks, Addrs
<1>8. \A a \in Blocks(sz) : s2[a] = sz[a]
  BY <1>3, <1>5, <1>6
<1>9. Within(s2, t + n)
  <2> SUFFICES ASSUME NEW a \in Blocks(s2) PROVE a + s2[a] <= (t + n) + 1
    BY DEF Within
  <2>1. CASE a = b
    BY <1>0, <1>1, <1>6, <2>1
  <2>2. CASE a # b
    <3>1. a \in Nat /\ sz[a] \in Nat /\ a + sz[a] <= t + 1 /\ s2[a] = sz[a]
      BY <1>3, <1>4, <1>7, <1>8, <2>2
    <3> QED
      BY <1>0, <1>1, <3>1
  <2> QED
    BY <2>1, <2>2
<1>10. Ordered(s2)
  <2> SUFFICES ASSUME NEW a \in Blocks(s2), NEW c \in Blocks(s2), a < c PROVE a + s2[a] <= c
    BY DEF Ordered
  <2>0. a # b /\ a \in Blocks(sz)
    <3>1. (a = b \/ a \in Blocks(sz)) /\ (c = b \/ c \in Blocks(sz))
      BY <1>7
    <3>2. a # b
      BY <1>2, <1>3, <1>5, <3>1
    <3> QED
      BY <3>1, <3>2
  <2>1. CASE c = b
    <3>1. a + sz[a] <= t + 1 /\ s2[a] = sz[a]
      BY <1>4, <1>8, <2>0
    <3> QED
      BY <1>0, <2>1, <3>1
  <2>2. CASE c # b
    <3>1. c \in Blocks(sz) /\ a \in Blocks(sz)
      BY <1>7, <2>0, <2>2
    <3> QED
      BY <1>0, <1>8, <3>1 DEF Ordered
  <2> QED
    BY <2>1, <2>2
<1>11. Covers(s2, t + n)
  <2> SUFFICES ASSUME NEW x \in 1..(t + n) PROVE \E a \in Blocks(s2) : a <= x /\ x < a + s2[a]
    BY DEF Covers
  <2>1. CASE x <= t
    <3>1. PICK a \in Blocks(sz) : a <= x /\ x < a + sz[a]
      BY <1>0, <1>1, <2>1 DEF Covers
    <3> QED
      BY <1>7, <1>8, <3>1
  <2>2. CASE ~(x <= t)
    <3>1. b \in Blocks(s2) /\ b <= x /\ x < b + s2[b]
      <4>1. b <= x /\ x < b + n
        BY <1>0, <1>1, <2>2
      <4> QED
        BY <1>6, <1>7, <4>1
    <3> QED
      BY <3>1
  <2> QED
    BY <2>1, <2>2
<1> QED
  BY <1>2, <1>5, <1>6, <1>7, <1>9, <1>10, <1>11 DEF Tiles

LEMMA MoreCoreInv ==
  ASSUME HeapInv, MoreCore
  PROVE  HeapInv'
<1>1. PICK n : n = IF req < MinCore THEN MinCore ELSE req
  OBVIOUS
<1>2. MaxHeap \in Nat /\ brk \in Nat /\ req \in Nat /\ n \in Nat /\ n > 0
  BY <1>1, UmallocAssumption DEF HeapInv, Addrs, MoreCore
<1>3. CASE brk + n <= MaxHeap
  <2>1. PICK b, s2, F : b = brk + 1 /\ s2 = [size EXCEPT ![b] = n] /\ F = ListOf(size, held)
    OBVIOUS
  <2>2. size \in [Addrs -> Nat] /\ brk \in Addrs /\ Tiles(size, brk) /\ held \in SUBSET Blocks(size)
    BY DEF HeapInv
  <2>3. /\ b \in 1..MaxHeap /\ b \notin Blocks(size) /\ s2 \in [Addrs -> Nat] /\ s2[b] = n
        /\ \A a \in Addrs : a # b => s2[a] = size[a]
        /\ Blocks(s2) = Blocks(size) \cup {b} /\ Tiles(s2, brk + n)
    <3>1. Grown(size, s2, brk, n, b)
      BY <1>2, <1>3, <2>1, <2>2 DEF Grown
    <3> QED
      BY <3>1, GrownTiles
  <2>4. F = ListOf(s2, held \cup {b}) /\ b \in Blocks(s2) /\ b \notin held /\ held \in SUBSET Blocks(s2)
    BY <2>1, <2>2, <2>3 DEF ListOf
  <2>5. F \in SUBSET Addrs /\ b \notin F /\ 0 \in Addrs /\ b # 0
    <3>1. b # 0
      BY <1>2, <2>3
    <3> QED
      BY <2>1, <2>2, <2>3, <3>1, BlocksAre DEF ListOf
  <2>6. Apart(s2, ptr, F) /\ s2[0] = 0
    BY <2>1, <2>3, <2>5 DEF HeapInv, Apart
  <2>7. brk + n \in Nat /\ brk + n \in Addrs
    BY <1>2, <1>3 DEF Addrs
  <2>8. ListIs(F) /\ ptr \in [Addrs -> Addrs] /\ \A a \in Addrs : a # b => size[a] = s2[a]
    BY <2>1, <2>3 DEF HeapInv
  <2>9. Given(s2, held, brk + n, F, b)
    BY <2>2, <2>3, <2>4, <2>6, <2>7, <2>8 DEF Given
  <2>10. FreeBlock(brk + 1, n) /\ brk' = brk + n /\ held' = held /\ req' = req
    BY <1>1, <1>3, Zenon DEF MoreCore
  <2>11. FreeBlock(b, s2[b])
    BY <2>1, <2>3, <2>10
  <2>12. Left(size', ptr', freep', held, brk + n)
    BY <2>9, <2>11, FreeBlockLeaves
  <2>13. Left(size', ptr', freep', held', brk') /\ brk' \in Addrs /\ req' \in Nat
    BY <1>2, <2>7, <2>10, <2>12
  <2> QED
    BY <2>13, LeftInv
<1>4. CASE ~(brk + n <= MaxHeap)
  <2>1. req' = 0 /\ UNCHANGED <<ptr, size, freep, brk, held>>
    BY <1>1, <1>4, Zenon DEF MoreCore
  <2> QED
    BY <2>1 DEF HeapInv, ListIs
<1> QED
  BY <1>3, <1>4

(* Where malloc() stops: the block p that fits, and the one before it.     *)
Found(F, p, prev) ==
  /\ prev \in F /\ p \in F /\ p = ptr[prev] /\ p # prev /\ p \in Blocks(size) /\ p \notin held
  /\ size[p] \in Nat /\ size[p] >= req

LEMMA SearchFinds ==
  ASSUME HeapInv, NEW F, F = ListOf(size, held), req # 0, Fits(req) # {},
         NEW k, k = CHOOSE i \in Fits(req) : \A j \in Fits(req) : i <= j
  PROVE  Found(F, WalkFrom(k), WalkFrom(k - 1))
<1>1. MaxHeap \in Nat /\ req \in Nat /\ size \in [Addrs -> Nat] /\ size[0] = 0 /\ ListIs(F)
  BY UmallocAssumption DEF HeapInv
<1>2. Rounds \in 1..(MaxHeap + 1)
  BY <1>1, RoundSeesAll
<1>3. Fits(req) \in SUBSET Nat
  BY <1>2 DEF Fits
<1>4. k \in Fits(req)
  <2>1. \E i \in Fits(req) : \A j \in Fits(req) : i <= j
    BY <1>3, LeastExists
  <2> QED
    BY <2>1, Zenon
<1>5. k \in 1..(MaxHeap + 1) /\ k \in Steps /\ k - 1 \in Steps /\ size[WalkFrom(k)] >= req
  BY <1>1, <1>2, <1>4 DEF Fits, Steps
<1>6. WalkFrom(k) \in F /\ WalkFrom(k - 1) \in F /\ WalkFrom(k) = ptr[WalkFrom(k - 1)]
  BY <1>1, <1>5, WalkIn, WalkIs
<1>7. PICK p, prev : p = WalkFrom(k) /\ prev = WalkFrom(k - 1)
  OBVIOUS
<1>8. p \in F /\ prev \in F /\ p = ptr[prev] /\ size[p] >= req
  BY <1>5, <1>6, <1>7
<1>9. p # 0 /\ p \in Blocks(size) /\ p \notin held /\ size[p] \in Nat
  <2>1. p # 0
    BY <1>1, <1>8
  <2> QED
    BY <1>1, <1>8, <2>1, BlocksAre DEF ListOf
<1>10. p # prev
  <2>1. IsNext(p, prev, F) /\ p \in Nat
    BY <1>1, <1>8, <1>9, BlocksAre DEF ListIs, Linked
  <2> QED
    BY <1>9, <2>1 DEF IsNext
<1>11. Found(F, p, prev)
  BY <1>8, <1>9, <1>10 DEF Found
<1> QED
  BY <1>7, <1>11

(* The whole block is taken.                                               *)
LEMMA TakeWholeInv ==
  ASSUME HeapInv, NEW F, F = ListOf(size, held), NEW p, NEW prev, Found(F, p, prev),
         ptr' = [ptr EXCEPT ![prev] = ptr[p], ![p] = 0], held' = held \cup {p},
         size' = size, freep' = prev, req' = 0, brk' = brk
  PROVE  HeapInv'
<1>1. /\ size \in [Addrs -> Nat] /\ size[0] = 0 /\ F \in SUBSET Addrs /\ 0 \in F /\ Linked(ptr, F)
      /\ held \in SUBSET Blocks(size) /\ Tiles(size, brk) /\ Apart(size, ptr, F) /\ brk \in Addrs
      /\ ptr \in [Addrs -> Addrs]
  BY DEF HeapInv, ListIs
<1>2. /\ prev \in F /\ p \in F /\ p = ptr[prev] /\ p # prev /\ p \in Blocks(size) /\ p \notin held
  BY DEF Found
<1>3. /\ p \in Addrs /\ prev \in Addrs /\ ptr[p] \in Addrs /\ 0 \in Addrs /\ p \in Nat /\ p # 0
      /\ prev \in Nat /\ ptr[p] \in Nat /\ size[prev] \in Nat
  BY <1>1, <1>2, BlocksAre
<1>4. PICK p2 : p2 = ptr'
  OBVIOUS
<1>5. /\ p2 \in [Addrs -> Addrs] /\ p2[prev] = ptr[p]
      /\ \A x \in Addrs : x # prev /\ x # p => p2[x] = ptr[x]
  BY <1>1, <1>2, <1>3, <1>4
<1>6. Linked(p2, F \ {p}) /\ prev < p
  <2>1. \A x \in F : x # prev /\ x # p => p2[x] = ptr[x]
    BY <1>1, <1>5
  <2> QED
    BY <1>1, <1>2, <1>3, <1>5, <2>1, RemoveLinked
<1>7. ListOf(size, held \cup {p}) = F \ {p} /\ held \cup {p} \in SUBSET Blocks(size)
  BY <1>1, <1>2, <1>3 DEF ListOf
<1>8. Apart(size, p2, F \ {p})
  <2>1. ASSUME prev # 0 PROVE prev + size[prev] # p2[prev]
    <3>1. prev \in Blocks(size)
      BY <1>2, <2>1 DEF ListOf
    <3>2. prev + size[prev] <= p
      BY <1>1, <1>2, <1>6, <3>1 DEF Tiles, Ordered
    <3>3. prev + size[prev] # p
      BY <1>1, <1>2, <2>1 DEF Apart
    <3>4. ptr[p] > p \/ ptr[p] = 0
      BY <1>1, <1>2 DEF Linked, IsNext
    <3> QED
      BY <1>3, <1>5, <2>1, <3>2, <3>3, <3>4
  <2>2. ASSUME NEW x \in F, x # p, x # prev, x # 0 PROVE x + size[x] # p2[x]
    BY <1>1, <1>5, <2>2 DEF Apart
  <2> QED
    BY <2>1, <2>2 DEF Apart
<1>9. prev \in F \ {p}
  BY <1>2
<1>10. Left(size, p2, prev, held \cup {p}, brk)
  BY <1>1, <1>5, <1>6, <1>7, <1>8, <1>9 DEF Left
<1>11. Left(size', ptr', freep', held', brk') /\ brk' \in Addrs /\ req' \in Nat
  BY <1>1, <1>4, <1>10
<1> QED
  BY <1>11, LeftInv

(* The tail of the block is taken.                                         *)
LEMMA TakeTailInv ==
  ASSUME HeapInv, NEW F, F = ListOf(size, held), NEW p, NEW prev, Found(F, p, prev), req # 0,
         NEW rest, rest = size[p] - req, rest # 0,
         size' = [size EXCEPT ![p] = rest, ![p + rest] = req], held' = held \cup {p + rest},
         ptr' = ptr, freep' = prev, req' = 0, brk' = brk
  PROVE  HeapInv'
<1>1. /\ size \in [Addrs -> Nat] /\ size[0] = 0 /\ F \in SUBSET Addrs /\ 0 \in F /\ Linked(ptr, F)
      /\ held \in SUBSET Blocks(size) /\ Tiles(size, brk) /\ Apart(size, ptr, F) /\ brk \in Addrs
      /\ ptr \in [Addrs -> Addrs] /\ req \in Nat
  BY DEF HeapInv, ListIs
<1>2. /\ prev \in F /\ p \in F /\ p \in Blocks(size) /\ p \notin held
      /\ size[p] \in Nat /\ size[p] >= req
  BY DEF Found
<1>3. rest \in Nat /\ rest > 0 /\ req > 0 /\ rest + req = size[p] /\ brk \in Nat /\ brk <= MaxHeap
  BY <1>1, <1>2, UmallocAssumption DEF Addrs
<1>4. PICK s2, q : s2 = size' /\ q = p + rest
  OBVIOUS
<1>5. s2 = [size EXCEPT ![p] = rest, ![p + rest] = req]
  BY <1>4
<1>6. /\ p + rest \in 1..MaxHeap /\ p + rest \notin Blocks(size) /\ s2 \in [Addrs -> Nat]
      /\ s2[p] = rest /\ s2[p + rest] = req
      /\ \A a \in Addrs : a # p /\ a # p + rest => s2[a] = size[a]
      /\ Tiles(s2, brk) /\ Blocks(s2) = Blocks(size) \cup {p + rest}
  <2>1. Cut(size, s2, brk, p, rest, req)
    BY <1>1, <1>2, <1>3, <1>5 DEF Cut
  <2> QED
    BY <2>1, SplitTiles
<1>7. /\ q # 0 /\ q \notin Blocks(size) /\ \A a \in Addrs : a # p /\ a # q => s2[a] = size[a]
      /\ Blocks(s2) = Blocks(size) \cup {q}
  <2>1. q # 0
    BY <1>4, <1>6
  <2> QED
    BY <1>4, <1>6, <2>1
<1>8. ListOf(s2, held \cup {q}) = F /\ held \cup {q} \in SUBSET Blocks(s2) /\ q \notin F
  BY <1>1, <1>7 DEF ListOf
<1>9. /\ p \in Addrs /\ p \in Nat /\ p # 0 /\ 0 \in Addrs
  BY <1>1, <1>2, BlocksAre
<1>10. Apart(s2, ptr, F) /\ s2[0] = 0
  <2>1. p + s2[p] # ptr[p]
    <3>1. ptr[p] \in F
      BY <1>1, <1>2 DEF Linked, IsNext
    <3> QED
      BY <1>4, <1>6, <1>8, <3>1
  <2>2. ASSUME NEW x \in F, x # p, x # 0 PROVE x + s2[x] # ptr[x]
    BY <1>1, <1>7, <1>8, <2>2 DEF Apart
  <2>3. s2[0] = 0
    BY <1>1, <1>7, <1>9
  <2> QED
    BY <2>1, <2>2, <2>3 DEF Apart
<1>11. Left(s2, ptr, prev, held \cup {q}, brk)
  BY <1>1, <1>2, <1>6, <1>8, <1>10 DEF Left
<1>12. Left(size', ptr', freep', held', brk') /\ brk' \in Addrs /\ req' \in Nat
  BY <1>1, <1>4, <1>11
<1> QED
  BY <1>12, LeftInv

LEMMA TakeInv ==
  ASSUME HeapInv, Take
  PROVE  HeapInv'
<1>1. PICK k : k = CHOOSE i \in Fits(req) : \A j \in Fits(req) : i <= j
  OBVIOUS
<1>2. PICK F, p, prev, rest : /\ F = ListOf(size, held) /\ p = WalkFrom(k) /\ prev = WalkFrom(k - 1)
                              /\ rest = size[p] - req
  OBVIOUS
<1>3. /\ req # 0 /\ Fits(req) # {} /\ freep' = prev /\ req' = 0 /\ brk' = brk
      /\ IF rest = 0
         THEN /\ ptr' = [ptr EXCEPT ![prev] = ptr[p], ![p] = 0]
              /\ held' = held \cup {p} /\ size' = size
         ELSE /\ size' = [size EXCEPT ![p] = rest, ![p + rest] = req]
              /\ held' = held \cup {p + rest} /\ ptr' = ptr
  BY <1>1, <1>2, Zenon DEF Take
<1>4. Found(F, p, prev)
  BY <1>1, <1>2, <1>3, SearchFinds
<1>5. CASE rest = 0
  BY <1>2, <1>3, <1>4, <1>5, TakeWholeInv
<1>6. CASE rest # 0
  BY <1>2, <1>3, <1>4, <1>6, TakeTailInv
<1> QED
  BY <1>5, <1>6

LEMMA HeapNextInv == HeapInv /\ [HeapNext]_heapVars => HeapInv'
<1> SUFFICES ASSUME HeapInv, [HeapNext]_heapVars PROVE HeapInv'
  OBVIOUS
<1>1. ASSUME NEW n \in 1..MaxUnits, Malloc(n) PROVE HeapInv'
  BY <1>1, UmallocAssumption DEF Malloc, HeapInv, ListIs
<1>2. CASE UNCHANGED heapVars
  BY <1>2 DEF heapVars, HeapInv, ListIs
<1> QED
  BY <1>1, <1>2, FreeInv, TakeInv, MoreCoreInv DEF HeapNext

LEMMA HeapInvImplies == HeapInv => HeapTiled
<1> SUFFICES ASSUME HeapInv PROVE HeapTiled
  OBVIOUS
<1>1. PICK F : F = ListOf(size, held)
  OBVIOUS
<1>2. /\ size \in [Addrs -> Nat] /\ ListIs(F) /\ held \in SUBSET Blocks(size)
      /\ Tiles(size, brk) /\ Apart(size, ptr, F) /\ 0 \in F
  BY <1>1 DEF HeapInv, ListIs
<1>3. {WalkFrom(k) : k \in 1..Rounds} = F
  BY <1>2, RoundSeesAll
<1>4. /\ \A b \in Blocks(size) : b \in Nat /\ b # 0 /\ size[b] \in Nat /\ size[b] > 0
      /\ MaxHeap \in Nat /\ brk \in Nat
  BY <1>2, BlocksAre DEF HeapInv
<1>5. FreeBlocks = Blocks(size) \ held /\ held \cup FreeBlocks = Blocks(size)
  BY <1>1, <1>2, <1>3, <1>4 DEF FreeBlocks, ListOf
<1>6. ASSUME NEW a \in 1..brk
      PROVE  Cardinality({b \in Blocks(size) : b <= a /\ a < b + size[b]}) = 1
  <2>1. PICK b \in Blocks(size) : b <= a /\ a < b + size[b]
    BY <1>2 DEF Tiles, Covers
  <2>2. ASSUME NEW c \in Blocks(size), c <= a, a < c + size[c] PROVE c = b
    <3>1. c < b => c + size[c] <= b
      BY <1>2 DEF Tiles, Ordered
    <3>2. b < c => b + size[b] <= c
      BY <1>2 DEF Tiles, Ordered
    <3> QED
      BY <1>4, <2>1, <2>2, <3>1, <3>2
  <2>3. {c \in Blocks(size) : c <= a /\ a < c + size[c]} = {b}
    BY <2>1, <2>2
  <2> QED
    BY <2>3, FS_Singleton
<1>7. \A b \in Blocks(size) : b + size[b] - 1 <= brk
  BY <1>2, <1>4 DEF Tiles, Within
<1>8. ASSUME NEW b \in FreeBlocks, NEW c \in FreeBlocks, b + size[b] = c PROVE FALSE
  <2>1. b \in Blocks(size) /\ c \in Blocks(size) /\ b \in F /\ c \in F /\ b < c
    BY <1>1, <1>4, <1>5, <1>8 DEF ListOf
  <2>2. IsNext(ptr[b], b, F) /\ ptr[b] \in F /\ b + size[b] # ptr[b]
    BY <1>2, <1>4, <2>1 DEF ListIs, Linked, Apart, IsNext
  <2>3. b < ptr[b] /\ ~(b < c /\ c < ptr[b])
    BY <1>4, <2>1, <2>2 DEF IsNext
  <2>4. ptr[b] \in Blocks(size)
    BY <1>1, <1>4, <2>1, <2>2, <2>3 DEF ListOf
  <2>5. b + size[b] <= ptr[b]
    BY <1>2, <2>1, <2>3, <2>4 DEF Tiles, Ordered
  <2> QED
    BY <1>4, <1>8, <2>1, <2>2, <2>3, <2>4, <2>5
<1>9. held \cap FreeBlocks = {}
  BY <1>5
<1> QED
  BY <1>2, <1>3, <1>5, <1>6, <1>7, <1>8, <1>9, Zenon DEF HeapTiled

(* malloc() and free() keep the heap whole: every unit that sbrk() gave is *)
(* in exactly one block, the list that freep goes round holds the base and *)
(* the blocks that are not in use, and no two free blocks touch.           *)
THEOREM HeapAlwaysTiled == HeapInit /\ [][HeapNext]_heapVars => []HeapTiled
<1>1. HeapInit => HeapInv
  BY HeapInitInv
<1>2. HeapInv /\ [HeapNext]_heapVars => HeapInv'
  BY HeapNextInv
<1>3. HeapInv => HeapTiled
  BY HeapInvImplies
<1> QED
  BY <1>1, <1>2, <1>3, PTL
=============================================================================
