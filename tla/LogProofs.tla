----------------------------- MODULE LogProofs -----------------------------
(* Proofs about Log for every set of processes, blocks and contents and    *)
(* every log geometry in which the footprint of a call fits.               *)
EXTENDS Log, FiniteSetTheorems, TLAPS

----------------------------------------------------------------------------
(* Operators *)

(* Log absorption adds the block if it is new, and keeps entries distinct. *)
LEMMA AddOnceFacts ==
  ASSUME NEW S, NEW s \in Seq(S), NEW b \in S
  PROVE  /\ AddOnce(s, b) \in Seq(S)
         /\ Elems(AddOnce(s, b)) = Elems(s) \cup {b}
         /\ Len(AddOnce(s, b)) \in {Len(s), Len(s) + 1}
         /\ b \in Elems(s) => AddOnce(s, b) = s
         /\ b \notin Elems(s) => Len(AddOnce(s, b)) = Len(s) + 1
         /\ Distinct(s) => Distinct(AddOnce(s, b))
<1>1. CASE b \in Elems(s)
  BY <1>1 DEF AddOnce, Elems
<1>2. CASE b \notin Elems(s)
  <2>1. AddOnce(s, b) = Append(s, b)
    BY <1>2 DEF AddOnce
  <2>2. /\ Append(s, b) \in Seq(S)
        /\ Len(Append(s, b)) = Len(s) + 1
        /\ Len(s) \in Nat
        /\ \A i \in 1..Len(s) : Append(s, b)[i] = s[i]
        /\ Append(s, b)[Len(s) + 1] = b
    OBVIOUS
  <2>3. Elems(Append(s, b)) = Elems(s) \cup {b}
    BY <2>2 DEF Elems
  <2>4. Distinct(s) => Distinct(Append(s, b))
    BY <2>2, <1>2 DEF Distinct, Elems
  <2> QED BY <1>2, <2>1, <2>2, <2>3, <2>4
<1> QED BY <1>1, <1>2

LEMMA EmptySeqFacts == Elems(<< >>) = {} /\ Distinct(<< >>) /\ Len(<< >>) = 0
BY DEF Elems, Distinct

(* The calls in progress are finitely many.                                *)
LEMMA ActiveFinite == IsFiniteSet(Active) /\ Cardinality(Active) \in Nat
<1>1. Active \subseteq Procs
  BY DEF Active
<1> QED BY <1>1, LogAssumption, FS_Subset, FS_CardinalityType

(* No call pays for more than its footprint.                               *)
LEMMA PaidBound ==
  /\ IsFiniteSet(Paid)
  /\ Cardinality(Paid) \in Nat
  /\ Cardinality(Paid) <= Cardinality(Active) * OpBlocks
<1>1. IsFiniteSet(1..OpBlocks) /\ Cardinality(1..OpBlocks) = OpBlocks
  BY FS_Interval, LogAssumption
<1>2. /\ IsFiniteSet(Active \X (1..OpBlocks))
      /\ Cardinality(Active \X (1..OpBlocks)) = Cardinality(Active) * OpBlocks
  BY <1>1, ActiveFinite, FS_Product
<1>3. Paid \subseteq Active \X (1..OpBlocks)
  BY DEF Paid
<1> QED BY <1>2, <1>3, FS_Subset, FS_CardinalityType

LEMMA MulMono ==
  ASSUME NEW o \in Nat, NEW m \in Nat, NEW f \in Nat, f <= m, 1 <= o
  PROVE  o * f + (m - f) <= o * m
<1>1. PICK d \in Nat : m = f + d
  <2>1. m - f \in Nat OBVIOUS
  <2> QED BY <2>1
<1>2. PICK k \in Nat : o = k + 1
  <2>1. o - 1 \in Nat OBVIOUS
  <2> QED BY <2>1
<1>3. o * m = o * f + o * d
  BY <1>1
<1>4. o * d = k * d + d
  BY <1>2
<1>5. k * d \in Nat
  OBVIOUS
<1>6. o * f \in Nat /\ o * d \in Nat
  OBVIOUS
<1> QED BY <1>1, <1>3, <1>4, <1>5, <1>6

(* With a footprint that fits, the log has room for one more block at      *)
(* every log_write().                                                      *)
LEMMA Room ==
  ASSUME FootprintFits, TypeOK, CountInv, SpaceInv
  PROVE  /\ Len(lh) < NLog - 1
         /\ Len(dhead) < NLog - 1
         /\ Len(lh) < LogSize
BY LogAssumption DEF FootprintFits, TypeOK, SpaceInv

----------------------------------------------------------------------------
(* Steps that leave the calls in progress alone *)

LEMMA SameCalls ==
  ASSUME UNCHANGED opVars
  PROVE  Active' = Active /\ Locked' = Locked /\ Paid' = Paid
BY DEF opVars, Active, Locked, Paid

LEMMA InitInv == Init => Inv
<1> SUFFICES ASSUME Init PROVE Inv
  OBVIOUS
<1> USE LogAssumption DEF Init
<1>1. TypeOK /\ NoPanic
  <2>1. << >> \in Seq(Blocks)
    OBVIOUS
  <2>2. dlog \in [1..(NLog - 1) -> Vals] /\ cache \in [Blocks -> Vals]
    OBVIOUS
  <2>3. /\ pc \in [Procs -> {"begin", "sleep", "run", "append", "commit"}]
        /\ blk \in [Procs -> Blocks \cup {"none"}]
        /\ wrote \in [Procs -> Seq(Blocks)]
    BY <2>1
  <2> QED BY <2>1, <2>2, <2>3 DEF TypeOK, NoPanic
<1>2. Active = {} /\ Locked = {}
  BY DEF Active, Locked
<1>3. CountInv
  BY <1>2, FS_EmptySet DEF CountInv
<1>4. PhaseInv
  BY DEF PhaseInv
<1>5. SpaceInv
  <2>1. Len(lh) = 0 /\ Len(dhead) = 0
    OBVIOUS
  <2>2. Cardinality(Paid) \in Nat
    BY PaidBound
  <2>3. outstanding * MaxOpBlocks = 0
    OBVIOUS
  <2> QED BY <1>2, <2>1, <2>2, <2>3 DEF SpaceInv
<1>6. DataInv
  BY EmptySeqFacts DEF DataInv
<1>7. QuietInv
  BY DEF QuietInv, NoStrandedSleeper
<1> QED BY <1>1, <1>3, <1>4, <1>5, <1>6, <1>7 DEF Inv

LEMMA WriteLogInv ==
  ASSUME FootprintFits, Inv, WriteLog PROVE Inv'
<1> USE DEF Inv
<1>0. UNCHANGED opVars /\ UNCHANGED <<disk, dhead, cache, dirty, lh,
        outstanding, committing, phase, up, panic, pc, blk, wrote>>
  BY DEF WriteLog, opVars
<1>1. Active' = Active /\ Locked' = Locked /\ Paid' = Paid
  BY <1>0, SameCalls
<1>2. /\ phase = "write_log" /\ tail < Len(lh) /\ tail' = tail + 1
      /\ dlog' = [dlog EXCEPT ![tail + 1] = cache[lh[tail + 1]]]
      /\ tail + 1 \in 1..Len(lh) /\ tail + 1 \in 1..(NLog - 1)
  BY Room, LogAssumption DEF WriteLog, TypeOK
<1>3. TypeOK'
  BY <1>0, <1>2 DEF TypeOK
<1>4. NoPanic' /\ CountInv' /\ PhaseInv' /\ QuietInv'
  BY <1>0, <1>1 DEF NoPanic, CountInv, PhaseInv, QuietInv, NoStrandedSleeper
<1>5. SpaceInv'
  BY <1>0, <1>1 DEF SpaceInv
<1>6. DataInv'
  <2>1. \A i \in 1..(tail + 1) : dlog'[i] = cache[lh[i]]
    BY <1>2, LogAssumption DEF TypeOK, DataInv
  <2> QED BY <1>0, <1>1, <1>2, <2>1 DEF DataInv, TypeOK
<1> QED BY <1>3, <1>4, <1>5, <1>6

LEMMA WriteHeadInv ==
  ASSUME FootprintFits, Inv, WriteHead PROVE Inv'
<1> USE DEF Inv
<1>0. UNCHANGED opVars /\ UNCHANGED <<disk, dlog, cache, dirty, lh,
        outstanding, committing, up, panic, pc, blk, wrote>>
  BY DEF WriteHead, opVars
<1>1. Active' = Active /\ Locked' = Locked /\ Paid' = Paid
  BY <1>0, SameCalls
<1>2. /\ phase = "write_log" /\ tail = Len(lh) /\ tail' = 0
      /\ dhead' = lh /\ phase' = "install"
  BY DEF WriteHead
<1>3. TypeOK'
  BY <1>0, <1>2 DEF TypeOK
<1>4. NoPanic' /\ CountInv' /\ QuietInv'
  BY <1>0, <1>1, <1>2 DEF NoPanic, CountInv, QuietInv, NoStrandedSleeper
<1>5. PhaseInv'
  BY <1>0, <1>2 DEF PhaseInv
<1>6. SpaceInv'
  BY <1>0, <1>1, <1>2 DEF SpaceInv
<1>7. Locked = {}
  BY <1>2 DEF PhaseInv, CountInv, Active, Locked
<1>8. DataInv'
  BY <1>0, <1>1, <1>2, <1>7 DEF DataInv, TypeOK, Elems
<1> QED BY <1>3, <1>4, <1>5, <1>6, <1>8

LEMMA InstallTransInv ==
  ASSUME FootprintFits, Inv, InstallTrans PROVE Inv'
<1> USE DEF Inv
<1>0. UNCHANGED opVars /\ UNCHANGED <<dlog, dhead, lh, outstanding,
        committing, phase, up, panic, pc, blk, wrote>>
  BY DEF InstallTrans, opVars
<1>1. Active' = Active /\ Locked' = Locked /\ Paid' = Paid
  BY <1>0, SameCalls
<1> DEFINE b == lh[tail + 1]
<1>2. /\ phase = "install" /\ tail < Len(lh) /\ tail' = tail + 1
      /\ disk' = [disk EXCEPT ![b] = dlog[tail + 1]]
      /\ cache' = [cache EXCEPT ![b] = dlog[tail + 1]]
      /\ dirty' = dirty \ {b}
      /\ tail + 1 \in 1..Len(lh) /\ tail + 1 \in 1..(NLog - 1) /\ b \in Blocks
  BY Room, LogAssumption DEF InstallTrans, TypeOK
<1>3. TypeOK'
  BY <1>0, <1>2 DEF TypeOK
<1>4. NoPanic' /\ CountInv' /\ PhaseInv' /\ QuietInv'
  BY <1>0, <1>1 DEF NoPanic, CountInv, PhaseInv, QuietInv, NoStrandedSleeper
<1>5. SpaceInv'
  BY <1>0, <1>1 DEF SpaceInv
<1>6. DataInv'
  <2>1. \A i \in 1..(tail + 1) : disk'[lh[i]] = dlog[i]
    BY <1>2 DEF TypeOK, DataInv, Distinct
  <2>2. ASSUME up
        PROVE /\ \A i \in 1..Len(lh) : dlog[i] = cache'[lh[i]]
              /\ \A c \in Blocks \ Elems(lh) : cache'[c] = disk'[c]
              /\ dirty' = {lh[i] : i \in (tail + 2)..Len(lh)}
    <3>1. cache' = cache
      BY <1>2, <2>2 DEF TypeOK, DataInv
    <3>2. b \in Elems(lh)
      BY <1>2 DEF Elems
    <3>3. dirty' = {lh[i] : i \in (tail + 2)..Len(lh)}
      <4>1. dirty = {lh[i] : i \in (tail + 1)..Len(lh)}
        BY <1>2, <2>2 DEF DataInv
      <4>2. \A i \in (tail + 1)..Len(lh) : lh[i] = b <=> i = tail + 1
        BY <1>2 DEF DataInv, Distinct, TypeOK
      <4> QED BY <1>2, <4>1, <4>2 DEF TypeOK
    <3> QED BY <1>2, <2>2, <3>1, <3>2, <3>3 DEF TypeOK, DataInv
  <2>3. ~up => dirty' = {} /\ cache' = disk'
    BY <1>2 DEF DataInv, TypeOK
  <2>4. /\ tail' + 1 = tail + 2 /\ tail' <= Len(lh')
        /\ \A i \in 1..tail' : disk'[lh'[i]] = dlog'[i]
    BY <1>0, <1>2, <2>1 DEF TypeOK
  <2>5. up' => /\ \A i \in 1..Len(lh') : dlog'[i] = cache'[lh'[i]]
               /\ \A c \in Blocks \ Elems(lh') : cache'[c] = disk'[c]
               /\ dirty' = {lh'[i] : i \in (tail' + 1)..Len(lh')}
    BY <1>0, <2>2, <2>4 DEF Elems
  <2>6. Distinct(lh)' /\ Distinct(dhead)' /\ dhead' = lh'
    BY <1>0, <1>2 DEF DataInv, Distinct
  <2> QED BY <1>0, <1>2, <2>3, <2>4, <2>5, <2>6 DEF DataInv
<1> QED BY <1>3, <1>4, <1>5, <1>6

LEMMA ClearHeadInv ==
  ASSUME FootprintFits, Inv, ClearHead PROVE Inv'
<1> USE DEF Inv
<1>0. UNCHANGED opVars /\ UNCHANGED <<disk, dlog, cache, dirty, outstanding,
        committing, panic, pc, blk, wrote>>
  BY DEF ClearHead, opVars
<1>1. Active' = Active /\ Locked' = Locked /\ Paid' = Paid
  BY <1>0, SameCalls
<1>2. /\ phase = "install" /\ tail = Len(lh) /\ tail' = 0 /\ up' = TRUE
      /\ lh' = << >> /\ dhead' = << >>
      /\ phase' = IF up THEN "done" ELSE "idle"
  BY DEF ClearHead
<1>3. TypeOK'
  <2>1. << >> \in Seq(Blocks)
    OBVIOUS
  <2> QED BY <1>0, <1>2, <2>1 DEF TypeOK
<1>4. NoPanic' /\ CountInv'
  BY <1>0, <1>1 DEF NoPanic, CountInv
<1>5. PhaseInv'
  BY <1>0, <1>2 DEF PhaseInv
<1>6. Active = {}
  BY <1>2 DEF PhaseInv, CountInv, Active
<1>7. SpaceInv'
  <2>1. outstanding = 0
    BY <1>6, FS_EmptySet DEF CountInv
  <2>2. outstanding' * MaxOpBlocks = 0
    BY <1>0, <2>1, LogAssumption
  <2>3. Cardinality(Paid) \in Nat
    BY PaidBound
  <2>4. \A p \in Procs : pc'[p] # "append"
    BY <1>0, <1>6 DEF Active
  <2> QED BY <1>0, <1>1, <1>2, <1>6, <2>2, <2>3, <2>4, LogAssumption, EmptySeqFacts
          DEF SpaceInv
<1>8. cache = disk /\ dirty = {}
  <2>1. CASE ~up
    BY <2>1 DEF DataInv
  <2>2. CASE up
    <3>1. dirty = {}
      BY <1>2, <2>2 DEF DataInv, TypeOK
    <3>2. \A b \in Blocks : cache[b] = disk[b]
      BY <1>2, <2>2 DEF DataInv, TypeOK, Elems
    <3> QED BY <3>1, <3>2 DEF TypeOK
  <2> QED BY <2>1, <2>2
<1>9. DataInv'
  BY <1>0, <1>2, <1>8, EmptySeqFacts DEF DataInv
<1>10. QuietInv'
  BY <1>0, <1>1, <1>2 DEF QuietInv, NoStrandedSleeper
<1> QED BY <1>3, <1>4, <1>5, <1>7, <1>9, <1>10

LEMMA ReadHeadInv ==
  ASSUME FootprintFits, Inv, ReadHead PROVE Inv'
<1> USE DEF Inv
<1>0. UNCHANGED opVars /\ UNCHANGED <<disk, dlog, dhead, cache, dirty,
        outstanding, committing, up, panic, pc, blk, wrote>>
  BY DEF ReadHead, opVars, diskVars
<1>1. Active' = Active /\ Locked' = Locked /\ Paid' = Paid
  BY <1>0, SameCalls
<1>2. /\ phase = "read_head" /\ lh' = dhead /\ phase' = "install" /\ tail' = 0
  BY DEF ReadHead
<1>3. TypeOK'
  BY <1>0, <1>2 DEF TypeOK
<1>4. NoPanic' /\ CountInv'
  BY <1>0, <1>1 DEF NoPanic, CountInv
<1>5. PhaseInv'
  BY <1>0, <1>2 DEF PhaseInv
<1>6. \A p \in Procs : pc[p] = "begin"
  BY <1>2 DEF PhaseInv
<1>7. Active = {}
  BY <1>6 DEF Active
<1>8. SpaceInv'
  <2>1. outstanding = 0
    BY <1>7, FS_EmptySet DEF CountInv
  <2>2. outstanding' * MaxOpBlocks = 0
    BY <1>0, <2>1, LogAssumption
  <2>3. Cardinality(Paid) \in Nat
    BY PaidBound
  <2>4. Len(dhead) \in Nat /\ Len(dhead) <= LogSize
    BY LogAssumption DEF SpaceInv, TypeOK
  <2> QED BY <1>0, <1>1, <1>2, <1>6, <1>7, <2>2, <2>3, <2>4, LogAssumption
          DEF SpaceInv
<1>9. DataInv'
  BY <1>0, <1>2 DEF DataInv, PhaseInv, TypeOK
<1>10. QuietInv'
  BY <1>0, <1>1, <1>2 DEF QuietInv, NoStrandedSleeper
<1> QED BY <1>3, <1>4, <1>5, <1>8, <1>9, <1>10

(* Giving the buffer of a clean block away changes no contents.            *)
LEMMA RecycleSame ==
  ASSUME Inv, NEW b \in Blocks, Recycle(b)
  PROVE  cache' = cache
<1> USE DEF Inv
<1>1. b \notin dirty /\ b \notin Locked /\ cache' = [cache EXCEPT ![b] = disk[b]]
  BY DEF Recycle
<1>2. cache[b] = disk[b]
  <2>1. CASE ~up \/ phase = "done"
    BY <2>1 DEF DataInv
  <2>2. CASE phase \in {"idle", "write_log"}
    BY <1>1, <2>2 DEF DataInv
  <2>3. CASE phase = "install" /\ up
    <3>1. CASE b \notin Elems(lh)
      BY <2>3, <3>1 DEF DataInv
    <3>2. CASE b \in Elems(lh)
      <4>1. PICK i \in 1..Len(lh) : lh[i] = b
        BY <3>2 DEF Elems
      <4>2. i \in 1..tail
        BY <1>1, <2>3, <4>1 DEF DataInv, TypeOK
      <4> QED BY <2>3, <4>1, <4>2 DEF DataInv
    <3> QED BY <3>1, <3>2
  <2> QED BY <2>1, <2>2, <2>3 DEF TypeOK, PhaseInv
<1> QED BY <1>1, <1>2 DEF TypeOK

LEMMA UnchangedInv == ASSUME Inv, UNCHANGED vars PROVE Inv'
<1>1. UNCHANGED opVars
  BY DEF vars, opVars
<1>2. Active' = Active /\ Locked' = Locked /\ Paid' = Paid
  BY <1>1, SameCalls
<1> USE DEF Inv, vars
<1>3. TypeOK' /\ NoPanic' /\ CountInv' /\ PhaseInv'
  BY <1>2 DEF TypeOK, NoPanic, CountInv, PhaseInv
<1>4. SpaceInv' /\ QuietInv'
  BY <1>2 DEF SpaceInv, QuietInv, NoStrandedSleeper
<1>5. DataInv'
  BY <1>2 DEF DataInv
<1> QED BY <1>3, <1>4, <1>5

LEMMA RecycleInv ==
  ASSUME Inv, NEW b \in Blocks, Recycle(b) PROVE Inv'
<1>1. UNCHANGED vars
  BY RecycleSame DEF Recycle, diskVars, commitVars, opVars, vars
<1> QED BY <1>1, UnchangedInv

LEMMA CrashInv ==
  ASSUME FootprintFits, Inv, Crash PROVE Inv'
<1> USE DEF Inv, Crash
<1>0. UNCHANGED <<disk, dlog, dhead>>
  BY DEF diskVars
<1>1. Active' = {} /\ Locked' = {}
  BY DEF Active, Locked
<1>2. TypeOK' /\ NoPanic'
  <2>1. << >> \in Seq(Blocks)
    OBVIOUS
  <2> QED BY <1>0, <2>1 DEF TypeOK, NoPanic
<1>3. CountInv' /\ PhaseInv'
  BY <1>1, FS_EmptySet DEF CountInv, PhaseInv
<1>4. SpaceInv'
  <2>1. Paid' = {}
    BY <1>1 DEF Paid
  <2>2. Cardinality(Paid') = 0
    BY <2>1, FS_EmptySet
  <2>3. outstanding' * MaxOpBlocks = 0
    BY LogAssumption
  <2> QED BY <1>0, <1>1, <2>2, <2>3, LogAssumption, EmptySeqFacts DEF SpaceInv
<1>5. DataInv'
  BY <1>0, EmptySeqFacts DEF DataInv
<1>6. QuietInv'
  BY DEF QuietInv, NoStrandedSleeper
<1> QED BY <1>2, <1>3, <1>4, <1>5, <1>6

----------------------------------------------------------------------------
(* Steps of file system calls *)

LEMMA BeginOpSleepInv ==
  ASSUME FootprintFits, Inv, NEW p \in Procs, BeginOpSleep(p) PROVE Inv'
<1> USE DEF Inv
<1>0. UNCHANGED <<disk, dlog, dhead, cache, dirty, lh, outstanding, committing,
        phase, tail, up, panic, blk, wrote>>
  BY DEF BeginOpSleep, diskVars, commitVars
<1>1. /\ up /\ pc[p] = "begin" /\ pc' = [pc EXCEPT ![p] = "sleep"]
      /\ committing \/ Reserved > LogSize
  BY DEF BeginOpSleep
<1>2. Active' = Active /\ Locked' = Locked
  BY <1>0, <1>1 DEF Active, Locked, TypeOK
<1>3. Paid' = Paid
  BY <1>0, <1>2 DEF Paid
<1>4. TypeOK' /\ NoPanic' /\ CountInv'
  BY <1>0, <1>1, <1>2 DEF TypeOK, NoPanic, CountInv
<1>5. PhaseInv'
  BY <1>0, <1>1 DEF PhaseInv, TypeOK
<1>6. SpaceInv'
  BY <1>0, <1>1, <1>2, <1>3 DEF SpaceInv, TypeOK
<1>7. DataInv'
  BY <1>0, <1>2 DEF DataInv
<1>8. \E q \in Procs : pc'[q] \in {"run", "append", "commit"}
  <2>1. CASE committing
    BY <1>1, <2>1 DEF PhaseInv, TypeOK
  <2>2. CASE ~committing
    <3>1. Active # {}
      <4> SUFFICES ASSUME Active = {} PROVE FALSE
        OBVIOUS
      <4>1. lh = << >> /\ outstanding = 0
        BY <1>1, <2>2, FS_EmptySet DEF QuietInv, PhaseInv, CountInv, TypeOK
      <4>2. Reserved = MaxOpBlocks
        BY <4>1, LogAssumption, EmptySeqFacts DEF Reserved
      <4> QED BY <1>1, <2>2, <4>2, LogAssumption
    <3> QED BY <1>1, <3>1 DEF Active, TypeOK
  <2> QED BY <2>1, <2>2 DEF TypeOK
<1>9. QuietInv'
  BY <1>0, <1>2, <1>8 DEF QuietInv, NoStrandedSleeper
<1> QED BY <1>4, <1>5, <1>6, <1>7, <1>9

LEMMA BeginOpEnterInv ==
  ASSUME FootprintFits, Inv, NEW p \in Procs, BeginOpEnter(p) PROVE Inv'
<1> USE DEF Inv
<1>0. UNCHANGED <<disk, dlog, dhead, cache, dirty, lh, committing, phase, tail,
        up, panic, blk>>
  BY DEF BeginOpEnter, diskVars, commitVars
<1>1. /\ up /\ pc[p] = "begin" /\ pc' = [pc EXCEPT ![p] = "run"]
      /\ ~committing /\ Reserved <= LogSize
      /\ outstanding' = outstanding + 1
      /\ wrote' = [wrote EXCEPT ![p] = << >>]
  BY DEF BeginOpEnter
<1>2. Active' = Active \cup {p} /\ p \notin Active /\ Locked' = Locked
  BY <1>0, <1>1 DEF Active, Locked, TypeOK
<1>3. TypeOK' /\ NoPanic'
  <2>1. << >> \in Seq(Blocks)
    OBVIOUS
  <2> QED BY <1>0, <1>1, <2>1 DEF TypeOK, NoPanic
<1>4. CountInv'
  <2>1. Cardinality(Active \cup {p}) = Cardinality(Active) + 1
    BY <1>2, ActiveFinite, FS_AddElement
  <2> QED BY <1>0, <1>1, <1>2, <2>1 DEF CountInv
<1>5. PhaseInv'
  BY <1>0, <1>1 DEF PhaseInv, TypeOK
<1>6. SpaceInv'
  <2>1. Len(lh) + (outstanding + 1) * MaxOpBlocks <= LogSize
    BY <1>1 DEF Reserved
  <2>2. (Cardinality(Paid) \in Nat)'
    BY PaidBound, PTL
  <2>3. Len(lh') + outstanding' * MaxOpBlocks <= LogSize + Cardinality(Paid')
    <3>1. (outstanding + 1) * MaxOpBlocks \in Nat /\ Len(lh) \in Nat
      BY LogAssumption DEF TypeOK
    <3> QED BY <1>0, <1>1, <2>1, <2>2, <3>1, LogAssumption
  <2>4. \A q \in Active' : /\ Len(wrote'[q]) <= OpBlocks
                           /\ Elems(wrote'[q]) \subseteq Elems(lh')
    BY <1>0, <1>1, <1>2, EmptySeqFacts, LogAssumption DEF SpaceInv, TypeOK
  <2>5. \A q \in Procs : pc'[q] = "append" =>
          q # p /\ pc[q] = "append" /\ wrote'[q] = wrote[q]
    BY <1>1 DEF TypeOK
  <2> QED BY <1>0, <2>3, <2>4, <2>5 DEF SpaceInv
<1>7. DataInv'
  BY <1>0, <1>2 DEF DataInv
<1>8. QuietInv'
  BY <1>0, <1>1, <1>2 DEF QuietInv, NoStrandedSleeper, TypeOK
<1> QED BY <1>3, <1>4, <1>5, <1>6, <1>7, <1>8

(* The checks of log_write() pass.                                         *)
LEMMA LogWritePasses ==
  ASSUME FootprintFits, Inv, NEW p \in Procs, pc[p] = "run"
  PROVE  /\ ~(Len(lh) >= LogSize \/ Len(lh) >= NLog - 1 \/ outstanding < 1)
         /\ ~committing /\ phase = "idle" /\ outstanding > 0
<1> USE DEF Inv
<1>1. p \in Active
  BY DEF Active
<1>2. outstanding # 0 /\ outstanding \in Nat
  BY <1>1, ActiveFinite, FS_EmptySet DEF CountInv, TypeOK
<1>3. ~committing /\ up
  BY <1>1 DEF CountInv, PhaseInv
<1>4. phase = "idle"
  BY <1>3 DEF PhaseInv, TypeOK
<1> QED BY <1>2, <1>3, <1>4, Room, LogAssumption DEF TypeOK

LEMMA LogWriteCheckInv ==
  ASSUME FootprintFits, Inv, NEW p \in Procs, NEW b \in Blocks, NEW v \in Vals,
         LogWriteCheck(p, b, v)
  PROVE  Inv'
<1> USE DEF Inv
<1>0. UNCHANGED <<disk, dlog, dhead, dirty, lh, outstanding, committing, phase,
        tail, up, wrote>>
  BY DEF LogWriteCheck, diskVars, commitVars
<1>1. /\ up /\ pc[p] = "run" /\ b \notin Locked
      /\ b \in Elems(wrote[p]) \/ Len(wrote[p]) < OpBlocks
      /\ cache' = [cache EXCEPT ![b] = v]
  BY DEF LogWriteCheck
<1>2. ~committing /\ phase = "idle"
  BY <1>1, LogWritePasses
<1>3. /\ pc' = [pc EXCEPT ![p] = "append"]
      /\ blk' = [blk EXCEPT ![p] = b]
      /\ panic' = panic
  BY <1>1, LogWritePasses DEF LogWriteCheck
<1>4. Active' = Active /\ Locked' = Locked \cup {b}
  BY <1>1, <1>3 DEF Active, Locked, TypeOK
<1>5. Paid' = Paid
  BY <1>0, <1>4 DEF Paid
<1>6. TypeOK' /\ NoPanic' /\ CountInv'
  BY <1>0, <1>1, <1>3, <1>4 DEF TypeOK, NoPanic, CountInv
<1>7. PhaseInv'
  BY <1>0, <1>1, <1>3 DEF PhaseInv, TypeOK
<1>8. SpaceInv'
  <2>1. \A q \in Procs : pc'[q] = "append" =>
          /\ blk'[q] \in Blocks
          /\ blk'[q] \in Elems(wrote[q]) \/ Len(wrote[q]) < OpBlocks
    BY <1>1, <1>3 DEF SpaceInv, TypeOK
  <2> QED BY <1>0, <1>4, <1>5, <2>1 DEF SpaceInv
<1>9. DataInv'
  <2>1. \A c \in Blocks \ (dirty \cup Locked') : cache'[c] = disk[c]
    BY <1>1, <1>2, <1>4 DEF DataInv, TypeOK
  <2> QED BY <1>0, <1>1, <1>2, <2>1 DEF DataInv
<1>10. QuietInv'
  BY <1>0, <1>1, <1>3, <1>4 DEF QuietInv, NoStrandedSleeper, TypeOK
<1> QED BY <1>6, <1>7, <1>8, <1>9, <1>10

LEMMA LogWriteAppendInv ==
  ASSUME FootprintFits, Inv, NEW p \in Procs, LogWriteAppend(p) PROVE Inv'
<1> USE DEF Inv
<1> DEFINE b == blk[p]
<1>0. UNCHANGED <<disk, dlog, dhead, cache, outstanding, committing, phase,
        tail, up, panic>>
  BY DEF LogWriteAppend, diskVars, commitVars
<1>1. /\ up /\ pc[p] = "append" /\ pc' = [pc EXCEPT ![p] = "run"]
      /\ lh' = AddOnce(lh, b) /\ dirty' = dirty \cup {b}
      /\ wrote' = [wrote EXCEPT ![p] = AddOnce(wrote[p], b)]
      /\ blk' = [blk EXCEPT ![p] = "none"]
  BY DEF LogWriteAppend
<1>2. b \in Blocks /\ p \in Active /\ wrote[p] \in Seq(Blocks) /\ lh \in Seq(Blocks)
  BY <1>1 DEF SpaceInv, Active, TypeOK
<1>3. ~committing /\ phase = "idle"
  BY <1>1, <1>2 DEF CountInv, PhaseInv, TypeOK
<1>4. Active' = Active
  BY <1>1 DEF Active, TypeOK
<1>5. /\ AddOnce(lh, b) \in Seq(Blocks) /\ AddOnce(wrote[p], b) \in Seq(Blocks)
      /\ Elems(AddOnce(lh, b)) = Elems(lh) \cup {b}
      /\ Elems(AddOnce(wrote[p], b)) = Elems(wrote[p]) \cup {b}
      /\ Len(AddOnce(lh, b)) \in {Len(lh), Len(lh) + 1}
      /\ Distinct(lh) => Distinct(AddOnce(lh, b))
  BY <1>2, AddOnceFacts, ZenonT(60)
<1>6. TypeOK' /\ NoPanic' /\ CountInv'
  BY <1>0, <1>1, <1>2, <1>4, <1>5 DEF TypeOK, NoPanic, CountInv
<1>7. PhaseInv'
  BY <1>0, <1>1 DEF PhaseInv, TypeOK
<1>8. SpaceInv'
  <2>1. /\ Len(AddOnce(wrote[p], b)) <= OpBlocks
        /\ Len(lh') + outstanding' * MaxOpBlocks <= LogSize + Cardinality(Paid')
    <3>0. /\ Len(lh) + outstanding * MaxOpBlocks <= LogSize + Cardinality(Paid)
          /\ Len(wrote[p]) <= OpBlocks /\ Len(lh) \in Nat /\ Len(wrote[p]) \in Nat
          /\ Cardinality(Paid) \in Nat /\ outstanding * MaxOpBlocks \in Nat
      BY <1>2, PaidBound, LogAssumption DEF SpaceInv, TypeOK
    <3>1. CASE b \in Elems(wrote[p])
      <4>1. AddOnce(wrote[p], b) = wrote[p] /\ wrote' = wrote
        BY <1>1, <1>2, <3>1, AddOnceFacts DEF TypeOK
      <4>2. b \in Elems(lh)
        BY <1>2, <3>1 DEF SpaceInv
      <4>3. lh' = lh
        BY <1>1, <1>2, <4>2, AddOnceFacts
      <4>4. Paid' = Paid
        BY <1>4, <4>1 DEF Paid
      <4> QED BY <1>0, <3>0, <4>1, <4>3, <4>4
    <3>2. CASE b \notin Elems(wrote[p])
      <4> DEFINE x == <<p, Len(wrote[p]) + 1>>
      <4>1. Len(AddOnce(wrote[p], b)) = Len(wrote[p]) + 1
        BY <1>2, <3>2, AddOnceFacts
      <4>2. Len(wrote[p]) < OpBlocks
        BY <1>1, <3>2 DEF SpaceInv
      <4>3. x \notin Paid
        BY <3>0 DEF Paid
      <4>4. Paid' = Paid \cup {x}
        <5>1. \A q \in Procs : q # p => wrote'[q] = wrote[q]
          BY <1>1 DEF TypeOK
        <5>2. Len(wrote'[p]) = Len(wrote[p]) + 1
          BY <1>1, <4>1 DEF TypeOK
        <5>3. x \in Active \X (1..OpBlocks)
          BY <1>2, <3>0, <4>2, LogAssumption
        <5>4. \A y \in Active \X (1..OpBlocks) :
                y[2] <= Len(wrote'[y[1]]) <=> (y[2] <= Len(wrote[y[1]]) \/ y = x)
          <6> SUFFICES ASSUME NEW q \in Active, NEW k \in 1..OpBlocks
                       PROVE k <= Len(wrote'[q]) <=> (k <= Len(wrote[q]) \/ <<q, k>> = x)
            OBVIOUS
          <6>1. CASE q # p
            BY <5>1, <6>1 DEF Active
          <6>2. CASE q = p
            BY <3>0, <5>2, <6>2, LogAssumption, SMTT(30)
          <6> QED BY <6>1, <6>2
        <5> QED BY <1>4, <5>3, <5>4 DEF Paid
      <4>5. Cardinality(Paid') = Cardinality(Paid) + 1
        BY <4>3, <4>4, PaidBound, FS_AddElement
      <4>6. Len(lh') <= Len(lh) + 1
        BY <1>1, <1>5, <3>0
      <4>7. Len(lh') \in Nat
        BY <1>6 DEF TypeOK
      <4> HIDE DEF x, b
      <4> QED BY <1>0, <3>0, <4>1, <4>2, <4>5, <4>6, <4>7, LogAssumption
    <3> QED BY <3>1, <3>2
  <2>2. Len(lh') <= LogSize - MaxOpBlocks + OpBlocks
    <3>1. outstanding \in Nat /\ outstanding >= 1
      BY <1>2, ActiveFinite, FS_EmptySet DEF CountInv, TypeOK
    <3>2. (Cardinality(Paid) \in Nat
             /\ Cardinality(Paid) <= Cardinality(Active) * OpBlocks)'
      BY PaidBound, PTL
    <3>3. Cardinality(Paid') <= outstanding * OpBlocks
      BY <1>4, <3>2 DEF CountInv
    <3>4. outstanding * OpBlocks + (MaxOpBlocks - OpBlocks) <= outstanding * MaxOpBlocks
      BY <3>1, MulMono, LogAssumption
    <3>5. outstanding * OpBlocks \in Nat /\ outstanding * MaxOpBlocks \in Nat
      BY <3>1, LogAssumption
    <3>6. Len(lh') \in Nat /\ outstanding' * MaxOpBlocks = outstanding * MaxOpBlocks
      BY <1>0, <1>6 DEF TypeOK
    <3> QED BY <2>1, <3>2, <3>3, <3>4, <3>5, <3>6, LogAssumption
  <2>3. \A q \in Active' : /\ Len(wrote'[q]) <= OpBlocks
                           /\ Elems(wrote'[q]) \subseteq Elems(lh')
    <3> TAKE q \in Active'
    <3>1. CASE q = p
      BY <1>1, <1>2, <1>5, <2>1, <3>1 DEF SpaceInv, TypeOK
    <3>2. CASE q # p
      BY <1>1, <1>4, <1>5, <3>2 DEF SpaceInv, TypeOK, Active
    <3> QED BY <3>1, <3>2
  <2>4. \A q \in Procs : pc'[q] = "append" =>
          q # p /\ pc[q] = "append" /\ wrote'[q] = wrote[q] /\ blk'[q] = blk[q]
    BY <1>1 DEF TypeOK
  <2> QED BY <1>0, <2>1, <2>2, <2>3, <2>4 DEF SpaceInv
<1>9. DataInv'
  <2>1. Locked \subseteq Locked' \cup {b}
    BY <1>1 DEF Locked, TypeOK
  <2>2. \A c \in Blocks \ (dirty' \cup Locked') : cache[c] = disk[c]
    BY <1>1, <1>3, <2>1 DEF DataInv
  <2>3. dirty' = Elems(lh')
    BY <1>1, <1>3, <1>5 DEF DataInv
  <2>4. Distinct(lh')
    BY <1>1, <1>5 DEF DataInv
  <2> QED BY <1>0, <1>1, <1>3, <2>2, <2>3, <2>4 DEF DataInv
<1>10. QuietInv'
  BY <1>0, <1>1, <1>2, <1>4 DEF QuietInv, NoStrandedSleeper, TypeOK, Active
<1> QED BY <1>6, <1>7, <1>8, <1>9, <1>10

(* wakeup(&log) leaves nobody asleep and moves nobody else.                *)
LEMMA WakeupFacts ==
  ASSUME NEW f \in [Procs -> {"begin", "sleep", "run", "append", "commit"}]
  PROVE  /\ Wakeup(f) \in [Procs -> {"begin", "sleep", "run", "append", "commit"}]
         /\ \A q \in Procs : /\ Wakeup(f)[q] # "sleep"
                             /\ f[q] # "sleep" => Wakeup(f)[q] = f[q]
                             /\ Wakeup(f)[q] # "begin" => Wakeup(f)[q] = f[q]
BY DEF Wakeup

LEMMA EndOpInv ==
  ASSUME FootprintFits, Inv, NEW p \in Procs, EndOp(p) PROVE Inv'
<1> USE DEF Inv
<1>0. UNCHANGED <<disk, dlog, dhead, cache, dirty, lh, up, blk, wrote>>
  BY DEF EndOp, diskVars
<1>1. /\ up /\ pc[p] = "run" /\ outstanding' = outstanding - 1
      /\ p \in Active /\ outstanding \in Nat /\ outstanding > 0
      /\ ~committing /\ phase = "idle"
  BY LogWritePasses DEF EndOp, Active, TypeOK
<1> DEFINE Last ==
             /\ outstanding' = 0 /\ committing' = TRUE /\ tail' = 0
             /\ phase' = IF lh = << >> THEN "done" ELSE "write_log"
             /\ pc' = [pc EXCEPT ![p] = "commit"]
           NotLast ==
             /\ outstanding' # 0
             /\ pc' = Wakeup([pc EXCEPT ![p] = "begin"])
             /\ UNCHANGED <<committing, phase, tail>>
<1>2. panic' = panic /\ (Last \/ NotLast)
  BY <1>1 DEF EndOp, commitVars
<1>3. /\ pc' \in [Procs -> {"begin", "sleep", "run", "append", "commit"}]
      /\ pc'[p] \in {"begin", "commit"}
      /\ \A q \in Procs \ {p} : pc'[q] = pc[q] \/ (pc[q] = "sleep" /\ pc'[q] = "begin")
  <2>1. CASE Last
    BY <2>1 DEF TypeOK
  <2>2. CASE NotLast
    <3>1. [pc EXCEPT ![p] = "begin"]
            \in [Procs -> {"begin", "sleep", "run", "append", "commit"}]
      BY DEF TypeOK
    <3> QED BY <2>2, <3>1, WakeupFacts DEF TypeOK, Wakeup
  <2> QED BY <1>2, <2>1, <2>2
<1>4. Active' = Active \ {p} /\ Locked' = Locked
  <2>1. \A q \in Procs : pc'[q] = "append" <=> pc[q] = "append"
    BY <1>1, <1>3
  <2> QED BY <1>0, <1>1, <1>3, <2>1 DEF Active, Locked
<1>5. Cardinality(Active') = Cardinality(Active) - 1
  BY <1>1, <1>4, ActiveFinite, FS_RemoveElement
<1>6. TypeOK' /\ NoPanic'
  <2>1. CASE Last
    <3>1. phase' \in {"read_head", "idle", "write_log", "install", "done"}
      BY <2>1
    <3>2. outstanding' \in Nat /\ committing' \in BOOLEAN /\ tail' \in Nat
      BY <2>1
    <3> HIDE DEF Last
    <3> QED BY <1>0, <1>2, <1>3, <3>1, <3>2 DEF TypeOK, NoPanic
  <2>2. CASE NotLast
    <3>1. UNCHANGED <<committing, phase, tail>>
      BY <2>2
    <3>2. outstanding' \in Nat
      BY <1>1
    <3> HIDE DEF NotLast
    <3> QED BY <1>0, <1>2, <1>3, <3>1, <3>2 DEF TypeOK, NoPanic
  <2> QED BY <1>2, <2>1, <2>2
<1>7. CountInv'
  <2>1. IsFiniteSet(Active')
    BY <1>4, ActiveFinite, FS_RemoveElement
  <2>2. outstanding' = 0 => Active' = {}
    BY <1>1, <1>5, <2>1, FS_EmptySet DEF CountInv
  <2> QED BY <1>1, <1>2, <1>5, <2>2 DEF CountInv
<1>8. PhaseInv'
  <2>1. CASE Last
    BY <1>0, <1>1, <1>3, <2>1 DEF PhaseInv, TypeOK
  <2>2. CASE NotLast
    <3>1. \A q \in Procs : pc'[q] # "commit"
      <4>1. \A q \in Procs : pc[q] # "commit"
        BY <1>1 DEF PhaseInv
      <4>2. pc'[p] = "begin"
        BY <2>2 DEF Wakeup, TypeOK
      <4> QED BY <1>3, <4>1, <4>2
    <3>2. committing' = FALSE /\ phase' = "idle" /\ up' = TRUE
      BY <1>0, <1>1, <2>2 DEF TypeOK
    <3> QED BY <3>1, <3>2 DEF PhaseInv
  <2> QED BY <1>2, <2>1, <2>2
<1>9. SpaceInv'
  <2>1. Cardinality(Paid) <= Cardinality(Paid') + OpBlocks
    <3> DEFINE own == {p} \X (1..OpBlocks)
    <3>1. IsFiniteSet(own) /\ Cardinality(own) = OpBlocks
      <4>1. IsFiniteSet({p}) /\ Cardinality({p}) = 1
        BY FS_Singleton
      <4>2. IsFiniteSet(1..OpBlocks) /\ Cardinality(1..OpBlocks) = OpBlocks
        BY FS_Interval, LogAssumption
      <4>3. IsFiniteSet(own) /\ Cardinality(own) = Cardinality({p}) * Cardinality(1..OpBlocks)
        BY <4>1, <4>2, FS_Product
      <4> QED BY <4>1, <4>2, <4>3, LogAssumption
    <3>2. Paid \subseteq Paid' \cup own
      BY <1>0, <1>4 DEF Paid
    <3>3. (IsFiniteSet(Paid) /\ Cardinality(Paid) \in Nat)'
      BY PaidBound, PTL
    <3>4. /\ IsFiniteSet(Paid' \cup own)
          /\ Cardinality(Paid' \cup own)
               = Cardinality(Paid') + Cardinality(own) - Cardinality(Paid' \cap own)
      BY <3>1, <3>3, FS_Union
    <3>5. Cardinality(Paid' \cap own) \in Nat
      BY <3>1, FS_Intersection, FS_CardinalityType, FS_Subset
    <3>6. Cardinality(Paid) <= Cardinality(Paid' \cup own)
      BY <3>2, <3>4, FS_Subset
    <3> HIDE DEF own
    <3> QED BY <3>1, <3>3, <3>4, <3>5, <3>6, PaidBound, LogAssumption
  <2>2. (outstanding - 1) * MaxOpBlocks = outstanding * MaxOpBlocks - MaxOpBlocks
    BY <1>1, LogAssumption
  <2>3. outstanding * MaxOpBlocks \in Nat
    BY <1>1, LogAssumption
  <2>4. (Cardinality(Paid) \in Nat)'
    BY PaidBound, PTL
  <2>5. Len(lh) \in Nat
    BY DEF TypeOK
  <2>6. Len(lh') + outstanding' * MaxOpBlocks <= LogSize + Cardinality(Paid')
    <3>1. Len(lh) + outstanding * MaxOpBlocks <= LogSize + Cardinality(Paid)
      BY DEF SpaceInv
    <3>2. outstanding' * MaxOpBlocks = outstanding * MaxOpBlocks - MaxOpBlocks
      BY <1>1, <2>2
    <3> QED BY <1>0, <2>1, <2>3, <2>4, <2>5, <3>1, <3>2, PaidBound, LogAssumption
  <2>7. \A q \in Procs : pc'[q] = "append" => pc[q] = "append"
    BY <1>3
  <2> QED BY <1>0, <1>4, <2>6, <2>7 DEF SpaceInv
<1>10. DataInv'
  <2>1. CASE Last
    <3>1. Locked' = {}
      BY <1>7, <2>1 DEF CountInv, Active, Locked
    <3>2. Distinct(lh') /\ Distinct(dhead') /\ dhead' = << >> /\ dirty' = Elems(lh')
      BY <1>0, <1>1 DEF DataInv
    <3>3. \A b \in Blocks \ (dirty' \cup Locked') : cache'[b] = disk'[b]
      BY <1>0, <1>1, <1>4 DEF DataInv
    <3>4. CASE lh = << >>
      <4>1. cache' = disk' /\ dirty' = {} /\ lh' = << >>
        BY <1>0, <3>1, <3>2, <3>3, <3>4, EmptySeqFacts DEF TypeOK
      <4> QED BY <1>0, <1>1, <2>1, <3>2, <3>4, <4>1 DEF DataInv
    <3>5. CASE lh # << >>
      <4>1. tail' <= Len(lh') /\ \A i \in 1..tail' : dlog'[i] = cache'[lh'[i]]
        BY <1>0, <2>1 DEF TypeOK
      <4> QED BY <1>0, <1>1, <2>1, <3>2, <3>3, <3>5, <4>1 DEF DataInv
    <3> QED BY <3>4, <3>5
  <2>2. CASE NotLast
    BY <1>0, <1>1, <1>4, <2>2 DEF DataInv
  <2> QED BY <1>2, <2>1, <2>2
<1>11. QuietInv'
  <2>1. CASE Last
    BY <1>1, <2>1 DEF QuietInv, NoStrandedSleeper, TypeOK
  <2>2. CASE NotLast
    <3>1. Active' # {}
      BY <1>7, <2>2, FS_EmptySet DEF CountInv
    <3>2. \A q \in Procs : pc'[q] # "sleep"
      BY <2>2, WakeupFacts DEF TypeOK
    <3> QED BY <3>1, <3>2 DEF QuietInv, NoStrandedSleeper
  <2> QED BY <1>2, <2>1, <2>2
<1> QED BY <1>6, <1>7, <1>8, <1>9, <1>10, <1>11

LEMMA EndCommitInv ==
  ASSUME FootprintFits, Inv, NEW p \in Procs, EndCommit(p) PROVE Inv'
<1> USE DEF Inv
<1>0. UNCHANGED <<disk, dlog, dhead, cache, dirty, lh, outstanding, tail, up,
        panic, blk, wrote>>
  BY DEF EndCommit, diskVars
<1>1. /\ up /\ pc[p] = "commit" /\ phase = "done"
      /\ committing' = FALSE /\ phase' = "idle"
      /\ pc' = Wakeup([pc EXCEPT ![p] = "begin"])
  BY DEF EndCommit
<1>2. /\ pc' \in [Procs -> {"begin", "sleep", "run", "append", "commit"}]
      /\ pc'[p] = "begin"
      /\ \A q \in Procs \ {p} : pc'[q] = pc[q] \/ (pc[q] = "sleep" /\ pc'[q] = "begin")
      /\ \A q \in Procs : pc'[q] # "sleep"
  BY <1>1, WakeupFacts DEF TypeOK, Wakeup
<1>3. Active = {} /\ Active' = {} /\ Locked' = {}
  <2>1. Active = {}
    BY <1>1 DEF PhaseInv, CountInv
  <2>2. \A q \in Procs : pc'[q] \notin {"run", "append"}
    BY <1>2, <2>1 DEF Active
  <2> QED BY <2>1, <2>2 DEF Active, Locked
<1>4. Paid' = Paid
  BY <1>0, <1>3 DEF Paid
<1>5. TypeOK' /\ NoPanic'
  BY <1>0, <1>1, <1>2 DEF TypeOK, NoPanic
<1>6. CountInv'
  BY <1>0, <1>1, <1>3 DEF CountInv
<1>7. PhaseInv'
  BY <1>0, <1>1, <1>2 DEF PhaseInv, TypeOK
<1>8. SpaceInv'
  <2>1. \A q \in Procs : pc'[q] # "append"
    BY <1>3 DEF Active
  <2> QED BY <1>0, <1>3, <1>4, <2>1 DEF SpaceInv
<1>9. DataInv'
  BY <1>0, <1>1, EmptySeqFacts DEF DataInv
<1>10. QuietInv'
  BY <1>0, <1>1, <1>2 DEF QuietInv, NoStrandedSleeper, DataInv
<1> QED BY <1>5, <1>6, <1>7, <1>8, <1>9, <1>10

----------------------------------------------------------------------------
(* Theorems *)

(* Inv is inductive: every action of the log preserves it.                 *)
LEMMA NextInv == ASSUME FootprintFits, Inv, [Next]_vars PROVE Inv'
<1>1. CASE UNCHANGED vars
  BY <1>1, UnchangedInv
<1>2. ASSUME NEW p \in Procs, BeginOpSleep(p) \/ BeginOpEnter(p) PROVE Inv'
  BY <1>2, BeginOpSleepInv, BeginOpEnterInv
<1>3. ASSUME NEW p \in Procs, LogWriteAppend(p) \/ EndOp(p) \/ EndCommit(p) PROVE Inv'
  BY <1>3, LogWriteAppendInv, EndOpInv, EndCommitInv
<1>4. ASSUME NEW p \in Procs, NEW b \in Blocks, NEW v \in Contents[b],
             LogWriteCheck(p, b, v)
      PROVE Inv'
  <2>1. v \in Vals
    BY LogAssumption
  <2> QED BY <1>4, <2>1, LogWriteCheckInv
<1>5. CASE LogStep
  BY <1>5, WriteLogInv, WriteHeadInv, InstallTransInv, ClearHeadInv, ReadHeadInv
     DEF LogStep
<1>6. ASSUME NEW b \in Blocks, Recycle(b) PROVE Inv'
  BY <1>6, RecycleInv
<1>7. CASE Crash
  BY <1>7, CrashInv
<1> QED BY <1>1, <1>2, <1>3, <1>4, <1>5, <1>6, <1>7 DEF Next

(* Inv holds in every reachable state of the log.                          *)
THEOREM LogInvariant == ASSUME FootprintFits PROVE Spec => []Inv
<1>1. Init => Inv
  BY InitInv
<1>2. Inv /\ [Next]_vars => Inv'
  BY NextInv
<1> QED BY <1>1, <1>2, PTL DEF Spec

(* Every variable of log.c keeps its type; log.outstanding in particular   *)
(* never goes below zero.                                                  *)
THEOREM LogTypeCorrect == ASSUME FootprintFits PROVE Spec => []TypeOK
<1>1. Inv => TypeOK
  BY DEF Inv
<1> QED BY <1>1, LogInvariant, PTL

(* begin_op()'s reservation keeps log_write() from panicking and the log   *)
(* from overflowing, for any number of concurrent calls and any geometry   *)
(* in which the footprint of a call fits.                                  *)
THEOREM LogSpaceReserved == ASSUME FootprintFits PROVE Spec => []SpaceReserved
<1>1. Inv => SpaceReserved
  BY Room, LogAssumption DEF Inv, SpaceReserved, LogFits, TypeOK
<1> QED BY <1>1, LogInvariant, PTL

(* begin_op()/end_op() never lose a wakeup.                                *)
THEOREM LogNoStrandedSleeper == ASSUME FootprintFits PROVE Spec => []NoStrandedSleeper
<1>1. Inv => NoStrandedSleeper
  BY DEF Inv, QuietInv
<1> QED BY <1>1, LogInvariant, PTL

(* Between transactions the disk holds everything the kernel has written.  *)
THEOREM LogQuiescentIsDurable == ASSUME FootprintFits PROVE Spec => []QuiescentIsDurable
<1>1. ASSUME Inv, up, Active = {}, ~committing
      PROVE  cache = disk /\ dhead = << >>
  <2>1. phase = "idle"
    BY <1>1 DEF Inv, PhaseInv, TypeOK
  <2>2. Locked = {} /\ lh = << >>
    BY <1>1, <2>1 DEF Inv, QuietInv, Active, Locked
  <2>3. dirty = {} /\ dhead = << >>
    BY <1>1, <2>1, <2>2, EmptySeqFacts DEF Inv, DataInv
  <2>4. \A b \in Blocks : cache[b] = disk[b]
    BY <1>1, <2>1, <2>2, <2>3 DEF Inv, DataInv
  <2> QED BY <1>1, <2>3, <2>4 DEF Inv, TypeOK
<1>2. Inv => QuiescentIsDurable
  BY <1>1 DEF QuiescentIsDurable
<1> QED BY <1>2, LogInvariant, PTL

----------------------------------------------------------------------------
(* Refinement of AtomicDisk *)

(* What a reboot recovers, block by block.                                 *)
LEMMA DurableFacts ==
  ASSUME Inv
  PROVE  /\ \A i \in 1..Len(dhead) : Durable[dhead[i]] = dlog[i]
         /\ \A b \in Blocks \ Elems(dhead) : Durable[b] = disk[b]
         /\ dhead = << >> => Durable = disk
<1> USE DEF Inv
<1>1. ASSUME NEW i \in 1..Len(dhead) PROVE Durable[dhead[i]] = dlog[i]
  <2>1. dhead[i] \in Blocks /\ dhead[i] \in Elems(dhead)
    BY DEF TypeOK, Elems
  <2>2. (CHOOSE j \in 1..Len(dhead) : dhead[j] = dhead[i]) = i
    BY DEF DataInv, Distinct
  <2> QED BY <2>1, <2>2 DEF Durable
<1>2. \A b \in Blocks \ Elems(dhead) : Durable[b] = disk[b]
  BY DEF Durable
<1>3. dhead = << >> => Durable = disk
  BY EmptySeqFacts DEF Durable, TypeOK
<1> QED BY <1>1, <1>2, <1>3

(* The home disk that an erased header leaves is what the header stood for. *)
LEMMA InstalledIsDurable ==
  ASSUME Inv, phase = "install", tail = Len(lh)
  PROVE  Durable = disk
<1> USE DEF Inv
<1>1. ASSUME NEW b \in Blocks PROVE Durable[b] = disk[b]
  <2>1. CASE b \notin Elems(dhead)
    BY <2>1, DurableFacts
  <2>2. CASE b \in Elems(dhead)
    <3>1. PICK i \in 1..Len(dhead) : dhead[i] = b
      BY <2>2 DEF Elems
    <3>2. dlog[i] = disk[b]
      BY <3>1 DEF DataInv
    <3> QED BY <3>1, <3>2, DurableFacts
  <2> QED BY <2>1, <2>2
<1> QED BY <1>1 DEF Durable, TypeOK

(* Writing the header makes exactly the cache durable.                     *)
LEMMA WriteHeadCommits ==
  ASSUME FootprintFits, Inv, WriteHead PROVE Durable' = cache
<1> USE DEF Inv
<1>1. /\ phase = "write_log" /\ tail = Len(lh) /\ dhead' = lh
      /\ dlog' = dlog /\ disk' = disk /\ cache' = cache
  BY DEF WriteHead
<1>2. Locked = {}
  BY <1>1 DEF PhaseInv, CountInv, Active, Locked
<1>3. Inv'
  BY WriteHeadInv
<1>4. /\ \A i \in 1..Len(dhead') : Durable'[dhead'[i]] = dlog'[i]
      /\ \A b \in Blocks \ Elems(dhead') : Durable'[b] = disk'[b]
  <2>1. (Inv => /\ \A i \in 1..Len(dhead) : Durable[dhead[i]] = dlog[i]
                /\ \A b \in Blocks \ Elems(dhead) : Durable[b] = disk[b])'
    BY DurableFacts, PTL
  <2> QED BY <1>3, <2>1 DEF Elems
<1>5. ASSUME NEW b \in Blocks PROVE Durable'[b] = cache[b]
  <2>1. CASE b \notin Elems(lh)
    <3>1. Durable'[b] = disk[b]
      BY <1>1, <1>4, <2>1
    <3>2. cache[b] = disk[b]
      BY <1>1, <1>2, <2>1 DEF DataInv
    <3> QED BY <3>1, <3>2
  <2>2. CASE b \in Elems(lh)
    <3>1. PICK i \in 1..Len(lh) : lh[i] = b
      BY <2>2 DEF Elems
    <3>2. dlog[i] = cache[b]
      BY <1>1, <3>1 DEF DataInv
    <3> QED BY <1>1, <1>4, <3>1, <3>2
  <2> QED BY <2>1, <2>2
<1>6. Durable' = [b \in Blocks |-> Durable'[b]]
  BY DEF Durable
<1> QED BY <1>5, <1>6 DEF TypeOK

(* Installing a block changes nothing that a reboot would see.             *)
LEMMA InstallTransKeeps ==
  ASSUME FootprintFits, Inv, InstallTrans
  PROVE  Durable' = Durable /\ (up => cache' = cache)
<1> USE DEF Inv
<1> DEFINE b == lh[tail + 1]
<1>1. /\ phase = "install" /\ tail < Len(lh) /\ tail + 1 \in 1..Len(lh)
      /\ dhead' = dhead /\ dlog' = dlog /\ lh' = lh /\ dhead = lh
      /\ disk' = [disk EXCEPT ![b] = dlog[tail + 1]]
      /\ cache' = [cache EXCEPT ![b] = dlog[tail + 1]]
  BY DEF InstallTrans, TypeOK, DataInv
<1>2. b \in Elems(dhead)
  BY <1>1 DEF Elems
<1>3. \A c \in Blocks \ Elems(dhead) : disk'[c] = disk[c]
  BY <1>1, <1>2 DEF TypeOK
<1>4. Durable' = Durable
  BY <1>1, <1>3 DEF Durable, Elems
<1>5. up => cache' = cache
  BY <1>1 DEF DataInv, TypeOK
<1> QED BY <1>4, <1>5

(* Every step of the log is a step of AtomicDisk, or leaves its state      *)
(* alone.                                                                  *)
LEMMA StepRefines ==
  ASSUME FootprintFits, Inv, [Next]_vars PROVE [A!Next]_(A!vars)
<1> USE DEF Inv
<1>0. Inv'
  BY NextInv
<1> DEFINE m == IF up THEN cache ELSE Durable
<1>s. ASSUME Durable' = Durable, m' = m, Active' = Active PROVE [A!Next]_(A!vars)
  BY <1>s DEF A!vars
<1>1. CASE UNCHANGED vars
  <2>1. Durable' = Durable /\ m' = m /\ Active' = Active
    BY <1>1 DEF vars, Durable, Elems, Active
  <2> QED BY <2>1, <1>s
<1>2. ASSUME NEW p \in Procs, BeginOpSleep(p) PROVE [A!Next]_(A!vars)
  <2>1. UNCHANGED <<disk, dlog, dhead, cache, up>>
    BY <1>2 DEF BeginOpSleep, diskVars
  <2>2. Durable' = Durable /\ m' = m
    BY <2>1 DEF Durable, Elems
  <2>3. Active' = Active
    BY <1>2 DEF BeginOpSleep, Active, TypeOK
  <2> QED BY <2>2, <2>3, <1>s
<1>3. ASSUME NEW p \in Procs, BeginOpEnter(p) PROVE [A!Next]_(A!vars)
  <2>1. UNCHANGED <<disk, dlog, dhead, cache, up>>
    BY <1>3 DEF BeginOpEnter, diskVars
  <2>2. Durable' = Durable /\ m' = m
    BY <2>1 DEF Durable, Elems
  <2>3. Active' = Active \cup {p}
    BY <1>3 DEF BeginOpEnter, Active, TypeOK
  <2>4. A!Begin(p)
    BY <2>2, <2>3 DEF A!Begin
  <2> QED BY <2>4 DEF A!Next
<1>4. ASSUME NEW p \in Procs, LogWriteAppend(p) PROVE [A!Next]_(A!vars)
  <2>1. UNCHANGED <<disk, dlog, dhead, cache, up>>
    BY <1>4 DEF LogWriteAppend, diskVars
  <2>2. Durable' = Durable /\ m' = m
    BY <2>1 DEF Durable, Elems
  <2>3. Active' = Active
    BY <1>4 DEF LogWriteAppend, Active, TypeOK
  <2> QED BY <2>2, <2>3, <1>s
<1>5. ASSUME NEW p \in Procs, EndOp(p) PROVE [A!Next]_(A!vars)
  <2>1. UNCHANGED <<disk, dlog, dhead, cache, up>>
    BY <1>5 DEF EndOp, diskVars
  <2>2. Durable' = Durable /\ m' = m
    BY <2>1 DEF Durable, Elems
  <2>3. pc[p] = "run" /\ ~committing
    BY <1>5, LogWritePasses DEF EndOp
  <2>4. /\ \/ pc' = [pc EXCEPT ![p] = "commit"]
           \/ pc' = Wakeup([pc EXCEPT ![p] = "begin"])
    BY <1>5, <2>3 DEF EndOp
  <2>5. \A q \in Procs : pc'[q] \in {"run", "append"}
                           <=> (pc[q] \in {"run", "append"} /\ q # p)
    BY <2>4 DEF Wakeup, TypeOK
  <2>6. Active' = Active \ {p}
    BY <2>5 DEF Active
  <2>7. A!End(p)
    BY <2>2, <2>6 DEF A!End
  <2> QED BY <2>7 DEF A!Next
<1>6. ASSUME NEW p \in Procs, EndCommit(p) PROVE [A!Next]_(A!vars)
  <2>1. UNCHANGED <<disk, dlog, dhead, cache, up>>
    BY <1>6 DEF EndCommit, diskVars
  <2>2. Durable' = Durable /\ m' = m
    BY <2>1 DEF Durable, Elems
  <2>3. pc[p] = "commit" /\ pc' = Wakeup([pc EXCEPT ![p] = "begin"])
    BY <1>6 DEF EndCommit
  <2>4. \A q \in Procs : pc'[q] \in {"run", "append"} <=> pc[q] \in {"run", "append"}
    BY <2>3 DEF Wakeup, TypeOK
  <2>5. Active' = Active
    BY <2>4 DEF Active
  <2> QED BY <2>2, <2>5, <1>s
<1>7. ASSUME NEW p \in Procs, NEW b \in Blocks, NEW v \in Contents[b],
             LogWriteCheck(p, b, v)
      PROVE [A!Next]_(A!vars)
  <2>0. v \in Vals
    BY LogAssumption
  <2>1. /\ UNCHANGED <<disk, dlog, dhead, up>> /\ up
        /\ cache' = [cache EXCEPT ![b] = v] /\ pc[p] = "run"
    BY <1>7 DEF LogWriteCheck, diskVars
  <2>2. Durable' = Durable
    BY <2>1 DEF Durable, Elems
  <2>3. pc' = [pc EXCEPT ![p] = "append"]
    BY <1>7, <2>1, LogWritePasses DEF LogWriteCheck
  <2>4. Active' = Active /\ p \in Active
    BY <2>1, <2>3 DEF Active, TypeOK
  <2>5. A!Write(p, b, v)
    BY <2>1, <2>2, <2>4 DEF A!Write
  <2> QED BY <2>0, <2>5 DEF A!Next
<1>8. ASSUME WriteLog PROVE [A!Next]_(A!vars)
  <2>1. /\ UNCHANGED <<disk, dhead, cache, up>> /\ UNCHANGED opVars
        /\ dhead = << >>
    BY <1>8 DEF WriteLog, DataInv
  <2>2. Durable' = Durable
    BY <2>1, EmptySeqFacts DEF Durable
  <2>3. Active' = Active
    BY <2>1, SameCalls
  <2> QED BY <2>1, <2>2, <2>3, <1>s
<1>9. ASSUME WriteHead PROVE [A!Next]_(A!vars)
  <2>1. Durable' = cache
    BY <1>9, WriteHeadCommits
  <2>2. UNCHANGED opVars /\ cache' = cache /\ up' = up /\ phase = "write_log"
    BY <1>9 DEF WriteHead
  <2>3. up /\ Active = {}
    BY <2>2 DEF PhaseInv, CountInv
  <2>4. Active' = Active
    BY <2>2, SameCalls
  <2>5. A!Commit
    BY <2>1, <2>2, <2>3, <2>4 DEF A!Commit
  <2> QED BY <2>5 DEF A!Next
<1>10. ASSUME InstallTrans PROVE [A!Next]_(A!vars)
  <2>1. Durable' = Durable /\ (up => cache' = cache)
    BY <1>10, InstallTransKeeps
  <2>2. UNCHANGED opVars /\ up' = up
    BY <1>10 DEF InstallTrans
  <2>3. Active' = Active
    BY <2>2, SameCalls
  <2> QED BY <2>1, <2>2, <2>3, <1>s
<1>11. ASSUME ClearHead PROVE [A!Next]_(A!vars)
  <2>1. /\ phase = "install" /\ tail = Len(lh) /\ up' = TRUE /\ dhead' = << >>
        /\ disk' = disk /\ cache' = cache /\ UNCHANGED opVars
    BY <1>11 DEF ClearHead
  <2>2. Durable = disk
    BY <2>1, InstalledIsDurable
  <2>3. Durable' = disk
    BY <2>1, EmptySeqFacts DEF Durable, TypeOK
  <2>4. ~up => cache = disk
    BY DEF DataInv
  <2>5. Active' = Active
    BY <2>1, SameCalls
  <2> QED BY <2>1, <2>2, <2>3, <2>4, <2>5, <1>s
<1>12. ASSUME ReadHead PROVE [A!Next]_(A!vars)
  <2>1. UNCHANGED <<disk, dlog, dhead, cache, up>> /\ UNCHANGED opVars
    BY <1>12 DEF ReadHead, diskVars
  <2>2. Durable' = Durable /\ m' = m
    BY <2>1 DEF Durable, Elems
  <2>3. Active' = Active
    BY <2>1, SameCalls
  <2> QED BY <2>2, <2>3, <1>s
<1>13. ASSUME NEW b \in Blocks, Recycle(b) PROVE [A!Next]_(A!vars)
  <2>1. UNCHANGED <<disk, dlog, dhead, up>> /\ UNCHANGED opVars /\ cache' = cache
    BY <1>13, RecycleSame DEF Recycle, diskVars
  <2>2. Durable' = Durable /\ m' = m
    BY <2>1 DEF Durable, Elems
  <2>3. Active' = Active
    BY <2>1, SameCalls
  <2> QED BY <2>2, <2>3, <1>s
<1>14. ASSUME Crash PROVE [A!Next]_(A!vars)
  <2>1. UNCHANGED <<disk, dlog, dhead>> /\ up' = FALSE
    BY <1>14 DEF Crash, diskVars
  <2>2. Durable' = Durable
    BY <2>1 DEF Durable, Elems
  <2>3. Active' = {}
    BY <1>14 DEF Crash, Active
  <2>4. A!Crash
    BY <2>1, <2>2, <2>3 DEF A!Crash
  <2> QED BY <2>4 DEF A!Next
<1> QED
  BY <1>1, <1>2, <1>3, <1>4, <1>5, <1>6, <1>7, <1>8, <1>9, <1>10, <1>11, <1>12,
     <1>13, <1>14 DEF Next, LogStep

(* The log implements AtomicDisk: whatever the interleaving of calls and   *)
(* wherever the machine stops, a group of file system calls reaches the    *)
(* disk entirely or not at all.                                            *)
THEOREM LogImplementsAtomicDisk ==
  ASSUME FootprintFits PROVE Spec => ImplementsAtomicDisk
<1>1. Init => A!Init
  <2> SUFFICES ASSUME Init PROVE A!Init
    OBVIOUS
  <2>1. Inv /\ dhead = << >> /\ ~up /\ disk \in [Blocks -> Vals]
    BY InitInv DEF Init
  <2>2. Durable = disk
    BY <2>1, DurableFacts
  <2>3. Active = {}
    BY DEF Init, Active
  <2> QED BY <2>1, <2>2, <2>3 DEF A!Init
<1>2. Inv /\ [Next]_vars => [A!Next]_(A!vars)
  BY StepRefines
<1> QED BY <1>1, <1>2, LogInvariant, PTL DEF Spec, ImplementsAtomicDisk, A!Spec

============================================================================
