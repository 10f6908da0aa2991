--------------------------- MODULE BufCacheProofs ---------------------------
(***************************************************************************)
(* Proofs about BufCache: for any number of uses, buffers and blocks the   *)
(* holder of a block sees its latest contents, sleepers wait for a reason, *)
(* and the reference counts are exact.                                     *)
(***************************************************************************)
EXTENDS BufCache, FiniteSetTheorems, WellFoundedInduction, SequenceTheorems, TLAPS

(* Between acquiresleep() and releasesleep().                              *)
Holding == {"iderw", "waitdisk", "have", "release"}

BufRecs ==
  [block : Blocks \cup {NoBlock}, refcnt : Nat, valid : BOOLEAN,
   dirty : BOOLEAN, owner : BufUses \cup {NoUse}, data : Data]

BufTypeOK ==
  /\ buf \in [Bufs -> BufRecs]
  /\ lru \in [Bufs -> Bufs]
  /\ disk \in [Blocks -> Data]
  /\ idequeue \in Seq(Bufs)
  /\ active \in Bufs \cup {0}
  /\ bpc \in [BufUses -> {"idle", "lock", "asleep", "unref"} \cup Holding]
  /\ bufOf \in [BufUses -> Bufs \cup {0}]
  /\ nobufs \in BOOLEAN
  /\ latest \in [Blocks -> Data]

(* Unlinking and relinking loses no buffer.                                *)
ListWhole == \A b \in Bufs : \E n \in Bufs : lru[n] = b

UsesBlock ==
  \A p \in BufUses :
    /\ bufOf[p] = 0 <=> bpc[p] = "idle"
    /\ bufOf[p] # 0 => buf[bufOf[p]].block \in Blocks

(* The sleep lock of a buffer belongs to the process that is inside.       *)
OwnerHolds ==
  /\ \A p \in BufUses : bpc[p] \in Holding => buf[bufOf[p]].owner = p
  /\ \A b \in Bufs : buf[b].owner # NoUse =>
       bufOf[buf[b].owner] = b /\ bpc[buf[b].owner] \in Holding

OneBuffer ==
  \A b, c \in Bufs : buf[b].block = buf[c].block /\ buf[b].block # NoBlock => b = c

(* Where the latest contents of a block are.                               *)
Coherent ==
  /\ \A b \in Bufs : buf[b].dirty => buf[b].valid
  /\ \A b \in Bufs : buf[b].valid =>
       buf[b].block \in Blocks /\ buf[b].data = latest[buf[b].block]
  /\ \A k \in Blocks :
       disk[k] = latest[k] \/ \E b \in Bufs : buf[b].block = k /\ buf[b].dirty
  /\ \A p \in BufUses : bpc[p] \in {"have", "release"} => buf[bufOf[p]].valid

(* idequeue holds the buffers of the processes in iderw(), once each, and  *)
(* the disk works on the first.                                            *)
QueueOK ==
  /\ active = Idestart(idequeue)
  /\ \A n \in DOMAIN idequeue :
       \E p \in BufUses : bpc[p] = "waitdisk" /\ bufOf[p] = idequeue[n]
  /\ \A m, n \in DOMAIN idequeue : idequeue[m] = idequeue[n] => m = n
  /\ \A p \in BufUses : bpc[p] = "waitdisk" =>
       \E n \in DOMAIN idequeue : idequeue[n] = bufOf[p]

AsleepOnOwner ==
  \A p \in BufUses : bpc[p] = "asleep" => buf[bufOf[p]].owner \notin {NoUse, p}

BufInv ==
  /\ BufTypeOK
  /\ ListWhole
  /\ UsersCounted
  /\ UsesBlock
  /\ OwnerHolds
  /\ OneBuffer
  /\ Coherent
  /\ QueueOK
  /\ AsleepOnOwner

----------------------------------------------------------------------------
(* The list and the reference counts *)

(* The null pointer is no buffer.                                          *)
LEMMA NoZero == 0 \notin Bufs
BY DEF Bufs

LEMMA AgeInList ==
  ASSUME ListWhole, NEW b \in Bufs
  PROVE  Age(b) \in Bufs /\ lru[Age(b)] = b
BY DEF ListWhole, Age

(* The backward scan of bget() stops at a buffer it looks for.             *)
LEMMA OldestFound ==
  ASSUME ListWhole, NEW S \in SUBSET Bufs, S # {}
  PROVE  Oldest(S) \in S
<1> DEFINE T == {NBUF - Age(c) : c \in S}
<1>1. \A c \in S : Age(c) \in 1..NBUF
  BY AgeInList DEF Bufs
<1>2. T \subseteq Nat /\ T # {}
  BY <1>1, BufAssumption
<1> HIDE DEF T
<1>3. \E x \in T : \A y \in T : ~(<<y, x>> \in OpToRel(<, Nat))
  BY <1>2, NatLessThanWellFounded, WFMin, Zenon
<1>4. ASSUME NEW x \in Nat, NEW y \in Nat, y < x
      PROVE  <<y, x>> \in OpToRel(<, Nat)
  BY <1>4 DEF OpToRel
<1>5. PICK x \in T : \A y \in T : ~(y < x)
  BY <1>2, <1>3, <1>4, Zenon
<1>6. PICK c \in S : x = NBUF - Age(c)
  BY DEF T
<1>7. \A d \in S : ~(NBUF - Age(d) < NBUF - Age(c))
  BY <1>5, <1>6 DEF T
<1>8. \A d \in S : Age(d) <= Age(c)
  BY <1>1, <1>7, BufAssumption
<1> QED
  BY <1>8 DEF Oldest

(* Moving a buffer to the front keeps all the others in the list.          *)
LEMMA ToFrontWhole ==
  ASSUME lru \in [Bufs -> Bufs], ListWhole, NEW b \in Bufs
  PROVE  /\ ToFront(b) \in [Bufs -> Bufs]
         /\ \A c \in Bufs : \E n \in Bufs : ToFront(b)[n] = c
<1>1. PICK a \in Nat : a = Age(b) /\ a \in Bufs /\ lru[a] = b
  <2>1. Age(b) \in Bufs /\ lru[Age(b)] = b
    BY AgeInList
  <2>2. Bufs \subseteq Nat
    BY BufAssumption DEF Bufs
  <2> QED
    BY <2>1, <2>2
<1>2. \A n \in Bufs : n # 1 => n - 1 \in Bufs
  BY BufAssumption DEF Bufs
<1>3. ToFront(b) \in [Bufs -> Bufs]
  BY <1>2 DEF ToFront
<1>4. ASSUME NEW c \in Bufs
      PROVE  \E n \in Bufs : ToFront(b)[n] = c
  <2>1. PICK m \in Bufs : lru[m] = c
    BY DEF ListWhole
  <2>2. CASE m = a
    <3>1. 1 \in Bufs /\ ToFront(b)[1] = b
      BY BufAssumption DEF ToFront, Bufs
    <3> QED
      BY <1>1, <2>1, <2>2, <3>1
  <2>3. CASE m < a
    <3>1. m + 1 \in Bufs /\ m + 1 # 1 /\ m + 1 <= a /\ (m + 1) - 1 = m
      <4>1. /\ a \in Int /\ a <= NBUF
            /\ m \in Int /\ 1 <= m /\ NBUF \in Int
        BY <1>1, BufAssumption DEF Bufs
      <4>2. m + 1 \in Int /\ 1 <= m + 1 /\ m + 1 <= NBUF
        BY <2>3, <4>1
      <4>3. m + 1 \in Bufs
        BY <4>1, <4>2 DEF Bufs
      <4> QED
        BY <2>3, <4>1, <4>3
    <3>2. ToFront(b)[m + 1] = lru[m]
      BY <1>1, <3>1 DEF ToFront
    <3> QED
      BY <2>1, <3>1, <3>2
  <2>4. CASE m > a
    <3>1. m # 1 /\ ~(m <= a)
      <4>1. a \in Int /\ 1 <= a /\ m \in Int
        BY <1>1, BufAssumption DEF Bufs
      <4> QED
        BY <2>4, <4>1
    <3>2. ToFront(b)[m] = lru[m]
      BY <1>1, <3>1 DEF ToFront
    <3> QED
      BY <2>1, <3>2
  <2> QED
    BY <1>1, <2>2, <2>3, <2>4, BufAssumption DEF Bufs
<1> QED
  BY <1>3, <1>4

(* Sets of processes and of buffers are finite.                            *)
LEMMA UsersFinite ==
  ASSUME NEW b
  PROVE  IsFiniteSet(Users(b)) /\ Cardinality(Users(b)) \in Nat
<1>1. Users(b) \in SUBSET BufUses
  BY DEF Users
<1> QED
  BY <1>1, FS_Subset, FS_CardinalityType, BufAssumption

LEMMA OwnerType ==
  ASSUME BufTypeOK, NEW b \in Bufs
  PROVE  buf[b].owner \in BufUses \cup {NoUse}
BY DEF BufTypeOK, BufRecs

(* A buffer that somebody uses is not recycled.                            *)
LEMMA UsedHasCount ==
  ASSUME UsersCounted, NEW p \in BufUses, bufOf[p] \in Bufs
  PROVE  buf[bufOf[p]].refcnt # 0
<1>1. p \in Users(bufOf[p])
  BY DEF Users
<1> QED
  BY <1>1, UsersFinite, FS_EmptySet DEF UsersCounted

(* What a step leaves alone, field by field.                               *)
SameBlock == \A b \in Bufs : buf'[b].block = buf[b].block
SameCount == \A b \in Bufs : buf'[b].refcnt = buf[b].refcnt
SameValid == \A b \in Bufs : buf'[b].valid = buf[b].valid
SameDirty == \A b \in Bufs : buf'[b].dirty = buf[b].dirty
SameOwner == \A b \in Bufs : buf'[b].owner = buf[b].owner
SameData == \A b \in Bufs : buf'[b].data = buf[b].data

(* bufOf[p] goes from 0 to b, or back.                                     *)
LEMMA UserAdded ==
  ASSUME BufTypeOK, NEW p \in BufUses, NEW b \in Bufs, bufOf[p] = 0,
         bufOf' = [bufOf EXCEPT ![p] = b]
  PROVE  \A c \in Bufs : Cardinality(Users(c))' =
           IF c = b THEN Cardinality(Users(c)) + 1 ELSE Cardinality(Users(c))
<1> TAKE c \in Bufs
<1>1. c # 0
  BY NoZero
<1>2. CASE c = b
  <2>1. Users(c)' = Users(c) \cup {p} /\ p \notin Users(c)
    BY <1>1, <1>2 DEF Users, BufTypeOK
  <2> QED
    BY <1>2, <2>1, UsersFinite, FS_AddElement, ZenonT(60)
<1>3. CASE c # b
  <2>1. Users(c)' = Users(c)
    BY <1>1, <1>3 DEF Users, BufTypeOK
  <2> QED
    BY <1>3, <2>1
<1> QED
  BY <1>2, <1>3

LEMMA UserRemoved ==
  ASSUME BufTypeOK, NEW p \in BufUses, bufOf[p] \in Bufs,
         bufOf' = [bufOf EXCEPT ![p] = 0]
  PROVE  \A c \in Bufs : Cardinality(Users(c))' =
           IF c = bufOf[p] THEN Cardinality(Users(c)) - 1 ELSE Cardinality(Users(c))
<1> TAKE c \in Bufs
<1>1. c # 0
  BY NoZero
<1>2. CASE c = bufOf[p]
  <2>1. Users(c)' = Users(c) \ {p} /\ p \in Users(c)
    BY <1>1, <1>2 DEF Users, BufTypeOK
  <2> QED
    BY <1>2, <2>1, UsersFinite, FS_RemoveElement
<1>3. CASE c # bufOf[p]
  <2>1. Users(c)' = Users(c)
    BY <1>1, <1>3 DEF Users, BufTypeOK
  <2> QED
    BY <1>3, <2>1
<1> QED
  BY <1>2, <1>3

(* The record r has these fields.                                          *)
Fields(r, k, n, v, d, o, x) ==
  /\ r.block = k /\ r.refcnt = n /\ r.valid = v /\ r.dirty = d
  /\ r.owner = o /\ r.data = x

(* The updates of one buffer that the operations make.                     *)
LEMMA SetRefcnt ==
  ASSUME buf \in [Bufs -> BufRecs], NEW b \in Bufs, NEW n \in Nat,
         buf' = [buf EXCEPT ![b] = [@ EXCEPT !.refcnt = n]]
  PROVE  /\ buf' \in [Bufs -> BufRecs]
         /\ SameBlock /\ SameValid /\ SameDirty /\ SameOwner /\ SameData
         /\ \A c \in Bufs : buf'[c].refcnt = IF c = b THEN n ELSE buf[c].refcnt
<1> DEFINE r == [buf[b] EXCEPT !.refcnt = n]
<1>1. r \in BufRecs /\ Fields(r, buf[b].block, n, buf[b].valid,
                          buf[b].dirty, buf[b].owner, buf[b].data)
  BY DEF BufRecs, Fields
<1>2. buf' = [buf EXCEPT ![b] = r]
  OBVIOUS
<1> HIDE DEF r
<1>3. buf' \in [Bufs -> BufRecs] /\ \A c \in Bufs : buf'[c] = IF c = b THEN r ELSE buf[c]
  BY <1>1, <1>2
<1> QED
  BY <1>1, <1>3 DEF Fields, SameBlock, SameValid, SameDirty, SameOwner, SameData

LEMMA SetOwner ==
  ASSUME buf \in [Bufs -> BufRecs], NEW b \in Bufs, NEW p \in BufUses \cup {NoUse},
         buf' = [buf EXCEPT ![b] = [@ EXCEPT !.owner = p]]
  PROVE  /\ buf' \in [Bufs -> BufRecs]
         /\ SameBlock /\ SameCount /\ SameValid /\ SameDirty /\ SameData
         /\ \A c \in Bufs : buf'[c].owner = IF c = b THEN p ELSE buf[c].owner
<1> DEFINE r == [buf[b] EXCEPT !.owner = p]
<1>1. r \in BufRecs /\ Fields(r, buf[b].block, buf[b].refcnt, buf[b].valid,
                          buf[b].dirty, p, buf[b].data)
  BY DEF BufRecs, Fields
<1>2. buf' = [buf EXCEPT ![b] = r]
  OBVIOUS
<1> HIDE DEF r
<1>3. buf' \in [Bufs -> BufRecs] /\ \A c \in Bufs : buf'[c] = IF c = b THEN r ELSE buf[c]
  BY <1>1, <1>2
<1> QED
  BY <1>1, <1>3 DEF Fields, SameBlock, SameCount, SameValid, SameDirty, SameData

LEMMA SetBlock ==
  ASSUME buf \in [Bufs -> BufRecs], NEW b \in Bufs, NEW k \in Blocks,
         buf' = [buf EXCEPT ![b] = [@ EXCEPT !.block = k, !.refcnt = 1, !.valid = FALSE]]
  PROVE  /\ buf' \in [Bufs -> BufRecs]
         /\ SameDirty /\ SameOwner /\ SameData
         /\ \A c \in Bufs : buf'[c].block = IF c = b THEN k ELSE buf[c].block
         /\ \A c \in Bufs : buf'[c].refcnt = IF c = b THEN 1 ELSE buf[c].refcnt
         /\ \A c \in Bufs : buf'[c].valid = IF c = b THEN FALSE ELSE buf[c].valid
<1> DEFINE r == [buf[b] EXCEPT !.block = k, !.refcnt = 1, !.valid = FALSE]
<1>1. r \in BufRecs /\ Fields(r, k, 1, FALSE,
                          buf[b].dirty, buf[b].owner, buf[b].data)
  BY DEF BufRecs, Fields
<1>2. buf' = [buf EXCEPT ![b] = r]
  OBVIOUS
<1> HIDE DEF r
<1>3. buf' \in [Bufs -> BufRecs] /\ \A c \in Bufs : buf'[c] = IF c = b THEN r ELSE buf[c]
  BY <1>1, <1>2
<1> QED
  BY <1>1, <1>3 DEF Fields, SameDirty, SameOwner, SameData

LEMMA SetData ==
  ASSUME buf \in [Bufs -> BufRecs], NEW b \in Bufs, NEW x \in Data,
         buf' = [buf EXCEPT ![b] = [@ EXCEPT !.data = x, !.dirty = TRUE]]
  PROVE  /\ buf' \in [Bufs -> BufRecs]
         /\ SameBlock /\ SameCount /\ SameValid /\ SameOwner
         /\ \A c \in Bufs : buf'[c].dirty = IF c = b THEN TRUE ELSE buf[c].dirty
         /\ \A c \in Bufs : buf'[c].data = IF c = b THEN x ELSE buf[c].data
<1> DEFINE r == [buf[b] EXCEPT !.data = x, !.dirty = TRUE]
<1>1. r \in BufRecs /\ Fields(r, buf[b].block, buf[b].refcnt, buf[b].valid,
                          TRUE, buf[b].owner, x)
  BY DEF BufRecs, Fields
<1>2. buf' = [buf EXCEPT ![b] = r]
  OBVIOUS
<1> HIDE DEF r
<1>3. buf' \in [Bufs -> BufRecs] /\ \A c \in Bufs : buf'[c] = IF c = b THEN r ELSE buf[c]
  BY <1>1, <1>2
<1> QED
  BY <1>1, <1>3 DEF Fields, SameBlock, SameCount, SameValid, SameOwner

LEMMA SetDone ==
  ASSUME buf \in [Bufs -> BufRecs], NEW b \in Bufs, NEW x \in Data,
         buf' = [buf EXCEPT ![b] = [@ EXCEPT !.valid = TRUE, !.dirty = FALSE, !.data = x]]
  PROVE  /\ buf' \in [Bufs -> BufRecs]
         /\ SameBlock /\ SameCount /\ SameOwner
         /\ \A c \in Bufs : buf'[c].valid = IF c = b THEN TRUE ELSE buf[c].valid
         /\ \A c \in Bufs : buf'[c].dirty = IF c = b THEN FALSE ELSE buf[c].dirty
         /\ \A c \in Bufs : buf'[c].data = IF c = b THEN x ELSE buf[c].data
<1> DEFINE r == [buf[b] EXCEPT !.valid = TRUE, !.dirty = FALSE, !.data = x]
<1>1. r \in BufRecs /\ Fields(r, buf[b].block, buf[b].refcnt, TRUE,
                          FALSE, buf[b].owner, x)
  BY DEF BufRecs, Fields
<1>2. buf' = [buf EXCEPT ![b] = r]
  OBVIOUS
<1> HIDE DEF r
<1>3. buf' \in [Bufs -> BufRecs] /\ \A c \in Bufs : buf'[c] = IF c = b THEN r ELSE buf[c]
  BY <1>1, <1>2
<1> QED
  BY <1>1, <1>3 DEF Fields, SameBlock, SameCount, SameOwner

----------------------------------------------------------------------------
(* Every step preserves BufInv *)

(* bget() finds the block in the cache.                                    *)
LEMMA BgetHit ==
  ASSUME BufInv, NEW p \in BufUses, NEW k \in Blocks, Bget(p, k),
         Cached(k) # {}
  PROVE  BufInv'
<1>1. PICK b \in Bufs :
        /\ bpc[p] = "idle" /\ buf[b].block = k
        /\ buf' = [buf EXCEPT ![b] = [@ EXCEPT !.refcnt = buf[b].refcnt + 1]]
        /\ bufOf' = [bufOf EXCEPT ![p] = b]
        /\ bpc' = [bpc EXCEPT ![p] = "lock"]
        /\ UNCHANGED <<nobufs, lru, disk, idequeue, active, latest>>
  BY DEF Bget, Cached, At
<1>2. 0 \notin Bufs
  BY NoZero
<1>3. bufOf[p] = 0
  BY <1>1 DEF BufInv, UsesBlock
<1>4. /\ buf' \in [Bufs -> BufRecs]
      /\ SameBlock /\ SameValid /\ SameDirty /\ SameOwner /\ SameData
      /\ \A c \in Bufs : buf'[c].refcnt = IF c = b THEN buf[c].refcnt + 1 ELSE buf[c].refcnt
  <2>1. buf[b].refcnt + 1 \in Nat
    BY DEF BufInv, BufTypeOK, BufRecs
  <2> QED
    BY <1>1, <2>1, SetRefcnt DEF BufInv, BufTypeOK
<1>5. BufTypeOK'
  BY <1>1, <1>2, <1>3, <1>4 DEF BufInv, BufTypeOK, Holding
<1>6. ListWhole' /\ OneBuffer'
  BY <1>1, <1>2, <1>3, <1>4
  DEF BufInv, BufTypeOK, ListWhole, OneBuffer, SameBlock
<1>7. UsersCounted'
  BY <1>1, <1>2, <1>3, <1>4, UserAdded DEF BufInv, UsersCounted
<1>8. UsesBlock'
  BY <1>1, <1>2, <1>3, <1>4
  DEF BufInv, BufTypeOK, UsesBlock, SameBlock
<1>9. OwnerHolds'
  BY <1>1, <1>2, <1>3, <1>4
  DEF BufInv, BufTypeOK, OwnerHolds, Holding, SameOwner
<1>10. Coherent'
  BY <1>1, <1>2, <1>3, <1>4
  DEF BufInv, BufTypeOK, Coherent, SameBlock, SameValid, SameDirty, SameData
<1>11. QueueOK'
  BY <1>1, <1>2, <1>3, <1>4
  DEF BufInv, BufTypeOK, QueueOK
<1>12. AsleepOnOwner'
  BY <1>1, <1>2, <1>3, <1>4
  DEF BufInv, BufTypeOK, AsleepOnOwner, SameOwner
<1> QED
  BY <1>5, <1>6, <1>7, <1>8, <1>9, <1>10, <1>11, <1>12 DEF BufInv

(* bget() recycles a buffer: nobody uses it, and the disk has the latest   *)
(* contents of the block it held and of the one it will hold.              *)
LEMMA BgetRecycles ==
  ASSUME BufInv, NEW p \in BufUses, NEW k \in Blocks, Bget(p, k),
         Cached(k) = {}, Recyclable # {}
  PROVE  BufInv'
<1>1. PICK b \in Bufs :
        /\ bpc[p] = "idle" /\ buf[b].refcnt = 0 /\ ~buf[b].dirty
        /\ \A c \in Bufs : buf[c].block # k
        /\ buf' = [buf EXCEPT ![b] =
                     [@ EXCEPT !.block = k, !.refcnt = 1, !.valid = FALSE]]
        /\ bufOf' = [bufOf EXCEPT ![p] = b]
        /\ bpc' = [bpc EXCEPT ![p] = "lock"]
        /\ UNCHANGED <<nobufs, lru, disk, idequeue, active, latest>>
  <2>1. Oldest(Recyclable) \in Recyclable
    BY OldestFound DEF BufInv, Recyclable
  <2> QED
    BY <2>1 DEF Bget, Cached, Recyclable, At
<1>2. 0 \notin Bufs
  BY NoZero
<1>3. bufOf[p] = 0
  BY <1>1 DEF BufInv, UsesBlock
<1>4. \A q \in BufUses : bufOf[q] # b
  BY <1>1, UsedHasCount DEF BufInv
<1>5. \A q \in BufUses : bpc[q] # "idle" => bufOf[q] \in Bufs
  BY DEF BufInv, BufTypeOK, UsesBlock
<1>6. /\ buf' \in [Bufs -> BufRecs]
      /\ SameDirty /\ SameOwner /\ SameData
      /\ \A c \in Bufs : buf'[c].block = IF c = b THEN k ELSE buf[c].block
      /\ \A c \in Bufs : buf'[c].refcnt = IF c = b THEN 1 ELSE buf[c].refcnt
      /\ \A c \in Bufs : buf'[c].valid = IF c = b THEN FALSE ELSE buf[c].valid
  BY <1>1, SetBlock DEF BufInv, BufTypeOK
<1>7. BufTypeOK'
  BY <1>1, <1>2, <1>3, <1>4, <1>5, <1>6 DEF BufInv, BufTypeOK, Holding
<1>8. ListWhole'
  BY <1>1, <1>2, <1>3, <1>4, <1>5, <1>6
  DEF BufInv, BufTypeOK, ListWhole
<1>9. UsersCounted'
  <2>1. \A c \in Bufs : Cardinality(Users(c))' =
          IF c = b THEN Cardinality(Users(c)) + 1 ELSE Cardinality(Users(c))
    BY <1>1, <1>3, UserAdded DEF BufInv
  <2>2. Cardinality(Users(b)) = 0
    BY <1>1 DEF BufInv, UsersCounted
  <2>3. Cardinality(Users(b))' = 1
    BY <2>1, <2>2
  <2>4. \A c \in Bufs : c # b => Cardinality(Users(c))' = buf[c].refcnt
    BY <2>1 DEF BufInv, UsersCounted
  <2> QED
    BY <1>6, <2>3, <2>4 DEF UsersCounted
<1>10. UsesBlock'
  BY <1>1, <1>2, <1>3, <1>4, <1>5, <1>6
  DEF BufInv, BufTypeOK, UsesBlock
<1>11. OwnerHolds'
  BY <1>1, <1>2, <1>3, <1>4, <1>5, <1>6
  DEF BufInv, BufTypeOK, OwnerHolds, Holding, SameOwner
<1>12. OneBuffer'
  BY <1>1, <1>2, <1>3, <1>4, <1>5, <1>6
  DEF BufInv, BufTypeOK, OneBuffer
<1>13. Coherent'
  BY <1>1, <1>2, <1>3, <1>4, <1>5, <1>6
  DEF BufInv, BufTypeOK, Coherent, SameDirty, SameData, UsesBlock
<1>14. QueueOK'
  BY <1>1, <1>2, <1>3, <1>4, <1>5, <1>6
  DEF BufInv, BufTypeOK, QueueOK
<1>15. AsleepOnOwner'
  BY <1>1, <1>2, <1>3, <1>4, <1>5, <1>6
  DEF BufInv, BufTypeOK, AsleepOnOwner, SameOwner
<1> QED
  BY <1>7, <1>8, <1>9, <1>10, <1>11, <1>12, <1>13, <1>14, <1>15 DEF BufInv

(* bget() finds no buffer and panics.                                      *)
LEMMA BgetPanics ==
  ASSUME BufInv, NEW p \in BufUses, NEW k \in Blocks, Bget(p, k),
         Cached(k) = {}, Recyclable = {}
  PROVE  BufInv'
<1>1. /\ bpc[p] = "idle" /\ nobufs' = TRUE
      /\ UNCHANGED <<buf, lru, disk, idequeue, active, bpc, bufOf, latest>>
  BY DEF Bget
<1>3. BufTypeOK'
  BY <1>1 DEF BufInv, BufTypeOK, Holding
<1>4. /\ ListWhole' /\ UsersCounted' /\ UsesBlock' /\ OwnerHolds'
      /\ OneBuffer' /\ Coherent' /\ QueueOK' /\ AsleepOnOwner'
  BY <1>1
  DEF BufInv, BufTypeOK, ListWhole, UsersCounted, Users, UsesBlock, OwnerHolds,
      Holding, OneBuffer, Coherent, QueueOK, AsleepOnOwner
<1> QED
  BY <1>3, <1>4 DEF BufInv

(* acquiresleep() goes to sleep: the lock is held, and not by its caller.  *)
LEMMA AcquireBlocks ==
  ASSUME BufInv, NEW p \in BufUses, AcquireSleep(p),
         buf[bufOf[p]].owner # NoUse
  PROVE  BufInv'
<1>1. /\ bpc[p] = "lock" /\ bpc' = [bpc EXCEPT ![p] = "asleep"]
      /\ UNCHANGED <<buf, lru, disk, idequeue, active, bufOf, nobufs, latest>>
  BY DEF AcquireSleep, At
<1>3. BufTypeOK'
  BY <1>1 DEF BufInv, BufTypeOK, Holding
<1>4. ListWhole' /\ UsersCounted' /\ OneBuffer'
  BY <1>1
  DEF BufInv, BufTypeOK, ListWhole, UsersCounted, Users, OneBuffer
<1>5. UsesBlock'
  BY <1>1
  DEF BufInv, BufTypeOK, UsesBlock
<1>6. OwnerHolds'
  BY <1>1
  DEF BufInv, BufTypeOK, OwnerHolds, Holding
<1>7. Coherent'
  BY <1>1
  DEF BufInv, BufTypeOK, Coherent
<1>8. QueueOK'
  BY <1>1
  DEF BufInv, BufTypeOK, QueueOK
<1>9. AsleepOnOwner'
  BY <1>1
  DEF BufInv, BufTypeOK, AsleepOnOwner, OwnerHolds, UsesBlock, Holding
<1> QED
  BY <1>3, <1>4, <1>5, <1>6, <1>7, <1>8, <1>9 DEF BufInv

LEMMA AcquireTakes ==
  ASSUME BufInv, NEW p \in BufUses, AcquireSleep(p),
         buf[bufOf[p]].owner = NoUse
  PROVE  BufInv'
<1>1. /\ bpc[p] = "lock"
      /\ bpc' = [bpc EXCEPT ![p] = IF buf[bufOf[p]].valid THEN "have" ELSE "iderw"]
      /\ buf' = [buf EXCEPT ![bufOf[p]] = [@ EXCEPT !.owner = p]]
      /\ UNCHANGED <<lru, disk, idequeue, active, bufOf, nobufs, latest>>
  BY DEF AcquireSleep, At, Bread
<1>2. bufOf[p] \in Bufs
  BY <1>1 DEF BufInv, BufTypeOK, UsesBlock
<1>3. /\ buf' \in [Bufs -> BufRecs]
      /\ SameBlock /\ SameCount /\ SameValid /\ SameDirty /\ SameData
      /\ \A c \in Bufs : buf'[c].owner = IF c = bufOf[p] THEN p ELSE buf[c].owner
  BY <1>1, <1>2, SetOwner DEF BufInv, BufTypeOK
<1>4. BufTypeOK'
  BY <1>1, <1>2, <1>3 DEF BufInv, BufTypeOK, Holding
<1>5. ListWhole' /\ UsersCounted' /\ OneBuffer'
  BY <1>1, <1>2, <1>3
  DEF BufInv, BufTypeOK, ListWhole, UsersCounted, Users, SameCount, OneBuffer,
      SameBlock
<1>6. UsesBlock'
  BY <1>1, <1>2, <1>3
  DEF BufInv, BufTypeOK, UsesBlock, SameBlock
<1>7. OwnerHolds'
  BY <1>1, <1>2, <1>3, BufAssumption
  DEF BufInv, BufTypeOK, OwnerHolds, Holding, UsesBlock
<1>8. Coherent'
  BY <1>1, <1>2, <1>3
  DEF BufInv, BufTypeOK, Coherent, SameBlock, SameValid, SameDirty, SameData
<1>9. QueueOK'
  BY <1>1, <1>2, <1>3
  DEF BufInv, BufTypeOK, QueueOK
<1>10. AsleepOnOwner'
  BY <1>1, <1>2, <1>3, BufAssumption
  DEF BufInv, BufTypeOK, AsleepOnOwner, UsesBlock
<1> QED
  BY <1>4, <1>5, <1>6, <1>7, <1>8, <1>9, <1>10 DEF BufInv

(* iderw(): the buffer is not in the queue yet, for its process holds it.  *)
LEMMA IderwQueues ==
  ASSUME BufInv, NEW p \in BufUses, Iderw(p)
  PROVE  BufInv'
<1>1. /\ bpc[p] = "iderw" /\ bpc' = [bpc EXCEPT ![p] = "waitdisk"]
      /\ idequeue' = Append(idequeue, bufOf[p])
      /\ active' = IF idequeue = <<>> THEN Idestart(idequeue') ELSE active
      /\ UNCHANGED <<buf, lru, disk, bufOf, nobufs, latest>>
  BY DEF Iderw, At
<1>2. bufOf[p] \in Bufs
  BY <1>1 DEF BufInv, BufTypeOK, UsesBlock
<1>3. /\ Len(idequeue') = Len(idequeue) + 1 /\ Len(idequeue) \in Nat
      /\ DOMAIN idequeue = 1..Len(idequeue) /\ DOMAIN idequeue' = 1..Len(idequeue')
      /\ \A n \in 1..Len(idequeue) : idequeue'[n] = idequeue[n]
      /\ idequeue'[Len(idequeue) + 1] = bufOf[p]
      /\ idequeue' \in Seq(Bufs)
  BY <1>1, <1>2 DEF BufInv, BufTypeOK
<1>4. active' = Idestart(idequeue') /\ active' \in Bufs
  BY <1>1, <1>2, <1>3 DEF BufInv, BufTypeOK, QueueOK, Idestart
<1>5. \A n \in DOMAIN idequeue : idequeue[n] # bufOf[p]
  BY <1>1 DEF BufInv, QueueOK, OwnerHolds, Holding
<1>7. BufTypeOK'
  BY <1>1, <1>2, <1>3, <1>4, <1>5 DEF BufInv, BufTypeOK, Holding
<1>8. ListWhole' /\ UsersCounted' /\ OneBuffer'
  BY <1>1, <1>2, <1>3, <1>4, <1>5
  DEF BufInv, BufTypeOK, ListWhole, UsersCounted, Users, OneBuffer
<1>9. UsesBlock'
  BY <1>1, <1>2, <1>3, <1>4, <1>5
  DEF BufInv, BufTypeOK, UsesBlock
<1>10. OwnerHolds'
  BY <1>1, <1>2, <1>3, <1>4, <1>5
  DEF BufInv, BufTypeOK, OwnerHolds, Holding
<1>11. Coherent'
  BY <1>1, <1>2, <1>3, <1>4, <1>5
  DEF BufInv, BufTypeOK, Coherent
<1>12. QueueOK'
  <2>1. ASSUME NEW n \in DOMAIN idequeue'
        PROVE  \E q \in BufUses : bpc'[q] = "waitdisk" /\ bufOf'[q] = idequeue'[n]
    <3>1. CASE n = Len(idequeue) + 1
      BY <1>1, <1>3, <3>1 DEF BufInv, BufTypeOK
    <3>2. CASE n \in DOMAIN idequeue
      BY <1>1, <1>3, <3>2 DEF BufInv, BufTypeOK, QueueOK
    <3> QED
      BY <1>3, <2>1, <3>1, <3>2
  <2>2. \A m, n \in DOMAIN idequeue' : idequeue'[m] = idequeue'[n] => m = n
    BY <1>3, <1>5 DEF BufInv, QueueOK
  <2>3. ASSUME NEW q \in BufUses, bpc'[q] = "waitdisk"
        PROVE  \E n \in DOMAIN idequeue' : idequeue'[n] = bufOf'[q]
    <3>1. CASE q = p
      BY <1>1, <1>3, <3>1
    <3>2. CASE q # p
      BY <1>1, <1>3, <2>3, <3>2 DEF BufInv, BufTypeOK, QueueOK
    <3> QED
      BY <3>1, <3>2
  <2> QED
    BY <1>4, <2>1, <2>2, <2>3 DEF QueueOK
<1>13. AsleepOnOwner'
  BY <1>1, <1>2, <1>3, <1>4, <1>5
  DEF BufInv, BufTypeOK, AsleepOnOwner
<1> QED
  BY <1>7, <1>8, <1>9, <1>10, <1>11, <1>12, <1>13 DEF BufInv

(* ideintr(): one process waits for the buffer at the head of the queue.   *)
(* What it writes, or reads, is the latest: nobody else has the block.     *)
LEMMA IdeintrCompletes ==
  ASSUME BufInv, Ideintr
  PROVE  BufInv'
<1>1. PICK b \in Bufs :
        /\ idequeue # <<>> /\ b = Head(idequeue)
        /\ idequeue' = Tail(idequeue) /\ active' = Idestart(idequeue')
        /\ disk' = IF buf[b].dirty THEN [disk EXCEPT ![buf[b].block] = buf[b].data]
                                   ELSE disk
        /\ buf' = [buf EXCEPT ![b] = [@ EXCEPT !.valid = TRUE, !.dirty = FALSE,
                     !.data = IF buf[b].dirty THEN buf[b].data ELSE disk[buf[b].block]]]
        /\ bpc' = [p \in BufUses |-> IF bpc[p] = "waitdisk" /\ bufOf[p] = b
                                      THEN "have" ELSE bpc[p]]
        /\ UNCHANGED <<lru, bufOf, nobufs, latest>>
  <2>1. idequeue # <<>> /\ Head(idequeue) \in Bufs
    BY DEF Ideintr, BufInv, BufTypeOK
  <2>2. buf[Head(idequeue)] \in BufRecs
    BY <2>1 DEF BufInv, BufTypeOK
  <2> QED
    BY <2>1, <2>2 DEF Ideintr, BufRecs
<1>2. /\ Len(idequeue) \in Nat /\ Len(idequeue) > 0 /\ DOMAIN idequeue = 1..Len(idequeue)
      /\ b = idequeue[1] /\ DOMAIN idequeue' = 1..(Len(idequeue) - 1)
      /\ \A n \in 1..(Len(idequeue) - 1) : idequeue'[n] = idequeue[n + 1]
      /\ idequeue' \in Seq(Bufs)
  BY <1>1 DEF BufInv, BufTypeOK
<1>3. PICK w \in BufUses : bpc[w] = "waitdisk" /\ bufOf[w] = b
  BY <1>1, <1>2 DEF BufInv, QueueOK
<1>4. buf[b].block \in Blocks /\ buf[b].owner = w
  BY <1>3, NoZero DEF BufInv, UsesBlock, OwnerHolds, Holding
<1>5. buf[b].dirty => buf[b].data = latest[buf[b].block]
  BY <1>1, <1>4 DEF BufInv, Coherent
<1>6. ~buf[b].dirty => disk[buf[b].block] = latest[buf[b].block]
  BY <1>1, <1>4, BufAssumption DEF BufInv, Coherent, OneBuffer
<1>7. \A q \in BufUses : bpc[q] = "waitdisk" /\ bufOf[q] = b => q = w
  BY <1>3, <1>4 DEF BufInv, OwnerHolds, Holding
<1>8. /\ buf' \in [Bufs -> BufRecs]
      /\ SameBlock /\ SameCount /\ SameOwner
      /\ \A c \in Bufs : buf'[c].valid = IF c = b THEN TRUE ELSE buf[c].valid
      /\ \A c \in Bufs : buf'[c].dirty = IF c = b THEN FALSE ELSE buf[c].dirty
      /\ \A c \in Bufs : buf'[c].data = IF c = b THEN latest[buf[b].block] ELSE buf[c].data
  <2> DEFINE x == latest[buf[b].block]
  <2>1. x \in Data
    BY <1>4 DEF BufInv, BufTypeOK
  <2>2. buf' = [buf EXCEPT ![b] = [@ EXCEPT !.valid = TRUE, !.dirty = FALSE,
      !.data = x]]
    BY <1>1, <1>5, <1>6
  <2> HIDE DEF x
  <2>3. /\ buf' \in [Bufs -> BufRecs]
        /\ SameBlock /\ SameCount /\ SameOwner
        /\ \A c \in Bufs : buf'[c].valid = IF c = b THEN TRUE ELSE buf[c].valid
        /\ \A c \in Bufs : buf'[c].dirty = IF c = b THEN FALSE ELSE buf[c].dirty
        /\ \A c \in Bufs : buf'[c].data = IF c = b THEN x ELSE buf[c].data
    BY <2>1, <2>2, SetDone DEF BufInv, BufTypeOK
  <2> QED
    BY <2>3 DEF x
<1>9. BufTypeOK'
  <2>1. active' \in Bufs \cup {0}
    BY <1>1, <1>2 DEF Idestart
  <2>2. disk' \in [Blocks -> Data]
    BY <1>1, <1>4, <1>5 DEF BufInv, BufTypeOK
  <2>3. bpc' \in [BufUses -> {"idle", "lock", "asleep", "unref"} \cup Holding]
    BY <1>1 DEF BufInv, BufTypeOK, Holding
  <2> QED
    BY <1>1, <1>2, <1>8, <2>1, <2>2, <2>3 DEF BufInv, BufTypeOK
<1>10. ListWhole' /\ UsersCounted' /\ OneBuffer'
  BY <1>1, <1>2, <1>3, <1>4, <1>5, <1>6, <1>7, <1>8
  DEF BufInv, BufTypeOK, ListWhole, UsersCounted, Users, SameCount, OneBuffer,
      SameBlock
<1>11. UsesBlock'
  BY <1>1, <1>2, <1>3, <1>4, <1>5, <1>6, <1>7, <1>8
  DEF BufInv, BufTypeOK, UsesBlock, SameBlock
<1>12. OwnerHolds'
  <2>1. \A q \in BufUses : bpc'[q] \in Holding <=> bpc[q] \in Holding
    BY <1>1 DEF BufInv, BufTypeOK, Holding
  <2>2. \A c \in Bufs : buf[c].owner \in BufUses \cup {NoUse}
    BY OwnerType DEF BufInv
  <2> QED
    BY <1>1, <1>2, <1>3, <1>4, <1>5, <1>6, <1>7, <1>8, <2>1, <2>2 DEF BufInv,
    BufTypeOK, OwnerHolds, SameOwner
<1>13. Coherent'
  BY <1>1, <1>2, <1>3, <1>4, <1>5, <1>6, <1>7, <1>8
  DEF BufInv, BufTypeOK, Coherent, SameBlock
<1>14. QueueOK'
  <2>1. ASSUME NEW n \in DOMAIN idequeue'
        PROVE  \E q \in BufUses : bpc'[q] = "waitdisk" /\ bufOf'[q] = idequeue'[n]
    <3>1. n + 1 \in DOMAIN idequeue /\ n + 1 # 1 /\ idequeue'[n] = idequeue[n + 1]
      BY <1>2, <2>1
    <3>2. idequeue[n + 1] # b
      BY <1>2, <3>1 DEF BufInv, QueueOK
    <3> QED
      BY <1>1, <3>1, <3>2 DEF BufInv, QueueOK
  <2>2. ASSUME NEW m \in DOMAIN idequeue', NEW n \in DOMAIN idequeue',
               idequeue'[m] = idequeue'[n]
        PROVE  m = n
    <3>1. m + 1 \in DOMAIN idequeue /\ n + 1 \in DOMAIN idequeue
          /\ idequeue[m + 1] = idequeue[n + 1]
      BY <1>2, <2>2
    <3>2. m + 1 = n + 1
      BY <3>1 DEF BufInv, QueueOK
    <3> QED
      BY <1>2, <3>2
  <2>3. ASSUME NEW q \in BufUses, bpc'[q] = "waitdisk"
        PROVE  \E n \in DOMAIN idequeue' : idequeue'[n] = bufOf'[q]
    <3>1. bpc[q] = "waitdisk" /\ bufOf[q] # b
      BY <1>1, <2>3
    <3>2. PICK m \in DOMAIN idequeue : idequeue[m] = bufOf[q]
      BY <3>1 DEF BufInv, QueueOK
    <3>3. m - 1 \in 1..(Len(idequeue) - 1) /\ (m - 1) + 1 = m
      BY <1>2, <3>1, <3>2
    <3> QED
      BY <1>1, <1>2, <3>2, <3>3
  <2> QED
    BY <1>1, <2>1, <2>2, <2>3 DEF QueueOK
<1>15. AsleepOnOwner'
  BY <1>1, <1>2, <1>3, <1>4, <1>5, <1>6, <1>7, <1>8
  DEF BufInv, BufTypeOK, AsleepOnOwner, SameOwner
<1> QED
  BY <1>9, <1>10, <1>11, <1>12, <1>13, <1>14, <1>15 DEF BufInv

(* bwrite(): the buffer becomes dirty, but its holder is writing it.       *)
LEMMA BwriteStarts ==
  ASSUME BufInv, NEW p \in BufUses, NEW d \in Data, Bwrite(p, d)
  PROVE  BufInv'
<1>1. /\ bpc[p] = "have"
      /\ bpc' = [bpc EXCEPT ![p] = "iderw"]
      /\ buf' = [buf EXCEPT ![bufOf[p]] = [@ EXCEPT !.data = d, !.dirty = TRUE]]
      /\ latest' = [latest EXCEPT ![buf[bufOf[p]].block] = d]
      /\ UNCHANGED <<lru, disk, idequeue, active, bufOf, nobufs>>
  BY DEF Bwrite, At
<1>2. bufOf[p] \in Bufs
  BY <1>1 DEF BufInv, BufTypeOK, UsesBlock
<1>3. buf[bufOf[p]].block \in Blocks /\ buf[bufOf[p]].valid
  BY <1>1, <1>2, NoZero DEF BufInv, UsesBlock, Coherent
<1>4. /\ buf' \in [Bufs -> BufRecs]
      /\ SameBlock /\ SameCount /\ SameValid /\ SameOwner
      /\ \A c \in Bufs : buf'[c].data = IF c = bufOf[p] THEN d ELSE buf[c].data
      /\ \A c \in Bufs : buf'[c].dirty = IF c = bufOf[p] THEN TRUE ELSE buf[c].dirty
  BY <1>1, <1>2, SetData DEF BufInv, BufTypeOK
<1>5. BufTypeOK'
  BY <1>1, <1>2, <1>3, <1>4 DEF BufInv, BufTypeOK, Holding
<1>6. ListWhole' /\ UsersCounted' /\ OneBuffer'
  BY <1>1, <1>2, <1>3, <1>4
  DEF BufInv, BufTypeOK, ListWhole, UsersCounted, Users, SameCount, OneBuffer,
      SameBlock
<1>7. UsesBlock'
  BY <1>1, <1>2, <1>3, <1>4
  DEF BufInv, BufTypeOK, UsesBlock, SameBlock
<1>8. OwnerHolds'
  BY <1>1, <1>2, <1>3, <1>4
  DEF BufInv, BufTypeOK, OwnerHolds, Holding, SameOwner
<1>9. Coherent'
  BY <1>1, <1>2, <1>3, <1>4, BufAssumption
  DEF BufInv, BufTypeOK, Coherent, SameBlock, SameValid, OneBuffer
<1>10. QueueOK'
  BY <1>1, <1>2, <1>3, <1>4
  DEF BufInv, BufTypeOK, QueueOK
<1>11. AsleepOnOwner'
  BY <1>1, <1>2, <1>3, <1>4
  DEF BufInv, BufTypeOK, AsleepOnOwner, SameOwner
<1> QED
  BY <1>5, <1>6, <1>7, <1>8, <1>9, <1>10, <1>11 DEF BufInv

(* log_write(): one more buffer is pinned, within the bound of the log.    *)
LEMMA LogWritePins ==
  ASSUME BufInv, NEW p \in BufUses, NEW d \in Data, LogWrite(p, d)
  PROVE  BufInv'
<1>1. /\ bpc[p] = "have"
      /\ Cardinality({b \in Bufs : buf[b].dirty} \cup {bufOf[p]}) <= MaxPinned
      /\ bpc' = [bpc EXCEPT ![p] = "release"]
      /\ buf' = [buf EXCEPT ![bufOf[p]] = [@ EXCEPT !.data = d, !.dirty = TRUE]]
      /\ latest' = [latest EXCEPT ![buf[bufOf[p]].block] = d]
      /\ UNCHANGED <<lru, disk, idequeue, active, bufOf, nobufs>>
  BY DEF LogWrite, At
<1>2. bufOf[p] \in Bufs
  BY <1>1 DEF BufInv, BufTypeOK, UsesBlock
<1>3. buf[bufOf[p]].block \in Blocks /\ buf[bufOf[p]].valid
  BY <1>1, <1>2, NoZero DEF BufInv, UsesBlock, Coherent
<1>4. /\ buf' \in [Bufs -> BufRecs]
      /\ SameBlock /\ SameCount /\ SameValid /\ SameOwner
      /\ \A c \in Bufs : buf'[c].data = IF c = bufOf[p] THEN d ELSE buf[c].data
      /\ \A c \in Bufs : buf'[c].dirty = IF c = bufOf[p] THEN TRUE ELSE buf[c].dirty
  BY <1>1, <1>2, SetData DEF BufInv, BufTypeOK
<1>5. BufTypeOK'
  BY <1>1, <1>2, <1>3, <1>4 DEF BufInv, BufTypeOK, Holding
<1>6. ListWhole' /\ UsersCounted' /\ OneBuffer'
  BY <1>1, <1>2, <1>3, <1>4
  DEF BufInv, BufTypeOK, ListWhole, UsersCounted, Users, SameCount, OneBuffer,
      SameBlock
<1>7. UsesBlock'
  BY <1>1, <1>2, <1>3, <1>4
  DEF BufInv, BufTypeOK, UsesBlock, SameBlock
<1>8. OwnerHolds'
  BY <1>1, <1>2, <1>3, <1>4
  DEF BufInv, BufTypeOK, OwnerHolds, Holding, SameOwner
<1>9. Coherent'
  BY <1>1, <1>2, <1>3, <1>4, BufAssumption
  DEF BufInv, BufTypeOK, Coherent, SameBlock, SameValid, OneBuffer
<1>10. QueueOK'
  BY <1>1, <1>2, <1>3, <1>4
  DEF BufInv, BufTypeOK, QueueOK
<1>11. AsleepOnOwner'
  BY <1>1, <1>2, <1>3, <1>4
  DEF BufInv, BufTypeOK, AsleepOnOwner, SameOwner
<1> QED
  BY <1>5, <1>6, <1>7, <1>8, <1>9, <1>10, <1>11 DEF BufInv

(* releasesleep(): all who sleep for this lock are woken.                  *)
LEMMA ReleaseWakes ==
  ASSUME BufInv, NEW p \in BufUses, ReleaseSleep(p)
  PROVE  BufInv'
<1>1. /\ bpc[p] \in {"have", "release"}
      /\ buf' = [buf EXCEPT ![bufOf[p]] = [@ EXCEPT !.owner = NoUse]]
      /\ bpc' = [q \in BufUses |-> IF q = p THEN "unref"
                   ELSE IF bpc[q] = "asleep" /\ bufOf[q] = bufOf[p] THEN "lock"
                   ELSE bpc[q]]
      /\ UNCHANGED <<lru, disk, idequeue, active, bufOf, nobufs, latest>>
  BY DEF ReleaseSleep
<1>2. bufOf[p] \in Bufs
  BY <1>1 DEF BufInv, BufTypeOK, UsesBlock
<1>3. buf[bufOf[p]].owner = p
  BY <1>1 DEF BufInv, OwnerHolds, Holding
<1>4. /\ buf' \in [Bufs -> BufRecs]
      /\ SameBlock /\ SameCount /\ SameValid /\ SameDirty /\ SameData
      /\ \A c \in Bufs : buf'[c].owner = IF c = bufOf[p] THEN NoUse ELSE buf[c].owner
  BY <1>1, <1>2, SetOwner DEF BufInv, BufTypeOK
<1>5. BufTypeOK'
  BY <1>1, <1>2, <1>3, <1>4 DEF BufInv, BufTypeOK, Holding
<1>6. ListWhole' /\ UsersCounted' /\ OneBuffer'
  BY <1>1, <1>2, <1>3, <1>4
  DEF BufInv, BufTypeOK, ListWhole, UsersCounted, Users, SameCount, OneBuffer,
      SameBlock
<1>7. UsesBlock'
  BY <1>1, <1>2, <1>3, <1>4
  DEF BufInv, BufTypeOK, UsesBlock, SameBlock
<1>8. OwnerHolds'
  <2>1. \A q \in BufUses : bpc'[q] \in Holding <=> bpc[q] \in Holding /\ q # p
    BY <1>1 DEF BufInv, BufTypeOK, Holding
  <2>2. \A c \in Bufs : buf[c].owner \in BufUses \cup {NoUse}
    BY OwnerType DEF BufInv
  <2> QED
    BY <1>1, <1>2, <1>3, <1>4, <2>1, <2>2, BufAssumption DEF BufInv, BufTypeOK,
    OwnerHolds
<1>9. Coherent'
  BY <1>1, <1>2, <1>3, <1>4
  DEF BufInv, BufTypeOK, Coherent, SameBlock, SameValid, SameDirty, SameData
<1>10. QueueOK'
  BY <1>1, <1>2, <1>3, <1>4
  DEF BufInv, BufTypeOK, QueueOK
<1>11. AsleepOnOwner'
  BY <1>1, <1>2, <1>3, <1>4, BufAssumption
  DEF BufInv, BufTypeOK, AsleepOnOwner, UsesBlock
<1> QED
  BY <1>5, <1>6, <1>7, <1>8, <1>9, <1>10, <1>11 DEF BufInv

(* brelse(): the reference that bget() took is dropped.                    *)
LEMMA BrelseDrops ==
  ASSUME BufInv, NEW p \in BufUses, Brelse(p)
  PROVE  BufInv'
<1>1. /\ bpc[p] = "unref"
      /\ buf' = [buf EXCEPT ![bufOf[p]] = [@ EXCEPT !.refcnt = buf[bufOf[p]].refcnt - 1]]
      /\ bpc' = [bpc EXCEPT ![p] = "idle"]
      /\ bufOf' = [bufOf EXCEPT ![p] = 0]
      /\ lru' \in {lru, ToFront(bufOf[p])}
      /\ UNCHANGED <<disk, idequeue, active, nobufs, latest>>
  BY DEF Brelse, At
<1>2. PICK b \in Bufs : b = bufOf[p]
  BY <1>1 DEF BufInv, BufTypeOK, UsesBlock
<1>3. lru' \in [Bufs -> Bufs] /\ \A c \in Bufs : \E n \in Bufs : lru'[n] = c
  <2>1. lru \in [Bufs -> Bufs] /\ ListWhole
    BY DEF BufInv, BufTypeOK
  <2>2. lru' \in {lru, ToFront(b)}
    BY <1>1, <1>2
  <2>3. /\ ToFront(b) \in [Bufs -> Bufs]
        /\ \A c \in Bufs : \E n \in Bufs : ToFront(b)[n] = c
    BY <2>1, ToFrontWhole
  <2>4. CASE lru' = lru
    BY <2>1, <2>4 DEF ListWhole
  <2>5. CASE lru' = ToFront(b)
    BY <2>3, <2>5, Zenon
  <2> QED
    BY <2>2, <2>4, <2>5
<1>4. /\ buf' \in [Bufs -> BufRecs]
      /\ SameBlock /\ SameValid /\ SameDirty /\ SameOwner /\ SameData
      /\ \A c \in Bufs : buf'[c].refcnt =
           IF c = b THEN buf[c].refcnt - 1 ELSE buf[c].refcnt
  <2>1. buf[b].refcnt - 1 \in Nat
    <3>1. buf[b].refcnt \in Nat
      BY <1>2 DEF BufInv, BufTypeOK, BufRecs
    <3> QED
      BY <1>2, <3>1, UsedHasCount DEF BufInv
  <2>2. PICK n \in Nat : n = buf[b].refcnt - 1
    BY <2>1
  <2>3. buf \in [Bufs -> BufRecs] /\ buf' = [buf EXCEPT ![b] = [@ EXCEPT !.refcnt = n]]
    BY <1>1, <1>2, <2>2 DEF BufInv, BufTypeOK
  <2> QED
    BY <2>2, <2>3, SetRefcnt
<1>5. BufTypeOK'
  <2>1. lru' \in [Bufs -> Bufs]
    BY <1>3 DEF BufInv, BufTypeOK
  <2> QED
    BY <1>1, <1>2, <1>3, <1>4, <2>1 DEF BufInv, BufTypeOK, Holding
<1>6. OneBuffer'
  BY <1>1, <1>2, <1>3, <1>4
  DEF BufInv, BufTypeOK, OneBuffer, SameBlock
<1>7. ListWhole'
  BY <1>3 DEF ListWhole
<1>8. UsersCounted'
  BY <1>1, <1>2, <1>4, UserRemoved DEF BufInv, UsersCounted
<1>9. UsesBlock'
  BY <1>1, <1>2, <1>3, <1>4, NoZero
  DEF BufInv, BufTypeOK, UsesBlock, SameBlock
<1>10. OwnerHolds'
  BY <1>1, <1>2, <1>3, <1>4
  DEF BufInv, BufTypeOK, OwnerHolds, Holding, SameOwner
<1>11. Coherent'
  BY <1>1, <1>2, <1>3, <1>4
  DEF BufInv, BufTypeOK, Coherent, SameBlock, SameValid, SameDirty, SameData
<1>12. QueueOK'
  BY <1>1, <1>2, <1>3, <1>4
  DEF BufInv, BufTypeOK, QueueOK
<1>13. AsleepOnOwner'
  BY <1>1, <1>2, <1>3, <1>4
  DEF BufInv, BufTypeOK, AsleepOnOwner, SameOwner, UsesBlock
<1> QED
  BY <1>5, <1>6, <1>7, <1>8, <1>9, <1>10, <1>11, <1>12, <1>13 DEF BufInv

----------------------------------------------------------------------------
(* The invariant and what follows from it *)

LEMMA BufInitOK ==
  BufInit => BufInv
<1> SUFFICES ASSUME BufInit PROVE BufInv
  OBVIOUS
<1>1. (CHOOSE d \in Data : TRUE) \in Data
  BY BufAssumption
<1>2. BufTypeOK
  <2>1. buf \in [Bufs -> BufRecs]
    BY <1>1 DEF BufInit, BufRecs
  <2>2. lru \in [Bufs -> Bufs]
    BY BufAssumption DEF BufInit, Bufs
  <2>3. disk \in [Blocks -> Data] /\ latest \in [Blocks -> Data]
    BY <1>1 DEF BufInit
  <2>4. idequeue \in Seq(Bufs)
    BY EmptySeq DEF BufInit
  <2>5. active \in Bufs \cup {0} /\ nobufs \in BOOLEAN
    BY DEF BufInit
  <2>6. /\ bpc \in [BufUses -> {"idle", "lock", "asleep", "unref"} \cup Holding]
        /\ bufOf \in [BufUses -> Bufs \cup {0}]
    BY DEF BufInit
  <2> QED
    BY <2>1, <2>2, <2>3, <2>4, <2>5, <2>6 DEF BufTypeOK
<1>3. ListWhole
  <2> SUFFICES ASSUME NEW b \in Bufs PROVE \E n \in Bufs : lru[n] = b
    BY DEF ListWhole
  <2>1. NBUF + 1 - b \in Bufs /\ NBUF + 1 - (NBUF + 1 - b) = b
    BY BufAssumption DEF Bufs
  <2> QED
    BY <2>1 DEF BufInit
<1>4. UsersCounted
  <2>1. \A b \in Bufs : Users(b) = {}
    BY NoZero DEF BufInit, Users
  <2> QED
    BY <2>1, FS_EmptySet DEF BufInit, UsersCounted
<1>5. UsesBlock /\ OwnerHolds /\ OneBuffer /\ Coherent /\ AsleepOnOwner
  BY DEF BufInit, UsesBlock, OwnerHolds, Holding, OneBuffer, Coherent, AsleepOnOwner
<1>6. QueueOK
  BY DEF BufInit, QueueOK, Idestart
<1> QED
  BY <1>2, <1>3, <1>4, <1>5, <1>6 DEF BufInv

LEMMA BufNextOK ==
  BufInv /\ [BufNext]_bufVars => BufInv'
<1> SUFFICES ASSUME BufInv, [BufNext]_bufVars PROVE BufInv'
  OBVIOUS
<1>1. ASSUME NEW p \in BufUses, NEW k \in Blocks, Bget(p, k)
      PROVE  BufInv'
  BY <1>1, BgetHit, BgetRecycles, BgetPanics
<1>2. ASSUME NEW p \in BufUses,
             AcquireSleep(p) \/ Iderw(p) \/ ReleaseSleep(p) \/ Brelse(p)
      PROVE  BufInv'
  BY <1>2, AcquireBlocks, AcquireTakes, IderwQueues, ReleaseWakes, BrelseDrops
<1>3. ASSUME NEW p \in BufUses, NEW d \in Data, Bwrite(p, d) \/ LogWrite(p, d)
      PROVE  BufInv'
  BY <1>3, BwriteStarts, LogWritePins
<1>4. CASE Ideintr
  BY <1>4, IdeintrCompletes
<1>5. CASE UNCHANGED bufVars
  BY <1>5 DEF bufVars, BufInv, BufTypeOK, ListWhole, UsersCounted, Users, UsesBlock,
    OwnerHolds, OneBuffer, Coherent, QueueOK, AsleepOnOwner
<1> QED
  BY <1>1, <1>2, <1>3, <1>4, <1>5 DEF BufNext

(* The inductive invariant of the buffer cache.                            *)
THEOREM BufInvariant == BufSpec => []BufInv
BY BufInitOK, BufNextOK, PTL DEF BufSpec

(* bio.c: what bread() returns is what was last put into the block, by     *)
(* whichever process and through whichever buffer.                         *)
THEOREM HolderReadsLatest == BufSpec => []ReadsLatest
<1>1. BufInv => ReadsLatest
  BY NoZero DEF BufInv, BufTypeOK, ReadsLatest, OwnerHolds, Holding, Coherent,
    UsesBlock
<1> QED
  BY <1>1, BufInvariant, PTL

(* sleeplock.c and ide.c: nobody sleeps for a lock that is free or for a   *)
(* request that the disk will not serve.                                   *)
THEOREM BufSleepersAlwaysWait == BufSpec => []BufSleepersWait
<1>1. BufInv => BufSleepersWait
  BY DEF BufInv, BufSleepersWait, QueueOK, AsleepOnOwner, Idestart
<1> QED
  BY <1>1, BufInvariant, PTL

(* bio.c: every bget() is undone by its brelse() and by nothing else, so   *)
(* the reference count that bget() looks at is the number of uses.         *)
THEOREM UsersAlwaysCounted == BufSpec => []UsersCounted
<1>1. BufInv => UsersCounted
  BY DEF BufInv
<1> QED
  BY <1>1, BufInvariant, PTL

=============================================================================
