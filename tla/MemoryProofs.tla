---------------------------- MODULE MemoryProofs ----------------------------
(***************************************************************************)
(* Proofs about physical pages and address spaces (module Memory), for any *)
(* number of processes and pages and any geometry of the page tables.      *)
(*                                                                         *)
(* A place is where a page number can stand: the kernel stack of a slot,   *)
(* the page a build has in hand, and every entry of an address space, of   *)
(* the current one or of the one that exec() keeps until it succeeds.      *)
(***************************************************************************)
EXTENDS Memory, FiniteSetTheorems, NaturalsInduction, WellFoundedInduction, TLAPS

PageNos == 0..NPages           \* a page number, or 0 for none

Wheres == {"kstack", "hand", "pgdir", "old"}
Entries == {"one", "dir", "kpt", "tab", "user"}

(* Entry x of the part k of an address space, 0 where there is no such     *)
(* entry.                                                                  *)
In(as, k, x) == CASE k = "dir" /\ x = 0 -> as.dir
                  [] k = "kpt" /\ x = 0 -> as.kpt
                  [] k = "tab" /\ x \in Tabs -> as.tab[x]
                  [] k = "user" /\ x \in VPages -> as.user[x]
                  [] OTHER -> 0

(* The address space that exec() keeps.                                    *)
Old(p) == IF build[p].kind = "exec" THEN build[p].old ELSE NoSpace

Single(pg, k, x) == IF k = "one" /\ x = 0 THEN pg ELSE 0

At(p, w, k, x) == CASE w = "kstack" -> Single(kstack[p], k, x)
                    [] w = "hand" -> Single(build[p].mem, k, x)
                    [] w = "pgdir" -> In(pgdir[p], k, x)
                    [] OTHER -> In(Old(p), k, x)

Maps == [Slots -> [Wheres -> [Entries -> [Nat -> PageNos]]]]

(* What is in each place.                                                  *)
Map == [p \in Slots |-> [w \in Wheres |-> [k \in Entries |-> [x \in Nat |-> At(p, w, k, x)]]]]

(* No page is in two places.                                               *)
Alone(f, p, w, k, x) ==
  \A q \in Slots, u \in Wheres, l \in Entries, y \in Nat :
    f[q][u][l][y] = f[p][w][k][x] => q = p /\ u = w /\ l = k /\ y = x

OneOwner(f) ==
  \A p \in Slots, w \in Wheres, k \in Entries, x \in Nat :
    f[p][w][k][x] # 0 => Alone(f, p, w, k, x)

(* Every page is free or in one place, and in one only.                    *)
Whole(f, F) ==
  /\ F \subseteq Pages
  /\ f \in Maps
  /\ \A p \in Slots, w \in Wheres, k \in Entries, x \in Nat : f[p][w][k][x] \notin F
  /\ OneOwner(f)
  /\ \A g \in Pages : \/ g \in F
                      \/ \E p \in Slots, w \in Wheres, k \in Entries, x \in Nat :
                           f[p][w][k][x] = g

------------------------------------------------------------------------------
(* The inductive invariant.                                                *)

Spaces == [dir : PageNos, kpt : PageNos, tab : [Tabs -> PageNos],
           user : [VPages -> PageNos], guard : Int]
Builds == [kind : {"none", "sbrk", "fork", "exec"}, for : 0..NProcs, upto : Nat,
           mem : PageNos, old : Spaces]

MemTypeOK ==
  /\ kstack \in [Slots -> PageNos]
  /\ pgdir \in [Slots -> Spaces]
  /\ sz \in [Slots -> Nat]
  /\ build \in [Slots -> Builds]

(* Who builds for whom.  A process that builds exists; sbrk() and exec()   *)
(* build for the caller, fork() for a slot that does nothing itself; no    *)
(* slot is built by two.                                                   *)
BuildsApart ==
  /\ \A p \in Slots : build[p].kind = "none" => build[p] = NoBuild
  /\ \A p \in Slots : build[p].kind \in {"sbrk", "exec"} => build[p].for = p
  /\ \A p \in Slots : build[p].kind = "fork" =>
       /\ build[p].for \in Slots /\ build[p].for # p
       /\ build[build[p].for].kind = "none" /\ build[p].old = NoSpace
  /\ \A p, q \in Slots : build[p].for # 0 /\ build[p].for = build[q].for => p = q
  /\ \A p \in Slots : build[p].kind # "none" => kstack[p] # 0

(* A build has a page in hand only while there is a place for it.          *)
HandUsed == \A p \in Slots : build[p].mem # 0 => Missing(p) # {}

(* Page v starts below byte n.                                             *)
Below(v, n) == v * PGSIZE < n

(* as maps exactly the pages below n bytes.                                *)
Covers(as, n) == \A v \in VPages : as.user[v] # 0 <=> Below(v, n)

(* The guard page is a mapped one.                                         *)
Guarded(as) == as.guard = -1 \/ (as.guard \in VPages /\ as.user[as.guard] # 0)

(* p has an address space that no call is changing.                        *)
Settled(p) == build[p].kind \in {"none", "fork"} /\ \A q \in Slots : build[q].for # p \/ q = p

SizesFit ==
  \A p \in Slots : /\ sz[p] <= UserPages * PGSIZE
                   /\ build[p].upto <= UserPages * PGSIZE

SettledFits ==
  \A p \in Slots : Settled(p) =>
    Guarded(pgdir[p]) /\ (pgdir[p].user[0] # 0 => Covers(pgdir[p], sz[p]))

UnusedEmpty == \A p \in Slots : kstack[p] = 0 => pgdir[p] = NoSpace

(* What sbrk(), exec() and fork() have built and what they keep.           *)
AboveEmpty ==
  \A p \in Slots : build[p].kind # "none" =>
    \A v \in VPages : ~Below(v, build[p].upto) => pgdir[build[p].for].user[v] = 0

GrowFits ==
  \A p \in Slots : build[p].kind = "sbrk" =>
    /\ \A v \in VPages : Below(v, sz[p]) => pgdir[p].user[v] # 0
    /\ sz[p] <= build[p].upto /\ Guarded(pgdir[p])

ExecFits ==
  \A p \in Slots : build[p].kind = "exec" =>
    /\ Covers(build[p].old, sz[p]) /\ Guarded(build[p].old)
    /\ \E n \in 0..(UserPages - 2) : build[p].upto = (n + 2) * PGSIZE

ForkFits ==
  \A p \in Slots : build[p].kind = "fork" =>
    build[p].upto = sz[p] /\ Covers(pgdir[p], sz[p])

BuildsFit == AboveEmpty /\ GrowFits /\ ExecFits /\ ForkFits

MemInv == /\ MemTypeOK /\ BuildsApart /\ HandUsed /\ Whole(Map, freelist)
          /\ SizesFit /\ SettledFits /\ UnusedEmpty /\ BuildsFit

------------------------------------------------------------------------------
LEMMA NoPageZero == 0 \notin Pages /\ Pages \subseteq PageNos /\ 0 \in PageNos
                    /\ PageNos = Pages \cup {0}
BY MemAssumption DEF Pages, PageNos

LEMMA Unique ==
  ASSUME NEW f, OneOwner(f),
         NEW p \in Slots, NEW w \in Wheres, NEW k \in Entries, NEW x \in Nat,
         NEW q \in Slots, NEW u \in Wheres, NEW l \in Entries, NEW y \in Nat,
         f[p][w][k][x] = f[q][u][l][y], f[p][w][k][x] # 0
  PROVE  p = q /\ w = u /\ k = l /\ x = y
<1>1. Alone(f, p, w, k, x)
  BY DEF OneOwner
<1> QED
  BY <1>1 DEF Alone

LEMMA Collect ==
  ASSUME NEW f,
         ASSUME NEW p \in Slots, NEW w \in Wheres, NEW k \in Entries, NEW x \in Nat,
                NEW q \in Slots, NEW u \in Wheres, NEW l \in Entries, NEW y \in Nat,
                f[p][w][k][x] = f[q][u][l][y], f[p][w][k][x] # 0
         PROVE  p = q /\ w = u /\ k = l /\ x = y
  PROVE  OneOwner(f)
<1>1. ASSUME NEW p \in Slots, NEW w \in Wheres, NEW k \in Entries, NEW x \in Nat,
             f[p][w][k][x] # 0
      PROVE  Alone(f, p, w, k, x)
  BY <1>1 DEF Alone
<1> QED
  BY <1>1 DEF OneOwner

(* The map h is f with page g put into an empty place.                     *)
Taken(f, h, p0, w0, k0, x0, g) ==
  /\ f[p0][w0][k0][x0] = 0
  /\ \A p \in Slots, w \in Wheres, k \in Entries, x \in Nat :
       h[p][w][k][x] = IF p = p0 /\ w = w0 /\ k = k0 /\ x = x0 THEN g
                       ELSE f[p][w][k][x]

(* The map h is f without some entries; G is F with what was in them.      *)
Given(f, F, h, G) ==
  /\ \A p \in Slots, w \in Wheres, k \in Entries, x \in Nat :
       h[p][w][k][x] = 0 \/ h[p][w][k][x] = f[p][w][k][x]
  /\ \A g : g \in G <=>
       \/ g \in F
       \/ g # 0 /\ \E p \in Slots, w \in Wheres, k \in Entries, x \in Nat :
                     f[p][w][k][x] = g /\ h[p][w][k][x] = 0

(* The map h is f with the two address spaces of p0 exchanged.             *)
Exchanged(f, h, p0) ==
  \A p \in Slots, k \in Entries, x \in Nat :
    /\ h[p]["kstack"][k][x] = f[p]["kstack"][k][x]
    /\ h[p]["hand"][k][x] = f[p]["hand"][k][x]
    /\ h[p]["pgdir"][k][x] = IF p = p0 THEN f[p]["old"][k][x] ELSE f[p]["pgdir"][k][x]
    /\ h[p]["old"][k][x] = IF p = p0 THEN f[p]["pgdir"][k][x] ELSE f[p]["old"][k][x]

(* kalloc(): a free page goes to an empty place.                           *)
LEMMA TakeWhole ==
  ASSUME NEW f, NEW F, Whole(f, F), NEW g \in F, NEW h \in Maps,
         NEW p0 \in Slots, NEW w0 \in Wheres, NEW k0 \in Entries, NEW x0 \in Nat,
         Taken(f, h, p0, w0, k0, x0, g)
  PROVE  Whole(h, F \ {g})
<1>0. /\ f[p0][w0][k0][x0] = 0
      /\ \A p \in Slots, w \in Wheres, k \in Entries, x \in Nat :
           h[p][w][k][x] = IF p = p0 /\ w = w0 /\ k = k0 /\ x = x0 THEN g
                           ELSE f[p][w][k][x]
  BY DEF Taken
<1>1. g \in Pages /\ g # 0
  BY NoPageZero DEF Whole
<1>2. ASSUME NEW p \in Slots, NEW w \in Wheres, NEW k \in Entries, NEW x \in Nat
      PROVE  h[p][w][k][x] \notin F \ {g}
  BY <1>0 DEF Whole
<1>3. ASSUME NEW p \in Slots, NEW w \in Wheres, NEW k \in Entries, NEW x \in Nat,
             NEW q \in Slots, NEW u \in Wheres, NEW l \in Entries, NEW y \in Nat,
             h[p][w][k][x] = h[q][u][l][y], h[p][w][k][x] # 0
      PROVE  p = q /\ w = u /\ k = l /\ x = y
  <2>1. f[p][w][k][x] # g /\ f[q][u][l][y] # g
    BY DEF Whole
  <2>2. f[p][w][k][x] = f[q][u][l][y] /\ f[p][w][k][x] # 0
          => p = q /\ w = u /\ k = l /\ x = y
    BY Unique DEF Whole
  <2>3. h[p][w][k][x] = IF p = p0 /\ w = w0 /\ k = k0 /\ x = x0 THEN g ELSE f[p][w][k][x]
    BY <1>0
  <2>4. h[q][u][l][y] = IF q = p0 /\ u = w0 /\ l = k0 /\ y = x0 THEN g ELSE f[q][u][l][y]
    BY <1>0
  <2> QED
    BY <1>3, <2>1, <2>2, <2>3, <2>4
<1>4. ASSUME NEW z \in Pages, z \notin F \ {g}
      PROVE  \E p \in Slots, w \in Wheres, k \in Entries, x \in Nat : h[p][w][k][x] = z
  <2>1. CASE z = g
    BY <1>0, <2>1
  <2>2. CASE z # g
    <3>1. PICK p \in Slots, w \in Wheres, k \in Entries, x \in Nat : f[p][w][k][x] = z
      BY <1>4, <2>2 DEF Whole
    <3>2. z # 0
      BY NoPageZero
    <3>3. h[p][w][k][x] = z
      BY <1>0, <3>1, <3>2
    <3> QED
      BY <3>3
  <2> QED
    BY <2>1, <2>2
<1>5. F \ {g} \subseteq Pages
  BY DEF Whole
<1> QED
  BY <1>2, <1>3, <1>4, <1>5, Collect DEF Whole

(* kfree() of all that leaves its place.                                   *)
LEMMA GiveWhole ==
  ASSUME NEW f, NEW F, Whole(f, F), NEW h \in Maps, NEW G, Given(f, F, h, G)
  PROVE  Whole(h, G)
<1> USE DEF Given
<1>1. \A p \in Slots, w \in Wheres, k \in Entries, x \in Nat : f[p][w][k][x] \in PageNos
  BY DEF Whole, Maps
<1>2. G \subseteq Pages
  BY <1>1, NoPageZero DEF Whole
<1>3. ASSUME NEW p \in Slots, NEW w \in Wheres, NEW k \in Entries, NEW x \in Nat
      PROVE  h[p][w][k][x] \notin G
  <2>1. CASE h[p][w][k][x] = 0
    BY <1>2, <2>1, NoPageZero
  <2>2. CASE h[p][w][k][x] # 0
    <3>1. h[p][w][k][x] = f[p][w][k][x] /\ f[p][w][k][x] \notin F
      BY <2>2 DEF Whole
    <3>2. ASSUME NEW q \in Slots, NEW u \in Wheres, NEW l \in Entries, NEW y \in Nat,
                 f[q][u][l][y] = f[p][w][k][x], h[q][u][l][y] = 0
          PROVE  FALSE
      BY <2>2, <3>1, <3>2, Unique, SMTT(30) DEF Whole
    <3> QED
      BY <3>1, <3>2
  <2> QED
    BY <2>1, <2>2
<1>4. ASSUME NEW p \in Slots, NEW w \in Wheres, NEW k \in Entries, NEW x \in Nat,
             NEW q \in Slots, NEW u \in Wheres, NEW l \in Entries, NEW y \in Nat,
             h[p][w][k][x] = h[q][u][l][y], h[p][w][k][x] # 0
      PROVE  p = q /\ w = u /\ k = l /\ x = y
  <2>1. f[p][w][k][x] = f[q][u][l][y] /\ f[p][w][k][x] # 0 /\ OneOwner(f)
    BY <1>4 DEF Whole
  <2> QED
    BY <2>1, Unique
<1>5. ASSUME NEW z \in Pages, z \notin G
      PROVE  \E p \in Slots, w \in Wheres, k \in Entries, x \in Nat : h[p][w][k][x] = z
  <2>1. PICK p \in Slots, w \in Wheres, k \in Entries, x \in Nat : f[p][w][k][x] = z
    BY <1>5 DEF Whole
  <2>2. h[p][w][k][x] # 0
    BY <1>5, <2>1, NoPageZero
  <2>3. h[p][w][k][x] = z
    BY <2>1, <2>2
  <2> QED
    BY <2>3
<1> QED
  BY <1>2, <1>3, <1>4, <1>5, Collect DEF Whole

(* The map h is f with the page of p0's hand moved to an empty place.      *)
Placed(f, h, p0, p1, w1, k1, x1) ==
  /\ f[p1][w1][k1][x1] = 0 /\ f[p0]["hand"]["one"][0] # 0
  /\ \A p \in Slots, w \in Wheres, k \in Entries, x \in Nat :
       h[p][w][k][x] = IF p = p0 /\ w = "hand" /\ k = "one" /\ x = 0 THEN 0
                       ELSE IF p = p1 /\ w = w1 /\ k = k1 /\ x = x1
                            THEN f[p0]["hand"]["one"][0]
                       ELSE f[p][w][k][x]

(* mappages() of the page in hand.                                         *)
LEMMA PlaceWhole ==
  ASSUME NEW f, NEW F, Whole(f, F), NEW h \in Maps, NEW p0 \in Slots,
         NEW p1 \in Slots, NEW w1 \in Wheres, NEW k1 \in Entries, NEW x1 \in Nat,
         Placed(f, h, p0, p1, w1, k1, x1)
  PROVE  Whole(h, F)
<1> DEFINE g == f[p0]["hand"]["one"][0]
           Hand(p, w, k, x) == p = p0 /\ w = "hand" /\ k = "one" /\ x = 0
           There(p, w, k, x) == p = p1 /\ w = w1 /\ k = k1 /\ x = x1
<1>1. "hand" \in Wheres /\ "one" \in Entries /\ 0 \in Nat
  BY DEF Wheres, Entries
<1>2. /\ f[p1][w1][k1][x1] = 0 /\ g # 0 /\ ~Hand(p1, w1, k1, x1)
      /\ \A p \in Slots, w \in Wheres, k \in Entries, x \in Nat :
           h[p][w][k][x] = IF Hand(p, w, k, x) THEN 0
                           ELSE IF There(p, w, k, x) THEN g ELSE f[p][w][k][x]
  BY DEF Placed
<1>3. g \in PageNos /\ g \notin F
  BY <1>1 DEF Whole, Maps
<1> HIDE DEF g
<1>4. ASSUME NEW p \in Slots, NEW w \in Wheres, NEW k \in Entries, NEW x \in Nat
      PROVE  h[p][w][k][x] \notin F
  BY <1>2, <1>3, NoPageZero, SMTT(30) DEF Whole
<1>5. ASSUME NEW p \in Slots, NEW w \in Wheres, NEW k \in Entries, NEW x \in Nat,
             f[p][w][k][x] = g
      PROVE  Hand(p, w, k, x)
  BY <1>1, <1>2, <1>5, Unique DEF Whole, g
<1>6. ASSUME NEW p \in Slots, NEW w \in Wheres, NEW k \in Entries, NEW x \in Nat,
             NEW q \in Slots, NEW u \in Wheres, NEW l \in Entries, NEW y \in Nat,
             h[p][w][k][x] = h[q][u][l][y], h[p][w][k][x] # 0
      PROVE  p = q /\ w = u /\ k = l /\ x = y
  <2>1. f[p][w][k][x] = f[q][u][l][y] /\ f[p][w][k][x] # 0
          => p = q /\ w = u /\ k = l /\ x = y
    BY Unique, SMTT(30) DEF Whole
  <2>2. h[p][w][k][x] = IF There(p, w, k, x) THEN g ELSE f[p][w][k][x]
    BY <1>2, <1>6
  <2>3. h[q][u][l][y] = IF There(q, u, l, y) THEN g ELSE f[q][u][l][y]
    BY <1>2, <1>6
  <2>4. ~Hand(p, w, k, x) /\ ~Hand(q, u, l, y)
    BY <1>2, <1>6
  <2>5. f[p][w][k][x] # g /\ f[q][u][l][y] # g
    BY <1>5, <2>4
  <2> QED
    BY <1>6, <2>1, <2>2, <2>3, <2>5
<1>7. ASSUME NEW z \in Pages, z \notin F
      PROVE  \E p \in Slots, w \in Wheres, k \in Entries, x \in Nat : h[p][w][k][x] = z
  <2>1. PICK p \in Slots, w \in Wheres, k \in Entries, x \in Nat : f[p][w][k][x] = z
    BY <1>7 DEF Whole
  <2>2. CASE z = g
    <3>1. h[p1][w1][k1][x1] = z
      BY <1>2, <2>2
    <3> QED
      BY <3>1
  <2>3. CASE z # g
    <3>1. z # 0
      BY NoPageZero
    <3>2. h[p][w][k][x] = z
      BY <1>2, <2>1, <2>3, <3>1 DEF g
    <3> QED
      BY <3>2
  <2> QED
    BY <2>2, <2>3
<1> QED
  BY <1>4, <1>6, <1>7, Collect DEF Whole

(* The pages of process p0 change between its two address spaces.          *)
LEMMA MoveWhole ==
  ASSUME NEW f, NEW F, Whole(f, F), NEW h \in Maps, NEW p0 \in Slots,
         Exchanged(f, h, p0)
  PROVE  Whole(h, F)
<1> DEFINE m(p, w) == IF p = p0 /\ w = "pgdir" THEN "old"
                      ELSE IF p = p0 /\ w = "old" THEN "pgdir" ELSE w
<1>1. ASSUME NEW p \in Slots, NEW w \in Wheres
      PROVE  /\ m(p, w) \in Wheres /\ m(p, m(p, w)) = w
             /\ \A k \in Entries, x \in Nat : h[p][w][k][x] = f[p][m(p, w)][k][x]
  BY DEF Wheres, Exchanged
<1> HIDE DEF m
<1>2. ASSUME NEW p \in Slots, NEW w \in Wheres, NEW k \in Entries, NEW x \in Nat
      PROVE  h[p][w][k][x] \notin F
  <2>1. PICK a \in Wheres : h[p][w][k][x] = f[p][a][k][x]
    BY <1>1
  <2> QED
    BY <2>1 DEF Whole
<1>3. ASSUME NEW p \in Slots, NEW w \in Wheres, NEW k \in Entries, NEW x \in Nat,
             NEW q \in Slots, NEW u \in Wheres, NEW l \in Entries, NEW y \in Nat,
             h[p][w][k][x] = h[q][u][l][y], h[p][w][k][x] # 0
      PROVE  p = q /\ w = u /\ k = l /\ x = y
  <2>1. p = q /\ m(p, w) = m(q, u) /\ k = l /\ x = y
    <3>1. PICK a \in Wheres : a = m(p, w) /\ h[p][w][k][x] = f[p][a][k][x]
      BY <1>1
    <3>2. PICK b \in Wheres : b = m(q, u) /\ h[q][u][l][y] = f[q][b][l][y]
      BY <1>1
    <3>3. p = q /\ a = b /\ k = l /\ x = y
      <4>1. f[p][a][k][x] = f[q][b][l][y] /\ f[p][a][k][x] # 0 /\ OneOwner(f)
        BY <1>3, <3>1, <3>2 DEF Whole
      <4> QED
        BY <4>1, Unique
    <3> QED
      BY <3>1, <3>2, <3>3
  <2> QED
    BY <1>1, <2>1
<1>4. ASSUME NEW z \in Pages, z \notin F
      PROVE  \E p \in Slots, w \in Wheres, k \in Entries, x \in Nat : h[p][w][k][x] = z
  <2>1. PICK p \in Slots, w \in Wheres, k \in Entries, x \in Nat : f[p][w][k][x] = z
    BY <1>4 DEF Whole
  <2>2. m(p, w) \in Wheres /\ h[p][m(p, w)][k][x] = z
    BY <1>1, <2>1
  <2> QED
    BY <2>2
<1> QED
  BY <1>2, <1>3, <1>4, Collect DEF Whole

------------------------------------------------------------------------------
(* Address spaces.                                                         *)

LEMMA LeastFound ==
  ASSUME NEW S \in SUBSET Nat, S # {}
  PROVE  LeastOf(S) \in S
<1>1. \E x \in S : \A y \in S : ~(<<y, x>> \in OpToRel(<, Nat))
  BY NatLessThanWellFounded, WFMin, Zenon
<1>2. ASSUME NEW x \in Nat, NEW y \in Nat, y < x
      PROVE  <<y, x>> \in OpToRel(<, Nat)
  BY <1>2 DEF OpToRel
<1>3. \A x, y \in Nat : ~(y < x) => x <= y
  OBVIOUS
<1>4. \E x \in S : \A y \in S : x <= y
  BY <1>1, <1>2, <1>3, Zenon
<1> QED
  BY <1>4 DEF LeastOf

LEMMA InType ==
  ASSUME NEW as \in Spaces
  PROVE  /\ \A k, x : In(as, k, x) \in PageNos
         /\ as.user \in [VPages -> PageNos] /\ as.tab \in [Tabs -> PageNos]
         /\ as.dir \in PageNos /\ as.kpt \in PageNos /\ as.guard \in Int
<1>1. /\ as.user \in [VPages -> PageNos] /\ as.tab \in [Tabs -> PageNos]
      /\ as.dir \in PageNos /\ as.kpt \in PageNos /\ as.guard \in Int
  BY DEF Spaces
<1> QED
  BY <1>1, NoPageZero DEF In

LEMMA NoSpaceIs ==
  /\ NoSpace \in Spaces /\ NoSpace.guard = -1
  /\ \A v \in VPages : NoSpace.user[v] = 0
  /\ \A k, x : In(NoSpace, k, x) = 0
BY NoPageZero DEF Spaces, Entries, In, NoSpace

(* The updates of an address space, by entry.                              *)
LEMMA SetDir ==
  ASSUME NEW as \in Spaces, NEW pg \in PageNos
  PROVE  LET b == [as EXCEPT !.dir = pg] IN
         /\ b \in Spaces /\ b.user = as.user /\ b.guard = as.guard
         /\ \A k \in Entries, x \in Nat :
              In(b, k, x) = IF k = "dir" /\ x = 0 THEN pg ELSE In(as, k, x)
BY DEF Spaces, Entries, In

LEMMA SetKpt ==
  ASSUME NEW as \in Spaces, NEW pg \in PageNos
  PROVE  LET b == [as EXCEPT !.kpt = pg] IN
         /\ b \in Spaces /\ b.user = as.user /\ b.guard = as.guard
         /\ \A k \in Entries, x \in Nat :
              In(b, k, x) = IF k = "kpt" /\ x = 0 THEN pg ELSE In(as, k, x)
BY DEF Spaces, Entries, In

LEMMA TabOf ==
  ASSUME NEW v \in VPages
  PROVE  v \div NPTE \in Tabs
BY MemAssumption DEF VPages, Tabs

LEMMA SetTab ==
  ASSUME NEW as \in Spaces, NEW pg \in PageNos, NEW v \in VPages
  PROVE  LET b == Walkpgdir(as, v, pg) IN
         /\ b \in Spaces /\ b.user = as.user /\ b.guard = as.guard
         /\ \A k \in Entries, x \in Nat :
              In(b, k, x) = IF k = "tab" /\ x = v \div NPTE THEN pg ELSE In(as, k, x)
<1> DEFINE t == v \div NPTE
<1>1. t \in Tabs
  BY TabOf
<1> HIDE DEF t
<1> QED
  BY <1>1 DEF Spaces, Entries, In, Walkpgdir, t

LEMMA SetUser ==
  ASSUME NEW as \in Spaces, NEW pg \in PageNos, NEW v \in VPages
  PROVE  LET b == Mappages(as, v, pg) IN
         /\ b \in Spaces /\ b.guard = as.guard
         /\ \A w \in VPages : b.user[w] = IF w = v THEN pg ELSE as.user[w]
         /\ \A k \in Entries, x \in Nat :
              In(b, k, x) = IF k = "user" /\ x = v THEN pg ELSE In(as, k, x)
BY DEF Spaces, Entries, In, Mappages

LEMMA SetGuard ==
  ASSUME NEW as \in Spaces, NEW g \in Int
  PROVE  LET b == [as EXCEPT !.guard = g] IN
         /\ b \in Spaces /\ b.user = as.user /\ b.guard = g
         /\ \A k \in Entries, x \in Nat : In(b, k, x) = In(as, k, x)
BY DEF Spaces, Entries, In

(* What deallocuvm() takes out.                                            *)
Gone(v, from, to) == v >= RoundUp(to) /\ v * PGSIZE < from

(* left is as without some entries.                                        *)
Thinned(as, left) ==
  \A k \in Entries, x \in Nat : In(left, k, x) = 0 \/ In(left, k, x) = In(as, k, x)

UserLeft(b, as, from, to) ==
  \A v \in VPages : b.user[v] = IF Gone(v, from, to) THEN 0 ELSE as.user[v]

LEMMA DeallocIs ==
  ASSUME NEW as \in Spaces, NEW from, NEW to
  PROVE  /\ Dealloc(as, from, to) \in Spaces
         /\ Dealloc(as, from, to).guard = IF Gone(as.guard, from, to) THEN -1 ELSE as.guard
         /\ UserLeft(Dealloc(as, from, to), as, from, to)
         /\ Thinned(as, Dealloc(as, from, to))
<1>1. Dealloc(as, from, to)
        = [as EXCEPT !.user = [v \in VPages |-> IF Gone(v, from, to) THEN 0 ELSE as.user[v]],
                     !.guard = IF Gone(as.guard, from, to) THEN -1 ELSE as.guard]
  BY DEF Dealloc, Gone
<1> DEFINE u == [v \in VPages |-> IF Gone(v, from, to) THEN 0 ELSE as.user[v]]
           g == IF Gone(as.guard, from, to) THEN -1 ELSE as.guard
<1>2. u \in [VPages -> PageNos] /\ g \in Int
  <2>1. as.user \in [VPages -> PageNos] /\ as.guard \in Int
    BY InType
  <2>2. u \in [VPages -> PageNos]
    BY <2>1, NoPageZero
  <2>3. g \in Int
    <3>1. -1 \in Int
      OBVIOUS
    <3> QED
      BY <2>1, <3>1, Zenon
  <2> QED
    BY <2>2, <2>3
<1>3. \A v \in VPages : u[v] = IF Gone(v, from, to) THEN 0 ELSE as.user[v]
  OBVIOUS
<1> HIDE DEF u
<1>4. /\ Dealloc(as, from, to) \in Spaces
      /\ Dealloc(as, from, to).guard = g /\ Dealloc(as, from, to).user = u
      /\ \A k, x : In(Dealloc(as, from, to), k, x)
                     = IF k = "user" /\ x \in VPages THEN u[x] ELSE In(as, k, x)
  <2> HIDE DEF g
  <2>1. Dealloc(as, from, to) = [as EXCEPT !.user = u, !.guard = g]
    BY <1>1 DEF u, g
  <2> QED
    BY <1>2, <2>1 DEF Spaces, Entries, In
<1>5. \A x \in VPages : In(as, "user", x) = as.user[x]
  BY DEF In
<1>6. UserLeft(Dealloc(as, from, to), as, from, to)
  BY <1>3, <1>4 DEF UserLeft
<1>7. Thinned(as, Dealloc(as, from, to))
  BY <1>3, <1>4, <1>5 DEF Thinned
<1> QED
  BY <1>4, <1>6, <1>7

LEMMA PagesOfIs ==
  ASSUME NEW as \in Spaces
  PROVE  \A g : g \in PagesOf(as) <=>
           g # 0 /\ \E k \in Entries, x \in Nat : In(as, k, x) = g
<1>1. Tabs \subseteq Nat /\ VPages \subseteq Nat
  BY MemAssumption DEF Tabs, VPages
<1>2. /\ \A t \in Tabs : In(as, "tab", t) = as.tab[t]
      /\ \A v \in VPages : In(as, "user", v) = as.user[v]
      /\ In(as, "dir", 0) = as.dir /\ In(as, "kpt", 0) = as.kpt
  BY DEF In
<1>3. \A k, x : In(as, k, x) \in {0, as.dir, as.kpt} \cup {as.tab[t] : t \in Tabs}
                                 \cup {as.user[v] : v \in VPages}
  BY DEF In
<1>4. PagesOf(as) = ({as.dir, as.kpt} \cup {as.tab[t] : t \in Tabs}
                     \cup {as.user[v] : v \in VPages}) \ {0}
  <2>1. DOMAIN as.tab = Tabs /\ DOMAIN as.user = VPages
    BY DEF Spaces
  <2> QED
    BY <2>1 DEF PagesOf, Used
<1>5. ASSUME NEW g, g \in PagesOf(as)
      PROVE  g # 0 /\ \E k \in Entries, x \in Nat : In(as, k, x) = g
  <2>1. CASE g = as.dir
    BY <1>2, <1>4, <1>5, <2>1 DEF Entries
  <2>2. CASE g = as.kpt
    BY <1>2, <1>4, <1>5, <2>2 DEF Entries
  <2>3. ASSUME NEW t \in Tabs, g = as.tab[t]
        PROVE  \E k \in Entries, x \in Nat : In(as, k, x) = g
    BY <1>1, <1>2, <2>3 DEF Entries
  <2>4. ASSUME NEW v \in VPages, g = as.user[v]
        PROVE  \E k \in Entries, x \in Nat : In(as, k, x) = g
    BY <1>1, <1>2, <2>4 DEF Entries
  <2> QED
    BY <1>4, <1>5, <2>1, <2>2, <2>3, <2>4
<1>6. ASSUME NEW k \in Entries, NEW x \in Nat, In(as, k, x) # 0
      PROVE  In(as, k, x) \in PagesOf(as)
  BY <1>3, <1>4, <1>6
<1> QED
  BY <1>5, <1>6

------------------------------------------------------------------------------
(* What is in the places.                                                  *)

MapOK ==
  /\ Map \in Maps
  /\ \A p \in Slots, k \in Entries, x \in Nat :
       /\ Map[p]["kstack"][k][x] = Single(kstack[p], k, x)
       /\ Map[p]["hand"][k][x] = Single(build[p].mem, k, x)
       /\ Map[p]["pgdir"][k][x] = In(pgdir[p], k, x)
       /\ Map[p]["old"][k][x] = In(Old(p), k, x)

LEMMA OldType ==
  ASSUME MemTypeOK, NEW p \in Slots
  PROVE  Old(p) \in Spaces
BY NoSpaceIs DEF MemTypeOK, Old, Builds

LEMMA MapIs == MemTypeOK => MapOK
<1> SUFFICES ASSUME MemTypeOK PROVE MapOK
  OBVIOUS
<1>1. ASSUME NEW p \in Slots, NEW k \in Entries, NEW x \in Nat
      PROVE  /\ In(pgdir[p], k, x) \in PageNos /\ In(Old(p), k, x) \in PageNos
             /\ Single(kstack[p], k, x) \in PageNos
             /\ Single(build[p].mem, k, x) \in PageNos
  <2>1. pgdir[p] \in Spaces /\ Old(p) \in Spaces
    BY OldType DEF MemTypeOK
  <2>2. kstack[p] \in PageNos /\ build[p].mem \in PageNos
    BY DEF MemTypeOK, Builds
  <2> QED
    BY <2>1, <2>2, InType, NoPageZero DEF Single
<1>2. \A p \in Slots, w \in Wheres, k \in Entries, x \in Nat : At(p, w, k, x) \in PageNos
  BY <1>1 DEF At, Wheres
<1>3. Map \in Maps
  BY <1>2 DEF Map, Maps
<1>4. ASSUME NEW p \in Slots, NEW w \in Wheres, NEW k \in Entries, NEW x \in Nat
      PROVE  Map[p][w][k][x] = At(p, w, k, x)
  BY DEF Map
<1> QED
  BY <1>3, <1>4 DEF MapOK, At, Wheres

LEMMA MapIsNext == MemTypeOK' => MapOK'
BY MapIs, PTL

------------------------------------------------------------------------------
(* userinit().                                                             *)

LEMMA Numbers ==
  /\ 1 \in Slots /\ 0 \notin Slots /\ 0 \in VPages /\ 0 \in Tabs
  /\ VPages \subseteq Nat /\ Tabs \subseteq Nat
  /\ {1, 2, 3, 4, 5} \subseteq Pages /\ Pages = 1..5 \cup 6..NPages
BY MemAssumption DEF Slots, VPages, Tabs, Pages

LEMMA MemStart == MemInit => MemInv
<1> SUFFICES ASSUME MemInit PROVE MemInv
  OBVIOUS
<1> DEFINE first == [dir |-> 2, kpt |-> 3, tab |-> [t \in Tabs |-> IF t = 0 THEN 4 ELSE 0],
                     user |-> [v \in VPages |-> IF v = 0 THEN 5 ELSE 0], guard |-> -1]
<1>1. /\ first \in Spaces /\ first.guard = -1
      /\ \A v \in VPages : first.user[v] = IF v = 0 THEN 5 ELSE 0
      /\ \A k \in Entries, x \in Nat :
           In(first, k, x) = IF x # 0 \/ k = "one" THEN 0
                             ELSE IF k = "dir" THEN 2 ELSE IF k = "kpt" THEN 3
                             ELSE IF k = "tab" THEN 4 ELSE 5
  <2>1. first \in Spaces
    BY Numbers, NoPageZero DEF Spaces
  <2> QED
    BY <2>1, Numbers DEF In, Entries
<1>2. /\ pgdir = [p \in Slots |-> IF p = 1 THEN first ELSE NoSpace]
      /\ kstack = [p \in Slots |-> IF p = 1 THEN 1 ELSE 0]
      /\ build = [p \in Slots |-> NoBuild]
      /\ sz = [p \in Slots |-> IF p = 1 THEN PGSIZE ELSE 0]
      /\ freelist = 6..NPages
  BY DEF MemInit, Freerange
<1> HIDE DEF first
<1>3. NoBuild \in Builds /\ NoBuild.kind = "none" /\ NoBuild.mem = 0 /\ NoBuild.for = 0
      /\ NoBuild.upto = 0
  BY NoSpaceIs, NoPageZero, MemAssumption DEF NoBuild, Builds
<1>4. MemTypeOK
  <2>1. PGSIZE \in Nat
    BY MemAssumption
  <2> QED
    BY <1>1, <1>2, <1>3, <2>1, NoSpaceIs, NoPageZero, Numbers DEF MemTypeOK
<1>5. BuildsApart /\ HandUsed
  BY <1>2, <1>3 DEF BuildsApart, HandUsed
<1>6. Whole(Map, freelist)
  <2>1. MapOK
    BY <1>4, MapIs
  <2>2. \A p \in Slots : Old(p) = NoSpace
    BY <1>2, <1>3 DEF Old
  <2> DEFINE FirstAt(w, k, g) ==
               \/ w = "kstack" /\ k = "one" /\ g = 1
               \/ w = "pgdir" /\ k = "dir" /\ g = 2
               \/ w = "pgdir" /\ k = "kpt" /\ g = 3
               \/ w = "pgdir" /\ k = "tab" /\ g = 4
               \/ w = "pgdir" /\ k = "user" /\ g = 5
  <2>3. ASSUME NEW p \in Slots, NEW w \in Wheres, NEW k \in Entries, NEW x \in Nat,
               NEW g, g = Map[p][w][k][x], g # 0
        PROVE  /\ p = 1 /\ x = 0
               /\ FirstAt(w, k, g)
    <3>1. CASE w = "kstack"
      <4>1. g = Single(kstack[p], k, x)
        BY <2>1, <2>3, <3>1 DEF MapOK
      <4> QED
        BY <1>2, <2>3, <3>1, <4>1 DEF Single
    <3>2. CASE w = "hand"
      <4>1. g = Single(build[p].mem, k, x) /\ build[p].mem = 0
        BY <1>2, <1>3, <2>1, <2>3, <3>2 DEF MapOK
      <4> QED
        BY <2>3, <4>1 DEF Single
    <3>3. CASE w = "pgdir"
      <4>1. g = In(pgdir[p], k, x)
        BY <2>1, <2>3, <3>3 DEF MapOK
      <4>2. p = 1
        BY <1>2, <2>3, <4>1, NoSpaceIs
      <4>3. g = In(first, k, x)
        BY <1>2, <4>1, <4>2
      <4> QED
        BY <1>1, <2>3, <3>3, <4>2, <4>3 DEF Entries
    <3>4. CASE w = "old"
      <4>1. g = In(Old(p), k, x)
        BY <2>1, <2>3, <3>4 DEF MapOK
      <4> QED
        BY <2>2, <2>3, <4>1, NoSpaceIs
    <3> QED
      BY <3>1, <3>2, <3>3, <3>4 DEF Wheres
  <2>4. Map \in Maps
    BY <2>1 DEF MapOK
  <2>5. OneOwner(Map)
    <3>1. ASSUME NEW p \in Slots, NEW w \in Wheres, NEW k \in Entries, NEW x \in Nat,
                 NEW q \in Slots, NEW u \in Wheres, NEW l \in Entries, NEW y \in Nat,
                 Map[p][w][k][x] = Map[q][u][l][y], Map[p][w][k][x] # 0
          PROVE  p = q /\ w = u /\ k = l /\ x = y
      <4> HIDE DEF FirstAt
      <4>1. PICK g : g = Map[p][w][k][x]
        OBVIOUS
      <4>2. p = 1 /\ x = 0 /\ FirstAt(w, k, g)
        BY <2>3, <3>1, <4>1
      <4>3. q = 1 /\ y = 0 /\ FirstAt(u, l, g)
        BY <2>3, <3>1, <4>1
      <4>4. w = u /\ k = l
        <5> USE DEF FirstAt
        <5>6. FirstAt(w, k, g) /\ FirstAt(u, l, g)
          BY <4>2, <4>3
        <5>1. CASE g = 1
          BY <5>6, <5>1
        <5>2. CASE g = 2
          BY <5>6, <5>2
        <5>3. CASE g = 3
          BY <5>6, <5>3
        <5>4. CASE g = 4
          BY <5>6, <5>4
        <5>5. CASE g = 5
          BY <5>6, <5>5
        <5> QED
          BY <5>6, <5>1, <5>2, <5>3, <5>4, <5>5
      <4> QED
        BY <4>2, <4>3, <4>4
    <3> QED
      BY <3>1, Collect
  <2>6. ASSUME NEW p \in Slots, NEW w \in Wheres, NEW k \in Entries, NEW x \in Nat
        PROVE  Map[p][w][k][x] \notin freelist
    <3>1. PICK g : g = Map[p][w][k][x]
      OBVIOUS
    <3>2. g = 0 \/ FirstAt(w, k, g)
      <4> HIDE DEF FirstAt
      <4> QED
        BY <2>3, <3>1
    <3>3. g \in {0, 1, 2, 3, 4, 5}
      BY <3>2
    <3>4. g \notin freelist
      BY <1>2, <3>3, MemAssumption
    <3> QED
      BY <3>1, <3>4
  <2>7. ASSUME NEW g \in Pages, g \notin freelist
        PROVE  \E p \in Slots, w \in Wheres, k \in Entries, x \in Nat : Map[p][w][k][x] = g
    <3>1. g \in {1, 2, 3, 4, 5}
      BY <1>2, <2>7, Numbers
    <3>2. /\ Map[1]["kstack"]["one"][0] = 1 /\ Map[1]["pgdir"]["dir"][0] = 2
          /\ Map[1]["pgdir"]["kpt"][0] = 3 /\ Map[1]["pgdir"]["tab"][0] = 4
          /\ Map[1]["pgdir"]["user"][0] = 5
      <4>1. pgdir[1] = first /\ kstack[1] = 1
        BY <1>2, Numbers
      <4>2. /\ Map[1]["kstack"]["one"][0] = Single(1, "one", 0)
            /\ \A k \in Entries : Map[1]["pgdir"][k][0] = In(first, k, 0)
        <5>1. Map[1]["kstack"]["one"][0] = Single(kstack[1], "one", 0)
          BY <2>1, Numbers DEF MapOK, Entries
        <5>2. \A k \in Entries : Map[1]["pgdir"][k][0] = In(pgdir[1], k, 0)
          BY <2>1, Numbers DEF MapOK
        <5> QED
          BY <4>1, <5>1, <5>2
      <4>3. /\ In(first, "dir", 0) = 2 /\ In(first, "kpt", 0) = 3
            /\ In(first, "tab", 0) = 4 /\ In(first, "user", 0) = 5
        BY Numbers DEF first, In
      <4> QED
        BY <4>2, <4>3 DEF Single, Entries
    <3> QED
      BY <3>1, <3>2, Numbers DEF Wheres, Entries
  <2>8. freelist \subseteq Pages
    BY <1>2, Numbers
  <2> QED
    BY <2>4, <2>5, <2>6, <2>7, <2>8 DEF Whole
<1>7. SizesFit
  BY <1>2, <1>3, MemAssumption DEF SizesFit
<1>8. SettledFits
  <2>1. Guarded(NoSpace) /\ Guarded(first) /\ NoSpace.user[0] = 0
    BY <1>1, NoSpaceIs, Numbers DEF Guarded
  <2>2. Covers(first, PGSIZE)
    <3>1. ASSUME NEW v \in VPages PROVE first.user[v] # 0 <=> v * PGSIZE < PGSIZE
      <4>1. v \in Nat /\ PGSIZE \in Nat /\ PGSIZE > 0
        BY Numbers, MemAssumption
      <4>2. v # 0 => ~(v * PGSIZE < PGSIZE)
        BY <4>1
      <4>3. v = 0 => v * PGSIZE < PGSIZE
        BY <4>1
      <4>4. first.user[v] = IF v = 0 THEN 5 ELSE 0
        BY <1>1
      <4> QED
        BY <4>2, <4>3, <4>4
    <3> QED
      BY <3>1 DEF Covers, Below
  <2> QED
    BY <1>2, <2>1, <2>2 DEF SettledFits
<1>9. UnusedEmpty
  BY <1>2 DEF UnusedEmpty
<1>10. BuildsFit
  BY <1>2, <1>3 DEF BuildsFit, AboveEmpty, GrowFits, ExecFits, ForkFits
<1> QED
  BY <1>4, <1>5, <1>6, <1>7, <1>8, <1>9, <1>10 DEF MemInv

------------------------------------------------------------------------------
(* The steps of a build.                                                   *)

LEMMA BuildType ==
  ASSUME MemTypeOK, NEW p \in Slots
  PROVE  /\ build[p].kind \in {"none", "sbrk", "fork", "exec"}
         /\ build[p].for \in 0..NProcs /\ build[p].upto \in Nat
         /\ build[p].mem \in PageNos /\ build[p].old \in Spaces
         /\ pgdir[p] \in Spaces /\ kstack[p] \in PageNos /\ sz[p] \in Nat
BY DEF MemTypeOK, Builds

(* A build is for a slot that nobody else builds and that is not settled.  *)
LEMMA BuildFor ==
  ASSUME MemTypeOK, BuildsApart, NEW p \in Slots, build[p].kind # "none"
  PROVE  /\ build[p].for \in Slots
         /\ \A q \in Slots : q # p => build[q].for # build[p].for
         /\ \A q \in Slots : q # p /\ build[q].kind # "none" => q # build[p].for
         /\ ~Settled(build[p].for)
<1>1. build[p].for \in Slots
  BY BuildType DEF BuildsApart
<1>2. \A q \in Slots : q # p => build[q].for # build[p].for
  BY <1>1, Numbers DEF BuildsApart
<1>3. \A q \in Slots : q # p /\ build[q].kind # "none" => q # build[p].for
  BY <1>1, BuildType DEF BuildsApart
<1>4. ~Settled(build[p].for)
  BY <1>1, BuildType DEF BuildsApart, Settled
<1> QED
  BY <1>1, <1>2, <1>3, <1>4

LEMMA NeedIs ==
  ASSUME MemTypeOK, NEW p \in Slots, NEW c \in Slots, c = build[p].for
  PROVE  /\ NextNeed(p) \in {"kstack", "dir", "kpt", "mem", "tab", "map", "done"}
         /\ NextNeed(p) = "kstack" <=> kstack[c] = 0
         /\ NextNeed(p) = "dir" => pgdir[c].dir = 0
         /\ NextNeed(p) = "kpt" => pgdir[c].kpt = 0
         /\ NextNeed(p) \in {"mem", "tab", "map"} => Missing(p) # {}
         /\ NextNeed(p) = "mem" => build[p].mem = 0
         /\ NextNeed(p) = "tab" => pgdir[c].tab[LeastOf(Missing(p)) \div NPTE] = 0
         /\ NextNeed(p) = "map" => build[p].mem # 0
         /\ NextNeed(p) = "done" => Missing(p) = {}
BY DEF NextNeed

(* The page that mappages() maps next.                                     *)
LEMMA NextPage ==
  ASSUME MemTypeOK, NEW p \in Slots, Missing(p) # {}
  PROVE  /\ LeastOf(Missing(p)) \in VPages
         /\ Below(LeastOf(Missing(p)), build[p].upto)
         /\ pgdir[build[p].for].user[LeastOf(Missing(p))] = 0
<1>1. Missing(p) \subseteq Nat
  BY Numbers DEF Missing
<1>2. LeastOf(Missing(p)) \in Missing(p)
  BY <1>1, LeastFound
<1> QED
  BY <1>2 DEF Missing, Below

LEMMA GuardKept ==
  ASSUME NEW as, NEW b, Guarded(as), b.guard = as.guard,
         \A v \in VPages : as.user[v] # 0 => b.user[v] # 0
  PROVE  Guarded(b)
BY DEF Guarded

(* The step changes only the address space of slot c, to as.               *)
SpaceBecomes(c, as) ==
  /\ pgdir' \in [Slots -> Spaces] /\ pgdir'[c] = as
  /\ \A q \in Slots : q # c => pgdir'[q] = pgdir[q]

(* as is old with more pages mapped, none of them from byte n on.          *)
Extends(as, old, n) ==
  /\ as.guard = old.guard
  /\ \A v \in VPages : old.user[v] # 0 => as.user[v] # 0
  /\ \A v \in VPages : ~Below(v, n) => as.user[v] = 0

(* The step changes no build but the page in the hand of p, which has a    *)
(* page only while as lacks one.                                           *)
HandChanges(p, as) ==
  /\ build' \in [Slots -> Builds] /\ \A q \in Slots : q # p => build'[q] = build[q]
  /\ \A q \in Slots : /\ build'[q].kind = build[q].kind /\ build'[q].for = build[q].for
                      /\ build'[q].upto = build[q].upto /\ build'[q].old = build[q].old
  /\ build'[p].mem # 0 => \E v \in VPages : Below(v, build[p].upto) /\ as.user[v] = 0

StackBecomes(c, ks) ==
  /\ kstack' \in [Slots -> PageNos] /\ kstack'[c] = ks
  /\ \A q \in Slots : q # c => kstack'[q] = kstack[q]

(* A step of the build of p changes the address space of the slot c it     *)
(* builds: it maps pages below the size to reach.  It may give it a kernel *)
(* stack and change the page in hand.                                      *)
LEMMA BuildKeeps ==
  ASSUME MemTypeOK, BuildsApart, HandUsed, SizesFit, SettledFits, UnusedEmpty, BuildsFit,
         NEW p \in Slots, build[p].kind # "none", NEW c \in Slots, c = build[p].for,
         NEW as \in Spaces, SpaceBecomes(c, as), Extends(as, pgdir[c], build[p].upto),
         NEW ks \in Pages, StackBecomes(c, ks), HandChanges(p, as),
         UNCHANGED sz
  PROVE  /\ MemTypeOK' /\ BuildsApart' /\ HandUsed'
         /\ SizesFit' /\ SettledFits' /\ UnusedEmpty' /\ BuildsFit'
<1> USE DEF SpaceBecomes, Extends, StackBecomes, HandChanges
<1>1. /\ c \in Slots
      /\ \A q \in Slots : q # p => build[q].for # c
      /\ \A q \in Slots : q # p /\ build[q].kind # "none" => q # c
      /\ ~Settled(c)
  BY BuildFor
<1>2. /\ \A q \in Slots : pgdir'[q] = IF q = c THEN as ELSE pgdir[q]
      /\ \A q \in Slots : kstack'[q] = IF q = c THEN ks ELSE kstack[q]
  OBVIOUS
<1>3. ks \in PageNos /\ ks # 0
  BY NoPageZero
<1>4. /\ build' \in [Slots -> Builds]
      /\ \A q \in Slots : q # p => build'[q] = build[q]
      /\ \A q \in Slots : /\ build'[q].kind = build[q].kind /\ build'[q].for = build[q].for
                          /\ build'[q].upto = build[q].upto /\ build'[q].old = build[q].old
  OBVIOUS
<1>5. MemTypeOK'
  BY <1>3, <1>4 DEF MemTypeOK
<1>6. BuildsApart'
  BY <1>2, <1>3, <1>4 DEF BuildsApart
<1>7. SizesFit'
  BY <1>4 DEF SizesFit
<1>8. \A q \in Slots : Settled(q)' <=> Settled(q)
  BY <1>4 DEF Settled
<1>9. SettledFits'
  BY <1>1, <1>2, <1>8 DEF SettledFits
<1>10. UnusedEmpty'
  <2>1. ASSUME NEW q \in Slots, kstack'[q] = 0 PROVE pgdir'[q] = NoSpace
    <3>1. q # c /\ kstack[q] = 0
      BY <1>2, <1>3, <2>1
    <3>2. pgdir'[q] = pgdir[q]
      BY <1>2, <3>1
    <3> QED
      BY <3>1, <3>2 DEF UnusedEmpty
  <2> QED
    BY <2>1 DEF UnusedEmpty
<1>11. BuildsFit'
  <2>1. ASSUME NEW q \in Slots, build[q].kind # "none", NEW v \in VPages,
               ~Below(v, build[q].upto)
        PROVE  pgdir'[build[q].for].user[v] = 0
    <3>1. build[q].for \in Slots
      BY <2>1, BuildFor
    <3>2. CASE q = p
      <4>1. pgdir'[build[q].for] = as
        BY <1>2, <3>2
      <4> QED
        BY <2>1, <3>2, <4>1
    <3>3. CASE q # p
      <4>1. pgdir'[build[q].for] = pgdir[build[q].for]
        BY <1>1, <1>2, <3>1, <3>3
      <4> QED
        BY <2>1, <4>1 DEF BuildsFit, AboveEmpty, GrowFits, ExecFits, ForkFits
    <3> QED
      BY <3>2, <3>3
  <2>2. ASSUME NEW q \in Slots, build[q].kind = "sbrk"
        PROVE  /\ \A v \in VPages : Below(v, sz[q]) => pgdir'[q].user[v] # 0
               /\ sz[q] <= build[q].upto /\ Guarded(pgdir'[q])
    <3>1. CASE q = c
      <4>1. q = p
        BY <1>1, <2>2, <3>1
      <4>2. pgdir'[q] = as
        BY <3>1
      <4>3. Guarded(pgdir[c])
        BY <2>2, <3>1 DEF BuildsFit, GrowFits
      <4>4. Guarded(as)
        BY <4>3, GuardKept, ZenonT(60)
      <4>5. \A v \in VPages : Below(v, sz[q]) => as.user[v] # 0
        BY <2>2, <3>1 DEF BuildsFit, GrowFits
      <4>6. sz[q] <= build[q].upto
        BY <2>2 DEF BuildsFit, GrowFits
      <4> QED
        BY <4>2, <4>4, <4>5, <4>6
    <3>2. CASE q # c
      BY <1>2, <2>2, <3>2 DEF BuildsFit, AboveEmpty, GrowFits, ExecFits, ForkFits
    <3> QED
      BY <3>1, <3>2
  <2>3. ASSUME NEW q \in Slots, build[q].kind = "fork"
        PROVE  build[q].upto = sz[q] /\ Covers(pgdir'[q], sz[q])
    <3>1. q # c
      BY <1>1, <2>3 DEF BuildsApart
    <3> QED
      BY <1>2, <2>3, <3>1 DEF BuildsFit, AboveEmpty, GrowFits, ExecFits, ForkFits
  <2>4. ASSUME NEW q \in Slots, build[q].kind = "exec"
        PROVE  /\ Covers(build[q].old, sz[q]) /\ Guarded(build[q].old)
               /\ \E n \in 0..(UserPages - 2) : build[q].upto = (n + 2) * PGSIZE
    BY <2>4 DEF BuildsFit, AboveEmpty, GrowFits, ExecFits, ForkFits
  <2>5. AboveEmpty'
    BY <1>4, <2>1 DEF AboveEmpty
  <2>6. GrowFits'
    BY <1>4, <2>2 DEF GrowFits
  <2>7. ExecFits'
    BY <1>4, <2>4 DEF ExecFits
  <2>8. ForkFits'
    BY <1>4, <2>3 DEF ForkFits
  <2> QED
    BY <2>5, <2>6, <2>7, <2>8 DEF BuildsFit
<1>12. HandUsed'
  <2>1. ASSUME NEW q \in Slots, build'[q].mem # 0 PROVE Missing(q)' # {}
    <3>1. CASE q = p
      <4>1. PICK v \in VPages : Below(v, build[p].upto) /\ as.user[v] = 0
        BY <2>1, <3>1
      <4>2. v \in Missing(q)'
        BY <1>4, <3>1, <4>1 DEF Missing, Below
      <4> QED
        BY <4>2
    <3>2. CASE q # p
      <4>1. build'[q] = build[q] /\ build[q].mem # 0
        BY <1>4, <2>1, <3>2
      <4>2. build[q].kind # "none"
        BY <4>1 DEF BuildsApart, NoBuild
      <4>3. build[q].for \in Slots /\ build[q].for # c
        BY <1>1, <3>2, <4>2, BuildFor
      <4>4. pgdir'[build[q].for] = pgdir[build[q].for]
        BY <4>3
      <4>5. Missing(q)' = Missing(q)
        BY <4>1, <4>4 DEF Missing
      <4> QED
        BY <4>1, <4>5 DEF HandUsed
    <3> QED
      BY <3>1, <3>2
  <2> QED
    BY <2>1 DEF HandUsed
<1> QED
  BY <1>5, <1>6, <1>7, <1>9, <1>10, <1>11, <1>12

LEMMA LeastFree ==
  ASSUME Whole(Map, freelist), freelist # {}
  PROVE  /\ LeastOf(freelist) \in freelist /\ LeastOf(freelist) \in Pages
         /\ LeastOf(freelist) \in PageNos /\ LeastOf(freelist) # 0
<1>1. freelist \subseteq Pages
  BY DEF Whole
<1>2. Pages \subseteq Nat
  BY MemAssumption DEF Pages
<1>3. LeastOf(freelist) \in freelist
  BY <1>1, <1>2, LeastFound
<1> QED
  BY <1>1, <1>3, NoPageZero

(* allocproc(): the kernel stack of a child.                               *)
LEMMA StepKstack ==
  ASSUME MemInv, NEW p \in Slots, BuildStep(p), NextNeed(p) = "kstack"
  PROVE  MemInv'
<1> DEFINE c == build[p].for
           pg == LeastOf(freelist)
<1>1. MemTypeOK /\ BuildsApart /\ HandUsed /\ Whole(Map, freelist) /\ SizesFit
      /\ SettledFits /\ UnusedEmpty /\ BuildsFit /\ build[p].kind # "none"
  BY DEF MemInv, BuildStep
<1>2. c \in Slots
  BY <1>1, BuildFor
<1>3. pg \in freelist /\ pg \in Pages /\ pg \in PageNos /\ pg # 0
  BY <1>1, LeastFree DEF BuildStep
<1>4. /\ freelist' = freelist \ {pg} /\ kstack' = [kstack EXCEPT ![c] = pg]
      /\ pgdir' = pgdir /\ build' = build /\ sz' = sz
  BY DEF BuildStep
<1>5. kstack[c] = 0
  BY <1>1, <1>2, NeedIs
<1> HIDE DEF c, pg
<1>6. MemTypeOK' /\ BuildsApart' /\ HandUsed' /\ SizesFit' /\ SettledFits' /\ UnusedEmpty'
      /\ BuildsFit'
  <2>1. pgdir[c] \in Spaces /\ c = build[p].for
    BY <1>1, <1>2, BuildType DEF c
  <2>2. \A v \in VPages : ~Below(v, build[p].upto) => pgdir[c].user[v] = 0
    BY <1>1 DEF BuildsFit, AboveEmpty, c
  <2>3. build[p].mem # 0 => \E v \in VPages : Below(v, build[p].upto) /\ pgdir[c].user[v] = 0
    BY <1>1 DEF HandUsed, Missing, Below, c
  <2>4. /\ kstack' \in [Slots -> PageNos] /\ kstack'[c] = pg
        /\ \A q \in Slots : q # c => kstack'[q] = kstack[q]
    BY <1>1, <1>2, <1>3, <1>4 DEF MemTypeOK
  <2>5. pgdir' \in [Slots -> Spaces] /\ build' \in [Slots -> Builds]
    BY <1>1, <1>4 DEF MemTypeOK
  <2> QED
    BY <1>1, <1>2, <1>3, <1>4, <2>1, <2>2, <2>3, <2>4, <2>5, BuildKeeps DEF SpaceBecomes, Extends, StackBecomes, HandChanges
<1>7. Whole(Map, freelist)'
  <2>1. MapOK /\ MapOK'
    BY <1>1, <1>6, MapIs, MapIsNext
  <2>2. ASSUME NEW q \in Slots, NEW w \in Wheres, NEW k \in Entries, NEW x \in Nat
        PROVE  Map'[q][w][k][x] = IF q = c /\ w = "kstack" /\ k = "one" /\ x = 0 THEN pg
                                  ELSE Map[q][w][k][x]
    <3>1. Old(q)' = Old(q)
      BY <1>4 DEF Old
    <3>2. CASE w = "kstack"
      BY <1>1, <1>2, <1>4, <2>1, <3>2 DEF MapOK, Single, MemTypeOK
    <3>3. CASE w \in {"hand", "pgdir", "old"}
      BY <1>4, <2>1, <3>1, <3>3 DEF MapOK
    <3> QED
      BY <3>2, <3>3 DEF Wheres
  <2>3. Map[c]["kstack"]["one"][0] = 0
    BY <1>2, <1>5, <2>1 DEF MapOK, Single, Entries
  <2>4. Map' \in Maps
    BY <2>1 DEF MapOK
  <2>5. "kstack" \in Wheres /\ "one" \in Entries /\ 0 \in Nat
    BY DEF Wheres, Entries
  <2>6. Taken(Map, Map', c, "kstack", "one", 0, pg)
    BY <2>2, <2>3, Zenon DEF Taken
  <2>7. Whole(Map', freelist \ {pg})
    BY <1>1, <1>2, <1>3, <2>4, <2>5, <2>6, TakeWhole
  <2> QED
    BY <1>4, <2>7
<1> QED
  BY <1>6, <1>7 DEF MemInv

(* as is old with the table pg in its entry <<k0, x0>>.                    *)
Entered(as, old, k0, x0, pg) ==
  /\ as.user = old.user /\ as.guard = old.guard
  /\ \A k \in Entries, x \in Nat :
       In(as, k, x) = IF k = k0 /\ x = x0 THEN pg ELSE In(old, k, x)

(* setupkvm() and walkpgdir(): a free page becomes a table of the new      *)
(* address space, in its entry <<k0, x0>>.                                 *)
LEMMA StepTable ==
  ASSUME MemInv, NEW p \in Slots, build[p].kind # "none", NEW c \in Slots,
         c = build[p].for, kstack[c] # 0,
         NEW pg \in freelist, freelist' = freelist \ {pg},
         NEW k0 \in Entries, NEW x0 \in Nat, In(pgdir[c], k0, x0) = 0,
         NEW as \in Spaces, Entered(as, pgdir[c], k0, x0, pg), SpaceBecomes(c, as),
         kstack' = kstack, build' = build, sz' = sz
  PROVE  MemInv'
<1>1. MemTypeOK /\ BuildsApart /\ HandUsed /\ Whole(Map, freelist) /\ SizesFit
      /\ SettledFits /\ UnusedEmpty /\ BuildsFit
  BY DEF MemInv
<1>2. /\ pgdir' \in [Slots -> Spaces] /\ pgdir'[c] = as
      /\ \A q \in Slots : q # c => pgdir'[q] = pgdir[q]
  BY DEF SpaceBecomes
<1>5. /\ as.user = pgdir[c].user /\ as.guard = pgdir[c].guard
      /\ \A k \in Entries, x \in Nat :
           In(as, k, x) = IF k = k0 /\ x = x0 THEN pg ELSE In(pgdir[c], k, x)
  BY DEF Entered
<1>3. MemTypeOK' /\ BuildsApart' /\ HandUsed' /\ SizesFit' /\ SettledFits' /\ UnusedEmpty'
      /\ BuildsFit'
  <2>1. \A v \in VPages : ~Below(v, build[p].upto) => as.user[v] = 0
    BY <1>1, <1>5 DEF BuildsFit, AboveEmpty
  <2>2. build[p].mem # 0 => \E v \in VPages : Below(v, build[p].upto) /\ as.user[v] = 0
    BY <1>1, <1>5 DEF HandUsed, Missing, Below
  <2>3. kstack[c] \in Pages /\ kstack \in [Slots -> PageNos] /\ build \in [Slots -> Builds]
    BY <1>1, NoPageZero DEF MemTypeOK
  <2>4. kstack' \in [Slots -> PageNos] /\ build' \in [Slots -> Builds]
    BY <2>3
  <2>5. as.guard = pgdir[c].guard /\ \A v \in VPages : pgdir[c].user[v] # 0 => as.user[v] # 0
    BY <1>5
  <2> QED
    BY <1>1, <1>2, <2>1, <2>2, <2>3, <2>4, <2>5, BuildKeeps, ZenonT(60) DEF SpaceBecomes, Extends, StackBecomes, HandChanges
<1>4. Whole(Map, freelist)'
  <2>1. MapOK /\ MapOK'
    BY <1>1, <1>3, MapIs, MapIsNext
  <2>2. ASSUME NEW q \in Slots, NEW w \in Wheres, NEW k \in Entries, NEW x \in Nat
        PROVE  Map'[q][w][k][x] = IF q = c /\ w = "pgdir" /\ k = k0 /\ x = x0 THEN pg
                                  ELSE Map[q][w][k][x]
    <3>1. Old(q)' = Old(q)
      BY DEF Old
    <3>2. CASE w = "pgdir"
      <4>1. Map'[q][w][k][x] = In(pgdir'[q], k, x) /\ Map[q][w][k][x] = In(pgdir[q], k, x)
        BY <2>1, <3>2 DEF MapOK
      <4>2. CASE q = c
        BY <1>2, <1>5, <3>2, <4>1, <4>2
      <4>3. CASE q # c
        BY <1>2, <4>1, <4>3
      <4> QED
        BY <4>2, <4>3
    <3>3. CASE w \in {"hand", "kstack", "old"}
      BY <2>1, <3>1, <3>3 DEF MapOK
    <3> QED
      BY <3>2, <3>3 DEF Wheres
  <2>3. Map[c]["pgdir"][k0][x0] = 0
    BY <2>1 DEF MapOK
  <2>4. Map' \in Maps
    BY <2>1 DEF MapOK
  <2>5. "pgdir" \in Wheres
    BY DEF Wheres
  <2>6. Taken(Map, Map', c, "pgdir", k0, x0, pg)
    BY <2>2, <2>3, Zenon DEF Taken
  <2>7. Whole(Map', freelist \ {pg})
    BY <1>1, <2>4, <2>5, <2>6, TakeWhole
  <2> QED
    BY <2>7
<1> QED
  BY <1>3, <1>4 DEF MemInv

LEMMA StepTables ==
  ASSUME MemInv, NEW p \in Slots, BuildStep(p), NextNeed(p) \in {"dir", "kpt", "tab"}
  PROVE  MemInv'
<1> DEFINE c == build[p].for
           pg == LeastOf(freelist)
           v == LeastOf(Missing(p))
<1>1. MemTypeOK /\ BuildsApart /\ Whole(Map, freelist) /\ build[p].kind # "none"
  BY DEF MemInv, BuildStep
<1>2. c \in Slots /\ pgdir[c] \in Spaces
  BY <1>1, BuildFor, BuildType
<1>3. pg \in freelist /\ pg \in PageNos
  BY <1>1, LeastFree DEF BuildStep
<1>4. freelist' = freelist \ {pg} /\ kstack' = kstack /\ build' = build /\ sz' = sz
  BY DEF BuildStep
<1>5. kstack[c] # 0
  BY <1>1, <1>2, NeedIs
<1>6. CASE NextNeed(p) = "dir"
  <2> DEFINE as == [pgdir[c] EXCEPT !.dir = pg]
  <2>1. In(pgdir[c], "dir", 0) = 0
    BY <1>1, <1>2, <1>6, NeedIs DEF In
  <2>2. pgdir' = [pgdir EXCEPT ![c] = as]
    BY <1>6 DEF BuildStep
  <2>3. as \in Spaces /\ Entered(as, pgdir[c], "dir", 0, pg)
    BY <1>2, <1>3, SetDir DEF Entered
  <2>4. "dir" \in Entries /\ 0 \in Nat
    BY DEF Entries
  <2> HIDE DEF as, c, pg
  <2>5. c = build[p].for
    BY DEF c
  <2>6. SpaceBecomes(c, as)
    BY <1>1, <1>2, <2>2, <2>3 DEF MemTypeOK, SpaceBecomes
  <2> QED
    BY <1>1, <1>2, <1>3, <1>4, <1>5, <2>1, <2>3, <2>4, <2>5, <2>6, StepTable
<1>7. CASE NextNeed(p) = "kpt"
  <2> DEFINE as == [pgdir[c] EXCEPT !.kpt = pg]
  <2>1. In(pgdir[c], "kpt", 0) = 0
    BY <1>1, <1>2, <1>7, NeedIs DEF In
  <2>2. pgdir' = [pgdir EXCEPT ![c] = as]
    BY <1>7 DEF BuildStep
  <2>3. as \in Spaces /\ Entered(as, pgdir[c], "kpt", 0, pg)
    BY <1>2, <1>3, SetKpt DEF Entered
  <2>4. "kpt" \in Entries /\ 0 \in Nat
    BY DEF Entries
  <2> HIDE DEF as, c, pg
  <2>5. c = build[p].for
    BY DEF c
  <2>6. SpaceBecomes(c, as)
    BY <1>1, <1>2, <2>2, <2>3 DEF MemTypeOK, SpaceBecomes
  <2> QED
    BY <1>1, <1>2, <1>3, <1>4, <1>5, <2>1, <2>3, <2>4, <2>5, <2>6, StepTable
<1>8. CASE NextNeed(p) = "tab"
  <2> DEFINE as == Walkpgdir(pgdir[c], v, pg)
             t == v \div NPTE
  <2>1. v \in VPages /\ t \in Tabs /\ t \in Nat /\ pgdir[c].tab[t] = 0
    BY <1>1, <1>2, <1>8, NeedIs, NextPage, TabOf, Numbers
  <2>2. pgdir' = [pgdir EXCEPT ![c] = as]
    BY <1>8 DEF BuildStep
  <2>3. as \in Spaces /\ Entered(as, pgdir[c], "tab", t, pg)
    BY <1>2, <1>3, <2>1, SetTab DEF Entered
  <2> HIDE DEF as, c, pg, v, t
  <2>4. "tab" \in Entries /\ In(pgdir[c], "tab", t) = 0
    BY <2>1 DEF Entries, In
  <2>5. c = build[p].for
    BY DEF c
  <2>6. SpaceBecomes(c, as)
    BY <1>1, <1>2, <2>2, <2>3 DEF MemTypeOK, SpaceBecomes
  <2> QED
    BY <1>1, <1>2, <1>3, <1>4, <1>5, <2>1, <2>3, <2>4, <2>5, <2>6, StepTable
<1> QED
  BY <1>6, <1>7, <1>8

(* kalloc() of a page to map.                                              *)
LEMMA StepMem ==
  ASSUME MemInv, NEW p \in Slots, BuildStep(p), NextNeed(p) = "mem"
  PROVE  MemInv'
<1> DEFINE c == build[p].for
           pg == LeastOf(freelist)
           b == [build[p] EXCEPT !.mem = pg]
<1>1. MemTypeOK /\ BuildsApart /\ HandUsed /\ Whole(Map, freelist) /\ SizesFit
      /\ SettledFits /\ UnusedEmpty /\ BuildsFit /\ build[p].kind # "none"
  BY DEF MemInv, BuildStep
<1>2. c \in Slots /\ c = build[p].for
  BY <1>1, BuildFor
<1>3. pg \in freelist /\ pg \in Pages /\ pg \in PageNos /\ pg # 0
  BY <1>1, LeastFree DEF BuildStep
<1>4. /\ freelist' = freelist \ {pg} /\ build' = [build EXCEPT ![p] = b]
      /\ UNCHANGED <<pgdir, kstack, sz>>
  BY DEF BuildStep
<1>5. kstack[c] # 0 /\ Missing(p) # {} /\ build[p].mem = 0
  BY <1>1, <1>2, NeedIs
<1>6. /\ b \in Builds /\ b.kind = build[p].kind /\ b.for = build[p].for
      /\ b.upto = build[p].upto /\ b.old = build[p].old /\ b.mem = pg
  BY <1>1, <1>3 DEF MemTypeOK, Builds
<1> HIDE DEF c, pg, b
<1>7. /\ build' \in [Slots -> Builds] /\ build'[p].mem = pg
      /\ \A q \in Slots : q # p => build'[q] = build[q]
      /\ \A q \in Slots : /\ build'[q].kind = build[q].kind /\ build'[q].for = build[q].for
                          /\ build'[q].upto = build[q].upto /\ build'[q].old = build[q].old
  BY <1>1, <1>4, <1>6 DEF MemTypeOK
<1>8. MemTypeOK' /\ BuildsApart' /\ HandUsed' /\ SizesFit' /\ SettledFits' /\ UnusedEmpty'
      /\ BuildsFit'
  <2>1. pgdir[c] \in Spaces /\ kstack[c] \in Pages
    BY <1>1, <1>2, <1>5, BuildType, NoPageZero
  <2>2. \A v \in VPages : ~Below(v, build[p].upto) => pgdir[c].user[v] = 0
    BY <1>1, <1>2 DEF BuildsFit, AboveEmpty
  <2>3. \E v \in VPages : Below(v, build[p].upto) /\ pgdir[c].user[v] = 0
    BY <1>2, <1>5 DEF Missing, Below
  <2>4. pgdir' \in [Slots -> Spaces] /\ kstack' \in [Slots -> PageNos]
    BY <1>1, <1>4 DEF MemTypeOK
  <2>5. pgdir' = pgdir /\ kstack' = kstack /\ sz' = sz
    BY <1>4
  <2> QED
    BY <1>1, <1>2, <1>7, <2>1, <2>2, <2>3, <2>4, <2>5, BuildKeeps DEF SpaceBecomes, Extends, StackBecomes, HandChanges
<1>9. Whole(Map, freelist)'
  <2>1. MapOK /\ MapOK'
    BY <1>1, <1>8, MapIs, MapIsNext
  <2>2. ASSUME NEW q \in Slots, NEW w \in Wheres, NEW k \in Entries, NEW x \in Nat
        PROVE  Map'[q][w][k][x] = IF q = p /\ w = "hand" /\ k = "one" /\ x = 0 THEN pg
                                  ELSE Map[q][w][k][x]
    <3>1. Old(q)' = Old(q)
      BY <1>7 DEF Old
    <3>2. CASE w = "hand"
      BY <1>7, <2>1, <3>2 DEF MapOK, Single
    <3>3. CASE w \in {"kstack", "pgdir", "old"}
      BY <1>4, <2>1, <3>1, <3>3 DEF MapOK
    <3> QED
      BY <3>2, <3>3 DEF Wheres
  <2>3. Map[p]["hand"]["one"][0] = 0
    BY <1>5, <2>1 DEF MapOK, Single, Entries
  <2>4. Map' \in Maps
    BY <2>1 DEF MapOK
  <2>5. "hand" \in Wheres /\ "one" \in Entries /\ 0 \in Nat
    BY DEF Wheres, Entries
  <2>6. Taken(Map, Map', p, "hand", "one", 0, pg)
    BY <2>2, <2>3, Zenon DEF Taken
  <2>7. Whole(Map', freelist \ {pg})
    BY <1>1, <1>3, <2>4, <2>5, <2>6, TakeWhole
  <2> QED
    BY <1>4, <2>7
<1> QED
  BY <1>8, <1>9 DEF MemInv

(* mappages() of the page in hand.                                         *)
LEMMA StepMap ==
  ASSUME MemInv, NEW p \in Slots, BuildStep(p), NextNeed(p) = "map"
  PROVE  MemInv'
<1> DEFINE c == build[p].for
           v == LeastOf(Missing(p))
           m == build[p].mem
           as == Mappages(pgdir[c], v, m)
           b == [build[p] EXCEPT !.mem = 0]
<1>1. MemTypeOK /\ BuildsApart /\ HandUsed /\ Whole(Map, freelist) /\ SizesFit
      /\ SettledFits /\ UnusedEmpty /\ BuildsFit /\ build[p].kind # "none"
  BY DEF MemInv, BuildStep
<1>2. c \in Slots /\ c = build[p].for /\ pgdir[c] \in Spaces
  BY <1>1, BuildFor, BuildType
<1>3. m \in PageNos /\ m # 0 /\ kstack[c] # 0 /\ Missing(p) # {}
  BY <1>1, <1>2, NeedIs, BuildType
<1>4. v \in VPages /\ Below(v, build[p].upto) /\ pgdir[c].user[v] = 0
  BY <1>1, <1>3, NextPage
<1>5. /\ freelist' = freelist /\ build' = [build EXCEPT ![p] = b]
      /\ pgdir' = [pgdir EXCEPT ![c] = as]
      /\ kstack' = kstack /\ sz' = sz
  BY DEF BuildStep
<1>6. /\ b \in Builds /\ b.kind = build[p].kind /\ b.for = build[p].for
      /\ b.upto = build[p].upto /\ b.old = build[p].old /\ b.mem = 0
  BY <1>1, NoPageZero DEF MemTypeOK, Builds
<1>7. /\ as \in Spaces /\ as.guard = pgdir[c].guard
      /\ \A w \in VPages : as.user[w] = IF w = v THEN m ELSE pgdir[c].user[w]
      /\ \A k \in Entries, x \in Nat :
           In(as, k, x) = IF k = "user" /\ x = v THEN m ELSE In(pgdir[c], k, x)
  BY <1>2, <1>3, <1>4, SetUser
<1> HIDE DEF c, v, as, b
<1>8. /\ build' \in [Slots -> Builds] /\ build'[p].mem = 0
      /\ \A q \in Slots : q # p => build'[q] = build[q]
      /\ \A q \in Slots : /\ build'[q].kind = build[q].kind /\ build'[q].for = build[q].for
                          /\ build'[q].upto = build[q].upto /\ build'[q].old = build[q].old
  BY <1>1, <1>5, <1>6 DEF MemTypeOK
<1>9. /\ pgdir' \in [Slots -> Spaces] /\ pgdir'[c] = as
      /\ \A q \in Slots : q # c => pgdir'[q] = pgdir[q]
  BY <1>1, <1>2, <1>5, <1>7 DEF MemTypeOK
<1>10. kstack' = kstack /\ sz' = sz
  BY <1>5
<1>11. MemTypeOK' /\ BuildsApart' /\ HandUsed' /\ SizesFit' /\ SettledFits' /\ UnusedEmpty'
      /\ BuildsFit'
  <2>1. kstack[c] \in Pages /\ kstack \in [Slots -> PageNos]
    BY <1>1, <1>2, <1>3, NoPageZero DEF MemTypeOK
  <2>2. \A w \in VPages : ~Below(w, build[p].upto) => as.user[w] = 0
    BY <1>1, <1>2, <1>4, <1>7 DEF BuildsFit, AboveEmpty
  <2>3. \A w \in VPages : pgdir[c].user[w] # 0 => as.user[w] # 0
    BY <1>3, <1>7
  <2>4. as \in Spaces /\ as.guard = pgdir[c].guard
    BY <1>7
  <2>5. kstack' \in [Slots -> PageNos] /\ build'[p].mem = 0
    BY <1>8, <1>10, <2>1
  <2>6. PICK ks \in Pages : ks = kstack[c]
    BY <2>1
  <2>7. kstack'[c] = ks /\ \A q \in Slots : q # c => kstack'[q] = kstack[q]
    BY <1>10, <2>6
  <2>8. SpaceBecomes(c, as)
    BY <1>9 DEF SpaceBecomes
  <2>9. Extends(as, pgdir[c], build[p].upto)
    BY <2>2, <2>3, <2>4 DEF Extends
  <2>10. StackBecomes(c, ks)
    BY <2>5, <2>7 DEF StackBecomes
  <2>11. HandChanges(p, as)
    BY <1>8 DEF HandChanges
  <2> QED
    BY <1>1, <1>2, <1>10, <2>4, <2>6, <2>8, <2>9, <2>10, <2>11, BuildKeeps
<1>12. Whole(Map, freelist)'
  <2>1. MapOK /\ MapOK'
    BY <1>1, <1>11, MapIs, MapIsNext
  <2>2. "hand" \in Wheres /\ "one" \in Entries /\ 0 \in Nat /\ "pgdir" \in Wheres
        /\ "user" \in Entries /\ v \in Nat
    BY <1>4, Numbers DEF Wheres, Entries
  <2>3. Map[p]["hand"]["one"][0] = m /\ Map[c]["pgdir"]["user"][v] = 0
    <3>1. Map[p]["hand"]["one"][0] = Single(build[p].mem, "one", 0)
      BY <2>1, <2>2 DEF MapOK
    <3>2. Map[c]["pgdir"]["user"][v] = In(pgdir[c], "user", v)
      BY <1>2, <2>1, <2>2 DEF MapOK
    <3> QED
      BY <1>4, <3>1, <3>2 DEF Single, In
  <2>4. ASSUME NEW q \in Slots, NEW w \in Wheres, NEW k \in Entries, NEW x \in Nat
        PROVE  Map'[q][w][k][x] = IF q = p /\ w = "hand" /\ k = "one" /\ x = 0 THEN 0
                                  ELSE IF q = c /\ w = "pgdir" /\ k = "user" /\ x = v THEN m
                                  ELSE Map[q][w][k][x]
    <3>1. Old(q)' = Old(q)
      BY <1>8 DEF Old
    <3>2. CASE w = "hand"
      BY <1>8, <2>1, <3>2 DEF MapOK, Single
    <3>3. CASE w = "pgdir"
      <4>1. Map'[q][w][k][x] = In(pgdir'[q], k, x) /\ Map[q][w][k][x] = In(pgdir[q], k, x)
        BY <2>1, <3>3 DEF MapOK
      <4>2. CASE q = c
        <5>1. In(pgdir'[q], k, x) = In(as, k, x)
          BY <1>9, <4>2
        <5> QED
          BY <1>7, <3>3, <4>1, <4>2, <5>1
      <4>3. CASE q # c
        <5>1. In(pgdir'[q], k, x) = In(pgdir[q], k, x)
          BY <1>9, <4>3
        <5>2. Map'[q][w][k][x] = Map[q][w][k][x]
          BY <4>1, <5>1
        <5> QED
          BY <3>3, <4>3, <5>2, Zenon
      <4> QED
        BY <4>2, <4>3
    <3>4. CASE w \in {"kstack", "old"}
      BY <1>10, <2>1, <3>1, <3>4 DEF MapOK
    <3> QED
      BY <3>2, <3>3, <3>4 DEF Wheres
  <2>5. Map' \in Maps
    BY <2>1 DEF MapOK
  <2>6. Placed(Map, Map', p, c, "pgdir", "user", v)
    BY <1>3, <2>3, <2>4 DEF Placed
  <2>7. Whole(Map', freelist)
    BY <1>1, <1>2, <2>2, <2>5, <2>6, PlaceWhole
  <2> QED
    BY <1>5, <2>7
<1> QED
  BY <1>11, <1>12 DEF MemInv

LEMMA BuildStepKeeps ==
  ASSUME MemInv, NEW p \in Slots, BuildStep(p)
  PROVE  MemInv'
<1>1. MemTypeOK /\ BuildsApart /\ build[p].kind # "none" /\ NextNeed(p) # "done"
  BY DEF MemInv, BuildStep
<1>2. NextNeed(p) \in {"kstack", "dir", "kpt", "mem", "tab", "map"}
  BY <1>1, NeedIs, BuildFor
<1> QED
  BY <1>2, StepKstack, StepTables, StepMem, StepMap

------------------------------------------------------------------------------
(* The steps that begin or end a call.                                     *)

SizeBecomes(c, n) ==
  /\ sz' \in [Slots -> Nat] /\ sz'[c] = n
  /\ \A q \in Slots : q # c => sz'[q] = sz[q]

BuildBecomes(p, b) ==
  /\ build' \in [Slots -> Builds] /\ build'[p] = b
  /\ \A q \in Slots : q # p => build'[q] = build[q]

(* Process p, which builds or built for slot c or for nobody, may go over  *)
(* to build b.                                                             *)
MayBuild(p, c, b, ks) ==
  /\ \A q \in Slots : q # p => build[q].for # c
  /\ c # p => build[c].kind = "none" /\ build[p].kind \in {"none", "fork"}
  /\ build[p].for \in {0, p, c}
  /\ b.kind = "none" => b = NoBuild
  /\ b.kind # "none" =>
       /\ b.for = c /\ (b.kind = "fork" <=> c # p) /\ kstack[p] # 0 /\ (c = p => ks # 0)
       /\ \A q \in Slots : q # p => build[q].for # p
  /\ b.kind = "fork" => b.old = NoSpace
  /\ b.mem = 0

(* Slot c, with address space as, kernel stack ks and size n, fits build b.*)
LocalFits(p, c, b, as, ks, n) ==
  /\ n <= UserPages * PGSIZE /\ b.upto <= UserPages * PGSIZE
  /\ b.kind = "none" => Guarded(as) /\ (as.user[0] # 0 => Covers(as, n))
  /\ ks = 0 => as = NoSpace
  /\ b.kind # "none" => \A v \in VPages : ~Below(v, b.upto) => as.user[v] = 0
  /\ b.kind = "sbrk" => /\ \A v \in VPages : Below(v, n) => as.user[v] # 0
                        /\ n <= b.upto /\ Guarded(as)
  /\ b.kind = "exec" => /\ Covers(b.old, n) /\ Guarded(b.old)
                        /\ \E k \in 0..(UserPages - 2) : b.upto = (k + 2) * PGSIZE
  /\ b.kind = "fork" => b.upto = sz[p] /\ Covers(pgdir[p], sz[p])

LEMMA CallKeeps ==
  ASSUME MemTypeOK, BuildsApart, HandUsed, SizesFit, SettledFits, UnusedEmpty, BuildsFit,
         NEW p \in Slots, NEW c \in Slots, NEW b \in Builds, NEW as \in Spaces,
         NEW ks \in PageNos, NEW n \in Nat,
         SpaceBecomes(c, as), StackBecomes(c, ks), SizeBecomes(c, n), BuildBecomes(p, b),
         MayBuild(p, c, b, ks), LocalFits(p, c, b, as, ks, n)
  PROVE  /\ MemTypeOK' /\ BuildsApart' /\ HandUsed'
         /\ SizesFit' /\ SettledFits' /\ UnusedEmpty' /\ BuildsFit'
<1>1. /\ pgdir' \in [Slots -> Spaces] /\ pgdir'[c] = as
      /\ \A q \in Slots : q # c => pgdir'[q] = pgdir[q]
  BY DEF SpaceBecomes
<1>2. /\ kstack' \in [Slots -> PageNos] /\ kstack'[c] = ks
      /\ \A q \in Slots : q # c => kstack'[q] = kstack[q]
  BY DEF StackBecomes
<1>3. /\ sz' \in [Slots -> Nat] /\ sz'[c] = n
      /\ \A q \in Slots : q # c => sz'[q] = sz[q]
  BY DEF SizeBecomes
<1>4. /\ build' \in [Slots -> Builds] /\ build'[p] = b
      /\ \A q \in Slots : q # p => build'[q] = build[q]
  BY DEF BuildBecomes
<1>5. NoBuild.kind = "none" /\ NoBuild.for = 0 /\ NoBuild.mem = 0
  BY DEF NoBuild
<1>6. MemTypeOK'
  BY <1>1, <1>2, <1>3, <1>4 DEF MemTypeOK
<1>7. BuildsApart'
  <2>1. \A q \in Slots : build'[q].kind = "none" => build'[q] = NoBuild
    BY <1>4 DEF BuildsApart, MayBuild
  <2>2. b.kind \in {"none", "sbrk", "fork", "exec"}
    BY DEF Builds
  <2>3. \A q \in Slots : build'[q].kind \in {"sbrk", "exec"} => build'[q].for = q
    BY <1>4, <2>2 DEF BuildsApart, MayBuild
  <2>4. ASSUME NEW q \in Slots, build'[q].kind = "fork"
        PROVE  /\ build'[q].for \in Slots /\ build'[q].for # q
               /\ build'[build'[q].for].kind = "none" /\ build'[q].old = NoSpace
    <3>1. CASE q = p
      BY <1>4, <2>4, <3>1 DEF MayBuild
    <3>2. CASE q # p
      <4>1. build'[q] = build[q] /\ build[q].for \in Slots
        BY <1>4, <2>4, <3>2 DEF BuildsApart
      <4>2. CASE build[q].for = p
        BY <1>4, <1>5, <2>4, <3>2, <4>1, <4>2 DEF BuildsApart, MayBuild
      <4>3. CASE build[q].for # p
        BY <1>4, <2>4, <3>2, <4>1, <4>3 DEF BuildsApart
      <4> QED
        BY <4>2, <4>3
    <3> QED
      BY <3>1, <3>2
  <2>5. ASSUME NEW q \in Slots, NEW r \in Slots, build'[q].for # 0,
               build'[q].for = build'[r].for
        PROVE  q = r
    BY <1>4, <1>5, <2>5 DEF BuildsApart, MayBuild
  <2>6. ASSUME NEW q \in Slots, build'[q].kind # "none"
        PROVE  kstack'[q] # 0
    BY <1>2, <1>4, <2>6 DEF BuildsApart, MayBuild
  <2> QED
    BY <2>1, <2>3, <2>4, <2>5, <2>6 DEF BuildsApart
<1>8. HandUsed'
  <2>1. ASSUME NEW q \in Slots, build'[q].mem # 0 PROVE Missing(q)' # {}
    <3>1. q # p /\ build'[q] = build[q] /\ build[q].mem # 0
      BY <1>4, <2>1 DEF MayBuild
    <3>2. build[q].kind # "none"
      BY <1>5, <3>1 DEF BuildsApart
    <3>3. build[q].for \in Slots /\ build[q].for # c
      BY <3>1, <3>2, BuildFor DEF MayBuild
    <3>4. pgdir'[build[q].for] = pgdir[build[q].for]
      BY <1>1, <3>3
    <3>5. Missing(q)' = Missing(q)
      BY <3>1, <3>4 DEF Missing
    <3> QED
      BY <3>1, <3>5 DEF HandUsed
  <2> QED
    BY <2>1 DEF HandUsed
<1>9. SizesFit'
  BY <1>3, <1>4 DEF SizesFit, LocalFits
<1>10. UnusedEmpty'
  BY <1>1, <1>2 DEF UnusedEmpty, LocalFits
<1>11. SettledFits'
  <2>1. ASSUME NEW q \in Slots, Settled(q)'
        PROVE  Guarded(pgdir'[q]) /\ (pgdir'[q].user[0] # 0 => Covers(pgdir'[q], sz'[q]))
    <3>1. build'[q].kind \in {"none", "fork"} /\ \A r \in Slots : build'[r].for # q \/ r = q
      BY <2>1 DEF Settled
    <3>2. CASE q = c
      <4>1. b.kind = "none"
        BY <1>4, <3>1, <3>2 DEF MayBuild
      <4> QED
        BY <1>1, <1>3, <3>2, <4>1 DEF LocalFits
    <3>3. CASE q # c
      <4>1. build[q].kind \in {"none", "fork"}
        BY <1>4, <3>1, <3>3 DEF MayBuild
      <4>2. \A r \in Slots : build[r].for # q \/ r = q
        BY <1>4, <3>1, <3>3, Numbers DEF MayBuild
      <4>3. Settled(q)
        BY <4>1, <4>2 DEF Settled
      <4> QED
        BY <1>1, <1>3, <3>3, <4>3 DEF SettledFits
    <3> QED
      BY <3>2, <3>3
  <2> QED
    BY <2>1 DEF SettledFits
<1>12. BuildsFit'
  <2>1. ASSUME NEW q \in Slots, q # p, build'[q].kind # "none"
        PROVE  /\ build'[q] = build[q] /\ build[q].for \in Slots
               /\ build[q].for # c /\ q # c
               /\ pgdir'[q] = pgdir[q] /\ sz'[q] = sz[q]
               /\ pgdir'[build[q].for] = pgdir[build[q].for]
    <3>1. build'[q] = build[q] /\ build[q].kind # "none"
      BY <1>4, <2>1
    <3>2. build[q].for \in Slots /\ build[q].for # c
      BY <2>1, <3>1, BuildFor DEF MayBuild
    <3>3. q # c
      BY <2>1, <3>1 DEF MayBuild
    <3> QED
      BY <1>1, <1>3, <3>1, <3>2, <3>3
  <2>2. ASSUME NEW q \in Slots, build'[q].kind # "none", NEW v \in VPages,
               ~Below(v, build'[q].upto)
        PROVE  pgdir'[build'[q].for].user[v] = 0
    <3>1. CASE q = p
      BY <1>1, <1>4, <2>2, <3>1 DEF MayBuild, LocalFits
    <3>2. CASE q # p
      <4>1. build'[q] = build[q] /\ pgdir'[build[q].for] = pgdir[build[q].for]
        BY <2>1, <2>2, <3>2
      <4> QED
        BY <2>2, <4>1 DEF BuildsFit, AboveEmpty
    <3> QED
      BY <3>1, <3>2
  <2>3. ASSUME NEW q \in Slots, build'[q].kind = "sbrk"
        PROVE  /\ \A v \in VPages : Below(v, sz'[q]) => pgdir'[q].user[v] # 0
               /\ sz'[q] <= build'[q].upto /\ Guarded(pgdir'[q])
    <3>1. CASE q = p
      <4>1. c = p /\ b.kind = "sbrk" /\ pgdir'[q] = as /\ sz'[q] = n /\ build'[q] = b
        BY <1>1, <1>3, <1>4, <2>3, <3>1 DEF MayBuild
      <4> QED
        BY <4>1 DEF LocalFits
    <3>2. CASE q # p
      <4>1. build'[q] = build[q] /\ pgdir'[q] = pgdir[q] /\ sz'[q] = sz[q]
        BY <2>1, <2>3, <3>2
      <4> QED
        BY <2>3, <4>1 DEF BuildsFit, GrowFits
    <3> QED
      BY <3>1, <3>2
  <2>4. ASSUME NEW q \in Slots, build'[q].kind = "exec"
        PROVE  /\ Covers(build'[q].old, sz'[q]) /\ Guarded(build'[q].old)
               /\ \E k \in 0..(UserPages - 2) : build'[q].upto = (k + 2) * PGSIZE
    <3>1. CASE q = p
      <4>1. c = p /\ b.kind = "exec" /\ sz'[q] = n /\ build'[q] = b
        BY <1>3, <1>4, <2>4, <3>1 DEF MayBuild
      <4> QED
        BY <4>1 DEF LocalFits
    <3>2. CASE q # p
      <4>1. build'[q] = build[q] /\ sz'[q] = sz[q]
        BY <2>1, <2>4, <3>2
      <4> QED
        BY <2>4, <4>1 DEF BuildsFit, ExecFits
    <3> QED
      BY <3>1, <3>2
  <2>5. ASSUME NEW q \in Slots, build'[q].kind = "fork"
        PROVE  build'[q].upto = sz'[q] /\ Covers(pgdir'[q], sz'[q])
    <3>1. CASE q = p
      <4>1. c # p /\ b.kind = "fork" /\ sz'[q] = sz[p] /\ build'[q] = b /\ pgdir'[q] = pgdir[p]
        BY <1>1, <1>3, <1>4, <2>5, <3>1 DEF MayBuild
      <4> QED
        BY <4>1 DEF LocalFits
    <3>2. CASE q # p
      <4>1. build'[q] = build[q] /\ sz'[q] = sz[q] /\ pgdir'[q] = pgdir[q]
        BY <2>1, <2>5, <3>2
      <4> QED
        BY <2>5, <4>1 DEF BuildsFit, ForkFits
    <3> QED
      BY <3>1, <3>2
  <2> QED
    BY <2>2, <2>3, <2>4, <2>5 DEF BuildsFit, AboveEmpty, GrowFits, ExecFits, ForkFits
<1> QED
  BY <1>6, <1>7, <1>8, <1>9, <1>10, <1>11, <1>12

(* What PGROUNDUP() leaves out.                                            *)
LEMMA RoundUpIs ==
  ASSUME NEW n \in Nat
  PROVE  RoundUp(n) \in Nat /\ \A v \in Nat : v >= RoundUp(n) <=> ~Below(v, n)
<1> DEFINE P == PGSIZE
           q == RoundUp(n)
<1>1. P \in Nat /\ P > 0
  BY MemAssumption
<1>2. q \in Nat /\ q * P <= n + P - 1 /\ n + P - 1 < q * P + P
  <2> DEFINE a == n + P - 1
  <2>1. a \in Nat /\ q = a \div P
    BY <1>1 DEF RoundUp
  <2> HIDE DEF a, P, q
  <2>2. q \in Nat /\ q * P <= a /\ a < q * P + P
    BY <1>1, <2>1
  <2> QED
    BY <2>2 DEF a
<1> HIDE DEF P, q
<1>3. ASSUME NEW v \in Nat
      PROVE  v >= q <=> ~(v * P < n)
  <2>1. ASSUME v >= q PROVE v * P >= q * P
    <3>1. PICK d \in Nat : v = q + d
      BY <1>2, <2>1
    <3>2. v * P = q * P + d * P /\ d * P \in Nat
      BY <1>1, <1>2, <3>1
    <3> QED
      BY <1>1, <1>2, <3>2
  <2>2. ASSUME ~(v >= q) PROVE v * P + P <= q * P
    <3>1. PICK d \in Nat : q = v + 1 + d
      BY <1>2, <2>2
    <3>2. q * P = v * P + P + d * P /\ d * P \in Nat
      BY <1>1, <1>2, <3>1
    <3> QED
      BY <1>1, <1>2, <3>2
  <2>3. v * P \in Nat /\ q * P \in Nat
    BY <1>1, <1>2
  <2> QED
    BY <1>1, <1>2, <2>1, <2>2, <2>3
<1> QED
  BY <1>2, <1>3 DEF Below, P, q

LEMMA BelowMore ==
  ASSUME NEW v \in VPages, NEW n \in Nat, NEW m \in Nat, n <= m, Below(v, n)
  PROVE  Below(v, m)
<1>1. v * PGSIZE \in Nat
  BY Numbers, MemAssumption
<1> QED
  BY <1>1 DEF Below

(* A process that runs is in no call; its address space is whole.          *)
LEMMA RunsIs ==
  ASSUME MemTypeOK, BuildsApart, SettledFits, NEW p \in Slots, Runs(p)
  PROVE  /\ build[p] = NoBuild /\ build[p].kind = "none" /\ build[p].for = 0
         /\ build[p].mem = 0 /\ build[p].upto = 0
         /\ kstack[p] # 0 /\ \A q \in Slots : build[q].for # p
         /\ Guarded(pgdir[p]) /\ Covers(pgdir[p], sz[p]) /\ pgdir[p].user[0] # 0
         /\ Old(p) = NoSpace
<1>1. /\ build[p].kind = "none" /\ kstack[p] # 0 /\ pgdir[p].user[0] # 0
      /\ \A q \in Slots : build[q].for = p => q = p
  BY DEF Runs
<1>2. build[p] = NoBuild
  BY <1>1 DEF BuildsApart
<1>3. build[p].for = 0 /\ build[p].mem = 0 /\ build[p].upto = 0
  BY <1>2 DEF NoBuild
<1>4. Settled(p)
  BY <1>1 DEF Settled
<1>5. \A q \in Slots : build[q].for # p
  BY <1>1, <1>3, Numbers
<1> QED
  BY <1>1, <1>2, <1>3, <1>4, <1>5 DEF SettledFits, Old

(* deallocuvm() down to size to, when all below to is mapped and nothing   *)
(* from from on.                                                           *)
LEMMA DeallocCovers ==
  ASSUME NEW as \in Spaces, NEW from \in Nat, NEW to \in Nat, Guarded(as), to <= from,
         \A v \in VPages : Below(v, to) => as.user[v] # 0,
         \A v \in VPages : ~Below(v, from) => as.user[v] = 0
  PROVE  Guarded(Dealloc(as, from, to)) /\ Covers(Dealloc(as, from, to), to)
<1>1. \A v \in VPages : Gone(v, from, to) <=> ~Below(v, to) /\ Below(v, from)
  BY RoundUpIs, Numbers DEF Gone, Below
<1>2. Dealloc(as, from, to).guard = IF Gone(as.guard, from, to) THEN -1 ELSE as.guard
  BY DeallocIs
<1>5. \A v \in VPages : Dealloc(as, from, to).user[v]
                           = IF Gone(v, from, to) THEN 0 ELSE as.user[v]
  <2>1. UserLeft(Dealloc(as, from, to), as, from, to)
    BY DeallocIs
  <2> QED
    BY <2>1 DEF UserLeft
<1>3. Covers(Dealloc(as, from, to), to)
  <2>1. ASSUME NEW v \in VPages
        PROVE  Dealloc(as, from, to).user[v] # 0 <=> Below(v, to)
    <3>1. Below(v, to) => Below(v, from)
      BY BelowMore
    <3> QED
      BY <1>1, <1>5, <3>1
  <2> QED
    BY <2>1 DEF Covers
<1>4. Guarded(Dealloc(as, from, to))
  BY <1>2, <1>5 DEF Guarded
<1> QED
  BY <1>3, <1>4

LEMMA SameWhole ==
  ASSUME NEW f, NEW F, Whole(f, F), NEW h \in Maps,
         \A p \in Slots, w \in Wheres, k \in Entries, x \in Nat :
           h[p][w][k][x] = f[p][w][k][x]
  PROVE  Whole(h, F)
<1>1. Given(f, F, h, F)
  BY DEF Given
<1> QED
  BY <1>1, GiveWhole

(* f with the address spaces of p0 exchanged.                              *)
Swap(f, p0) ==
  [p \in Slots |-> [w \in Wheres |->
     IF p = p0 /\ w = "pgdir" THEN f[p]["old"]
     ELSE IF p = p0 /\ w = "old" THEN f[p]["pgdir"]
     ELSE f[p][w]]]

LEMMA SwapIs ==
  ASSUME NEW f \in Maps, NEW p0 \in Slots
  PROVE  /\ Swap(f, p0) \in Maps /\ Exchanged(f, Swap(f, p0), p0)
<1>1. "pgdir" \in Wheres /\ "old" \in Wheres /\ "kstack" \in Wheres /\ "hand" \in Wheres
  BY DEF Wheres
<1>2. \A p \in Slots, w \in Wheres : f[p][w] \in [Entries -> [Nat -> PageNos]]
  BY DEF Maps
<1>3. \A p \in Slots, w \in Wheres : Swap(f, p0)[p][w]
          = IF p = p0 /\ w = "pgdir" THEN f[p]["old"]
            ELSE IF p = p0 /\ w = "old" THEN f[p]["pgdir"] ELSE f[p][w]
  BY DEF Swap
<1>4. Swap(f, p0) \in Maps
  <2>1. ASSUME NEW p \in Slots, NEW w \in Wheres
        PROVE  Swap(f, p0)[p][w] \in [Entries -> [Nat -> PageNos]]
    BY <1>1, <1>2, <1>3
  <2> QED
    BY <2>1 DEF Maps, Swap
<1> QED
  BY <1>1, <1>3, <1>4 DEF Exchanged

(* The map h is f after address space as, in place u of slot c, has become *)
(* left, p has given up the page m in hand and the kernel stack s of c has *)
(* become t.                                                               *)
Returned(f, h, p, c, u, as, left, m, s, t) ==
  \A q \in Slots, w \in Wheres, k \in Entries, x \in Nat :
    /\ q = c /\ w = u => f[q][w][k][x] = In(as, k, x) /\ h[q][w][k][x] = In(left, k, x)
    /\ q = p /\ w = "hand" => f[q][w][k][x] = Single(m, k, x) /\ h[q][w][k][x] = 0
    /\ q = c /\ w = "kstack" =>
         f[q][w][k][x] = Single(s, k, x) /\ h[q][w][k][x] = Single(t, k, x)
    /\ ~(q = c /\ w = u) /\ ~(q = p /\ w = "hand") /\ ~(q = c /\ w = "kstack") =>
         h[q][w][k][x] = f[q][w][k][x]

LEMMA GivenBy ==
  ASSUME NEW f, NEW F, NEW h, NEW G, F \subseteq G,
         ASSUME NEW q \in Slots, NEW w \in Wheres, NEW k \in Entries, NEW x \in Nat
         PROVE  h[q][w][k][x] = 0 \/ h[q][w][k][x] = f[q][w][k][x],
         ASSUME NEW g \in G, g \notin F
         PROVE  g # 0 /\ \E q \in Slots, w \in Wheres, k \in Entries, x \in Nat :
                           f[q][w][k][x] = g /\ h[q][w][k][x] = 0,
         ASSUME NEW g, g # 0, NEW q \in Slots, NEW w \in Wheres, NEW k \in Entries,
                NEW x \in Nat, f[q][w][k][x] = g, h[q][w][k][x] = 0
         PROVE  g \in G
  PROVE  Given(f, F, h, G)
<1>1. ASSUME NEW g
      PROVE  g \in G <=>
               \/ g \in F
               \/ g # 0 /\ \E q \in Slots, w \in Wheres, k \in Entries, x \in Nat :
                             f[q][w][k][x] = g /\ h[q][w][k][x] = 0
  <2>1. ASSUME g # 0, NEW q \in Slots, NEW w \in Wheres, NEW k \in Entries,
               NEW x \in Nat, f[q][w][k][x] = g, h[q][w][k][x] = 0
        PROVE  g \in G
    BY <2>1
  <2>2. g \in F => g \in G
    OBVIOUS
  <2>3. ASSUME g \in G, g \notin F
        PROVE  g # 0 /\ \E q \in Slots, w \in Wheres, k \in Entries, x \in Nat :
                          f[q][w][k][x] = g /\ h[q][w][k][x] = 0
    BY <2>3
  <2> QED
    BY <2>1, <2>2, <2>3
<1> QED
  BY <1>1, Zenon DEF Given

(* The free pages after that.                                              *)
Freed(F, as, left, m, s, t) ==
  F \cup (PagesOf(as) \ PagesOf(left)) \cup ({m} \ {0})
    \cup (IF t = 0 THEN {s} \ {0} ELSE {})

LEMMA ReturnWhole ==
  ASSUME NEW f, NEW F, Whole(f, F), NEW h \in Maps, NEW p \in Slots, NEW c \in Slots,
         NEW u \in {"pgdir", "old"}, NEW as \in Spaces, NEW left \in Spaces,
         Thinned(as, left), NEW m, NEW s, NEW t, t = 0 \/ t = s,
         Returned(f, h, p, c, u, as, left, m, s, t)
  PROVE  Whole(h, Freed(F, as, left, m, s, t))
<1> DEFINE G == F \cup (PagesOf(as) \ PagesOf(left)) \cup ({m} \ {0})
                 \cup (IF t = 0 THEN {s} \ {0} ELSE {})
<1>1. /\ \A k \in Entries, x \in Nat : f[c][u][k][x] = In(as, k, x)
                                        /\ h[c][u][k][x] = In(left, k, x)
      /\ \A k \in Entries, x \in Nat : f[p]["hand"][k][x] = Single(m, k, x)
                                        /\ h[p]["hand"][k][x] = 0
      /\ \A k \in Entries, x \in Nat : f[c]["kstack"][k][x] = Single(s, k, x)
                                        /\ h[c]["kstack"][k][x] = Single(t, k, x)
  <2>1. u \in Wheres /\ "hand" \in Wheres /\ "kstack" \in Wheres
    BY DEF Wheres
  <2> QED
    BY <2>1, ZenonT(60) DEF Returned
<1>2. u \in Wheres /\ u # "hand" /\ u # "kstack" /\ "hand" \in Wheres /\ "kstack" \in Wheres
      /\ "one" \in Entries /\ 0 \in Nat
  BY DEF Wheres, Entries
<1>3. \A k \in Entries, x \in Nat : In(left, k, x) = 0 \/ In(left, k, x) = In(as, k, x)
  BY DEF Thinned
<1>4. ASSUME NEW q \in Slots, NEW w \in Wheres, NEW k \in Entries, NEW x \in Nat
      PROVE  h[q][w][k][x] = 0 \/ h[q][w][k][x] = f[q][w][k][x]
  <2>1. CASE q = c /\ w = u
    BY <1>1, <1>3, <2>1, ZenonT(60)
  <2>2. CASE q = p /\ w = "hand"
    BY <1>1, <2>2
  <2>3. CASE q = c /\ w = "kstack"
    BY <1>1, <2>3 DEF Single
  <2>4. CASE ~(q = c /\ w = u) /\ ~(q = p /\ w = "hand") /\ ~(q = c /\ w = "kstack")
    BY <2>4 DEF Returned
  <2> QED
    BY <2>1, <2>2, <2>3, <2>4
<1>5. ASSUME NEW g \in G, g \notin F
      PROVE  g # 0 /\ \E q \in Slots, w \in Wheres, k \in Entries, x \in Nat :
                        f[q][w][k][x] = g /\ h[q][w][k][x] = 0
  <2>1. CASE g \in PagesOf(as) \ PagesOf(left)
    <3>0. g \in PagesOf(as)
      BY <2>1
    <3>1. PICK k \in Entries, x \in Nat : g # 0 /\ In(as, k, x) = g
      <4> HIDE DEF G
      <4> QED
        BY <3>0, PagesOfIs
    <3>2. In(left, k, x) # g
      BY <2>1, <3>1, PagesOfIs
    <3>3. f[c][u][k][x] = g /\ h[c][u][k][x] = 0
      BY <1>1, <1>3, <3>1, <3>2
    <3> QED
      BY <1>2, <3>1, <3>3
  <2>2. CASE g \in {m} \ {0}
    <3>1. f[p]["hand"]["one"][0] = g /\ h[p]["hand"]["one"][0] = 0
      BY <1>1, <1>2, <2>2 DEF Single
    <3> QED
      BY <1>2, <2>2, <3>1
  <2>3. CASE t = 0 /\ g \in {s} \ {0}
    <3>1. f[c]["kstack"]["one"][0] = g /\ h[c]["kstack"]["one"][0] = 0
      BY <1>1, <1>2, <2>3 DEF Single
    <3> QED
      BY <1>2, <2>3, <3>1
  <2> QED
    BY <1>5, <2>1, <2>2, <2>3
<1>6. ASSUME NEW g, g # 0, NEW q \in Slots, NEW w \in Wheres, NEW k \in Entries, NEW x \in Nat,
             f[q][w][k][x] = g, h[q][w][k][x] = 0
      PROVE  g \in G
  <2>1. CASE q = c /\ w = u
    <3>1. In(as, k, x) = g /\ In(left, k, x) = 0
      BY <1>1, <1>6, <2>1
    <3>2. g \in PagesOf(as)
      BY <1>6, <3>1, PagesOfIs
    <3>3. ASSUME g \in PagesOf(left) PROVE FALSE
      <4>1. PICK l \in Entries, y \in Nat : In(left, l, y) = g
        BY <3>3, PagesOfIs
      <4>2. In(as, l, y) = g
        BY <1>3, <1>6, <4>1
      <4>3. f[c][u][l][y] = g /\ f[c][u][k][x] = g
        BY <1>1, <3>1, <4>2
      <4>4. OneOwner(f) /\ f[c][u][l][y] = f[c][u][k][x] /\ f[c][u][l][y] # 0
        BY <1>6, <4>3 DEF Whole
      <4>5. l = k /\ y = x
        BY <1>2, <4>4, Unique, SMTT(30)
      <4> QED
        BY <1>6, <3>1, <4>1, <4>5
    <3> QED
      BY <3>2, <3>3
  <2>2. CASE q = p /\ w = "hand"
    BY <1>1, <1>6, <2>2, ZenonT(60) DEF Single
  <2>3. CASE q = c /\ w = "kstack"
    <3>1. Single(s, k, x) = g /\ Single(t, k, x) = 0
      BY <1>1, <1>6, <2>3
    <3> QED
      BY <1>6, <3>1 DEF Single
  <2>4. CASE ~(q = c /\ w = u) /\ ~(q = p /\ w = "hand") /\ ~(q = c /\ w = "kstack")
    <3>1. h[q][w][k][x] = f[q][w][k][x]
      BY <2>4, Zenon DEF Returned
    <3> QED
      BY <1>6, <3>1
  <2> QED
    BY <2>1, <2>2, <2>3, <2>4
<1>7. F \subseteq G
  OBVIOUS
<1> HIDE DEF G
<1>8. Given(f, F, h, G)
  BY <1>4, <1>5, <1>6, <1>7, GivenBy, Zenon
<1>9. Whole(h, G)
  BY <1>8, GiveWhole
<1> QED
  BY <1>9 DEF G, Freed

(* A build starts with no page in hand and nothing of its own.             *)
LEMMA StartWhole ==
  ASSUME MemTypeOK, MemTypeOK', Whole(Map, freelist), NEW p \in Slots,
         build[p].mem = 0, build'[p].mem = 0, Old(p) = NoSpace, Old(p)' = NoSpace,
         \A q \in Slots : q # p => build'[q] = build[q],
         kstack' = kstack, pgdir' = pgdir, freelist' = freelist
  PROVE  Whole(Map, freelist)'
<1>1. MapOK /\ MapOK'
  BY MapIs, MapIsNext
<1>2. Map' \in Maps
  BY <1>1 DEF MapOK
<1>3. ASSUME NEW q \in Slots, NEW w \in Wheres, NEW k \in Entries, NEW x \in Nat
      PROVE  Map'[q][w][k][x] = Map[q][w][k][x]
  <2>1. Old(q)' = Old(q)
    BY DEF Old
  <2>2. build'[q].mem = build[q].mem
    OBVIOUS
  <2>3. CASE w = "hand"
    BY <1>1, <2>2, <2>3 DEF MapOK
  <2>4. CASE w \in {"kstack", "pgdir", "old"}
    BY <1>1, <2>1, <2>4 DEF MapOK
  <2> QED
    BY <2>3, <2>4 DEF Wheres
<1>4. Whole(Map', freelist)
  BY <1>2, <1>3, SameWhole
<1> QED
  BY <1>4

LEMMA GrowKeeps ==
  ASSUME MemInv, NEW p \in Slots, NEW n \in 1..MaxStep, Grow(p, n)
  PROVE  MemInv'
<1> DEFINE b == [NoBuild EXCEPT !.kind = "sbrk", !.for = p, !.upto = sz[p] + n,
                                !.old = pgdir[p]]
<1>1. MemTypeOK /\ BuildsApart /\ HandUsed /\ Whole(Map, freelist) /\ SizesFit
      /\ SettledFits /\ UnusedEmpty /\ BuildsFit
  BY DEF MemInv
<1>2. /\ Runs(p) /\ sz[p] + n < UserPages * PGSIZE /\ build' = [build EXCEPT ![p] = b]
      /\ freelist' = freelist /\ kstack' = kstack /\ pgdir' = pgdir /\ sz' = sz
  BY DEF Grow
<1>3. n \in Nat /\ sz[p] \in Nat /\ pgdir[p] \in Spaces /\ kstack[p] \in PageNos
  BY <1>1, BuildType, MemAssumption
<1>4. /\ b \in Builds /\ b.kind = "sbrk" /\ b.for = p /\ b.upto = sz[p] + n /\ b.mem = 0
  <2>1. sz[p] + n \in Nat /\ p \in 0..NProcs
    BY <1>3, MemAssumption DEF Slots
  <2> QED
    BY <1>3, <2>1, NoPageZero DEF NoBuild, Builds
<1>5. /\ build[p].kind = "none" /\ build[p].for = 0 /\ build[p].mem = 0 /\ kstack[p] # 0
      /\ Guarded(pgdir[p]) /\ Covers(pgdir[p], sz[p]) /\ Old(p) = NoSpace
      /\ \A q \in Slots : build[q].for # p
  BY <1>1, <1>2, RunsIs
<1> HIDE DEF b
<1>6. BuildBecomes(p, b)
  BY <1>1, <1>2, <1>4 DEF BuildBecomes, MemTypeOK
<1>7. SpaceBecomes(p, pgdir[p]) /\ StackBecomes(p, kstack[p]) /\ SizeBecomes(p, sz[p])
  BY <1>1, <1>2 DEF SpaceBecomes, StackBecomes, SizeBecomes, MemTypeOK
<1>8. MayBuild(p, p, b, kstack[p])
  BY <1>4, <1>5 DEF MayBuild
<1>9. LocalFits(p, p, b, pgdir[p], kstack[p], sz[p])
  <2>1. sz[p] <= UserPages * PGSIZE /\ UserPages * PGSIZE \in Nat
    BY <1>1, MemAssumption DEF SizesFit
  <2>2. b.upto <= UserPages * PGSIZE /\ sz[p] <= b.upto /\ b.upto \in Nat
    BY <1>2, <1>3, <1>4, <2>1
  <2>3. \A v \in VPages : ~Below(v, b.upto) => pgdir[p].user[v] = 0
    BY <1>3, <1>5, <2>2, BelowMore DEF Covers
  <2>4. \A v \in VPages : Below(v, sz[p]) => pgdir[p].user[v] # 0
    BY <1>5 DEF Covers
  <2> QED
    BY <1>4, <1>5, <2>1, <2>2, <2>3, <2>4 DEF LocalFits
<1>10. MemTypeOK' /\ BuildsApart' /\ HandUsed' /\ SizesFit' /\ SettledFits' /\ UnusedEmpty'
       /\ BuildsFit'
  BY <1>1, <1>3, <1>4, <1>6, <1>7, <1>8, <1>9, CallKeeps
<1>11. build'[p] = b /\ \A q \in Slots : q # p => build'[q] = build[q]
  BY <1>6 DEF BuildBecomes
<1>12. Old(p)' = NoSpace /\ build'[p].mem = 0
  BY <1>4, <1>11 DEF Old
<1>13. Whole(Map, freelist)'
  BY <1>1, <1>2, <1>5, <1>10, <1>11, <1>12, StartWhole
<1> QED
  BY <1>10, <1>13 DEF MemInv

LEMMA ForkKeeps ==
  ASSUME MemInv, NEW p \in Slots, NEW c \in Slots, Fork(p, c)
  PROVE  MemInv'
<1> DEFINE b == [NoBuild EXCEPT !.kind = "fork", !.for = c, !.upto = sz[p]]
<1>1. MemTypeOK /\ BuildsApart /\ HandUsed /\ Whole(Map, freelist) /\ SizesFit
      /\ SettledFits /\ UnusedEmpty /\ BuildsFit
  BY DEF MemInv
<1>2. /\ Runs(p) /\ kstack[c] = 0 /\ \A q \in Slots : build[q].for # c
      /\ build' = [build EXCEPT ![p] = b]
      /\ freelist' = freelist /\ kstack' = kstack /\ pgdir' = pgdir /\ sz' = sz
  BY DEF Fork
<1>3. /\ sz[p] \in Nat /\ sz[c] \in Nat /\ pgdir[c] \in Spaces /\ pgdir[p] \in Spaces
      /\ kstack[c] \in PageNos
  BY <1>1, BuildType
<1>4. /\ b \in Builds /\ b.kind = "fork" /\ b.for = c /\ b.upto = sz[p] /\ b.mem = 0
      /\ b.old = NoSpace
  <2>1. c \in 0..NProcs
    BY MemAssumption DEF Slots
  <2> QED
    BY <1>3, <2>1, NoPageZero, NoSpaceIs DEF NoBuild, Builds
<1>5. /\ build[p].kind = "none" /\ build[p].for = 0 /\ build[p].mem = 0 /\ kstack[p] # 0
      /\ Guarded(pgdir[p]) /\ Covers(pgdir[p], sz[p]) /\ Old(p) = NoSpace
      /\ \A q \in Slots : build[q].for # p
  BY <1>1, <1>2, RunsIs
<1>6. c # p /\ build[c].kind = "none"
  BY <1>1, <1>2, <1>5 DEF BuildsApart
<1> HIDE DEF b
<1>7. BuildBecomes(p, b)
  BY <1>1, <1>2, <1>4 DEF BuildBecomes, MemTypeOK
<1>8. SpaceBecomes(c, pgdir[c]) /\ StackBecomes(c, kstack[c]) /\ SizeBecomes(c, sz[c])
  BY <1>1, <1>2 DEF SpaceBecomes, StackBecomes, SizeBecomes, MemTypeOK
<1>9. MayBuild(p, c, b, kstack[c])
  BY <1>2, <1>4, <1>5, <1>6 DEF MayBuild
<1>10. LocalFits(p, c, b, pgdir[c], kstack[c], sz[c])
  <2>1. sz[c] <= UserPages * PGSIZE /\ b.upto <= UserPages * PGSIZE
    BY <1>1, <1>4 DEF SizesFit
  <2>2. pgdir[c] = NoSpace
    BY <1>1, <1>2 DEF UnusedEmpty
  <2>3. \A v \in VPages : pgdir[c].user[v] = 0
    BY <2>2, NoSpaceIs
  <2> QED
    BY <1>4, <1>5, <2>1, <2>2, <2>3 DEF LocalFits
<1>11. MemTypeOK' /\ BuildsApart' /\ HandUsed' /\ SizesFit' /\ SettledFits' /\ UnusedEmpty'
       /\ BuildsFit'
  BY <1>1, <1>3, <1>4, <1>7, <1>8, <1>9, <1>10, CallKeeps
<1>12. build'[p] = b /\ \A q \in Slots : q # p => build'[q] = build[q]
  BY <1>7 DEF BuildBecomes
<1>13. Old(p)' = NoSpace /\ build'[p].mem = 0
  BY <1>4, <1>12 DEF Old
<1>14. Whole(Map, freelist)'
  BY <1>1, <1>2, <1>5, <1>11, <1>12, <1>13, StartWhole
<1> QED
  BY <1>11, <1>14 DEF MemInv

LEMMA ExecKeeps ==
  ASSUME MemInv, NEW p \in Slots, NEW n \in 1..ImagePages, Exec(p, n)
  PROVE  MemInv'
<1> DEFINE b == [NoBuild EXCEPT !.kind = "exec", !.for = p, !.upto = (n + 2) * PGSIZE,
                                !.old = pgdir[p]]
<1>1. MemTypeOK /\ BuildsApart /\ HandUsed /\ Whole(Map, freelist) /\ SizesFit
      /\ SettledFits /\ UnusedEmpty /\ BuildsFit
  BY DEF MemInv
<1>2. /\ Runs(p) /\ n + 2 < UserPages
      /\ build' = [build EXCEPT ![p] = b] /\ pgdir' = [pgdir EXCEPT ![p] = NoSpace]
      /\ freelist' = freelist /\ kstack' = kstack /\ sz' = sz
  BY DEF Exec
<1>3. n \in Nat /\ sz[p] \in Nat /\ pgdir[p] \in Spaces /\ kstack[p] \in PageNos
      /\ NoSpace \in Spaces
  BY <1>1, BuildType, MemAssumption, NoSpaceIs
<1>4. /\ b \in Builds /\ b.kind = "exec" /\ b.for = p /\ b.upto = (n + 2) * PGSIZE
      /\ b.mem = 0 /\ b.old = pgdir[p]
  <2>1. p \in 0..NProcs
    BY MemAssumption DEF Slots
  <2>2. (n + 2) * PGSIZE \in Nat
    BY <1>3, MemAssumption
  <2> QED
    BY <1>3, <2>1, <2>2, NoPageZero DEF NoBuild, Builds
<1>5. /\ build[p].kind = "none" /\ build[p].for = 0 /\ build[p].mem = 0 /\ kstack[p] # 0
      /\ Guarded(pgdir[p]) /\ Covers(pgdir[p], sz[p]) /\ Old(p) = NoSpace
      /\ \A q \in Slots : build[q].for # p
  BY <1>1, <1>2, RunsIs
<1> HIDE DEF b
<1>6. BuildBecomes(p, b)
  BY <1>1, <1>2, <1>4 DEF BuildBecomes, MemTypeOK
<1>7. SpaceBecomes(p, NoSpace) /\ StackBecomes(p, kstack[p]) /\ SizeBecomes(p, sz[p])
  BY <1>1, <1>2, <1>3 DEF SpaceBecomes, StackBecomes, SizeBecomes, MemTypeOK
<1>8. MayBuild(p, p, b, kstack[p])
  BY <1>4, <1>5 DEF MayBuild
<1>9. LocalFits(p, p, b, NoSpace, kstack[p], sz[p])
  <2>1. sz[p] <= UserPages * PGSIZE
    BY <1>1 DEF SizesFit
  <2>2. (n + 2) * PGSIZE <= UserPages * PGSIZE
    <3>1. PICK d \in Nat : UserPages = (n + 2) + d
      <4>1. UserPages - (n + 2) \in Nat /\ UserPages = (n + 2) + (UserPages - (n + 2))
        BY <1>2, <1>3, MemAssumption
      <4> QED
        BY <4>1
    <3>2. UserPages * PGSIZE = (n + 2) * PGSIZE + d * PGSIZE /\ d * PGSIZE \in Nat
      BY <1>3, <3>1, MemAssumption
    <3>3. (n + 2) * PGSIZE \in Nat
      BY <1>3, MemAssumption
    <3> QED
      BY <3>2, <3>3
  <2>3. n \in 0..(UserPages - 2)
    BY <1>2, <1>3, MemAssumption
  <2> QED
    BY <1>4, <1>5, <2>1, <2>2, <2>3, NoSpaceIs DEF LocalFits
<1>10. MemTypeOK' /\ BuildsApart' /\ HandUsed' /\ SizesFit' /\ SettledFits' /\ UnusedEmpty'
       /\ BuildsFit'
  BY <1>1, <1>3, <1>4, <1>6, <1>7, <1>8, <1>9, CallKeeps
<1>11. build'[p] = b /\ \A q \in Slots : q # p => build'[q] = build[q]
  BY <1>6 DEF BuildBecomes
<1>12. pgdir'[p] = NoSpace /\ \A q \in Slots : q # p => pgdir'[q] = pgdir[q]
  BY <1>7 DEF SpaceBecomes
<1>13. Whole(Map, freelist)'
  <2>1. MapOK /\ MapOK'
    BY <1>1, <1>10, MapIs, MapIsNext
  <2>2. Old(p)' = pgdir[p] /\ \A q \in Slots : q # p => Old(q)' = Old(q)
    BY <1>4, <1>11 DEF Old
  <2>3. \A q \in Slots : build'[q].mem = build[q].mem
    BY <1>4, <1>5, <1>11
  <2>4. ASSUME NEW q \in Slots, NEW k \in Entries, NEW x \in Nat
        PROVE  /\ Map'[q]["kstack"][k][x] = Map[q]["kstack"][k][x]
               /\ Map'[q]["hand"][k][x] = Map[q]["hand"][k][x]
               /\ Map'[q]["pgdir"][k][x] = IF q = p THEN Map[q]["old"][k][x]
                                           ELSE Map[q]["pgdir"][k][x]
               /\ Map'[q]["old"][k][x] = IF q = p THEN Map[q]["pgdir"][k][x]
                                         ELSE Map[q]["old"][k][x]
    <3>1. /\ Map'[q]["kstack"][k][x] = Single(kstack'[q], k, x)
          /\ Map'[q]["hand"][k][x] = Single(build'[q].mem, k, x)
          /\ Map'[q]["pgdir"][k][x] = In(pgdir'[q], k, x)
          /\ Map'[q]["old"][k][x] = In(Old(q)', k, x)
      BY <2>1 DEF MapOK
    <3>2. /\ Map[q]["kstack"][k][x] = Single(kstack[q], k, x)
          /\ Map[q]["hand"][k][x] = Single(build[q].mem, k, x)
          /\ Map[q]["pgdir"][k][x] = In(pgdir[q], k, x)
          /\ Map[q]["old"][k][x] = In(Old(q), k, x)
      BY <2>1 DEF MapOK
    <3>3. CASE q = p
      BY <1>2, <1>5, <1>12, <2>2, <2>3, <3>1, <3>2, <3>3
    <3>4. CASE q # p
      BY <1>2, <1>12, <2>2, <2>3, <3>1, <3>2, <3>4
    <3> QED
      BY <3>3, <3>4
  <2>5. Map' \in Maps
    BY <2>1 DEF MapOK
  <2>6. Exchanged(Map, Map', p)
    BY <2>4 DEF Exchanged
  <2>7. Whole(Map', freelist)
    BY <1>1, <2>5, <2>6, MoveWhole
  <2> QED
    BY <1>2, <2>7
<1> QED
  BY <1>10, <1>13 DEF MemInv

LEMMA NoBuildIs ==
  /\ NoBuild \in Builds /\ NoBuild.kind = "none" /\ NoBuild.for = 0 /\ NoBuild.upto = 0
  /\ NoBuild.mem = 0
BY NoSpaceIs, NoPageZero, MemAssumption DEF NoBuild, Builds

LEMMA NoPages == PagesOf(NoSpace) = {}
BY NoSpaceIs, PagesOfIs

(* What every step that ends a call, or gives memory back, does to the     *)
(* places: see Returned.                                                   *)
LEMMA ReturnedIs ==
  ASSUME MemTypeOK, MemTypeOK', NEW p \in Slots, NEW c \in Slots,
         NEW as \in Spaces, NEW ks \in PageNos, NEW n, NEW b \in Builds,
         SpaceBecomes(c, as), StackBecomes(c, ks), BuildBecomes(p, b), b.mem = 0,
         \A q \in Slots : Old(q)' = Old(q)
  PROVE  Returned(Map, Map', p, c, "pgdir", pgdir[c], as, build[p].mem, kstack[c], ks)
<1>1. MapOK /\ MapOK'
  BY MapIs, MapIsNext
<1>2. ASSUME NEW q \in Slots, NEW w \in Wheres, NEW k \in Entries, NEW x \in Nat
      PROVE  /\ q = c /\ w = "pgdir" =>
                  Map[q][w][k][x] = In(pgdir[c], k, x) /\ Map'[q][w][k][x] = In(as, k, x)
             /\ q = p /\ w = "hand" =>
                  Map[q][w][k][x] = Single(build[p].mem, k, x) /\ Map'[q][w][k][x] = 0
             /\ q = c /\ w = "kstack" =>
                  Map[q][w][k][x] = Single(kstack[c], k, x) /\ Map'[q][w][k][x] = Single(ks, k, x)
             /\ ~(q = c /\ w = "pgdir") /\ ~(q = p /\ w = "hand") /\ ~(q = c /\ w = "kstack")
                  => Map'[q][w][k][x] = Map[q][w][k][x]
  <2>1. CASE w = "pgdir"
    <3>1. Map[q][w][k][x] = In(pgdir[q], k, x) /\ Map'[q][w][k][x] = In(pgdir'[q], k, x)
      BY <1>1, <2>1 DEF MapOK
    <3>2. pgdir'[q] = IF q = c THEN as ELSE pgdir[q]
      BY DEF SpaceBecomes
    <3> QED
      BY <2>1, <3>1, <3>2
  <2>2. CASE w = "hand"
    <3>1. /\ Map[q][w][k][x] = Single(build[q].mem, k, x)
          /\ Map'[q][w][k][x] = Single(build'[q].mem, k, x)
      BY <1>1, <2>2 DEF MapOK
    <3>2. build'[q].mem = IF q = p THEN 0 ELSE build[q].mem
      BY DEF BuildBecomes
    <3> QED
      BY <2>2, <3>1, <3>2 DEF Single
  <2>3. CASE w = "kstack"
    <3>1. Map[q][w][k][x] = Single(kstack[q], k, x) /\ Map'[q][w][k][x] = Single(kstack'[q], k, x)
      BY <1>1, <2>3 DEF MapOK
    <3>2. kstack'[q] = IF q = c THEN ks ELSE kstack[q]
      BY DEF StackBecomes
    <3> QED
      BY <2>3, <3>1, <3>2
  <2>4. CASE w = "old"
    <3>1. Map[q][w][k][x] = In(Old(q), k, x) /\ Map'[q][w][k][x] = In(Old(q)', k, x)
      BY <1>1, <2>4 DEF MapOK
    <3> QED
      BY <2>4, <3>1
  <2> QED
    BY <2>1, <2>2, <2>3, <2>4 DEF Wheres
<1> QED
  BY <1>2, Zenon DEF Returned

LEMMA ReturnedWhole ==
  ASSUME MemTypeOK, MemTypeOK', Whole(Map, freelist), NEW p \in Slots, NEW c \in Slots,
         NEW as \in Spaces, NEW ks \in PageNos, NEW b \in Builds,
         SpaceBecomes(c, as), StackBecomes(c, ks), BuildBecomes(p, b), b.mem = 0,
         \A q \in Slots : Old(q)' = Old(q), Thinned(pgdir[c], as),
         ks = 0 \/ ks = kstack[c],
         freelist' = Freed(freelist, pgdir[c], as, build[p].mem, kstack[c], ks)
  PROVE  Whole(Map, freelist)'
<1>1. Map' \in Maps
  BY MapIsNext DEF MapOK
<1>2. pgdir[c] \in Spaces
  BY DEF MemTypeOK
<1>3. Returned(Map, Map', p, c, "pgdir", pgdir[c], as, build[p].mem, kstack[c], ks)
  BY ReturnedIs
<1>4. Whole(Map', Freed(freelist, pgdir[c], as, build[p].mem, kstack[c], ks))
  BY <1>1, <1>2, <1>3, ReturnWhole
<1> QED
  BY <1>4, Zenon

(* sbrk() of a negative size.                                              *)
LEMMA ShrinkKeeps ==
  ASSUME MemInv, NEW p \in Slots, NEW n \in 1..MaxStep, Shrink(p, n)
  PROVE  MemInv'
<1> DEFINE new == sz[p] - n
           left == Dealloc(pgdir[p], sz[p], new)
           size == IF new = 0 THEN sz[p] ELSE new
<1>1. MemTypeOK /\ BuildsApart /\ HandUsed /\ Whole(Map, freelist) /\ SizesFit
      /\ SettledFits /\ UnusedEmpty /\ BuildsFit
  BY DEF MemInv
<1>2. /\ Runs(p) /\ new >= 0
      /\ freelist' = freelist \cup (PagesOf(pgdir[p]) \ PagesOf(left))
      /\ pgdir' = [pgdir EXCEPT ![p] = left]
      /\ sz' = [sz EXCEPT ![p] = size]
      /\ kstack' = kstack /\ build' = build
  BY DEF Shrink
<1>3. n \in Nat /\ sz[p] \in Nat /\ pgdir[p] \in Spaces /\ kstack[p] \in PageNos
  BY <1>1, BuildType, MemAssumption
<1>4. new \in Nat /\ new <= sz[p] /\ size \in Nat /\ size <= sz[p]
  BY <1>2, <1>3
<1>5. left \in Spaces /\ Thinned(pgdir[p], left)
  BY <1>3, DeallocIs
<1>6. /\ build[p] = NoBuild /\ kstack[p] # 0 /\ pgdir[p].user[0] # 0
      /\ Guarded(pgdir[p]) /\ Covers(pgdir[p], sz[p])
      /\ \A q \in Slots : build[q].for # p
  BY <1>1, <1>2, RunsIs
<1>7. Guarded(left) /\ Covers(left, new)
  <2>1. \A v \in VPages : Below(v, new) => pgdir[p].user[v] # 0
    BY <1>3, <1>4, <1>6, BelowMore DEF Covers
  <2>2. \A v \in VPages : ~Below(v, sz[p]) => pgdir[p].user[v] = 0
    BY <1>6 DEF Covers
  <2> HIDE DEF new
  <2> QED
    BY <1>3, <1>4, <1>6, <2>1, <2>2, DeallocCovers
<1>8. left.user[0] # 0 => Covers(left, size)
  <2>1. CASE new = 0
    <3>1. ~Below(0, new)
      BY <2>1, MemAssumption DEF Below
    <3> QED
      BY <1>7, <3>1, Numbers DEF Covers
  <2>2. CASE new # 0
    BY <1>7, <2>2
  <2> QED
    BY <2>1, <2>2
<1> HIDE DEF new, left, size
<1>9. BuildBecomes(p, NoBuild)
  BY <1>1, <1>2, <1>6 DEF BuildBecomes, MemTypeOK
<1>10. SpaceBecomes(p, left) /\ StackBecomes(p, kstack[p]) /\ SizeBecomes(p, size)
  BY <1>1, <1>2, <1>4, <1>5 DEF SpaceBecomes, StackBecomes, SizeBecomes, MemTypeOK
<1>11. MayBuild(p, p, NoBuild, kstack[p])
  BY <1>6, NoBuildIs DEF MayBuild
<1>12. LocalFits(p, p, NoBuild, left, kstack[p], size)
  <2>1. size <= UserPages * PGSIZE /\ 0 <= UserPages * PGSIZE
    BY <1>1, <1>3, <1>4, MemAssumption DEF SizesFit
  <2> QED
    BY <1>6, <1>7, <1>8, <2>1, NoBuildIs DEF LocalFits
<1>13. MemTypeOK' /\ BuildsApart' /\ HandUsed' /\ SizesFit' /\ SettledFits' /\ UnusedEmpty'
       /\ BuildsFit'
  BY <1>1, <1>3, <1>4, <1>5, <1>9, <1>10, <1>11, <1>12, NoBuildIs, CallKeeps
<1>14. Whole(Map, freelist)'
  <2>1. \A q \in Slots : Old(q)' = Old(q)
    BY <1>2 DEF Old
  <2>2. freelist' = Freed(freelist, pgdir[p], left, build[p].mem, kstack[p], kstack[p])
    <3>1. build[p].mem = 0
      BY <1>6, NoBuildIs
    <3> QED
      BY <1>2, <1>6, <3>1 DEF Freed
  <2> QED
    BY <1>1, <1>3, <1>5, <1>9, <1>10, <1>13, <2>1, <2>2, NoBuildIs, ReturnedWhole
<1> QED
  BY <1>13, <1>14 DEF MemInv

(* exit() and wait().                                                      *)
LEMMA ExitKeeps ==
  ASSUME MemInv, NEW p \in Slots, Exit(p)
  PROVE  MemInv'
<1>1. MemTypeOK /\ BuildsApart /\ HandUsed /\ Whole(Map, freelist) /\ SizesFit
      /\ SettledFits /\ UnusedEmpty /\ BuildsFit
  BY DEF MemInv
<1>2. /\ kstack[p] # 0 /\ build[p].kind = "none" /\ \A q \in Slots : build[q].for # p
      /\ freelist' = freelist \cup PagesOf(pgdir[p]) \cup {kstack[p]}
      /\ kstack' = [kstack EXCEPT ![p] = 0] /\ pgdir' = [pgdir EXCEPT ![p] = NoSpace]
      /\ sz' = [sz EXCEPT ![p] = 0] /\ build' = build
  BY DEF Exit
<1>3. build[p] = NoBuild
  BY <1>1, <1>2 DEF BuildsApart
<1>4. BuildBecomes(p, NoBuild)
  BY <1>1, <1>2, <1>3 DEF BuildBecomes, MemTypeOK
<1>5. SpaceBecomes(p, NoSpace) /\ StackBecomes(p, 0) /\ SizeBecomes(p, 0)
  BY <1>1, <1>2, NoSpaceIs, NoPageZero DEF SpaceBecomes, StackBecomes, SizeBecomes, MemTypeOK
<1>6. MayBuild(p, p, NoBuild, 0)
  BY <1>2, <1>3, NoBuildIs DEF MayBuild
<1>7. LocalFits(p, p, NoBuild, NoSpace, 0, 0)
  <2>1. 0 <= UserPages * PGSIZE
    BY MemAssumption
  <2> QED
    BY <2>1, NoBuildIs, NoSpaceIs, Numbers DEF LocalFits, Guarded
<1>8. MemTypeOK' /\ BuildsApart' /\ HandUsed' /\ SizesFit' /\ SettledFits' /\ UnusedEmpty'
      /\ BuildsFit'
  BY <1>1, <1>4, <1>5, <1>6, <1>7, NoBuildIs, NoSpaceIs, NoPageZero, CallKeeps
<1>9. Whole(Map, freelist)'
  <2>1. \A q \in Slots : Old(q)' = Old(q)
    BY <1>2 DEF Old
  <2>2. freelist' = Freed(freelist, pgdir[p], NoSpace, build[p].mem, kstack[p], 0)
    <3>1. build[p].mem = 0
      BY <1>3, NoBuildIs
    <3> QED
      BY <1>2, <3>1, NoPages DEF Freed
  <2>3. Thinned(pgdir[p], NoSpace)
    BY NoSpaceIs DEF Thinned
  <2> QED
    BY <1>1, <1>4, <1>5, <1>8, <2>1, <2>2, <2>3, NoBuildIs, NoSpaceIs, NoPageZero, ReturnedWhole
<1> QED
  BY <1>8, <1>9 DEF MemInv

(* A build by sbrk() that runs out of memory: deallocuvm().                *)
LEMMA FailGrow ==
  ASSUME MemInv, NEW p \in Slots, BuildFail(p), build[p].kind = "sbrk"
  PROVE  MemInv'
<1> DEFINE left == Dealloc(pgdir[p], build[p].upto, sz[p])
<1>1. MemTypeOK /\ BuildsApart /\ HandUsed /\ Whole(Map, freelist) /\ SizesFit
      /\ SettledFits /\ UnusedEmpty /\ BuildsFit
  BY DEF MemInv
<1>2. build[p].for = p /\ kstack[p] # 0 /\ (\A q \in Slots : q # p => build[q].for # p)
  BY <1>1, BuildFor DEF BuildsApart
<1>3. /\ freelist' = freelist \cup ((PagesOf(pgdir[p]) \ PagesOf(left)) \cup ({build[p].mem} \ {0}))
      /\ pgdir' = [pgdir EXCEPT ![p] = left] /\ build' = [build EXCEPT ![p] = NoBuild]
      /\ kstack' = kstack /\ sz' = sz
  BY <1>2 DEF BuildFail
<1>4. /\ sz[p] \in Nat /\ pgdir[p] \in Spaces /\ kstack[p] \in PageNos
      /\ build[p].upto \in Nat
  BY <1>1, BuildType
<1>5. left \in Spaces /\ Thinned(pgdir[p], left)
  BY <1>4, DeallocIs
<1>6. Guarded(left) /\ Covers(left, sz[p])
  <2>1. \A v \in VPages : Below(v, sz[p]) => pgdir[p].user[v] # 0
    BY <1>1 DEF BuildsFit, GrowFits
  <2>2. \A v \in VPages : ~Below(v, build[p].upto) => pgdir[p].user[v] = 0
    BY <1>1, <1>2 DEF BuildsFit, AboveEmpty
  <2>3. sz[p] <= build[p].upto /\ Guarded(pgdir[p])
    BY <1>1 DEF BuildsFit, GrowFits
  <2> QED
    BY <1>4, <2>1, <2>2, <2>3, DeallocCovers
<1> HIDE DEF left
<1>7. BuildBecomes(p, NoBuild)
  BY <1>1, <1>3, NoBuildIs DEF BuildBecomes, MemTypeOK
<1>8. SpaceBecomes(p, left) /\ StackBecomes(p, kstack[p]) /\ SizeBecomes(p, sz[p])
  BY <1>1, <1>3, <1>5 DEF SpaceBecomes, StackBecomes, SizeBecomes, MemTypeOK
<1>9. MayBuild(p, p, NoBuild, kstack[p])
  BY <1>2, NoBuildIs DEF MayBuild
<1>10. LocalFits(p, p, NoBuild, left, kstack[p], sz[p])
  <2>1. sz[p] <= UserPages * PGSIZE /\ 0 <= UserPages * PGSIZE
    BY <1>1, MemAssumption DEF SizesFit
  <2> QED
    BY <1>2, <1>6, <2>1, NoBuildIs DEF LocalFits
<1>11. MemTypeOK' /\ BuildsApart' /\ HandUsed' /\ SizesFit' /\ SettledFits' /\ UnusedEmpty'
       /\ BuildsFit'
  BY <1>1, <1>4, <1>5, <1>7, <1>8, <1>9, <1>10, NoBuildIs, CallKeeps
<1>12. Whole(Map, freelist)'
  <2>1. \A q \in Slots : Old(q)' = Old(q)
    BY <1>7, NoBuildIs DEF Old, BuildBecomes
  <2>2. freelist' = Freed(freelist, pgdir[p], left, build[p].mem, kstack[p], kstack[p])
    BY <1>2, <1>3 DEF Freed
  <2> QED
    BY <1>1, <1>4, <1>5, <1>7, <1>8, <1>11, <2>1, <2>2, NoBuildIs, ReturnedWhole
<1> QED
  BY <1>11, <1>12 DEF MemInv

(* fork() that runs out of memory frees the child.                         *)
LEMMA FailFork ==
  ASSUME MemInv, NEW p \in Slots, BuildFail(p), build[p].kind = "fork"
  PROVE  MemInv'
<1> DEFINE c == build[p].for
<1>1. MemTypeOK /\ BuildsApart /\ HandUsed /\ Whole(Map, freelist) /\ SizesFit
      /\ SettledFits /\ UnusedEmpty /\ BuildsFit
  BY DEF MemInv
<1>2. /\ c \in Slots /\ c # p /\ build[c].kind = "none" /\ build[p].old = NoSpace
      /\ \A q \in Slots : q # p => build[q].for # c
  BY <1>1, BuildFor DEF BuildsApart
<1>3. /\ freelist' = freelist \cup ((PagesOf(pgdir[c]) \ PagesOf(NoSpace))
                       \cup ({build[p].mem} \ {0})) \cup ({kstack[c]} \ {0})
      /\ pgdir' = [pgdir EXCEPT ![c] = NoSpace] /\ build' = [build EXCEPT ![p] = NoBuild]
      /\ kstack' = [kstack EXCEPT ![c] = 0] /\ sz' = sz
  BY <1>2 DEF BuildFail
<1>4. sz[c] \in Nat /\ pgdir[c] \in Spaces /\ c = build[p].for
  BY <1>1, <1>2, BuildType
<1> HIDE DEF c
<1>5. BuildBecomes(p, NoBuild)
  BY <1>1, <1>3, NoBuildIs DEF BuildBecomes, MemTypeOK
<1>6. SpaceBecomes(c, NoSpace) /\ StackBecomes(c, 0) /\ SizeBecomes(c, sz[c])
  BY <1>1, <1>2, <1>3, NoSpaceIs, NoPageZero
     DEF SpaceBecomes, StackBecomes, SizeBecomes, MemTypeOK
<1>7. MayBuild(p, c, NoBuild, 0)
  BY <1>2, <1>4, NoBuildIs DEF MayBuild
<1>8. LocalFits(p, c, NoBuild, NoSpace, 0, sz[c])
  <2>1. sz[c] <= UserPages * PGSIZE /\ 0 <= UserPages * PGSIZE
    BY <1>1, <1>2, MemAssumption DEF SizesFit
  <2> QED
    BY <2>1, NoBuildIs, NoSpaceIs, Numbers DEF LocalFits, Guarded
<1>9. MemTypeOK' /\ BuildsApart' /\ HandUsed' /\ SizesFit' /\ SettledFits' /\ UnusedEmpty'
      /\ BuildsFit'
  BY <1>1, <1>2, <1>4, <1>5, <1>6, <1>7, <1>8, NoBuildIs, NoSpaceIs, NoPageZero, CallKeeps
<1>10. Whole(Map, freelist)'
  <2>1. \A q \in Slots : Old(q)' = Old(q)
    BY <1>5, NoBuildIs DEF Old, BuildBecomes
  <2>2. freelist' = Freed(freelist, pgdir[c], NoSpace, build[p].mem, kstack[c], 0)
    BY <1>3 DEF Freed
  <2>3. Thinned(pgdir[c], NoSpace)
    BY NoSpaceIs DEF Thinned
  <2> QED
    BY <1>1, <1>2, <1>5, <1>6, <1>9, <2>1, <2>2, <2>3, NoBuildIs, NoSpaceIs, NoPageZero,
       ReturnedWhole
<1> QED
  BY <1>9, <1>10 DEF MemInv

(* exec() that runs out of memory goes back to the old address space.      *)
LEMMA FailExec ==
  ASSUME MemInv, NEW p \in Slots, BuildFail(p), build[p].kind = "exec"
  PROVE  MemInv'
<1> DEFINE old == build[p].old
<1>1. MemTypeOK /\ BuildsApart /\ HandUsed /\ Whole(Map, freelist) /\ SizesFit
      /\ SettledFits /\ UnusedEmpty /\ BuildsFit
  BY DEF MemInv
<1>2. build[p].for = p /\ kstack[p] # 0 /\ (\A q \in Slots : q # p => build[q].for # p)
  BY <1>1, BuildFor DEF BuildsApart
<1>3. /\ freelist' = freelist \cup ((PagesOf(pgdir[p]) \ PagesOf(old)) \cup ({build[p].mem} \ {0}))
      /\ pgdir' = [pgdir EXCEPT ![p] = old] /\ build' = [build EXCEPT ![p] = NoBuild]
      /\ kstack' = kstack /\ sz' = sz
  BY <1>2 DEF BuildFail
<1>4. /\ sz[p] \in Nat /\ pgdir[p] \in Spaces /\ kstack[p] \in PageNos /\ old \in Spaces
      /\ Old(p) = old
  BY <1>1, BuildType DEF Old
<1> HIDE DEF old
<1>5. Guarded(old) /\ Covers(old, sz[p])
  BY <1>1 DEF BuildsFit, ExecFits, old
<1>6. BuildBecomes(p, NoBuild)
  BY <1>1, <1>3, NoBuildIs DEF BuildBecomes, MemTypeOK
<1>7. SpaceBecomes(p, old) /\ StackBecomes(p, kstack[p]) /\ SizeBecomes(p, sz[p])
  BY <1>1, <1>3, <1>4 DEF SpaceBecomes, StackBecomes, SizeBecomes, MemTypeOK
<1>8. MayBuild(p, p, NoBuild, kstack[p])
  BY <1>2, NoBuildIs DEF MayBuild
<1>9. LocalFits(p, p, NoBuild, old, kstack[p], sz[p])
  <2>1. sz[p] <= UserPages * PGSIZE /\ 0 <= UserPages * PGSIZE
    BY <1>1, MemAssumption DEF SizesFit
  <2> QED
    BY <1>2, <1>5, <2>1, NoBuildIs DEF LocalFits
<1>10. MemTypeOK' /\ BuildsApart' /\ HandUsed' /\ SizesFit' /\ SettledFits' /\ UnusedEmpty'
       /\ BuildsFit'
  BY <1>1, <1>4, <1>6, <1>7, <1>8, <1>9, NoBuildIs, CallKeeps
<1>11. Whole(Map, freelist)'
  <2>1. MapOK /\ MapOK'
    BY <1>1, <1>10, MapIs, MapIsNext
  <2>2. Map \in Maps /\ Map' \in Maps
    BY <2>1 DEF MapOK
  <2>3. PICK f \in Maps : Exchanged(Map, f, p)
    BY <2>2, SwapIs
  <2>4. Whole(f, freelist)
    BY <1>1, <2>3, MoveWhole
  <2>5. Old(p)' = NoSpace /\ \A q \in Slots : q # p => Old(q)' = Old(q)
    BY <1>6, NoBuildIs DEF Old, BuildBecomes
  <2>6. ASSUME NEW q \in Slots, NEW w \in Wheres, NEW k \in Entries, NEW x \in Nat
        PROVE  /\ q = p /\ w = "old" =>
                    f[q][w][k][x] = In(pgdir[p], k, x) /\ Map'[q][w][k][x] = In(NoSpace, k, x)
               /\ q = p /\ w = "hand" =>
                    f[q][w][k][x] = Single(build[p].mem, k, x) /\ Map'[q][w][k][x] = 0
               /\ q = p /\ w = "kstack" =>
                    f[q][w][k][x] = Single(kstack[p], k, x)
                    /\ Map'[q][w][k][x] = Single(kstack[p], k, x)
               /\ ~(q = p /\ w = "old") /\ ~(q = p /\ w = "hand") /\ ~(q = p /\ w = "kstack")
                    => Map'[q][w][k][x] = f[q][w][k][x]
    <3>1. CASE w = "pgdir"
      <4>1. /\ f[q][w][k][x] = IF q = p THEN In(Old(q), k, x) ELSE In(pgdir[q], k, x)
            /\ Map'[q][w][k][x] = In(pgdir'[q], k, x)
        BY <2>1, <2>3, <3>1 DEF MapOK, Exchanged
      <4>2. pgdir'[q] = IF q = p THEN old ELSE pgdir[q]
        BY <1>7 DEF SpaceBecomes
      <4> QED
        BY <1>4, <3>1, <4>1, <4>2
    <3>2. CASE w = "hand"
      <4>1. f[q][w][k][x] = Single(build[q].mem, k, x) /\ Map'[q][w][k][x] = Single(build'[q].mem, k, x)
        BY <2>1, <2>3, <3>2 DEF MapOK, Exchanged
      <4>2. build'[q].mem = IF q = p THEN 0 ELSE build[q].mem
        BY <1>6, NoBuildIs DEF BuildBecomes
      <4> QED
        BY <3>2, <4>1, <4>2 DEF Single
    <3>3. CASE w = "kstack"
      <4>1. f[q][w][k][x] = Single(kstack[q], k, x) /\ Map'[q][w][k][x] = Single(kstack'[q], k, x)
        BY <2>1, <2>3, <3>3 DEF MapOK, Exchanged
      <4> QED
        BY <1>3, <3>3, <4>1
    <3>4. CASE w = "old"
      <4>1. /\ f[q][w][k][x] = IF q = p THEN In(pgdir[q], k, x) ELSE In(Old(q), k, x)
            /\ Map'[q][w][k][x] = In(Old(q)', k, x)
        BY <2>1, <2>3, <3>4 DEF MapOK, Exchanged
      <4> QED
        BY <2>5, <3>4, <4>1
    <3> QED
      BY <3>1, <3>2, <3>3, <3>4 DEF Wheres
  <2>7. Returned(f, Map', p, p, "old", pgdir[p], NoSpace, build[p].mem, kstack[p], kstack[p])
    BY <2>6, Zenon DEF Returned
  <2>8. Thinned(pgdir[p], NoSpace)
    BY NoSpaceIs DEF Thinned
  <2>9. Whole(Map', Freed(freelist, pgdir[p], NoSpace, build[p].mem, kstack[p], kstack[p]))
    BY <1>4, <2>2, <2>4, <2>7, <2>8, NoSpaceIs, ReturnWhole
  <2>10. ASSUME NEW g \in PagesOf(pgdir[p]), g \in PagesOf(old) PROVE FALSE
    <3>1. PICK k \in Entries, x \in Nat : g # 0 /\ In(pgdir[p], k, x) = g
      BY <1>4, PagesOfIs
    <3>2. PICK l \in Entries, y \in Nat : In(old, l, y) = g
      BY <1>4, <2>10, PagesOfIs
    <3>3. Map[p]["pgdir"][k][x] = g /\ Map[p]["old"][l][y] = g
      BY <1>4, <2>1, <3>1, <3>2 DEF MapOK
    <3>4. "pgdir" \in Wheres /\ "old" \in Wheres /\ OneOwner(Map)
      BY <1>1 DEF Wheres, Whole
    <3>5. "pgdir" = "old"
      BY <3>1, <3>3, <3>4, Unique
    <3> QED
      BY <3>5
  <2>11. PagesOf(pgdir[p]) \ PagesOf(old) = PagesOf(pgdir[p])
    BY <2>10
  <2>12. freelist' = Freed(freelist, pgdir[p], NoSpace, build[p].mem, kstack[p], kstack[p])
    BY <1>2, <1>3, <2>11, NoPages DEF Freed
  <2> QED
    BY <2>9, <2>12, Zenon
<1> QED
  BY <1>10, <1>11 DEF MemInv

LEMMA BuildFailKeeps ==
  ASSUME MemInv, NEW p \in Slots, BuildFail(p)
  PROVE  MemInv'
<1>1. build[p].kind \in {"sbrk", "fork", "exec"}
  BY BuildType DEF MemInv, BuildFail
<1> QED
  BY <1>1, FailGrow, FailFork, FailExec

(* The guard page that a finished build leaves is a mapped one.            *)
LEMMA GuardOf ==
  ASSUME MemTypeOK, BuildsApart, SettledFits, BuildsFit, NEW p \in Slots,
         build[p].kind # "none", NEW as \in Spaces, Covers(as, build[p].upto),
         as.guard = Clearpteu(p),
         build[p].kind = "sbrk" => as.user = pgdir[p].user
  PROVE  Guarded(as)
<1>1. CASE build[p].kind = "sbrk"
  <2>1. Guarded(pgdir[p]) /\ as.guard = pgdir[p].guard
    BY <1>1 DEF BuildsFit, GrowFits, Clearpteu
  <2> QED
    BY <1>1, <2>1 DEF Guarded
<1>2. CASE build[p].kind = "fork"
  <2>1. as.guard = pgdir[p].guard /\ build[p].upto = sz[p] /\ Covers(pgdir[p], sz[p])
    BY <1>2 DEF BuildsFit, ForkFits, Clearpteu
  <2>2. ASSUME NEW q \in Slots, q # p, build[q].for = p PROVE FALSE
    <3>1. build[q].kind # "none"
      BY <2>2, NoBuildIs, Numbers DEF BuildsApart
    <3> QED
      BY <1>2, <2>2, <3>1, BuildType DEF BuildsApart
  <2>3. Settled(p)
    BY <1>2, <2>2 DEF Settled
  <2>4. Guarded(pgdir[p])
    BY <2>3 DEF SettledFits
  <2> QED
    BY <2>1, <2>4 DEF Guarded, Covers
<1>3. CASE build[p].kind = "exec"
  <2>1. PICK n \in 0..(UserPages - 2) : build[p].upto = (n + 2) * PGSIZE
    BY <1>3 DEF BuildsFit, ExecFits
  <2>2. n \in VPages /\ n \in Nat /\ PGSIZE \in Nat /\ PGSIZE > 0
    BY <2>1, MemAssumption DEF VPages
  <2>3. as.guard = ((n + 2) * PGSIZE) \div PGSIZE - 2
    BY <1>3, <2>1 DEF Clearpteu
  <2>4. ((n + 2) * PGSIZE) \div PGSIZE = n + 2
    BY <2>2
  <2>5. as.guard = n
    BY <2>2, <2>3, <2>4
  <2>6. Below(n, build[p].upto)
    <3>1. (n + 2) * PGSIZE = n * PGSIZE + PGSIZE + PGSIZE /\ n * PGSIZE \in Nat
      BY <2>2
    <3> QED
      BY <2>1, <2>2, <3>1 DEF Below
  <2> QED
    BY <2>2, <2>5, <2>6 DEF Guarded, Covers
<1> QED
  BY <1>1, <1>2, <1>3, BuildType

LEMMA BuildDoneKeeps ==
  ASSUME MemInv, NEW p \in Slots, BuildDone(p)
  PROVE  MemInv'
<1> DEFINE c == build[p].for
           as == [pgdir[c] EXCEPT !.guard = Clearpteu(p)]
           n == build[p].upto
<1>1. MemTypeOK /\ BuildsApart /\ HandUsed /\ Whole(Map, freelist) /\ SizesFit
      /\ SettledFits /\ UnusedEmpty /\ BuildsFit
  BY DEF MemInv
<1>2. /\ build[p].kind # "none" /\ NextNeed(p) = "done"
      /\ freelist' = IF build[p].kind = "exec" THEN freelist \cup PagesOf(build[p].old)
                     ELSE freelist
      /\ sz' = [sz EXCEPT ![c] = n] /\ pgdir' = [pgdir EXCEPT ![c] = as]
      /\ build' = [build EXCEPT ![p] = NoBuild] /\ kstack' = kstack
  BY DEF BuildDone
<1>3. c \in Slots /\ c = build[p].for /\ (\A q \in Slots : q # p => build[q].for # c)
  BY <1>1, <1>2, BuildFor
<1>4. /\ pgdir[c] \in Spaces /\ n \in Nat /\ kstack[c] \in PageNos /\ build[p].old \in Spaces
      /\ build[p].kind \in {"sbrk", "fork", "exec"}
  BY <1>1, <1>2, <1>3, BuildType
<1>5. kstack[c] # 0 /\ Missing(p) = {} /\ build[p].mem = 0
  <2>1. kstack[c] # 0 /\ Missing(p) = {}
    BY <1>1, <1>2, <1>3, NeedIs
  <2> QED
    BY <1>1, <2>1 DEF HandUsed
<1>6. Clearpteu(p) \in Int
  <2>1. pgdir[p].guard \in Int
    BY <1>1, InType, BuildType
  <2>2. n \div PGSIZE - 2 \in Int
    <3>1. n \div PGSIZE \in Int
      BY <1>4, MemAssumption
    <3> QED
      BY <3>1
  <2> QED
    BY <2>1, <2>2 DEF Clearpteu
<1>7. /\ as \in Spaces /\ as.user = pgdir[c].user /\ as.guard = Clearpteu(p)
      /\ \A k \in Entries, x \in Nat : In(as, k, x) = In(pgdir[c], k, x)
  BY <1>4, <1>6, SetGuard
<1>8. Covers(as, n)
  <2>1. ASSUME NEW v \in VPages PROVE pgdir[c].user[v] # 0 <=> Below(v, n)
    <3>1. Below(v, n) => pgdir[c].user[v] # 0
      BY <1>5 DEF Missing, Below
    <3>2. ~Below(v, n) => pgdir[c].user[v] = 0
      BY <1>1, <1>2 DEF BuildsFit, AboveEmpty
    <3> QED
      BY <3>1, <3>2
  <2> QED
    BY <1>7, <2>1 DEF Covers
<1>9. Guarded(as)
  <2>1. build[p].kind = "sbrk" => as.user = pgdir[p].user
    BY <1>1, <1>7 DEF BuildsApart
  <2>2. as \in Spaces /\ as.guard = Clearpteu(p) /\ Covers(as, build[p].upto)
    BY <1>7, <1>8
  <2> HIDE DEF as
  <2> QED
    BY <1>1, <1>2, <2>1, <2>2, GuardOf
<1> HIDE DEF c, as, n
<1>10. BuildBecomes(p, NoBuild)
  BY <1>1, <1>2, NoBuildIs DEF BuildBecomes, MemTypeOK
<1>11. SpaceBecomes(c, as) /\ StackBecomes(c, kstack[c]) /\ SizeBecomes(c, n)
  BY <1>1, <1>2, <1>3, <1>4, <1>7 DEF SpaceBecomes, StackBecomes, SizeBecomes, MemTypeOK
<1>12. MayBuild(p, c, NoBuild, kstack[c])
  <2>1. c # p => build[c].kind = "none" /\ build[p].kind \in {"none", "fork"}
    BY <1>1, <1>3, <1>4 DEF BuildsApart
  <2> QED
    BY <1>3, <2>1, NoBuildIs DEF MayBuild
<1>13. LocalFits(p, c, NoBuild, as, kstack[c], n)
  <2>1. n <= UserPages * PGSIZE /\ 0 <= UserPages * PGSIZE
    BY <1>1, MemAssumption DEF SizesFit, n
  <2> QED
    BY <1>5, <1>8, <1>9, <2>1, NoBuildIs DEF LocalFits
<1>14. MemTypeOK' /\ BuildsApart' /\ HandUsed' /\ SizesFit' /\ SettledFits' /\ UnusedEmpty'
       /\ BuildsFit'
  BY <1>1, <1>3, <1>4, <1>7, <1>10, <1>11, <1>12, <1>13, NoBuildIs, CallKeeps
<1>15. Whole(Map, freelist)'
  <2>1. MapOK /\ MapOK'
    BY <1>1, <1>14, MapIs, MapIsNext
  <2>2. Map' \in Maps
    BY <2>1 DEF MapOK
  <2>3. ASSUME NEW q \in Slots, NEW k \in Entries, NEW x \in Nat
        PROVE  /\ Map'[q]["pgdir"][k][x] = Map[q]["pgdir"][k][x]
               /\ Map'[q]["kstack"][k][x] = Map[q]["kstack"][k][x]
               /\ Map'[q]["hand"][k][x] = Map[q]["hand"][k][x]
    <3>1. Map'[q]["pgdir"][k][x] = Map[q]["pgdir"][k][x]
      <4>1. Map'[q]["pgdir"][k][x] = In(pgdir'[q], k, x) /\ Map[q]["pgdir"][k][x] = In(pgdir[q], k, x)
        BY <2>1 DEF MapOK
      <4>2. pgdir'[q] = IF q = c THEN as ELSE pgdir[q]
        BY <1>11 DEF SpaceBecomes
      <4>3. In(pgdir'[q], k, x) = In(pgdir[q], k, x)
        BY <1>7, <4>2
      <4> QED
        BY <4>1, <4>3
    <3>2. Map'[q]["kstack"][k][x] = Map[q]["kstack"][k][x]
      <4>1. kstack' = kstack
        BY <1>2
      <4> QED
        BY <2>1, <4>1 DEF MapOK
    <3>3. Map'[q]["hand"][k][x] = Map[q]["hand"][k][x]
      <4>1. build'[q].mem = build[q].mem
        BY <1>5, <1>10, NoBuildIs DEF BuildBecomes
      <4> QED
        BY <2>1, <4>1 DEF MapOK
    <3> QED
      BY <3>1, <3>2, <3>3
  <2>4. /\ \A q \in Slots : q # p => Old(q)' = Old(q)
        /\ Old(p)' = NoSpace
        /\ Old(p) = IF build[p].kind = "exec" THEN build[p].old ELSE NoSpace
    BY <1>10, NoBuildIs DEF Old, BuildBecomes
  <2>5. \A q \in Slots, k \in Entries, x \in Nat :
          Map'[q]["old"][k][x] = In(Old(q)', k, x) /\ Map[q]["old"][k][x] = In(Old(q), k, x)
    BY <2>1 DEF MapOK
  <2>6. CASE build[p].kind # "exec"
    <3>1. ASSUME NEW q \in Slots, NEW w \in Wheres, NEW k \in Entries, NEW x \in Nat
          PROVE  Map'[q][w][k][x] = Map[q][w][k][x]
      <4>1. Map'[q]["old"][k][x] = Map[q]["old"][k][x]
        BY <2>4, <2>5, <2>6
      <4> QED
        BY <2>3, <4>1 DEF Wheres
    <3>2. Whole(Map', freelist)
      BY <1>1, <2>2, <3>1, SameWhole
    <3>3. freelist' = freelist
      BY <1>2, <2>6
    <3> QED
      BY <3>2, <3>3
  <2>7. CASE build[p].kind = "exec"
    <3>1. c = p
      BY <1>1, <1>3, <2>7 DEF BuildsApart
    <3>2. ASSUME NEW q \in Slots, NEW w \in Wheres, NEW k \in Entries, NEW x \in Nat
          PROVE  /\ q = p /\ w = "old" =>
                      Map[q][w][k][x] = In(build[p].old, k, x)
                      /\ Map'[q][w][k][x] = In(NoSpace, k, x)
                 /\ q = p /\ w = "hand" =>
                      Map[q][w][k][x] = Single(0, k, x) /\ Map'[q][w][k][x] = 0
                 /\ q = p /\ w = "kstack" =>
                      Map[q][w][k][x] = Single(kstack[p], k, x)
                      /\ Map'[q][w][k][x] = Single(kstack[p], k, x)
                 /\ ~(q = p /\ w = "old") /\ ~(q = p /\ w = "hand") /\ ~(q = p /\ w = "kstack")
                      => Map'[q][w][k][x] = Map[q][w][k][x]
      <4>1. CASE w = "old"
        BY <2>4, <2>5, <2>7, <4>1
      <4>2. CASE w = "hand"
        <5>1. Map[q][w][k][x] = Single(build[q].mem, k, x)
          BY <2>1, <4>2 DEF MapOK
        <5> QED
          BY <1>5, <2>3, <4>2, <5>1 DEF Single
      <4>3. CASE w = "kstack"
        <5>1. Map[q][w][k][x] = Single(kstack[q], k, x)
          BY <2>1, <4>3 DEF MapOK
        <5> QED
          BY <2>3, <4>3, <5>1
      <4>4. CASE w = "pgdir"
        BY <2>3, <4>4
      <4> QED
        BY <4>1, <4>2, <4>3, <4>4 DEF Wheres
    <3>3. Returned(Map, Map', p, p, "old", build[p].old, NoSpace, 0, kstack[p], kstack[p])
      BY <3>2, Zenon DEF Returned
    <3>4. Thinned(build[p].old, NoSpace)
      BY NoSpaceIs DEF Thinned
    <3>5. Whole(Map', Freed(freelist, build[p].old, NoSpace, 0, kstack[p], kstack[p]))
      BY <1>1, <1>4, <2>2, <3>3, <3>4, NoSpaceIs, ReturnWhole
    <3>6. freelist' = Freed(freelist, build[p].old, NoSpace, 0, kstack[p], kstack[p])
      <4>1. kstack[p] # 0
        BY <1>5, <3>1
      <4> QED
        BY <1>2, <2>7, <4>1, NoPages DEF Freed
    <3> QED
      BY <3>5, <3>6, Zenon
  <2> QED
    BY <2>6, <2>7
<1> QED
  BY <1>14, <1>15 DEF MemInv

------------------------------------------------------------------------------
(* The invariant holds in every state of every behaviour of the memory     *)
(* system.                                                                 *)
THEOREM MemInvariant == MemSpec => []MemInv
<1>1. MemInit => MemInv
  BY MemStart
<1>2. ASSUME MemInv, [MemNext]_memVars PROVE MemInv'
  <2>1. CASE MemNext
    <3>1. PICK p \in Slots :
            \/ \E n \in 1..MaxStep : Grow(p, n) \/ Shrink(p, n)
            \/ \E c \in Slots : Fork(p, c)
            \/ \E n \in 1..ImagePages : Exec(p, n)
            \/ BuildStep(p) \/ BuildFail(p) \/ BuildDone(p) \/ Exit(p)
      BY <2>1 DEF MemNext
    <3> QED
      BY <1>2, <3>1, GrowKeeps, ShrinkKeeps, ForkKeeps, ExecKeeps, BuildStepKeeps,
         BuildFailKeeps, BuildDoneKeeps, ExitKeeps
  <2>2. CASE UNCHANGED memVars
    <3>1. /\ freelist' = freelist /\ kstack' = kstack /\ pgdir' = pgdir /\ sz' = sz
          /\ build' = build
      BY <2>2 DEF memVars
    <3>2. MemTypeOK' /\ BuildsApart' /\ HandUsed' /\ SizesFit' /\ SettledFits' /\ UnusedEmpty'
          /\ BuildsFit'
      BY <1>2, <3>1 DEF MemInv, MemTypeOK, BuildsApart, HandUsed, Missing, SizesFit,
         SettledFits, Settled, UnusedEmpty, BuildsFit, AboveEmpty, GrowFits, ExecFits, ForkFits
    <3>3. Map' = Map
      BY <3>1 DEF Map, At, Old
    <3> QED
      BY <1>2, <3>1, <3>2, <3>3 DEF MemInv
  <2> QED
    BY <1>2, <2>1, <2>2
<1> QED
  BY <1>1, <1>2, PTL DEF MemSpec

------------------------------------------------------------------------------
(* What is held is what is in the places.                                  *)
LEMMA PlaceIsHeld ==
  ASSUME MemTypeOK, NEW p \in Slots, NEW w \in Wheres, NEW k \in Entries, NEW x \in Nat,
         Map[p][w][k][x] # 0
  PROVE  <<p, w, k, x, Map[p][w][k][x]>> \in Held
<1> DEFINE g == Map[p][w][k][x]
           h == <<p, w, k, x, g>>
<1>1. MapOK
  BY MapIs
<1>2. ASSUME NEW as, In(as, k, x) # 0
      PROVE  <<p, w, k, x, In(as, k, x)>> \in PlacesOf(p, w, as)
  BY <1>2 DEF PlacesOf, In
<1>3. h \in HeldBy(p)
  <2>1. CASE w = "kstack"
    <3>1. g = Single(kstack[p], k, x)
      BY <1>1, <2>1 DEF MapOK
    <3>2. g = kstack[p] /\ k = "one" /\ x = 0
      BY <3>1 DEF Single
    <3> QED
      BY <2>1, <3>2 DEF HeldBy
  <2>2. CASE w = "hand"
    <3>1. g = Single(build[p].mem, k, x)
      BY <1>1, <2>2 DEF MapOK
    <3>2. g = build[p].mem /\ k = "one" /\ x = 0
      BY <3>1 DEF Single
    <3> QED
      BY <2>2, <3>2 DEF HeldBy
  <2>3. CASE w = "pgdir"
    <3>1. g = In(pgdir[p], k, x)
      BY <1>1, <2>3 DEF MapOK
    <3>2. h \in PlacesOf(p, "pgdir", pgdir[p])
      BY <1>2, <2>3, <3>1
    <3> QED
      BY <3>2 DEF HeldBy
  <2>4. CASE w = "old"
    <3>1. g = In(Old(p), k, x)
      BY <1>1, <2>4 DEF MapOK
    <3>2. build[p].kind = "exec" /\ Old(p) = build[p].old
      BY <3>1, NoSpaceIs DEF Old
    <3>3. h \in PlacesOf(p, "old", build[p].old)
      BY <1>2, <2>4, <3>1, <3>2
    <3> QED
      BY <3>2, <3>3 DEF HeldBy
  <2> QED
    BY <2>1, <2>2, <2>3, <2>4 DEF Wheres
<1>4. h[5] # 0
  OBVIOUS
<1> QED
  BY <1>3, <1>4 DEF Held

LEMMA HeldIsPlace ==
  ASSUME MemTypeOK, NEW h \in Held
  PROVE  \E p \in Slots, w \in Wheres, k \in Entries, x \in Nat :
           h = <<p, w, k, x, Map[p][w][k][x]>> /\ Map[p][w][k][x] # 0
<1>1. MapOK
  BY MapIs
<1>2. PICK p \in Slots : h \in HeldBy(p)
  BY DEF Held
<1>3. h[5] # 0
  BY DEF Held
<1>4. \A k \in Entries, x \in Nat :
        /\ Map[p]["kstack"][k][x] = Single(kstack[p], k, x)
        /\ Map[p]["hand"][k][x] = Single(build[p].mem, k, x)
        /\ Map[p]["pgdir"][k][x] = In(pgdir[p], k, x)
        /\ Map[p]["old"][k][x] = In(Old(p), k, x)
  BY <1>1 DEF MapOK
<1>5. ASSUME NEW as, NEW w, h \in PlacesOf(p, w, as)
      PROVE  \E k \in Entries, x \in Nat : h = <<p, w, k, x, In(as, k, x)>>
  <2>1. CASE h = <<p, w, "dir", 0, as.dir>>
    <3>1. In(as, "dir", 0) = as.dir /\ "dir" \in Entries /\ 0 \in Nat
      BY DEF In, Entries
    <3> QED
      BY <2>1, <3>1
  <2>2. CASE h = <<p, w, "kpt", 0, as.kpt>>
    <3>1. In(as, "kpt", 0) = as.kpt /\ "kpt" \in Entries /\ 0 \in Nat
      BY DEF In, Entries
    <3> QED
      BY <2>2, <3>1
  <2>3. ASSUME NEW t \in Tabs, h = <<p, w, "tab", t, as.tab[t]>>
        PROVE  \E k \in Entries, x \in Nat : h = <<p, w, k, x, In(as, k, x)>>
    <3>1. In(as, "tab", t) = as.tab[t] /\ "tab" \in Entries /\ t \in Nat
      BY Numbers DEF In, Entries
    <3> QED
      BY <2>3, <3>1
  <2>4. ASSUME NEW v \in VPages, h = <<p, w, "user", v, as.user[v]>>
        PROVE  \E k \in Entries, x \in Nat : h = <<p, w, k, x, In(as, k, x)>>
    <3>1. In(as, "user", v) = as.user[v] /\ "user" \in Entries /\ v \in Nat
      BY Numbers DEF In, Entries
    <3> QED
      BY <2>4, <3>1
  <2> QED
    BY <1>5, <2>1, <2>2, <2>3, <2>4 DEF PlacesOf
<1>6. \E w \in Wheres, k \in Entries, x \in Nat : h = <<p, w, k, x, Map[p][w][k][x]>>
  <2>1. "one" \in Entries /\ 0 \in Nat /\ "kstack" \in Wheres /\ "hand" \in Wheres
        /\ "pgdir" \in Wheres /\ "old" \in Wheres
    BY DEF Entries, Wheres
  <2>2. CASE h = <<p, "kstack", "one", 0, kstack[p]>>
    <3>1. Map[p]["kstack"]["one"][0] = kstack[p]
      BY <1>4, <2>1 DEF Single
    <3> QED
      BY <2>1, <2>2, <3>1
  <2>3. CASE h = <<p, "hand", "one", 0, build[p].mem>>
    <3>1. Map[p]["hand"]["one"][0] = build[p].mem
      BY <1>4, <2>1 DEF Single
    <3> QED
      BY <2>1, <2>3, <3>1
  <2>4. CASE h \in PlacesOf(p, "pgdir", pgdir[p])
    <3>1. PICK k \in Entries, x \in Nat : h = <<p, "pgdir", k, x, In(pgdir[p], k, x)>>
      BY <1>5, <2>4
    <3>2. Map[p]["pgdir"][k][x] = In(pgdir[p], k, x)
      BY <1>4
    <3> QED
      BY <2>1, <3>1, <3>2
  <2>5. CASE build[p].kind = "exec" /\ h \in PlacesOf(p, "old", build[p].old)
    <3>1. PICK k \in Entries, x \in Nat : h = <<p, "old", k, x, In(build[p].old, k, x)>>
      BY <1>5, <2>5
    <3>2. Map[p]["old"][k][x] = In(build[p].old, k, x)
      BY <1>4, <2>5 DEF Old
    <3> QED
      BY <2>1, <3>1, <3>2
  <2> QED
    BY <1>2, <2>2, <2>3, <2>4, <2>5 DEF HeldBy
<1>7. PICK w \in Wheres, k \in Entries, x \in Nat : h = <<p, w, k, x, Map[p][w][k][x]>>
  BY <1>6
<1>8. Map[p][w][k][x] # 0
  BY <1>3, <1>7
<1> QED
  BY <1>7, <1>8

LEMMA WholeConserves == MemInv => PagesConserved
<1> SUFFICES ASSUME MemInv PROVE PagesConserved
  OBVIOUS
<1> DEFINE T == Pages \ freelist
           f == [h \in Held |-> h[5]]
<1>1. MemTypeOK /\ Whole(Map, freelist) /\ OneOwner(Map)
  BY DEF MemInv, Whole
<1>2. ASSUME NEW h \in Held
      PROVE  h[5] \in T
  <2>1. PICK p \in Slots, w \in Wheres, k \in Entries, x \in Nat :
          h = <<p, w, k, x, Map[p][w][k][x]>> /\ Map[p][w][k][x] # 0
    BY <1>1, HeldIsPlace
  <2>2. h[5] = Map[p][w][k][x]
    BY <2>1
  <2>3. Map[p][w][k][x] \in PageNos /\ Map[p][w][k][x] \notin freelist
    BY <1>1 DEF Whole, Maps
  <2> QED
    BY <2>1, <2>2, <2>3, NoPageZero
<1>3. ASSUME NEW g \in T
      PROVE  \E h \in Held : h[5] = g
  <2>1. PICK p \in Slots, w \in Wheres, k \in Entries, x \in Nat : Map[p][w][k][x] = g
    BY <1>1 DEF Whole
  <2>2. g # 0
    BY NoPageZero
  <2>3. <<p, w, k, x, g>> \in Held
    BY <1>1, <2>1, <2>2, PlaceIsHeld
  <2>4. <<p, w, k, x, g>>[5] = g
    OBVIOUS
  <2> QED
    BY <2>3, <2>4
<1>4. ASSUME NEW h \in Held, NEW e \in Held, h[5] = e[5]
      PROVE  h = e
  <2>1. PICK p \in Slots, w \in Wheres, k \in Entries, x \in Nat :
          h = <<p, w, k, x, Map[p][w][k][x]>> /\ Map[p][w][k][x] # 0
    BY <1>1, HeldIsPlace
  <2>2. PICK q \in Slots, u \in Wheres, l \in Entries, y \in Nat :
          e = <<q, u, l, y, Map[q][u][l][y]>> /\ Map[q][u][l][y] # 0
    BY <1>1, HeldIsPlace
  <2>3. Map[p][w][k][x] = Map[q][u][l][y]
    BY <1>4, <2>1, <2>2
  <2>4. p = q /\ w = u /\ k = l /\ x = y
    BY <1>1, <2>1, <2>3, Unique
  <2> QED
    BY <2>1, <2>2, <2>4
<1>5. f \in Injection(Held, T) /\ f \in Surjection(Held, T)
  BY <1>2, <1>3, <1>4 DEF Injection, Surjection, IsInjective
<1>6. IsFiniteSet(Pages) /\ Cardinality(Pages) = NPages
  BY FS_Interval, MemAssumption DEF Pages
<1>7. freelist \subseteq Pages
  BY <1>1 DEF Whole
<1>8. /\ IsFiniteSet(T) /\ IsFiniteSet(freelist)
      /\ Cardinality(Held) = Cardinality(T)
  <2>1. IsFiniteSet(T) /\ IsFiniteSet(freelist)
    BY <1>6, <1>7, FS_Subset
  <2> QED
    BY <1>5, <2>1, FS_Injection
<1>9. Cardinality(freelist) + Cardinality(T) = NPages
  <2>1. freelist \cap T = {} /\ freelist \cup T = Pages
    BY <1>7
  <2>2. Cardinality(freelist \cup T)
          = Cardinality(freelist) + Cardinality(T) - Cardinality(freelist \cap T)
    BY <1>8, FS_Union
  <2>3. Cardinality(freelist \cap T) = 0
    BY <2>1, FS_EmptySet
  <2>4. Cardinality(freelist) \in Nat /\ Cardinality(T) \in Nat
    BY <1>8, FS_CardinalityType
  <2>5. Cardinality(freelist \cup T) = NPages
    BY <1>6, <2>1
  <2> HIDE DEF T
  <2> QED
    BY <2>2, <2>3, <2>4, <2>5
<1>10. freelist \cup {h[5] : h \in Held} = Pages
  BY <1>2, <1>3, <1>7
<1> QED
  BY <1>8, <1>9, <1>10 DEF PagesConserved

LEMMA WholeMapped == MemInv => KernelAccessMapped
<1> SUFFICES ASSUME MemInv, NEW p \in Slots, Runs(p)
             PROVE  /\ \A v \in VPages : pgdir[p].user[v] # 0 <=> v < RoundUp(sz[p])
                    /\ Pgcnt(p) = RoundUp(sz[p]) - (IF pgdir[p].guard = -1 THEN 0 ELSE 1)
                    /\ \A a \in 0..(UserPages * PGSIZE), n \in 1..PGSIZE : ArgOK(p, a, n) =>
                         \A x \in a..(a + n - 1) : pgdir[p].user[x \div PGSIZE] # 0
  BY DEF KernelAccessMapped
<1> DEFINE R == RoundUp(sz[p])
           g == pgdir[p].guard
<1>1. /\ sz[p] \in Nat /\ Covers(pgdir[p], sz[p]) /\ Guarded(pgdir[p])
      /\ sz[p] <= UserPages * PGSIZE
  BY BuildType, RunsIs DEF MemInv, SizesFit
<1>2. R \in Nat /\ \A v \in Nat : v >= R <=> ~Below(v, sz[p])
  BY <1>1, RoundUpIs
<1>3. UserPages \in Nat /\ PGSIZE \in Nat /\ PGSIZE > 0 /\ UserPages > 0
  BY MemAssumption
<1>4. R <= UserPages
  <2>1. ~Below(UserPages, sz[p])
    BY <1>1, <1>3 DEF Below
  <2> QED
    BY <1>2, <1>3, <2>1
<1> HIDE DEF R
<1>5. \A v \in VPages : pgdir[p].user[v] # 0 <=> v < R
  <2>1. ASSUME NEW v \in VPages PROVE pgdir[p].user[v] # 0 <=> v < R
    <3>1. v \in Nat
      BY Numbers
    <3>2. pgdir[p].user[v] # 0 <=> Below(v, sz[p])
      BY <1>1 DEF Covers
    <3>3. v < R <=> Below(v, sz[p])
      BY <1>2, <3>1
    <3> QED
      BY <3>2, <3>3
  <2> QED
    BY <2>1
<1>6. Pgcnt(p) = R - (IF g = -1 THEN 0 ELSE 1)
  <2>1. {v \in VPages \ {g} : pgdir[p].user[v] # 0} = (0..(R - 1)) \ {g}
    <3>1. \A v \in VPages : pgdir[p].user[v] # 0 <=> v \in 0..(R - 1)
      BY <1>2, <1>3, <1>5 DEF VPages
    <3>2. 0..(R - 1) \subseteq VPages
      BY <1>2, <1>3, <1>4 DEF VPages
    <3> QED
      BY <3>1, <3>2
  <2>2. IsFiniteSet(0..(R - 1)) /\ Cardinality(0..(R - 1)) = R
    BY <1>2, FS_Interval
  <2>3. Cardinality((0..(R - 1)) \ {g}) = IF g \in 0..(R - 1) THEN R - 1 ELSE R
    BY <2>2, FS_RemoveElement
  <2>4. g = -1 \/ (g \in VPages /\ pgdir[p].user[g] # 0)
    BY <1>1 DEF Guarded
  <2>5. g \in 0..(R - 1) <=> g # -1
    <3>1. CASE g = -1
      BY <1>2, <3>1
    <3>2. CASE g \in VPages /\ pgdir[p].user[g] # 0
      BY <1>2, <1>3, <1>5, <3>2 DEF VPages
    <3> QED
      BY <2>4, <3>1, <3>2
  <2>6. Pgcnt(p) = Cardinality((0..(R - 1)) \ {g})
    BY <2>1 DEF Pgcnt
  <2> QED
    BY <1>2, <2>3, <2>5, <2>6
<1>7. ASSUME NEW a \in 0..(UserPages * PGSIZE), NEW n \in 1..PGSIZE, ArgOK(p, a, n),
             NEW x \in a..(a + n - 1)
      PROVE  pgdir[p].user[x \div PGSIZE] # 0
  <2> DEFINE q == x \div PGSIZE
  <2>1. x \in Nat /\ x < sz[p]
    <3>1. a \in Nat /\ n \in Nat
      BY <1>3
    <3> QED
      BY <1>1, <1>7, <3>1 DEF ArgOK
  <2>2. q \in Nat /\ q * PGSIZE <= x
    BY <1>3, <2>1
  <2> HIDE DEF q
  <2>3. Below(q, sz[p])
    <3>1. q * PGSIZE \in Nat
      BY <1>3, <2>2
    <3> QED
      BY <1>1, <2>1, <2>2, <3>1 DEF Below
  <2>4. q < R
    BY <1>2, <2>2, <2>3
  <2>5. q \in VPages
    BY <1>2, <1>3, <1>4, <2>2, <2>4 DEF VPages
  <2> QED
    BY <1>5, <2>4, <2>5 DEF q
<1> QED
  BY <1>5, <1>6, <1>7 DEF R

(* PagesConserved: whatever mix of fork(), exec(), sbrk() and exit() runs, *)
(* and wherever kalloc() finds no page, every page stays free or in        *)
(* exactly one place.                                                      *)
THEOREM PagesAlwaysConserved == MemSpec => []PagesConserved
BY MemInvariant, WholeConserves, PTL

(* KernelAccessMapped: a process that can make system calls has exactly    *)
(* the pages below its size, so every argument that argptr() accepts is    *)
(* mapped memory.                                                          *)
THEOREM KernelAccessAlwaysMapped == MemSpec => []KernelAccessMapped
BY MemInvariant, WholeMapped, PTL
=============================================================================
