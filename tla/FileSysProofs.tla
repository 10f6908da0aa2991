--------------------------- MODULE FileSysProofs ---------------------------
(***************************************************************************)
(* Proofs about the names layer of the file system (module FileSys), for   *)
(* any number of processes, inodes, names, cache slots, files and          *)
(* descriptors and any system calls.                                       *)
(***************************************************************************)
EXTENDS FileSys, FiniteSetTheorems, NaturalsInduction, WellFoundedInduction, TLAPS

PathOps == {"open", "create", "mkdir", "mknod", "link", "unlink", "chdir"}

Labels == {"idle", "walk", "walk2", "open", "link", "unlink", "chdir", "create", "exists",
           "create2", "created", "link2", "drop", "linkbad", "unlink2", "unlinked",
           "chdir2", "done"}

Numbers == Inums \cup {0}
Types == {"none", "dir", "file", "dev"}

NoCall == [op |-> "none"]
Calls == (UNION Menus) \cup {NoCall}

States == [pc : Labels, call : Calls, path : Seq(Names), cur : Numbers, ip : Numbers,
           dp : Numbers, puts : Seq(Inums), half : BOOLEAN]

InodesTypeOK ==
  /\ dinode \in [Inums -> [type : Types, nlink : Int]]
  /\ dir \in [Inums -> Entries]
  /\ cache \in [Inums -> [valid : BOOLEAN, type : Types, nlink : Int]]
  /\ ref \in [Inums -> Int]
  /\ lock \in [Inums -> Procs \cup {Nobody}]

FilesTypeOK ==
  /\ file \in [1..NFILE -> [ref : Int, ip : Numbers]]
  /\ ofile \in [Procs -> [FDs -> 0..NFILE]]

TypeOK ==
  /\ InodesTypeOK /\ FilesTypeOK
  /\ cwd \in [Procs -> Inums]
  /\ st \in [Procs -> States]
  /\ menu \in Menus

(* Which inodes a system call has at each of its steps.                    *)
HasIp(s) ==
  \/ s.pc \in {"walk2", "open", "link", "chdir", "exists", "created", "unlinked",
               "linkbad", "chdir2", "create2", "unlink2", "link2"}
  \/ s.pc = "drop" /\ s.call.op = "link"

HasDp(s) == s.pc \in {"create", "unlink", "create2", "unlink2", "link2", "drop"}

Shape(s) ==
  /\ s.cur # 0 <=> s.pc \in {"walk", "walk2"}
  /\ s.ip # 0 <=> HasIp(s)
  /\ s.dp # 0 <=> HasDp(s)
  /\ Len(s.puts) <= 2
  /\ s.half => s.puts # <<>>
  /\ s.pc = "idle" => s.puts = <<>>
  /\ s.pc \in {"create", "create2", "unlink", "unlink2", "link2"} => s.path # <<>>
  /\ s.pc = "walk" => s.call.op \in PathOps
  /\ s.pc \in {"link", "walk2", "link2", "linkbad"} => s.call.op = "link"
  /\ s.pc \in {"unlink", "unlink2"} => s.call.op = "unlink"

ShapeOK == \A p \in Procs : Shape(st[p])

(* The locks that a system call keeps from one step to the next.           *)
LocksHeld ==
  \A p \in Procs :
    /\ st[p].pc \in {"create2", "unlink2", "drop"} => lock[st[p].dp] = p
    /\ st[p].pc \in {"created", "unlinked"} => lock[st[p].ip] = p

(* Locked or not, referenced or not, a valid copy is that of an allocated  *)
(* inode and agrees with the disk.                                         *)
Coherent ==
  \A i \in Inums : cache[i].valid =>
    /\ cache[i].type = dinode[i].type /\ cache[i].nlink = dinode[i].nlink
    /\ cache[i].type # "none"

Descs(f) == {r \in Procs \X FDs : ofile[r[1]][r[2]] = f}

FilesCounted == \A f \in 1..NFILE : file[f].ref = Cardinality(Descs(f))

FilesHaveInode == \A f \in 1..NFILE : file[f].ref > 0 => file[f].ip # 0

(* The inodes that a process, or a file, points to.                        *)
CwdIn(s, c) == IF s.pc = "chdir2" THEN 0 ELSE c
Put1In(s) == IF Len(s.puts) >= 1 THEN s.puts[1] ELSE 0
Put2In(s) == IF Len(s.puts) >= 2 THEN s.puts[2] ELSE 0
InodeIn(r) == IF r.ref > 0 THEN r.ip ELSE 0

Cwd(p) == CwdIn(st[p], cwd[p])
Put1(p) == Put1In(st[p])
Put2(p) == Put2In(st[p])
Inode(f) == InodeIn(file[f])

CwdOf(i) == {p \in Procs : Cwd(p) = i}
CurOf(i) == {p \in Procs : st[p].cur = i}
IpOf(i) == {p \in Procs : st[p].ip = i}
DpOf(i) == {p \in Procs : st[p].dp = i}
Put1Of(i) == {p \in Procs : Put1(p) = i}
Put2Of(i) == {p \in Procs : Put2(p) = i}
FilesOf(i) == {f \in 1..NFILE : Inode(f) = i}

Total(i) ==
  Cardinality(CwdOf(i)) + Cardinality(CurOf(i)) + Cardinality(IpOf(i)) + Cardinality(DpOf(i))
  + Cardinality(Put1Of(i)) + Cardinality(Put2Of(i)) + Cardinality(FilesOf(i))

RefCounted == \A i \in Inums : ref[i] = Total(i)

(* What is open or a current directory, or about to be, is allocated.      *)
HeldAllocated ==
  /\ \A p \in Procs : st[p].pc # "chdir2" => dinode[cwd[p]].type # "none"
  /\ \A f \in 1..NFILE : file[f].ref > 0 => dinode[file[f].ip].type # "none"
  /\ \A p \in Procs : st[p].pc \in {"chdir2", "created"} => dinode[st[p].ip].type # "none"

UnlinkedValid == \A p \in Procs : st[p].pc = "unlinked" => cache[st[p].ip].valid

FsInv ==
  /\ TypeOK /\ ShapeOK /\ LocksHeld /\ Coherent /\ FilesCounted /\ FilesHaveInode
  /\ RefCounted /\ HeldAllocated /\ UnlinkedValid

(* A nonempty set of numbers has a least one.                              *)
LEMMA LeastExists ==
  ASSUME NEW S \in SUBSET Nat, S # {}
  PROVE  \E x \in S : \A y \in S : x <= y
<1>1. \E x \in S : \A y \in S : ~(<<y, x>> \in OpToRel(<, Nat))
  BY NatLessThanWellFounded, WFMin, Zenon
<1>2. ASSUME NEW x \in Nat, NEW y \in Nat, y < x
      PROVE  <<y, x>> \in OpToRel(<, Nat)
  BY <1>2 DEF OpToRel
<1>3. \A x, y \in Nat : ~(y < x) => x <= y
  OBVIOUS
<1> QED
  BY <1>1, <1>2, <1>3, Zenon

(* The slot or descriptor that a table scan stops at is one of those it    *)
(* looked for.                                                             *)
LEMMA LeastIsIn ==
  ASSUME NEW S \in SUBSET Nat, S # {}
  PROVE  Least(S) \in S
BY LeastExists DEF Least

One(b) == IF b THEN 1 ELSE 0

(* Two sets that differ in one element at most.                            *)
LEMMA CountMove ==
  ASSUME NEW D, IsFiniteSet(D), NEW S \in SUBSET D, NEW T \in SUBSET D, NEW p,
         \A q \in D : q # p => (q \in S <=> q \in T)
  PROVE  /\ Cardinality(S) \in Nat /\ Cardinality(T) \in Nat
         /\ Cardinality(T) = Cardinality(S) - One(p \in S) + One(p \in T)
<1>1. IsFiniteSet(S) /\ IsFiniteSet(T)
  BY FS_Subset
<1>2. Cardinality(S) \in Nat /\ Cardinality(T) \in Nat
  BY <1>1, FS_CardinalityType
<1>3. CASE p \in S /\ p \in T
  <2>1. S = T
    BY <1>3
  <2> QED
    BY <1>2, <1>3, <2>1 DEF One
<1>4. CASE p \notin S /\ p \notin T
  <2>1. S = T
    BY <1>4
  <2> QED
    BY <1>2, <1>4, <2>1 DEF One
<1>5. CASE p \in S /\ p \notin T
  <2>1. T = S \ {p}
    BY <1>5
  <2>2. Cardinality(T) = Cardinality(S) - 1
    BY <1>1, <1>5, <2>1, FS_RemoveElement
  <2> QED
    BY <1>2, <1>5, <2>2 DEF One
<1>6. CASE p \notin S /\ p \in T
  <2>1. T = S \cup {p}
    BY <1>6
  <2>2. Cardinality(T) = Cardinality(S) + 1
    BY <1>1, <1>6, <2>1, FS_AddElement
  <2> QED
    BY <1>2, <1>6, <2>2 DEF One
<1> QED
  BY <1>2, <1>3, <1>4, <1>5, <1>6

(* How many of the pointers of p, and of file f, are to i.                 *)
OwnOf(s, c, i) ==
  One(CwdIn(s, c) = i) + One(s.cur = i) + One(s.ip = i) + One(s.dp = i)
  + One(Put1In(s) = i) + One(Put2In(s) = i)

(* The pointers that a process holds are counted by a number.              *)
LEMMA OwnIsNat == \A s, c, i : OwnOf(s, c, i) \in Nat
BY DEF OwnOf, One

Own(p, i) == OwnOf(st[p], cwd[p], i)

Opened(f, i) == One(f \in 1..NFILE /\ Inode(f) = i)

(* All the sets of pointers that are counted are finite.                   *)
LEMMA Finite ==
  /\ IsFiniteSet(Procs) /\ IsFiniteSet(1..NFILE)
  /\ \A i : /\ Cardinality(CwdOf(i)) \in Nat /\ Cardinality(CurOf(i)) \in Nat
            /\ Cardinality(IpOf(i)) \in Nat /\ Cardinality(DpOf(i)) \in Nat
            /\ Cardinality(Put1Of(i)) \in Nat /\ Cardinality(Put2Of(i)) \in Nat
            /\ Cardinality(FilesOf(i)) \in Nat
<1>1. IsFiniteSet(Procs)
  BY FileSysAssumption
<1>2. IsFiniteSet(1..NFILE)
  <2>1. NFILE \in Int /\ 1 \in Int
    BY FileSysAssumption
  <2> QED
    BY <2>1, FS_Interval, Zenon
<1>3. ASSUME NEW i PROVE /\ CwdOf(i) \in SUBSET Procs /\ CurOf(i) \in SUBSET Procs
                         /\ IpOf(i) \in SUBSET Procs /\ DpOf(i) \in SUBSET Procs
                         /\ Put1Of(i) \in SUBSET Procs /\ Put2Of(i) \in SUBSET Procs
                         /\ FilesOf(i) \in SUBSET (1..NFILE)
  BY DEF CwdOf, CurOf, IpOf, DpOf, Put1Of, Put2Of, FilesOf
<1>4. \A S \in SUBSET Procs : Cardinality(S) \in Nat
  BY <1>1, FS_Subset, FS_CardinalityType
<1>5. \A S \in SUBSET (1..NFILE) : Cardinality(S) \in Nat
  BY <1>2, FS_Subset, FS_CardinalityType
<1> QED
  BY <1>1, <1>2, <1>3, <1>4, <1>5

(* A step that changes the pointers of one process and of one file only    *)
(* changes the number of pointers to an inode by theirs.                   *)
LEMMA CountStep ==
  ASSUME NEW p \in Procs, NEW f, NEW i,
         \A q \in Procs : q # p => st'[q] = st[q] /\ cwd'[q] = cwd[q],
         \A g \in 1..NFILE : g # f => file'[g] = file[g]
  PROVE  /\ Total(i) \in Nat
         /\ Total(i)' = Total(i) - Own(p, i) + Own(p, i)' - Opened(f, i) + Opened(f, i)'
<1>0. IsFiniteSet(Procs) /\ IsFiniteSet(1..NFILE)
  BY Finite
<1>1. Cardinality(CwdOf(i)') = Cardinality(CwdOf(i)) - One(Cwd(p) = i) + One(Cwd(p)' = i)
  <2>1. CwdOf(i) \in SUBSET Procs /\ CwdOf(i)' \in SUBSET Procs
        /\ \A q \in Procs : q # p => (q \in CwdOf(i) <=> q \in CwdOf(i)')
    BY DEF CwdOf, Cwd
  <2>2. (p \in CwdOf(i) <=> Cwd(p) = i) /\ (p \in CwdOf(i)' <=> Cwd(p)' = i)
    BY DEF CwdOf
  <2> QED
    BY <1>0, <2>1, <2>2, CountMove DEF One
<1>2. Cardinality(CurOf(i)') = Cardinality(CurOf(i)) - One(st[p].cur = i) + One(st'[p].cur = i)
  <2>1. CurOf(i) \in SUBSET Procs /\ CurOf(i)' \in SUBSET Procs
        /\ \A q \in Procs : q # p => (q \in CurOf(i) <=> q \in CurOf(i)')
    BY DEF CurOf
  <2>2. (p \in CurOf(i) <=> st[p].cur = i) /\ (p \in CurOf(i)' <=> st'[p].cur = i)
    BY DEF CurOf
  <2> QED
    BY <1>0, <2>1, <2>2, CountMove DEF One
<1>3. Cardinality(IpOf(i)') = Cardinality(IpOf(i)) - One(st[p].ip = i) + One(st'[p].ip = i)
  <2>1. IpOf(i) \in SUBSET Procs /\ IpOf(i)' \in SUBSET Procs
        /\ \A q \in Procs : q # p => (q \in IpOf(i) <=> q \in IpOf(i)')
    BY DEF IpOf
  <2>2. (p \in IpOf(i) <=> st[p].ip = i) /\ (p \in IpOf(i)' <=> st'[p].ip = i)
    BY DEF IpOf
  <2> QED
    BY <1>0, <2>1, <2>2, CountMove DEF One
<1>4. Cardinality(DpOf(i)') = Cardinality(DpOf(i)) - One(st[p].dp = i) + One(st'[p].dp = i)
  <2>1. DpOf(i) \in SUBSET Procs /\ DpOf(i)' \in SUBSET Procs
        /\ \A q \in Procs : q # p => (q \in DpOf(i) <=> q \in DpOf(i)')
    BY DEF DpOf
  <2>2. (p \in DpOf(i) <=> st[p].dp = i) /\ (p \in DpOf(i)' <=> st'[p].dp = i)
    BY DEF DpOf
  <2> QED
    BY <1>0, <2>1, <2>2, CountMove DEF One
<1>5. Cardinality(Put1Of(i)') = Cardinality(Put1Of(i)) - One(Put1(p) = i) + One(Put1(p)' = i)
  <2>1. Put1Of(i) \in SUBSET Procs /\ Put1Of(i)' \in SUBSET Procs
        /\ \A q \in Procs : q # p => (q \in Put1Of(i) <=> q \in Put1Of(i)')
    BY DEF Put1Of, Put1
  <2>2. (p \in Put1Of(i) <=> Put1(p) = i) /\ (p \in Put1Of(i)' <=> Put1(p)' = i)
    BY DEF Put1Of
  <2> QED
    BY <1>0, <2>1, <2>2, CountMove DEF One
<1>6. Cardinality(Put2Of(i)') = Cardinality(Put2Of(i)) - One(Put2(p) = i) + One(Put2(p)' = i)
  <2>1. Put2Of(i) \in SUBSET Procs /\ Put2Of(i)' \in SUBSET Procs
        /\ \A q \in Procs : q # p => (q \in Put2Of(i) <=> q \in Put2Of(i)')
    BY DEF Put2Of, Put2
  <2>2. (p \in Put2Of(i) <=> Put2(p) = i) /\ (p \in Put2Of(i)' <=> Put2(p)' = i)
    BY DEF Put2Of
  <2> QED
    BY <1>0, <2>1, <2>2, CountMove DEF One
<1>7. Cardinality(FilesOf(i)') = Cardinality(FilesOf(i)) - Opened(f, i) + Opened(f, i)'
  <2>1. FilesOf(i) \in SUBSET (1..NFILE) /\ FilesOf(i)' \in SUBSET (1..NFILE)
        /\ \A g \in 1..NFILE : g # f => (g \in FilesOf(i) <=> g \in FilesOf(i)')
    BY DEF FilesOf, Inode
  <2>2. /\ f \in FilesOf(i) <=> f \in 1..NFILE /\ Inode(f) = i
        /\ f \in FilesOf(i)' <=> f \in 1..NFILE /\ Inode(f)' = i
    BY DEF FilesOf
  <2> QED
    <3> DEFINE D == 1..NFILE
    <3>0. IsFiniteSet(D) /\ FilesOf(i) \in SUBSET D /\ FilesOf(i)' \in SUBSET D
          /\ \A g \in D : g # f => (g \in FilesOf(i) <=> g \in FilesOf(i)')
      BY <1>0, <2>1
    <3> HIDE DEF D
    <3>1. Cardinality(FilesOf(i)') = Cardinality(FilesOf(i)) - One(f \in FilesOf(i))
                                     + One(f \in FilesOf(i)')
      BY <3>0, CountMove DEF One
    <3> QED
      BY <2>2, <3>1 DEF One, Opened
<1> DEFINE a1 == One(Cwd(p) = i)
           a2 == One(st[p].cur = i)
           a3 == One(st[p].ip = i)
           a4 == One(st[p].dp = i)
           a5 == One(Put1(p) = i)
           a6 == One(Put2(p) = i)
           b1 == One(Cwd(p)' = i)
           b2 == One(st'[p].cur = i)
           b3 == One(st'[p].ip = i)
           b4 == One(st'[p].dp = i)
           b5 == One(Put1(p)' = i)
           b6 == One(Put2(p)' = i)
<1>8. Opened(f, i) \in Int /\ Opened(f, i)' \in Int
  BY DEF Opened, One
<1>9. /\ a1 \in Int /\ a2 \in Int /\ a3 \in Int /\ a4 \in Int /\ a5 \in Int /\ a6 \in Int
      /\ b1 \in Int /\ b2 \in Int /\ b3 \in Int /\ b4 \in Int /\ b5 \in Int /\ b6 \in Int
  BY DEF One
<1>10. Own(p, i) = a1 + a2 + a3 + a4 + a5 + a6 /\ Own(p, i)' = b1 + b2 + b3 + b4 + b5 + b6
  BY Zenon DEF Own, OwnOf, Cwd, Put1, Put2
<1>11. Cardinality(CwdOf(i)') = Cardinality(CwdOf(i)) - a1 + b1
  BY <1>1
<1>12. Cardinality(CurOf(i)') = Cardinality(CurOf(i)) - a2 + b2
  BY <1>2
<1>13. Cardinality(IpOf(i)') = Cardinality(IpOf(i)) - a3 + b3
  BY <1>3
<1>14. Cardinality(DpOf(i)') = Cardinality(DpOf(i)) - a4 + b4
  BY <1>4
<1>15. Cardinality(Put1Of(i)') = Cardinality(Put1Of(i)) - a5 + b5
  BY <1>5
<1>16. Cardinality(Put2Of(i)') = Cardinality(Put2Of(i)) - a6 + b6
  BY <1>6
<1> HIDE DEF a1, a2, a3, a4, a5, a6, b1, b2, b3, b4, b5, b6
<1>17. Total(i)' = Cardinality(CwdOf(i)') + Cardinality(CurOf(i)') + Cardinality(IpOf(i)')
                   + Cardinality(DpOf(i)') + Cardinality(Put1Of(i)')
                   + Cardinality(Put2Of(i)') + Cardinality(FilesOf(i)')
  BY DEF Total
<1>18. Total(i) \in Nat
  BY Finite DEF Total
<1> DEFINE c1 == Cardinality(CwdOf(i))
           c2 == Cardinality(CurOf(i))
           c3 == Cardinality(IpOf(i))
           c4 == Cardinality(DpOf(i))
           c5 == Cardinality(Put1Of(i))
           c6 == Cardinality(Put2Of(i))
           c7 == Cardinality(FilesOf(i))
<1>19. c1 \in Nat /\ c2 \in Nat /\ c3 \in Nat /\ c4 \in Nat /\ c5 \in Nat /\ c6 \in Nat /\ c7 \in Nat
  BY Finite
<1>20. Total(i) = c1 + c2 + c3 + c4 + c5 + c6 + c7
  BY DEF Total
<1>21. Total(i)' = (c1 - a1 + b1) + (c2 - a2 + b2) + (c3 - a3 + b3) + (c4 - a4 + b4)
                   + (c5 - a5 + b5) + (c6 - a6 + b6) + (c7 - Opened(f, i) + Opened(f, i)')
  BY <1>7, <1>11, <1>12, <1>13, <1>14, <1>15, <1>16, <1>17
<1> HIDE DEF c1, c2, c3, c4, c5, c6, c7
<1> QED
  BY <1>8, <1>9, <1>10, <1>18, <1>19, <1>20, <1>21

(* A pointer is counted, and when it is the only one there is no other.    *)
LEMMA Pointed ==
  ASSUME NEW i
  PROVE  /\ \A p \in Procs : /\ Cwd(p) = i => Cardinality(CwdOf(i)) >= 1
                             /\ st[p].cur = i => Cardinality(CurOf(i)) >= 1
                             /\ st[p].ip = i => Cardinality(IpOf(i)) >= 1
                             /\ st[p].dp = i => Cardinality(DpOf(i)) >= 1
                             /\ Put1(p) = i => Cardinality(Put1Of(i)) >= 1
         /\ \A f \in 1..NFILE : Inode(f) = i => Cardinality(FilesOf(i)) >= 1
<1>1. ASSUME NEW D, IsFiniteSet(D), NEW S \in SUBSET D, NEW x \in S
      PROVE  Cardinality(S) >= 1
  <2>1. IsFiniteSet(S)
    BY <1>1, FS_Subset
  <2>2. Cardinality(S) \in Nat /\ Cardinality(S) # 0
    BY <2>1, FS_EmptySet, FS_CardinalityType
  <2> QED
    BY <2>2
<1>2. \A S \in SUBSET Procs : \A x \in S : Cardinality(S) >= 1
  BY <1>1, Finite
<1>3. \A S \in SUBSET (1..NFILE) : \A x \in S : Cardinality(S) >= 1
  <2> DEFINE D == 1..NFILE
  <2>1. IsFiniteSet(D)
    BY Finite
  <2> HIDE DEF D
  <2>2. \A S \in SUBSET D : \A x \in S : Cardinality(S) >= 1
    BY <1>1, <2>1
  <2> QED
    BY <2>2 DEF D
<1>4. \A p \in Procs : /\ Cwd(p) = i => Cardinality(CwdOf(i)) >= 1
                       /\ st[p].cur = i => Cardinality(CurOf(i)) >= 1
                       /\ st[p].ip = i => Cardinality(IpOf(i)) >= 1
                       /\ st[p].dp = i => Cardinality(DpOf(i)) >= 1
                       /\ Put1(p) = i => Cardinality(Put1Of(i)) >= 1
  BY <1>2 DEF CwdOf, CurOf, IpOf, DpOf, Put1Of
<1>5. \A f \in 1..NFILE : Inode(f) = i => Cardinality(FilesOf(i)) >= 1
  BY <1>3 DEF FilesOf
<1> QED
  BY <1>4, <1>5

(* No process and no file refers to x otherwise than by a pending iput().  *)
Unheld(x) ==
  /\ \A q \in Procs : Cwd(q) # x /\ st[q].cur # x /\ st[q].ip # x /\ st[q].dp # x
  /\ \A f \in 1..NFILE : Inode(f) # x

(* When iput() finds a reference count of 1, the pointer it is about to    *)
(* drop is the only one: nobody else has the inode in hand, open or as     *)
(* current directory.                                                      *)
LEMMA LastPointer ==
  ASSUME NEW i, Total(i) = 1, NEW p \in Procs, Put1(p) = i
  PROVE  Unheld(i)
<1> DEFINE c1 == Cardinality(CwdOf(i))
           c2 == Cardinality(CurOf(i))
           c3 == Cardinality(IpOf(i))
           c4 == Cardinality(DpOf(i))
           c5 == Cardinality(Put1Of(i))
           c6 == Cardinality(Put2Of(i))
           c7 == Cardinality(FilesOf(i))
<1>1. c1 \in Nat /\ c2 \in Nat /\ c3 \in Nat /\ c4 \in Nat /\ c5 \in Nat /\ c6 \in Nat /\ c7 \in Nat
  BY Finite
<1>2. c1 + c2 + c3 + c4 + c5 + c6 + c7 = 1 /\ c5 >= 1
  BY Pointed DEF Total
<1> HIDE DEF c1, c2, c3, c4, c5, c6, c7
<1>3. ~(c1 >= 1) /\ ~(c2 >= 1) /\ ~(c3 >= 1) /\ ~(c4 >= 1) /\ ~(c7 >= 1)
  BY <1>1, <1>2
<1> QED
  BY <1>3, Pointed, Zenon DEF Unheld, c1, c2, c3, c4, c7

(* An inode that a process has in hand has a reference.                    *)
LEMMA HeldCounted ==
  ASSUME NEW i, ~Unheld(i)
  PROVE  Total(i) \in Nat /\ Total(i) >= 1
<1> DEFINE c1 == Cardinality(CwdOf(i))
           c2 == Cardinality(CurOf(i))
           c3 == Cardinality(IpOf(i))
           c4 == Cardinality(DpOf(i))
           c5 == Cardinality(Put1Of(i))
           c6 == Cardinality(Put2Of(i))
           c7 == Cardinality(FilesOf(i))
<1>1. c1 \in Nat /\ c2 \in Nat /\ c3 \in Nat /\ c4 \in Nat /\ c5 \in Nat /\ c6 \in Nat /\ c7 \in Nat
  BY Finite
<1>2. Total(i) = c1 + c2 + c3 + c4 + c5 + c6 + c7
  BY DEF Total
<1>3. c1 >= 1 \/ c2 >= 1 \/ c3 >= 1 \/ c4 >= 1 \/ c7 >= 1
  BY Pointed, Zenon DEF Unheld
<1> HIDE DEF c1, c2, c3, c4, c5, c6, c7
<1> QED
  BY <1>1, <1>2, <1>3

------------------------------------------------------------------------------
(* What every step has to show: it is a step of process p, which then is   *)
(* in r with current directory c, and of file f at most; no inode in use   *)
(* is freed or invalidated, and no lock of another process is taken.       *)

AllocatedKept ==
  \A x \in Inums : dinode[x].type # "none" => dinode'[x].type # "none" \/ Unheld(x)

ValidKept ==
  \A x \in Inums : cache[x].valid => cache'[x].valid \/ ref[x] = 0 \/ Unheld(x)

LocksKept(p) == \A x \in Inums : lock'[x] = lock[x] \/ lock[x] \in {Nobody, p}

OnlyFile(f) == \A g \in 1..NFILE : g # f => file'[g] = file[g]

RefsFollow(p, r, c, f) ==
  \A i \in Inums : ref'[i] = ref[i] - OwnOf(st[p], cwd[p], i) + OwnOf(r, c, i)
                             - Opened(f, i) + Opened(f, i)'

OwnLocks(p, r) ==
  /\ r.pc \in {"create2", "unlink2", "drop"} => lock'[r.dp] = p
  /\ r.pc \in {"created", "unlinked"} => lock'[r.ip] = p

OwnAllocated(r, c, f) ==
  /\ r.pc # "chdir2" => dinode'[c].type # "none"
  /\ f \in 1..NFILE /\ file'[f].ref > 0 => dinode'[file'[f].ip].type # "none"
  /\ r.pc \in {"chdir2", "created"} => dinode'[r.ip].type # "none"
  /\ r.pc = "unlinked" => cache'[r.ip].valid

(* What the step of a process has to show to preserve the invariant: only  *)
(* its own pointers, locks and files change, and the counts follow them.   *)
LEMMA StepKeepsInv ==
  ASSUME FsInv, NEW p \in Procs, NEW r \in States, NEW c \in Inums, NEW f,
         st' = [st EXCEPT ![p] = r], cwd' = [cwd EXCEPT ![p] = c], menu' = menu,
         InodesTypeOK', FilesTypeOK', Shape(r), Coherent', FilesCounted', FilesHaveInode',
         AllocatedKept, ValidKept, LocksKept(p), OwnLocks(p, r), OnlyFile(f),
         RefsFollow(p, r, c, f), OwnAllocated(r, c, f)
  PROVE  FsInv'
<1>1. /\ st'[p] = r /\ \A q \in Procs : q # p => st'[q] = st[q]
      /\ st' \in [Procs -> States]
  BY DEF FsInv, TypeOK
<1>2. /\ cwd'[p] = c /\ \A q \in Procs : q # p => cwd'[q] = cwd[q]
      /\ cwd' \in [Procs -> Inums]
  BY DEF FsInv, TypeOK
<1>3. TypeOK'
  BY <1>1, <1>2 DEF FsInv, TypeOK
<1>4. ShapeOK'
  BY <1>1 DEF FsInv, ShapeOK
<1>5. \A q \in Procs : /\ st[q].pc \in {"create2", "unlink2", "drop"} => st[q].dp \in Inums
                       /\ st[q].pc \in {"created", "unlinked", "chdir2"} => st[q].ip \in Inums
  <2> SUFFICES ASSUME NEW q \in Procs
               PROVE  /\ st[q].pc \in {"create2", "unlink2", "drop"} => st[q].dp \in Inums
                      /\ st[q].pc \in {"created", "unlinked", "chdir2"} => st[q].ip \in Inums
    OBVIOUS
  <2>1. st[q].ip \in Numbers /\ st[q].dp \in Numbers
    BY DEF FsInv, TypeOK, States
  <2>2. Shape(st[q])
    BY DEF FsInv, ShapeOK
  <2> QED
    BY <2>1, <2>2 DEF Shape, HasIp, HasDp, Numbers
<1>6. LocksHeld'
  <2> SUFFICES ASSUME NEW q \in Procs
               PROVE  /\ st'[q].pc \in {"create2", "unlink2", "drop"} => lock'[st'[q].dp] = q
                      /\ st'[q].pc \in {"created", "unlinked"} => lock'[st'[q].ip] = q
    BY DEF LocksHeld
  <2>1. CASE q = p
    BY <1>1, <2>1 DEF OwnLocks
  <2>2. CASE q # p
    <3>1. q # Nobody /\ st'[q] = st[q]
      BY <1>1, <2>2, FileSysAssumption
    <3>2. /\ st[q].pc \in {"create2", "unlink2", "drop"} => lock[st[q].dp] = q
          /\ st[q].pc \in {"created", "unlinked"} => lock[st[q].ip] = q
      BY DEF FsInv, LocksHeld
    <3>3. \A x \in Inums : lock[x] = q => lock'[x] = q
      BY <2>2, <3>1 DEF LocksKept
    <3> QED
      BY <1>5, <3>1, <3>2, <3>3
  <2> QED
    BY <2>1, <2>2
<1>7. RefCounted'
  <2> SUFFICES ASSUME NEW i \in Inums PROVE ref'[i] = Total(i)'
    BY DEF RefCounted
  <2>1. /\ Total(i) \in Nat
        /\ Total(i)' = Total(i) - Own(p, i) + Own(p, i)' - Opened(f, i) + Opened(f, i)'
    BY <1>1, <1>2, CountStep DEF OnlyFile
  <2>2. Own(p, i) = OwnOf(st[p], cwd[p], i) /\ Own(p, i)' = OwnOf(r, c, i)
    <3>1. Own(p, i)' = OwnOf(st'[p], cwd'[p], i)
      BY DEF Own, OwnOf
    <3> QED
      BY <1>1, <1>2, <3>1 DEF Own
  <2>3. ref[i] = Total(i)
    BY DEF FsInv, RefCounted
  <2> QED
    BY <2>1, <2>2, <2>3 DEF RefsFollow
<1>8. HeldAllocated'
  <2>1. ASSUME NEW q \in Procs, st'[q].pc # "chdir2" PROVE dinode'[cwd'[q]].type # "none"
    <3>1. CASE q = p
      BY <1>1, <1>2, <2>1, <3>1 DEF OwnAllocated
    <3>2. CASE q # p
      <4>1. Cwd(q) = cwd[q] /\ dinode[cwd[q]].type # "none" /\ cwd[q] \in Inums
        BY <1>1, <2>1, <3>2 DEF Cwd, CwdIn, FsInv, HeldAllocated, TypeOK
      <4>2. ~Unheld(cwd[q])
        BY <4>1 DEF Unheld
      <4> QED
        BY <1>2, <3>2, <4>1, <4>2 DEF AllocatedKept
    <3> QED
      BY <3>1, <3>2
  <2>2. ASSUME NEW g \in 1..NFILE, file'[g].ref > 0 PROVE dinode'[file'[g].ip].type # "none"
    <3>1. CASE g = f
      BY <2>2, <3>1 DEF OwnAllocated
    <3>2. CASE g # f
      <4>1. file'[g] = file[g] /\ file[g].ref > 0
        BY <2>2, <3>2 DEF OnlyFile
      <4>2. Inode(g) = file[g].ip /\ dinode[file[g].ip].type # "none" /\ file[g].ip # 0
        BY <4>1 DEF Inode, InodeIn, FsInv, HeldAllocated, FilesHaveInode
      <4>3. file[g].ip \in Inums
        BY <4>2 DEF FsInv, TypeOK, FilesTypeOK, Numbers
      <4>4. ~Unheld(file[g].ip)
        BY <4>2 DEF Unheld
      <4> QED
        BY <4>1, <4>2, <4>3, <4>4 DEF AllocatedKept
    <3> QED
      BY <3>1, <3>2
  <2>3. ASSUME NEW q \in Procs, st'[q].pc \in {"chdir2", "created"}
        PROVE  dinode'[st'[q].ip].type # "none"
    <3>1. CASE q = p
      BY <1>1, <2>3, <3>1 DEF OwnAllocated
    <3>2. CASE q # p
      <4>1. st'[q] = st[q] /\ st[q].ip \in Inums /\ dinode[st[q].ip].type # "none"
        BY <1>1, <1>5, <2>3, <3>2 DEF FsInv, HeldAllocated
      <4>2. ~Unheld(st[q].ip)
        BY DEF Unheld
      <4> QED
        BY <4>1, <4>2 DEF AllocatedKept
    <3> QED
      BY <3>1, <3>2
  <2> QED
    BY <2>1, <2>2, <2>3 DEF HeldAllocated
<1>9. UnlinkedValid'
  <2> SUFFICES ASSUME NEW q \in Procs, st'[q].pc = "unlinked" PROVE cache'[st'[q].ip].valid
    BY DEF UnlinkedValid
  <2>1. CASE q = p
    BY <1>1, <2>1 DEF OwnAllocated
  <2>2. CASE q # p
    <3>1. st'[q] = st[q] /\ st[q].ip \in Inums /\ cache[st[q].ip].valid
      BY <1>1, <1>5, <2>2 DEF FsInv, UnlinkedValid
    <3>2. ~Unheld(st[q].ip)
      BY DEF Unheld
    <3>3. ref[st[q].ip] # 0
      BY <3>1, <3>2, HeldCounted DEF FsInv, RefCounted
    <3> QED
      BY <3>1, <3>2, <3>3 DEF ValidKept
  <2> QED
    BY <2>1, <2>2
<1> QED
  BY <1>3, <1>4, <1>6, <1>7, <1>8, <1>9 DEF FsInv

(* The same for a step that leaves the tables alone.                       *)
LEMMA CallStepKeepsInv ==
  ASSUME FsInv, NEW p \in Procs, NEW r \in States,
         st' = [st EXCEPT ![p] = r], UNCHANGED tables,
         InodesTypeOK', Shape(r), Coherent',
         AllocatedKept, ValidKept, LocksKept(p), OwnLocks(p, r),
         \A i \in Inums : ref'[i] = ref[i] - OwnOf(st[p], cwd[p], i) + OwnOf(r, cwd[p], i),
         r.pc # "chdir2" => st[p].pc # "chdir2",
         r.pc \in {"chdir2", "created"} => dinode'[r.ip].type # "none",
         r.pc = "unlinked" => cache'[r.ip].valid
  PROVE  FsInv'
<1>0. PICK c \in Inums : c = cwd[p]
  BY DEF FsInv, TypeOK
<1>1. cwd' = [cwd EXCEPT ![p] = c] /\ menu' = menu
  BY <1>0 DEF tables, FsInv, TypeOK
<1>2. file' = file /\ ofile' = ofile
  BY DEF tables
<1>3. FilesTypeOK' /\ FilesCounted' /\ FilesHaveInode'
  BY <1>2 DEF FsInv, TypeOK, FilesTypeOK, FilesCounted, Descs, FilesHaveInode
<1>4. r.pc # "chdir2" => dinode'[c].type # "none"
  <2> SUFFICES ASSUME r.pc # "chdir2" PROVE dinode'[c].type # "none"
    OBVIOUS
  <2>1. Cwd(p) = c /\ dinode[c].type # "none"
    BY <1>0 DEF Cwd, CwdIn, FsInv, HeldAllocated
  <2>2. ~Unheld(c)
    BY <2>1 DEF Unheld
  <2> QED
    BY <2>1, <2>2 DEF AllocatedKept
<1>5. OwnAllocated(r, c, 0)
  BY <1>4 DEF OwnAllocated
<1>6. RefsFollow(p, r, c, 0)
  <2> SUFFICES ASSUME NEW i \in Inums
               PROVE  ref'[i] = ref[i] - OwnOf(st[p], cwd[p], i) + OwnOf(r, c, i)
                                - Opened(0, i) + Opened(0, i)'
    BY DEF RefsFollow
  <2>1. Opened(0, i) = 0 /\ Opened(0, i)' = 0
    BY DEF Opened, One
  <2>2. ref[i] \in Int /\ OwnOf(st[p], cwd[p], i) \in Int /\ OwnOf(r, c, i) \in Int
    BY OwnIsNat DEF FsInv, TypeOK, InodesTypeOK
  <2>3. ref'[i] = ref[i] - OwnOf(st[p], cwd[p], i) + OwnOf(r, c, i)
    BY <1>0
  <2> QED
    BY <2>1, <2>2, <2>3
<1>7. OnlyFile(0)
  BY <1>2 DEF OnlyFile
<1> QED
  BY <1>1, <1>3, <1>5, <1>6, <1>7, StepKeepsInv, Zenon

------------------------------------------------------------------------------
(* The inode cache.                                                        *)

Copies == [valid : BOOLEAN, type : Types, nlink : Int]

(* A reference count is never negative.                                    *)
LEMMA RefIsNat ==
  ASSUME FsInv, NEW x \in Inums
  PROVE  ref[x] \in Nat
<1>1. Total(x) \in Nat
  BY Finite DEF Total
<1> QED
  BY <1>1 DEF FsInv, RefCounted

(* ilock(): the copy it leaves.                                            *)
LEMMA LoadedIs ==
  ASSUME FsInv, NEW i \in Inums
  PROVE  /\ Loaded(i) \in Copies /\ Loaded(i).valid
         /\ Loaded(i).type = dinode[i].type /\ Loaded(i).nlink = dinode[i].nlink
<1>1. cache[i] \in Copies /\ dinode[i] \in [type : Types, nlink : Int]
  BY DEF FsInv, TypeOK, InodesTypeOK, Copies
<1>2. CASE cache[i].valid
  BY <1>1, <1>2 DEF Loaded, FsInv, Coherent
<1>3. CASE ~cache[i].valid
  BY <1>1, <1>3 DEF Loaded, Copies
<1> QED
  BY <1>2, <1>3

CacheKept ==
  /\ cache' \in [Inums -> Copies] /\ Coherent'
  /\ AllocatedKept /\ ValidKept

(* A step that leaves the cache and the disk alone keeps them coherent.    *)
LEMMA SameCacheKept ==
  ASSUME FsInv, cache' = cache, dinode' = dinode
  PROVE  CacheKept
BY DEF CacheKept, FsInv, TypeOK, InodesTypeOK, Copies, Coherent, AllocatedKept, ValidKept

(* ilock() of an allocated inode keeps the cache coherent.                 *)
LEMMA ReadKept ==
  ASSUME FsInv, NEW i \in Inums, Loaded(i).type # "none", Read(i), dinode' = dinode
  PROVE  CacheKept
<1>1. /\ Loaded(i) \in Copies /\ Loaded(i).valid
      /\ Loaded(i).type = dinode[i].type /\ Loaded(i).nlink = dinode[i].nlink
  BY LoadedIs
<1> DEFINE l == Loaded(i)
<1>2. cache' = [cache EXCEPT ![i] = l] /\ cache \in [Inums -> Copies]
  BY DEF Read, FsInv, TypeOK, InodesTypeOK, Copies
<1> HIDE DEF l
<1>3. /\ cache'[i] = l /\ \A x \in Inums : x # i => cache'[x] = cache[x]
      /\ cache' \in [Inums -> Copies]
  BY <1>1, <1>2 DEF l
<1>4. Coherent'
  BY <1>1, <1>3 DEF FsInv, Coherent, l
<1>5. ValidKept
  BY <1>1, <1>3 DEF ValidKept, l
<1> QED
  BY <1>3, <1>4, <1>5 DEF CacheKept, AllocatedKept

(* iget() of x may recycle the slot of an inode that nobody refers to.     *)
LEMMA SlottedIs ==
  ASSUME FsInv, NEW x \in Inums
  PROVE  /\ Slotted(x) \in [Inums -> Copies]
         /\ \A y \in Inums : /\ Slotted(x)[y].type = cache[y].type
                             /\ Slotted(x)[y].nlink = cache[y].nlink
                             /\ Slotted(x)[y].valid => cache[y].valid
                             /\ cache[y].valid => Slotted(x)[y].valid \/ ref[y] = 0
<1>1. cache \in [Inums -> Copies]
  BY DEF FsInv, TypeOK, InodesTypeOK, Copies
<1> DEFINE v == cache[x].valid /\ ref[x] > 0
           w == [cache[x] EXCEPT !.valid = v]
<1>2. Slotted(x) = [cache EXCEPT ![x] = w]
  BY <1>1 DEF Slotted
<1>3. v \in BOOLEAN
  OBVIOUS
<1>4. w \in Copies /\ w.type = cache[x].type /\ w.nlink = cache[x].nlink /\ w.valid = v
  BY <1>1, <1>3 DEF Copies
<1>5. ref[x] > 0 \/ ref[x] = 0
  BY RefIsNat
<1> HIDE DEF w
<1>6. Slotted(x)[x] = w /\ \A y \in Inums : y # x => Slotted(x)[y] = cache[y]
  BY <1>1, <1>2
<1> QED
  BY <1>1, <1>2, <1>4, <1>5, <1>6

(* iget() keeps the cache coherent: a slot it takes is not valid yet.      *)
LEMMA SlottedKept ==
  ASSUME FsInv, NEW x \in Inums, cache' = Slotted(x), dinode' = dinode
  PROVE  CacheKept
<1> DEFINE S == Slotted(x)
<1> HIDE DEF S
<1>1. cache' = S
  BY DEF S
<1>2. /\ S \in [Inums -> Copies]
      /\ \A y \in Inums : /\ S[y].type = cache[y].type
                          /\ S[y].nlink = cache[y].nlink
                          /\ S[y].valid => cache[y].valid
                          /\ cache[y].valid => S[y].valid \/ ref[y] = 0
  BY SlottedIs DEF S
<1> QED
  BY <1>1, <1>2 DEF CacheKept, FsInv, Coherent, AllocatedKept, ValidKept

(* ilock() of one inode followed by iget() of another keeps the cache      *)
(* coherent.                                                               *)
LEMMA SlottedReadKept ==
  ASSUME FsInv, NEW x \in Inums, NEW i \in Inums, Loaded(i).type # "none",
         cache' = [Slotted(x) EXCEPT ![i] = Loaded(i)], dinode' = dinode
  PROVE  CacheKept
<1> DEFINE S == Slotted(x)
           l == Loaded(i)
<1>1. l \in Copies /\ l.valid /\ l.type = dinode[i].type /\ l.nlink = dinode[i].nlink
      /\ l.type # "none"
  BY LoadedIs
<1>2. cache' = [S EXCEPT ![i] = l]
  OBVIOUS
<1>3. /\ S \in [Inums -> Copies]
      /\ \A y \in Inums : /\ S[y].type = cache[y].type
                          /\ S[y].nlink = cache[y].nlink
                          /\ S[y].valid => cache[y].valid
                          /\ cache[y].valid => S[y].valid \/ ref[y] = 0
  BY SlottedIs
<1> HIDE DEF S, l
<1>4. /\ cache'[i] = l /\ \A y \in Inums : y # i => cache'[y] = S[y]
      /\ cache' \in [Inums -> Copies]
  BY <1>1, <1>2, <1>3
<1>5. Coherent'
  BY <1>1, <1>3, <1>4 DEF FsInv, Coherent
<1>6. ValidKept
  BY <1>1, <1>3, <1>4 DEF ValidKept
<1> QED
  BY <1>4, <1>5, <1>6 DEF CacheKept, AllocatedKept

(* iget() counts one reference more, for the inode it returns.             *)
LEMMA ReferencedIs ==
  ASSUME FsInv, NEW x \in Inums
  PROVE  /\ Referenced(x) \in [Inums -> Int]
         /\ \A i \in Inums : Referenced(x)[i] = ref[i] + One(x = i)
BY DEF Referenced, FsInv, TypeOK, InodesTypeOK, One

(* What is known of a process before its step.                             *)
LEMMA Before ==
  ASSUME FsInv, NEW p \in Procs
  PROVE  /\ st \in [Procs -> States] /\ st[p] \in States /\ Shape(st[p])
         /\ cwd[p] \in Inums /\ Root \in Inums /\ 0 \notin Inums
         /\ dinode \in [Inums -> [type : Types, nlink : Int]]
         /\ dir \in [Inums -> Entries] /\ cache \in [Inums -> Copies]
         /\ ref \in [Inums -> Int] /\ lock \in [Inums -> Procs \cup {Nobody}]
BY FileSysAssumption
   DEF FsInv, TypeOK, InodesTypeOK, ShapeOK, Copies, Inums

(* A process outside any system call has nothing in hand.                  *)
LEMMA IdleIs ==
  /\ Idle \in States /\ Shape(Idle)
  /\ Idle.pc = "idle" /\ Idle.cur = 0 /\ Idle.ip = 0 /\ Idle.dp = 0 /\ Idle.puts = <<>>
  /\ Idle.half = FALSE
<1>1. /\ "idle" \in Labels /\ NoCall \in Calls /\ 0 \in Numbers
      /\ <<>> \in Seq(Names) /\ <<>> \in Seq(Inums)
  <2>1. NoCall \in Calls
    BY Zenon DEF Calls
  <2>2. <<>> \in Seq(Names) /\ <<>> \in Seq(Inums)
    OBVIOUS
  <2> QED
    BY <2>1, <2>2 DEF Labels, Numbers
<1>2. Idle = [pc |-> "idle", call |-> NoCall, path |-> <<>>, cur |-> 0,
              ip |-> 0, dp |-> 0, puts |-> <<>>, half |-> FALSE]
  BY DEF Idle, NoCall
<1>4. Idle \in States
  BY <1>1, <1>2 DEF States
<1>3. Shape(Idle)
  BY DEF Idle, Shape, HasIp, HasDp
<1> QED
  BY <1>3, <1>4 DEF Idle

(* A system call starts, and namex() takes its first reference.            *)
LEMMA StartKeepsInv ==
  ASSUME FsInv, NEW p \in Procs, Start(p)
  PROVE  FsInv'
<1>1. PICK c \in menu :
        /\ c.op \notin {"close", "dup"}
        /\ ref' = Referenced(StartOf(p, c.path)) /\ cache' = Slotted(StartOf(p, c.path))
        /\ st' = [st EXCEPT ![p] = [Idle EXCEPT !.pc = "walk", !.call = c,
                                     !.path = Elements(c.path), !.cur = StartOf(p, c.path)]]
  BY DEF Start
<1> DEFINE s == st[p]
           i == StartOf(p, c.path)
           e == Elements(c.path)
           r == [Idle EXCEPT !.pc = "walk", !.call = c, !.path = e, !.cur = i]
<1>2. s \in States /\ Shape(s) /\ s.pc = "idle"
  BY Before DEF Start
<1>3. i \in Inums /\ 0 \notin Inums
  BY Before DEF StartOf
<1>4. c \in UNION Menus
  BY DEF FsInv, TypeOK
<1>5. c.op \in PathOps /\ e \in Seq(Names)
  BY <1>1, <1>4, FileSysAssumption, PathsAssumption DEF PathOps
<1> HIDE DEF s, i, e
<1>6. /\ r.pc = "walk" /\ r.call = c /\ r.path = e /\ r.cur = i /\ r.ip = 0 /\ r.dp = 0
      /\ r.puts = <<>> /\ r.half = FALSE
      /\ r \in States
  <2>1. /\ "walk" \in Labels /\ c \in Calls /\ e \in Seq(Names) /\ i \in Numbers
    BY <1>3, <1>4, <1>5 DEF Labels, Calls, Numbers
  <2>2. /\ Idle \in States /\ Idle.ip = 0 /\ Idle.dp = 0 /\ Idle.puts = <<>>
        /\ Idle.half = FALSE
    BY IdleIs
  <2> HIDE DEF Idle
  <2> QED
    BY <2>1, <2>2 DEF States
<1> HIDE DEF r
<1>7. Shape(r)
  BY <1>3, <1>5, <1>6 DEF Shape, HasIp, HasDp
<1>8. CacheKept
  BY <1>1, <1>3, SlottedKept DEF Start, i
<1>9. ref' = Referenced(i) /\ st' = [st EXCEPT ![p] = r]
  BY <1>1 DEF i, r, e
<1>10. s.cur = 0 /\ s.ip = 0 /\ s.dp = 0 /\ s.puts = <<>>
  BY <1>2 DEF Shape, HasIp, HasDp
<1>11. UNCHANGED <<dinode, dir, lock, tables>>
  BY DEF Start
<1>12. InodesTypeOK'
  BY <1>3, <1>8, <1>9, <1>11, Before, ReferencedIs DEF InodesTypeOK, CacheKept, Copies
<1>13. ASSUME NEW j \in Inums
       PROVE  ref'[j] = ref[j] - OwnOf(s, cwd[p], j) + OwnOf(r, cwd[p], j)
  <2>1. ref'[j] = ref[j] + One(i = j) /\ ref[j] \in Int /\ j # 0
    BY <1>3, <1>9, Before, ReferencedIs
  <2>2. OwnOf(s, cwd[p], j) = One(cwd[p] = j) /\ OwnOf(r, cwd[p], j) = One(cwd[p] = j) + One(i = j)
    BY <1>2, <1>6, <1>10, <2>1 DEF OwnOf, CwdIn, Put1In, Put2In, One
  <2> QED
    BY <2>1, <2>2 DEF One
<1>14. LocksKept(p) /\ OwnLocks(p, r)
  BY <1>6, <1>11 DEF LocksKept, OwnLocks
<1> QED
  BY <1>2, <1>6, <1>7, <1>8, <1>9, <1>11, <1>12, <1>13, <1>14, CallStepKeepsInv DEF CacheKept, s

(* The target of ilock() is an inode that the process points to.           *)
LEMMA IlockIs ==
  ASSUME FsInv, NEW p \in Procs, NEW l, Ilock(p, l)
  PROVE  /\ st[p].pc = l /\ st[p].puts = <<>> /\ ~st[p].half
         /\ st[p].pc \in {"walk", "walk2"} /\ st[p].path # <<>> => Target(p) = st[p].cur
         /\ st[p].pc \in {"open", "exists", "create2", "link", "linkbad", "unlink2", "chdir"}
              => Target(p) = st[p].ip
         /\ st[p].pc \in {"create", "link2", "unlink"} => Target(p) = st[p].dp
         /\ lock[Target(p)] = Nobody /\ Loaded(Target(p)).type # "none"
<1>1. st[p].pc = l /\ st[p].puts = <<>> /\ lock[Target(p)] = Nobody
      /\ Loaded(Target(p)).type # "none"
  BY DEF Ilock
<1>2. ~st[p].half
  BY <1>1, Before DEF Shape
<1> DEFINE s == st[p]
<1>3. /\ s.pc \in {"walk", "walk2"} /\ s.path # <<>> => Target(p) = s.cur
      /\ s.pc \in {"open", "exists", "create2", "link", "linkbad", "unlink2", "chdir"}
           => Target(p) = s.ip
      /\ s.pc \in {"create", "link2", "unlink"} => Target(p) = s.dp
  BY <1>1 DEF Target
<1> QED
  BY <1>1, <1>2, <1>3

(* The labels that ask for nothing beyond their shape.                     *)
Quiet == {"walk", "walk2", "open", "link", "unlink", "chdir", "create", "exists", "link2",
          "linkbad", "done", "idle"}

RefsMove(p, r) ==
  /\ ref' \in [Inums -> Int]
  /\ \A j \in Inums : ref'[j] = ref[j] - OwnOf(st[p], cwd[p], j) + OwnOf(r, cwd[p], j)

InodesKept(p) ==
  /\ CacheKept /\ LocksKept(p)
  /\ dinode' \in [Inums -> [type : Types, nlink : Int]]
  /\ dir' \in [Inums -> Entries]
  /\ lock' \in [Inums -> Procs \cup {Nobody}]

(* StepKeepsInv for a step that leaves files, descriptors and current      *)
(* directories alone.                                                      *)
LEMMA QuietStep ==
  ASSUME FsInv, NEW p \in Procs, NEW r \in States, st' = [st EXCEPT ![p] = r],
         UNCHANGED tables, Shape(r), r.pc \in Quiet, st[p].pc # "chdir2",
         RefsMove(p, r), InodesKept(p)
  PROVE  FsInv'
<1>1. InodesTypeOK'
  BY DEF InodesTypeOK, InodesKept, CacheKept, Copies, RefsMove
<1>2. OwnLocks(p, r)
  BY DEF OwnLocks, Quiet
<1>3. r.pc # "chdir2" /\ r.pc \notin {"chdir2", "created"} /\ r.pc # "unlinked"
  BY DEF Quiet
<1>4. /\ Coherent' /\ AllocatedKept /\ ValidKept /\ LocksKept(p)
      /\ \A j \in Inums : ref'[j] = ref[j] - OwnOf(st[p], cwd[p], j) + OwnOf(r, cwd[p], j)
  BY DEF InodesKept, CacheKept, RefsMove
<1> QED
  BY <1>1, <1>2, <1>3, <1>4, CallStepKeepsInv

(* The inodes that a call has yet to put, for each length of the list.     *)
LEMMA PutsIn ==
  ASSUME NEW s
  PROVE  /\ s.puts = <<>> => Put1In(s) = 0 /\ Put2In(s) = 0
         /\ \A i : s.puts = <<i>> => Put1In(s) = i /\ Put2In(s) = 0
         /\ \A i, k : s.puts = <<i, k>> => Put1In(s) = i /\ Put2In(s) = k
<1> DEFINE q == s.puts
<1>1. q = <<>> => Len(q) = 0
  OBVIOUS
<1>2. \A i : q = <<i>> => Len(q) = 1 /\ q[1] = i
  OBVIOUS
<1>3. \A i, k : q = <<i, k>> => Len(q) = 2 /\ q[1] = i /\ q[2] = k
  OBVIOUS
<1> HIDE DEF q
<1>4. Len(q) = 0 => Put1In(s) = 0 /\ Put2In(s) = 0
  BY DEF Put1In, Put2In, q
<1>5. Len(q) = 1 => Put1In(s) = q[1] /\ Put2In(s) = 0
  BY DEF Put1In, Put2In, q
<1>6. Len(q) = 2 => Put1In(s) = q[1] /\ Put2In(s) = q[2]
  BY DEF Put1In, Put2In, q
<1> QED
  BY <1>1, <1>2, <1>3, <1>4, <1>5, <1>6, Zenon DEF q

(* namex() goes down one directory.                                        *)
LEMMA WalkStepKeepsInv ==
  ASSUME FsInv, NEW p \in Procs, WalkStep(p)
  PROVE  FsInv'
<1> DEFINE s == st[p]
           i == s.cur
           next == Dirlookup(i, Head(s.path))
<1>1. /\ s.pc \in {"walk", "walk2"} /\ s.path # <<>> /\ Ilock(p, s.pc)
      /\ UNCHANGED <<dinode, dir, lock, tables>>
  BY DEF WalkStep
<1>2. s \in States /\ Shape(s) /\ 0 \notin Inums /\ st \in [Procs -> States]
  BY Before
<1>3. s.puts = <<>> /\ ~s.half /\ Target(p) = i /\ Loaded(i).type # "none"
  BY <1>1, IlockIs
<1>4. i \in Inums /\ s.dp = 0 /\ (s.pc = "walk" => s.ip = 0 /\ s.call.op \in PathOps)
      /\ (s.pc = "walk2" => s.ip # 0 /\ s.call.op = "link")
  BY <1>1, <1>2 DEF Shape, HasIp, HasDp, States, Numbers
<1>5. s.path \in Seq(Names) /\ Head(s.path) \in Names /\ Tail(s.path) \in Seq(Names)
  BY <1>1, <1>2 DEF States
<1>6. next \in Numbers
  BY <1>4, <1>5, Before DEF Dirlookup, Entries, Numbers
<1>7. CacheKept => InodesKept(p)
  BY <1>1, Before DEF InodesKept, LocksKept
<1>8. CASE /\ st' = [st EXCEPT ![p].pc = Failed(s), ![p].cur = 0,
                               ![p].path = <<>>, ![p].puts = <<i>>]
           /\ Read(i) /\ UNCHANGED <<ref, panic>>
  <2> DEFINE a == Failed(s)
             e == <<>>
             q == <<i>>
             r == [s EXCEPT !.pc = a, !.cur = 0, !.path = e, !.puts = q]
  <2>1. a \in Labels /\ e \in Seq(Names) /\ q \in Seq(Inums) /\ 0 \in Numbers
    BY <1>4 DEF Failed, Labels, Numbers
  <2>2. (s.pc = "walk2" => a = "linkbad") /\ (s.pc = "walk" => a = "done")
    BY DEF Failed
  <2>3. st' = [st EXCEPT ![p] = r]
    BY <1>2, <1>8
  <2>4. q = <<i>> /\ q # <<>> /\ Len(q) <= 2
    OBVIOUS
  <2> HIDE DEF a, e, q, s, i
  <2>5. r \in States
    BY <1>2, <2>1 DEF States
  <2>6. r.pc = a /\ r.cur = 0 /\ r.path = e /\ r.puts = q /\ r.ip = s.ip /\ r.dp = s.dp
        /\ r.call = s.call
    BY <1>2 DEF States
  <2> HIDE DEF r
  <2>7. Shape(r)
    BY <1>1, <1>3, <1>4, <2>2, <2>4, <2>6 DEF Shape, HasIp, HasDp
  <2>8. r.pc \in Quiet /\ s.pc # "chdir2"
    BY <1>1, <2>2, <2>6 DEF Quiet
  <2>9. RefsMove(p, r)
    <3>1. CwdIn(s, cwd[p]) = cwd[p] /\ Put1In(s) = 0 /\ Put2In(s) = 0
      BY <1>3, <2>8, PutsIn DEF CwdIn
    <3>2. CwdIn(r, cwd[p]) = cwd[p]
      BY <2>8 DEF CwdIn, Quiet
    <3>3. Put1In(r) = i /\ Put2In(r) = 0
      BY <2>4, <2>6, PutsIn
    <3> QED
      BY <1>2, <1>8, <2>6, <3>1, <3>2, <3>3, Before DEF RefsMove, OwnOf, One, s, i
  <2>10. CacheKept
    BY <1>1, <1>3, <1>4, <1>8, ReadKept DEF i
  <2> QED
    BY <1>1, <1>7, <2>3, <2>5, <2>7, <2>8, <2>9, <2>10, QuietStep DEF s
<1>9. CASE /\ ForParent(s)
           /\ st' = [st EXCEPT ![p].pc = Found(s), ![p].cur = 0, ![p].dp = i]
           /\ Read(i) /\ UNCHANGED <<ref, panic>>
  <2> DEFINE a == Found(s)
             r == [s EXCEPT !.pc = a, !.cur = 0, !.dp = i]
  <2>2. /\ s.pc = "walk2" => a = "link2"
        /\ s.pc = "walk" => a = "create" \/ (a = "unlink" /\ s.call.op = "unlink")
    BY <1>9 DEF Found, ForParent
  <2>1. a \in Labels /\ 0 \in Numbers /\ i \in Numbers
    BY <1>1, <1>4, <2>2 DEF Labels, Numbers
  <2>3. st' = [st EXCEPT ![p] = r]
    BY <1>2, <1>9
  <2> HIDE DEF a, s, i
  <2>5. r \in States
    BY <1>2, <2>1 DEF States
  <2>6. r.pc = a /\ r.cur = 0 /\ r.path = s.path /\ r.puts = s.puts /\ r.ip = s.ip /\ r.dp = i
        /\ r.call = s.call
    BY <1>2 DEF States
  <2>h. ~r.half
    BY <1>2, <1>3 DEF States
  <2> HIDE DEF r
  <2>7. Shape(r)
    BY <1>1, <1>2, <1>3, <1>4, <2>2, <2>6, <2>h DEF Shape, HasIp, HasDp
  <2>8. r.pc \in Quiet /\ s.pc # "chdir2"
    BY <1>1, <2>2, <2>6 DEF Quiet
  <2>9. RefsMove(p, r)
    <3>1. CwdIn(s, cwd[p]) = cwd[p] /\ Put1In(s) = 0 /\ Put2In(s) = 0
      BY <1>3, <2>8, PutsIn DEF CwdIn
    <3>2. CwdIn(r, cwd[p]) = cwd[p]
      BY <2>8 DEF CwdIn, Quiet
    <3>3. Put1In(r) = 0 /\ Put2In(r) = 0
      BY <1>3, <2>6, PutsIn
    <3> QED
      BY <1>2, <1>4, <1>9, <2>6, <3>1, <3>2, <3>3, Before DEF RefsMove, OwnOf, One, s, i
  <2>10. CacheKept
    BY <1>1, <1>3, <1>4, <1>9, ReadKept DEF i
  <2> QED
    BY <1>1, <1>7, <2>3, <2>5, <2>7, <2>8, <2>9, <2>10, QuietStep DEF s
<1>10. CASE /\ next # 0
            /\ ref' = Referenced(next)
            /\ cache' = [Slotted(next) EXCEPT ![i] = Loaded(i)]
            /\ st' = [st EXCEPT ![p].path = Tail(@), ![p].cur = next, ![p].puts = <<i>>]
  <2> DEFINE e == Tail(s.path)
             q == <<i>>
             r == [s EXCEPT !.path = e, !.cur = next, !.puts = q]
  <2>1. e \in Seq(Names) /\ q \in Seq(Inums) /\ next \in Numbers /\ next \in Inums
    BY <1>4, <1>5, <1>6, <1>10 DEF Numbers
  <2>3. st' = [st EXCEPT ![p] = r]
    BY <1>2, <1>10
  <2>4. q = <<i>> /\ q # <<>> /\ Len(q) <= 2
    OBVIOUS
  <2> HIDE DEF e, q, s, i, next
  <2>5. r \in States
    BY <1>2, <2>1 DEF States
  <2>6. r.pc = s.pc /\ r.cur = next /\ r.path = e /\ r.puts = q /\ r.ip = s.ip /\ r.dp = s.dp
        /\ r.call = s.call
    BY <1>2 DEF States
  <2> HIDE DEF r
  <2>7. Shape(r)
    BY <1>1, <1>4, <1>10, <2>4, <2>6 DEF Shape, HasIp, HasDp
  <2>8. r.pc \in Quiet /\ s.pc # "chdir2"
    BY <1>1, <2>6 DEF Quiet
  <2>9. RefsMove(p, r)
    <3>1. CwdIn(s, cwd[p]) = cwd[p] /\ Put1In(s) = 0 /\ Put2In(s) = 0
      BY <1>3, <2>8, PutsIn DEF CwdIn
    <3>2. CwdIn(r, cwd[p]) = cwd[p]
      BY <2>8 DEF CwdIn, Quiet
    <3>3. Put1In(r) = i /\ Put2In(r) = 0
      BY <2>4, <2>6, PutsIn
    <3>4. /\ ref' \in [Inums -> Int]
          /\ \A j \in Inums : ref'[j] = ref[j] + One(next = j) /\ ref[j] \in Int
      BY <1>10, <2>1, Before, ReferencedIs
    <3> QED
      BY <1>2, <2>6, <3>1, <3>2, <3>3, <3>4 DEF RefsMove, OwnOf, One, s, i
  <2>10. CacheKept
    BY <1>1, <1>3, <1>4, <1>10, <2>1, SlottedReadKept
  <2> QED
    BY <1>1, <1>7, <2>3, <2>5, <2>7, <2>8, <2>9, <2>10, QuietStep DEF s
<1> QED
  BY <1>8, <1>9, <1>10 DEF WalkStep

(* namex() returns.                                                        *)
LEMMA WalkEndKeepsInv ==
  ASSUME FsInv, NEW p \in Procs, WalkEnd(p)
  PROVE  FsInv'
<1> DEFINE s == st[p]
           i == s.cur
<1>1. /\ s.pc \in {"walk", "walk2"} /\ s.path = <<>> /\ s.puts = <<>>
      /\ UNCHANGED <<dinode, dir, cache, ref, lock, tables>>
  BY DEF WalkEnd
<1>2. s \in States /\ Shape(s) /\ 0 \notin Inums /\ st \in [Procs -> States]
  BY Before
<1>3. ~s.half
  BY <1>1, <1>2 DEF Shape
<1>4. i \in Inums /\ s.dp = 0 /\ (s.pc = "walk" => s.ip = 0 /\ s.call.op \in PathOps)
      /\ (s.pc = "walk2" => s.ip # 0 /\ s.call.op = "link")
  BY <1>1, <1>2 DEF Shape, HasIp, HasDp, States, Numbers
<1>5. InodesKept(p)
  BY <1>1, SameCacheKept, Before DEF InodesKept, LocksKept
<1>6. CASE st' = [st EXCEPT ![p].pc = Failed(s), ![p].cur = 0, ![p].puts = <<i>>]
  <2> DEFINE a == Failed(s)
             q == <<i>>
             r == [s EXCEPT !.pc = a, !.cur = 0, !.puts = q]
  <2>1. a \in Labels /\ q \in Seq(Inums) /\ 0 \in Numbers
    BY <1>4 DEF Failed, Labels, Numbers
  <2>2. (s.pc = "walk2" => a = "linkbad") /\ (s.pc = "walk" => a = "done")
    BY DEF Failed
  <2>3. st' = [st EXCEPT ![p] = r]
    BY <1>2, <1>6
  <2>4. q = <<i>> /\ q # <<>> /\ Len(q) <= 2
    OBVIOUS
  <2> HIDE DEF a, q, s, i
  <2>5. r \in States
    BY <1>2, <2>1 DEF States
  <2>6. r.pc = a /\ r.cur = 0 /\ r.path = s.path /\ r.puts = q /\ r.ip = s.ip /\ r.dp = s.dp
        /\ r.call = s.call
    BY <1>2 DEF States
  <2> HIDE DEF r
  <2>7. Shape(r)
    BY <1>1, <1>4, <2>2, <2>4, <2>6 DEF Shape, HasIp, HasDp
  <2>8. r.pc \in Quiet /\ s.pc # "chdir2"
    BY <1>1, <2>2, <2>6 DEF Quiet
  <2>9. RefsMove(p, r)
    <3>1. CwdIn(s, cwd[p]) = cwd[p] /\ Put1In(s) = 0 /\ Put2In(s) = 0
      BY <1>1, <2>8, PutsIn DEF CwdIn
    <3>2. CwdIn(r, cwd[p]) = cwd[p]
      BY <2>8 DEF CwdIn, Quiet
    <3>3. Put1In(r) = i /\ Put2In(r) = 0
      BY <2>4, <2>6, PutsIn
    <3> QED
      BY <1>1, <1>2, <2>6, <3>1, <3>2, <3>3, Before DEF RefsMove, OwnOf, One, s, i
  <2> QED
    BY <1>1, <1>5, <2>3, <2>5, <2>7, <2>8, <2>9, QuietStep DEF s
<1>7. CASE /\ ~ForParent(s)
           /\ st' = [st EXCEPT ![p].pc = Found(s), ![p].cur = 0, ![p].ip = i]
  <2> DEFINE a == Found(s)
             r == [s EXCEPT !.pc = a, !.cur = 0, !.ip = i]
  <2>1. s.pc = "walk" /\ a = s.call.op /\ a \in {"open", "link", "chdir"}
    BY <1>1, <1>4, <1>7 DEF Found, ForParent, PathOps, Creates
  <2>2. a \in Labels /\ 0 \in Numbers /\ i \in Numbers
    BY <1>4, <2>1 DEF Labels, Numbers
  <2>3. st' = [st EXCEPT ![p] = r]
    BY <1>2, <1>7
  <2> HIDE DEF a, s, i
  <2>5. r \in States
    BY <1>2, <2>2 DEF States
  <2>6. r.pc = a /\ r.cur = 0 /\ r.path = s.path /\ r.puts = s.puts /\ r.ip = i /\ r.dp = s.dp
        /\ r.call = s.call
    BY <1>2 DEF States
  <2>h. ~r.half
    BY <1>2, <1>3 DEF States
  <2> HIDE DEF r
  <2>7. Shape(r)
    BY <1>1, <1>2, <1>4, <2>1, <2>6, <2>h DEF Shape, HasIp, HasDp
  <2>8. r.pc \in Quiet /\ s.pc # "chdir2"
    BY <1>1, <2>1, <2>6 DEF Quiet
  <2>9. RefsMove(p, r)
    <3>1. CwdIn(s, cwd[p]) = cwd[p] /\ Put1In(s) = 0 /\ Put2In(s) = 0
      BY <1>1, <2>8, PutsIn DEF CwdIn
    <3>2. CwdIn(r, cwd[p]) = cwd[p]
      BY <2>8 DEF CwdIn, Quiet
    <3>3. Put1In(r) = 0 /\ Put2In(r) = 0
      BY <1>1, <2>6, PutsIn
    <3> QED
      BY <1>1, <1>2, <1>4, <2>1, <2>6, <3>1, <3>2, <3>3, Before DEF RefsMove, OwnOf, One, s, i
  <2> QED
    BY <1>1, <1>5, <2>3, <2>5, <2>7, <2>8, <2>9, QuietStep DEF s
<1> QED
  BY <1>6, <1>7 DEF WalkEnd

(* A step of iput() keeps the rest of what the process has.                *)
LEMMA IputStep ==
  ASSUME FsInv, NEW p \in Procs, NEW r \in States, st' = [st EXCEPT ![p] = r],
         UNCHANGED tables, lock' = lock, Shape(r), RefsMove(p, r), InodesKept(p),
         r.pc = st[p].pc, r.ip = st[p].ip, r.dp = st[p].dp
  PROVE  FsInv'
<1>1. InodesTypeOK'
  BY DEF InodesTypeOK, InodesKept, CacheKept, Copies, RefsMove
<1>2. OwnLocks(p, r)
  BY DEF OwnLocks, FsInv, LocksHeld
<1>3. /\ Coherent' /\ AllocatedKept /\ ValidKept /\ LocksKept(p)
      /\ \A j \in Inums : ref'[j] = ref[j] - OwnOf(st[p], cwd[p], j) + OwnOf(r, cwd[p], j)
  BY DEF InodesKept, CacheKept, RefsMove
<1>4. ASSUME r.pc \in {"chdir2", "created", "unlinked"}
      PROVE  st[p].ip \in Inums /\ ~Unheld(st[p].ip) /\ ref[st[p].ip] # 0
  <2>1. st[p].ip \in Inums
    BY <1>4, Before DEF Shape, HasIp, States, Numbers
  <2>2. ~Unheld(st[p].ip)
    BY DEF Unheld
  <2>3. ref[st[p].ip] # 0
    BY <2>1, <2>2, HeldCounted DEF FsInv, RefCounted
  <2> QED
    BY <2>1, <2>2, <2>3
<1>5. r.pc \in {"chdir2", "created"} => dinode'[r.ip].type # "none"
  BY <1>3, <1>4 DEF AllocatedKept, FsInv, HeldAllocated
<1>6. r.pc = "unlinked" => cache'[r.ip].valid
  BY <1>3, <1>4 DEF ValidKept, FsInv, UnlinkedValid
<1> QED
  BY <1>1, <1>2, <1>3, <1>5, <1>6, CallStepKeepsInv

(* iput() frees an inode nobody names: only its own pointer is left.       *)
LEMMA IputLockedKeepsInv ==
  ASSUME FsInv, NEW p \in Procs, IputLocked(p)
  PROVE  FsInv'
<1> DEFINE s == st[p]
           i == Head(s.puts)
           r == [s EXCEPT !.half = TRUE]
<1>1. /\ s.puts # <<>> /\ st' = [st EXCEPT ![p].half = TRUE]
      /\ UNCHANGED <<ref, lock, tables>>
  BY DEF IputLocked
<1>2. s \in States /\ Shape(s) /\ 0 \notin Inums /\ st \in [Procs -> States]
  BY Before
<1>3. i \in Inums /\ Put1(p) = i
  <2>1. s.puts \in Seq(Inums) /\ Len(s.puts) >= 1 /\ i = s.puts[1]
    BY <1>1, <1>2 DEF States
  <2> QED
    BY <2>1 DEF Put1, Put1In
<1>4. st' = [st EXCEPT ![p] = r]
  BY <1>1, <1>2
<1>5. r \in States
  BY <1>2 DEF States
<1>6. r.pc = s.pc /\ r.cur = s.cur /\ r.path = s.path /\ r.puts = s.puts /\ r.ip = s.ip
      /\ r.dp = s.dp /\ r.call = s.call
  BY <1>2 DEF States
<1> HIDE DEF r, s
<1>7. Shape(r)
  BY <1>1, <1>2, <1>6 DEF Shape, HasIp, HasDp
<1>8. RefsMove(p, r)
  <2>1. \A j : OwnOf(r, cwd[p], j) = OwnOf(s, cwd[p], j)
    BY <1>6 DEF OwnOf, CwdIn, Put1In, Put2In
  <2>2. \A j : OwnOf(s, cwd[p], j) \in Nat
    BY OwnIsNat
  <2> QED
    BY <1>1, <2>1, <2>2, Before DEF RefsMove, s
<1>9. CASE UNCHANGED <<dir, dinode, cache>>
  <2>1. InodesKept(p)
    BY <1>1, <1>9, SameCacheKept, Before DEF InodesKept, LocksKept
  <2> QED
    BY <1>1, <1>4, <1>5, <1>6, <1>7, <1>8, <2>1, IputStep DEF s
<1>10. CASE /\ ref[i] = 1
            /\ dir' = [dir EXCEPT ![i] = Empty]
            /\ dinode' = [dinode EXCEPT ![i] = [type |-> "none", nlink |-> 0]]
            /\ cache' = [cache EXCEPT ![i] = [valid |-> FALSE, type |-> "none", nlink |-> 0]]
  <2>1. Unheld(i)
    BY <1>3, <1>10, LastPointer DEF FsInv, RefCounted
  <2>2. dinode \in [Inums -> [type : Types, nlink : Int]] /\ cache \in [Inums -> Copies]
        /\ dir \in [Inums -> Entries] /\ lock \in [Inums -> Procs \cup {Nobody}]
    BY Before
  <2> DEFINE d == [type |-> "none", nlink |-> 0]
             k == [valid |-> FALSE, type |-> "none", nlink |-> 0]
  <2>3. d \in [type : Types, nlink : Int] /\ k \in Copies /\ ~k.valid /\ Empty \in Entries
    BY DEF Types, Copies, Empty, Entries
  <2>4. dinode' = [dinode EXCEPT ![i] = d] /\ cache' = [cache EXCEPT ![i] = k]
    BY <1>10
  <2> HIDE DEF d, k, i
  <2>5. /\ cache' \in [Inums -> Copies] /\ cache'[i] = k
        /\ \A x \in Inums : x # i => cache'[x] = cache[x]
    BY <1>3, <2>2, <2>3, <2>4
  <2>6. /\ dinode' \in [Inums -> [type : Types, nlink : Int]]
        /\ \A x \in Inums : x # i => dinode'[x] = dinode[x]
    BY <1>3, <2>2, <2>3, <2>4
  <2>7. dir' \in [Inums -> Entries]
    BY <1>3, <1>10, <2>2, <2>3
  <2>8. Coherent'
    BY <2>3, <2>5, <2>6 DEF FsInv, Coherent
  <2>9. AllocatedKept /\ ValidKept
    BY <2>1, <2>5, <2>6 DEF AllocatedKept, ValidKept
  <2>10. InodesKept(p)
    BY <1>1, <2>2, <2>5, <2>6, <2>7, <2>8, <2>9 DEF InodesKept, CacheKept, LocksKept
  <2> QED
    BY <1>1, <1>4, <1>5, <1>6, <1>7, <1>8, <2>10, IputStep DEF s
<1> QED
  BY <1>9, <1>10 DEF IputLocked, s

(* iput() drops its reference.                                             *)
LEMMA IputUnrefKeepsInv ==
  ASSUME FsInv, NEW p \in Procs, IputUnref(p)
  PROVE  FsInv'
<1> DEFINE s == st[p]
           i == Head(s.puts)
           q == Tail(s.puts)
           r == [s EXCEPT !.half = FALSE, !.puts = q]
<1>1. /\ s.half /\ ref' = [ref EXCEPT ![i] = @ - 1]
      /\ st' = [st EXCEPT ![p].half = FALSE, ![p].puts = Tail(@)]
      /\ UNCHANGED <<dinode, dir, cache, lock, tables>>
  BY DEF IputUnref
<1>2. s \in States /\ Shape(s) /\ 0 \notin Inums /\ st \in [Procs -> States]
  BY Before
<1>3. /\ s.puts \in Seq(Inums) /\ s.puts # <<>> /\ Len(s.puts) <= 2
      /\ i \in Inums /\ i = s.puts[1] /\ q \in Seq(Inums) /\ Len(q) = Len(s.puts) - 1
      /\ (Len(s.puts) = 2 => q[1] = s.puts[2]) /\ Len(s.puts) \in Nat /\ Len(s.puts) >= 1
  BY <1>1, <1>2 DEF States, Shape
<1>4. st' = [st EXCEPT ![p] = r]
  BY <1>1, <1>2
<1> HIDE DEF q
<1>5. r \in States
  BY <1>2, <1>3 DEF States
<1>6. r.pc = s.pc /\ r.cur = s.cur /\ r.path = s.path /\ r.puts = q /\ r.ip = s.ip
      /\ r.dp = s.dp /\ r.call = s.call
  BY <1>2 DEF States
<1>7. ~r.half
  BY <1>2 DEF States
<1>8. s.pc # "idle"
  BY <1>2, <1>3 DEF Shape
<1> HIDE DEF r, s
<1>9. Shape(r)
  BY <1>2, <1>3, <1>6, <1>7, <1>8 DEF Shape, HasIp, HasDp
<1>10. RefsMove(p, r)
  <2>1. Put1In(s) = i /\ Put2In(r) = 0 /\ Put1In(r) = Put2In(s)
    <3> DEFINE u == s.puts
    <3>1. /\ u # <<>> /\ i = u[1] /\ Len(u) \in Nat /\ Len(u) >= 1 /\ Len(u) <= 2
          /\ Len(q) = Len(u) - 1 /\ (Len(u) = 2 => q[1] = u[2])
      BY <1>3
    <3> HIDE DEF u, i
    <3>2. Put1In(s) = u[1] /\ Put2In(s) = (IF Len(u) >= 2 THEN u[2] ELSE 0)
      BY <3>1 DEF Put1In, Put2In, u
    <3>3. Put1In(r) = (IF Len(q) >= 1 THEN q[1] ELSE 0) /\ Put2In(r) = (IF Len(q) >= 2 THEN q[2] ELSE 0)
      BY <1>6 DEF Put1In, Put2In
    <3>4. CASE Len(u) = 1
      BY <3>1, <3>2, <3>3, <3>4
    <3>5. CASE Len(u) = 2
      BY <3>1, <3>2, <3>3, <3>5
    <3> QED
      BY <3>1, <3>4, <3>5
  <2>2. CwdIn(r, cwd[p]) = CwdIn(s, cwd[p])
    BY <1>6 DEF CwdIn
  <2>3. ref' \in [Inums -> Int] /\ \A j \in Inums : ref'[j] = ref[j] - One(i = j)
    <3>1. ref' = [ref EXCEPT ![i] = @ - 1] /\ i \in Inums /\ ref \in [Inums -> Int]
      BY <1>1, <1>3, Before
    <3> HIDE DEF i
    <3> QED
      BY <3>1 DEF One
  <2> HIDE DEF i
  <2> QED
    BY <1>2, <1>6, <2>1, <2>2, <2>3, Before DEF RefsMove, OwnOf, One, s
<1>11. InodesKept(p)
  BY <1>1, SameCacheKept, Before DEF InodesKept, LocksKept
<1> QED
  BY <1>1, <1>4, <1>5, <1>6, <1>9, <1>10, <1>11, IputStep DEF s


------------------------------------------------------------------------------
(* Opening and closing files.                                              *)

(* What a process holds, by the inodes it still has to put.                *)
LEMMA OwnIs ==
  ASSUME NEW s, NEW c, NEW j \in Inums, s.pc # "chdir2"
  PROVE  /\ s.puts = <<>> =>
              OwnOf(s, c, j) = One(c = j) + One(s.cur = j) + One(s.ip = j) + One(s.dp = j)
         /\ \A i : s.puts = <<i>> =>
              OwnOf(s, c, j) = One(c = j) + One(s.cur = j) + One(s.ip = j) + One(s.dp = j)
                               + One(i = j)
         /\ \A i, k : s.puts = <<i, k>> =>
              OwnOf(s, c, j) = One(c = j) + One(s.cur = j) + One(s.ip = j) + One(s.dp = j)
                               + One(i = j) + One(k = j)
<1>1. j # 0 /\ CwdIn(s, c) = c
  BY DEF Inums, CwdIn
<1>2. One(0 = j) = 0 /\ \A b : One(b) \in Int
  BY <1>1 DEF One
<1>3. OwnOf(s, c, j) = One(c = j) + One(s.cur = j) + One(s.ip = j) + One(s.dp = j)
                       + One(Put1In(s) = j) + One(Put2In(s) = j)
  BY <1>1 DEF OwnOf
<1>4. ASSUME s.puts = <<>>
      PROVE  OwnOf(s, c, j) = One(c = j) + One(s.cur = j) + One(s.ip = j) + One(s.dp = j)
  <2>1. Put1In(s) = 0 /\ Put2In(s) = 0
    BY <1>4, PutsIn
  <2> QED
    BY <1>2, <1>3, <2>1
<1>5. ASSUME NEW i, s.puts = <<i>>
      PROVE  OwnOf(s, c, j) = One(c = j) + One(s.cur = j) + One(s.ip = j) + One(s.dp = j)
                              + One(i = j)
  <2>1. Put1In(s) = i /\ Put2In(s) = 0
    BY <1>5, PutsIn
  <2> QED
    BY <1>2, <1>3, <2>1
<1>6. ASSUME NEW i, NEW k, s.puts = <<i, k>>
      PROVE  OwnOf(s, c, j) = One(c = j) + One(s.cur = j) + One(s.ip = j) + One(s.dp = j)
                              + One(i = j) + One(k = j)
  <2>1. Put1In(s) = i /\ Put2In(s) = k
    BY <1>6, PutsIn
  <2> QED
    BY <1>2, <1>3, <2>1
<1> QED
  BY <1>4, <1>5, <1>6

(* A system call that puts its inode and is done.                          *)
DoneCall(s, e, q) == [s EXCEPT !.pc = "done", !.ip = 0, !.path = e, !.puts = q]

IsDone(p, e, q) ==
  LET r == DoneCall(st[p], e, q) IN
  /\ r \in States /\ Shape(r) /\ r.pc = "done"
  /\ \A j \in Inums :
       OwnOf(r, cwd[p], j) = OwnOf(st[p], cwd[p], j) - (IF q = <<>> THEN One(st[p].ip = j) ELSE 0)

(* A system call that is over keeps only what it has to put.               *)
LEMMA DoneState ==
  ASSUME FsInv, NEW p \in Procs, NEW e \in Seq(Names), st[p].puts = <<>>, st[p].ip # 0,
         st[p].dp = 0, st[p].cur = 0, st[p].pc # "chdir2", NEW q \in Seq(Inums),
         q = <<st[p].ip>> \/ q = <<>>
  PROVE  IsDone(p, e, q)
<1> DEFINE s == st[p]
           i == s.ip
           r == DoneCall(s, e, q)
<1>1. s \in States /\ Shape(s) /\ 0 \notin Inums /\ "done" \in Labels /\ 0 \in Numbers
  BY Before DEF Labels, Numbers
<1>2. i \in Inums /\ ~s.half
  BY <1>1 DEF States, Numbers, Shape
<1>3. (q = <<i>> => q # <<>> /\ Len(q) <= 2) /\ (q = <<>> => Len(q) <= 2)
  <2>1. Len(<<>>) <= 2 /\ \A x : <<x>> # <<>> /\ Len(<<x>>) <= 2
    OBVIOUS
  <2> QED
    BY <2>1, Zenon
<1>4. q = <<i>> \/ q = <<>>
  OBVIOUS
<1>5. r = [s EXCEPT !.pc = "done", !.ip = 0, !.path = e, !.puts = q]
  BY DEF DoneCall
<1>6. s.puts = <<>> /\ s.dp = 0 /\ s.cur = 0 /\ s.pc # "chdir2"
  OBVIOUS
<1> HIDE DEF s, i
<1>7. r \in States
  BY <1>1, <1>5 DEF States
<1>8. r.pc = "done" /\ r.cur = s.cur /\ r.path = e /\ r.puts = q /\ r.ip = 0 /\ r.dp = s.dp
      /\ r.call = s.call
  BY <1>1, <1>5 DEF States
<1>9. ~r.half
  BY <1>1, <1>2, <1>5 DEF States
<1> HIDE DEF r
<1>10. Shape(r)
  BY <1>3, <1>4, <1>6, <1>8, <1>9 DEF Shape, HasIp, HasDp
<1>11. ASSUME NEW j \in Inums
       PROVE  OwnOf(r, cwd[p], j) = OwnOf(s, cwd[p], j) - (IF q = <<>> THEN One(i = j) ELSE 0)
  <2>1. j # 0
    BY <1>1
  <2>2. One(0 = j) = 0 /\ \A b : One(b) \in Int
    BY <2>1 DEF One
  <2>3. OwnOf(s, cwd[p], j) = One(cwd[p] = j) + One(s.cur = j) + One(s.ip = j) + One(s.dp = j)
    BY <1>6, OwnIs
  <2>4. CASE q = <<>>
    <3>1. r.pc # "chdir2" /\ r.puts = <<>> /\ r.cur = 0 /\ r.ip = 0 /\ r.dp = 0
      BY <1>6, <1>8, <2>4
    <3>2. OwnOf(r, cwd[p], j) = One(cwd[p] = j) + One(r.cur = j) + One(r.ip = j) + One(r.dp = j)
      BY <3>1, OwnIs
    <3> QED
      BY <1>6, <2>1, <2>3, <2>4, <3>1, <3>2 DEF One, i
  <2>5. CASE q = <<i>>
    <3>1. r.pc # "chdir2" /\ r.puts = <<i>> /\ r.cur = 0 /\ r.ip = 0 /\ r.dp = 0
      BY <1>6, <1>8, <2>5
    <3>2. OwnOf(r, cwd[p], j) = One(cwd[p] = j) + One(r.cur = j) + One(r.ip = j) + One(r.dp = j)
                                + One(i = j)
      BY <3>1, OwnIs
    <3>3. q # <<>>
      BY <1>3, <2>5
    <3> QED
      BY <1>6, <2>1, <2>3, <3>1, <3>2, <3>3 DEF One, i
  <2> QED
    BY <1>4, <2>4, <2>5
<1> QED
  BY <1>7, <1>8, <1>10, <1>11 DEF IsDone, s, i, r

(* Descriptor d of process p gets the value f.                             *)
DescSet(p, d, f) == ofile' = [ofile EXCEPT ![p][d] = f]

DescsMove(p, d, f) ==
  /\ ofile' \in [Procs -> [FDs -> 0..NFILE]]
  /\ \A g : /\ Cardinality(Descs(g)) \in Nat
            /\ Cardinality(Descs(g)') =
                 Cardinality(Descs(g)) - One(ofile[p][d] = g) + One(f = g)

(* A descriptor that is set moves one count from one file to another.      *)
LEMMA DescsStep ==
  ASSUME FsInv, NEW p \in Procs, NEW d \in FDs, NEW f, f \in 0..NFILE, DescSet(p, d, f)
  PROVE  DescsMove(p, d, f)
<1>1. ofile \in [Procs -> [FDs -> 0..NFILE]]
  BY DEF FsInv, TypeOK, FilesTypeOK
<1>2. /\ ofile' \in [Procs -> [FDs -> 0..NFILE]] /\ ofile'[p][d] = f
      /\ \A q \in Procs, k \in FDs : q # p \/ k # d => ofile'[q][k] = ofile[q][k]
  BY <1>1 DEF DescSet
<1> DEFINE D == Procs \X FDs
           x == <<p, d>>
<1>3. IsFiniteSet(D)
  <2>1. IsFiniteSet(FDs)
    <3>1. NOFILE \in Int /\ 1 \in Int
      BY FileSysAssumption
    <3> QED
      BY <3>1, FS_Interval, Zenon DEF FDs
  <2> QED
    BY <2>1, FileSysAssumption, FS_Product
<1>4. ASSUME NEW g
      PROVE  /\ Descs(g) \in SUBSET D /\ Descs(g)' \in SUBSET D
             /\ \A y \in D : y # x => (y \in Descs(g) <=> y \in Descs(g)')
             /\ (x \in Descs(g) <=> ofile[p][d] = g) /\ (x \in Descs(g)' <=> f = g)
  <2>1. Descs(g) \in SUBSET D /\ Descs(g)' \in SUBSET D
    BY DEF Descs
  <2>2. ASSUME NEW y \in D, y # x
        PROVE  y \in Descs(g) <=> y \in Descs(g)'
    <3>1. y[1] \in Procs /\ y[2] \in FDs /\ (y[1] # p \/ y[2] # d)
      BY <2>2
    <3> QED
      BY <1>2, <3>1 DEF Descs
  <2>3. x \in D /\ x[1] = p /\ x[2] = d
    OBVIOUS
  <2>4. (x \in Descs(g) <=> ofile[p][d] = g) /\ (x \in Descs(g)' <=> f = g)
    BY <1>2, <2>3 DEF Descs
  <2> QED
    BY <2>1, <2>2, <2>4
<1> HIDE DEF D, x
<1>5. ASSUME NEW g
      PROVE  /\ Cardinality(Descs(g)) \in Nat
             /\ Cardinality(Descs(g)') =
                  Cardinality(Descs(g)) - One(ofile[p][d] = g) + One(f = g)
  <2>1. /\ Cardinality(Descs(g)) \in Nat /\ Cardinality(Descs(g)') \in Nat
        /\ Cardinality(Descs(g)') =
             Cardinality(Descs(g)) - One(x \in Descs(g)) + One(x \in Descs(g)')
    BY <1>3, <1>4, CountMove
  <2> QED
    BY <1>4, <2>1 DEF One
<1> QED
  BY <1>2, <1>5 DEF DescsMove

(* A system call ends, with or without a new descriptor.                   *)
LEMMA DoneStep ==
  ASSUME FsInv, NEW p \in Procs, NEW e \in Seq(Names), st[p].puts = <<>>, st[p].ip # 0,
         st[p].dp = 0, st[p].cur = 0, st[p].pc # "chdir2",
         st' = [st EXCEPT ![p] = DoneCall(st[p], e, <<st[p].ip>>)],
         UNCHANGED <<ref, tables>>, InodesKept(p)
  PROVE  FsInv'
<1> DEFINE q == <<st[p].ip>>
           r == DoneCall(st[p], e, q)
<1>1. q \in Seq(Inums) /\ q # <<>>
  <2>1. st[p].ip \in Inums
    BY Before DEF States, Numbers
  <2> QED
    BY <2>1
<1>2. /\ r \in States /\ Shape(r) /\ r.pc = "done"
      /\ \A j \in Inums : OwnOf(r, cwd[p], j) = OwnOf(st[p], cwd[p], j) - 0
  <2>1. IsDone(p, e, q)
    BY <1>1, DoneState, Zenon
  <2> HIDE DEF q
  <2> QED
    BY <1>1, <2>1 DEF IsDone
<1>3. st' = [st EXCEPT ![p] = r]
  OBVIOUS
<1> HIDE DEF r
<1>4. RefsMove(p, r)
  BY <1>2, Before, OwnIsNat DEF RefsMove
<1> QED
  BY <1>2, <1>3, <1>4, QuietStep DEF Quiet

(* filealloc() and fdalloc(): the reference of the system call goes to the *)
(* new file.                                                               *)
LEMMA OpenFileKeepsInv ==
  ASSUME FsInv, NEW p \in Procs, st[p].puts = <<>>, st[p].ip # 0, st[p].dp = 0,
         st[p].cur = 0, st[p].pc # "chdir2", dinode'[st[p].ip].type # "none",
         OpenFile(p, st[p].ip), UNCHANGED <<ref, cwd, menu>>, InodesKept(p)
  PROVE  FsInv'
<1> DEFINE s == st[p]
           i == s.ip
           e == <<>>
<1>1. s \in States /\ st \in [Procs -> States] /\ 0 \notin Inums /\ cwd[p] \in Inums
      /\ e \in Seq(Names)
  BY Before
<1>2. i \in Inums
  BY <1>1 DEF States, Numbers
<1>3. CASE ~(FreeFiles # {} /\ FreeFDs(p) # {})
  <2> DEFINE q == <<i>>
  <2>1. st' = [st EXCEPT ![p] = DoneCall(s, e, q)] /\ UNCHANGED tables
    BY <1>1, <1>3 DEF OpenFile, DoneCall, tables
  <2> QED
    BY <1>1, <2>1, DoneStep
<1>4. CASE FreeFiles # {} /\ FreeFDs(p) # {}
  <2> DEFINE q == <<>>
             r == DoneCall(s, e, q)
             n == [ref |-> 1, ip |-> i]
  <2>1. PICK f \in 1..NFILE, d \in FDs :
          /\ file[f].ref = 0 /\ ofile[p][d] = 0
          /\ file' = [file EXCEPT ![f] = n] /\ ofile' = [ofile EXCEPT ![p][d] = f]
    <3>1. FreeFiles \in SUBSET Nat /\ FreeFDs(p) \in SUBSET Nat
      BY DEF FreeFiles, FreeFDs, FDs
    <3>2. Least(FreeFiles) \in FreeFiles /\ Least(FreeFDs(p)) \in FreeFDs(p)
      BY <1>4, <3>1, LeastIsIn, Zenon
    <3> QED
      BY <1>4, <3>2 DEF OpenFile, FreeFiles, FreeFDs
  <2>2. st' = [st EXCEPT ![p] = r]
    <3>1. st' = [st EXCEPT ![p].pc = "done", ![p].ip = 0, ![p].path = <<>>]
      BY <1>4 DEF OpenFile
    <3>2. [s EXCEPT !.pc = "done", !.ip = 0, !.path = <<>>] = r
      BY <1>1 DEF DoneCall, States
    <3> QED
      BY <1>1, <3>1, <3>2
  <2>4. q \in Seq(Inums)
    OBVIOUS
  <2>5. /\ r \in States /\ Shape(r) /\ r.pc = "done"
        /\ \A j \in Inums : OwnOf(r, cwd[p], j) = OwnOf(s, cwd[p], j) - One(i = j)
    <3>1. IsDone(p, e, q)
      BY <1>1, <2>4, DoneState, Zenon
    <3> QED
      BY <3>1, Zenon DEF IsDone
  <2>6. n.ref = 1 /\ n.ip = i /\ n \in [ref : Int, ip : Numbers]
    BY <1>2 DEF Numbers
  <2> HIDE DEF n, r, s, i
  <2>7. file \in [1..NFILE -> [ref : Int, ip : Numbers]]
    BY DEF FsInv, TypeOK, FilesTypeOK
  <2>8. /\ file' \in [1..NFILE -> [ref : Int, ip : Numbers]] /\ file'[f] = n
        /\ \A g \in 1..NFILE : g # f => file'[g] = file[g]
    BY <2>1, <2>6, <2>7
  <2>9. DescsMove(p, d, f)
    <3>1. f \in 0..NFILE /\ DescSet(p, d, f)
      BY <2>1 DEF DescSet
    <3> QED
      BY <3>1, DescsStep, Zenon
  <2>10. FilesTypeOK'
    BY <2>8, <2>9 DEF FilesTypeOK, DescsMove
  <2>11. FilesCounted'
    <3> SUFFICES ASSUME NEW g \in 1..NFILE PROVE file'[g].ref = Cardinality(Descs(g)')
      BY DEF FilesCounted
    <3>1. file[g].ref = Cardinality(Descs(g))
      BY DEF FsInv, FilesCounted
    <3>2. /\ Cardinality(Descs(g)) \in Nat
          /\ Cardinality(Descs(g)') = Cardinality(Descs(g)) - One(0 = g) + One(f = g)
      BY <2>1, <2>9 DEF DescsMove
    <3>3. One(0 = g) = 0
      BY DEF One
    <3>4. CASE g = f
      <4>1. file'[g].ref = 1 /\ Cardinality(Descs(g)) = 0 /\ One(f = g) = 1
        BY <2>1, <2>6, <2>8, <3>1, <3>4 DEF One
      <4> QED
        BY <3>2, <3>3, <4>1
    <3>5. CASE g # f
      <4>1. file'[g] = file[g] /\ One(f = g) = 0
        BY <2>8, <3>5 DEF One
      <4> QED
        BY <3>1, <3>2, <3>3, <4>1
    <3> QED
      BY <3>4, <3>5
  <2>12. FilesHaveInode'
    BY <1>1, <1>2, <2>6, <2>8 DEF FilesHaveInode, FsInv
  <2>13. OnlyFile(f)
    BY <2>8 DEF OnlyFile
  <2>14. RefsFollow(p, r, cwd[p], f)
    <3> SUFFICES ASSUME NEW j \in Inums
                 PROVE  ref'[j] = ref[j] - OwnOf(st[p], cwd[p], j) + OwnOf(r, cwd[p], j)
                                  - Opened(f, j) + Opened(f, j)'
      BY DEF RefsFollow
    <3>1. Inode(f) = 0 /\ Inode(f)' = i
      BY <2>1, <2>6, <2>8 DEF Inode, InodeIn
    <3>2. Opened(f, j) = 0 /\ Opened(f, j)' = One(i = j)
      BY <1>1, <2>1, <3>1 DEF Opened, One
    <3>3. ref'[j] = ref[j] /\ ref[j] \in Int /\ OwnOf(s, cwd[p], j) \in Nat
          /\ One(i = j) \in Int
      BY Before, OwnIsNat DEF One
    <3>4. OwnOf(r, cwd[p], j) = OwnOf(s, cwd[p], j) - One(i = j)
      BY <2>5
    <3> QED
      BY <3>2, <3>3, <3>4 DEF s
  <2>15. OwnAllocated(r, cwd[p], f)
    <3>1. dinode[cwd[p]].type # "none" /\ Cwd(p) = cwd[p]
      BY DEF FsInv, HeldAllocated, Cwd, CwdIn
    <3>2. ~Unheld(cwd[p])
      BY <3>1 DEF Unheld
    <3>3. dinode'[cwd[p]].type # "none"
      BY <1>1, <3>1, <3>2 DEF InodesKept, CacheKept, AllocatedKept
    <3> QED
      BY <2>5, <2>6, <2>8, <3>3 DEF OwnAllocated, i, s
  <2>16. InodesTypeOK' /\ Coherent' /\ AllocatedKept /\ ValidKept /\ LocksKept(p)
    <3>1. ref' \in [Inums -> Int]
      BY Before
    <3> QED
      BY <3>1 DEF InodesTypeOK, InodesKept, CacheKept, Copies
  <2>17. OwnLocks(p, r)
    BY <2>5 DEF OwnLocks
  <2>18. cwd' = [cwd EXCEPT ![p] = cwd[p]] /\ menu' = menu
    BY DEF FsInv, TypeOK
  <2> QED
    BY <1>1, <2>2, <2>5, <2>10, <2>11, <2>12, <2>13, <2>14, <2>15, <2>16, <2>17, <2>18,
       StepKeepsInv, Zenon
<1> QED
  BY <1>3, <1>4

(* A step that only reads the inode it locks leaves every inode as it was. *)
LEMMA ReadInodes ==
  ASSUME FsInv, NEW p \in Procs, NEW i \in Inums, Loaded(i).type # "none", Read(i),
         UNCHANGED <<dinode, dir, lock>>
  PROVE  InodesKept(p)
BY ReadKept, Before DEF InodesKept, LocksKept

(* iupdate() with a type.                                                  *)
LEMMA IupdateKept ==
  ASSUME FsInv, NEW i \in Inums, NEW t \in Types, t # "none", NEW n \in Int, Iupdate(i, t, n)
  PROVE  CacheKept /\ dinode' \in [Inums -> [type : Types, nlink : Int]]
<1> DEFINE k == [valid |-> TRUE, type |-> t, nlink |-> n]
           d == [type |-> t, nlink |-> n]
<1>1. /\ k \in Copies /\ k.valid /\ k.type = t /\ k.nlink = n
      /\ d \in [type : Types, nlink : Int] /\ d.type = t /\ d.nlink = n
  BY DEF Copies
<1>2. cache' = [cache EXCEPT ![i] = k] /\ dinode' = [dinode EXCEPT ![i] = d]
  BY DEF Iupdate
<1> HIDE DEF k, d
<1>0. dinode \in [Inums -> [type : Types, nlink : Int]] /\ cache \in [Inums -> Copies]
  BY DEF FsInv, TypeOK, InodesTypeOK, Copies
<1>3. /\ cache' \in [Inums -> Copies] /\ cache'[i] = k
      /\ \A x \in Inums : x # i => cache'[x] = cache[x]
  BY <1>0, <1>1, <1>2
<1>4. /\ dinode' \in [Inums -> [type : Types, nlink : Int]] /\ dinode'[i] = d
      /\ \A x \in Inums : x # i => dinode'[x] = dinode[x]
  BY <1>0, <1>1, <1>2
<1>5. Coherent'
  BY <1>1, <1>3, <1>4 DEF FsInv, Coherent
<1>6. AllocatedKept /\ ValidKept
  BY <1>1, <1>3, <1>4 DEF AllocatedKept, ValidKept
<1> QED
  BY <1>3, <1>4, <1>5, <1>6 DEF CacheKept

(* A system call locks the inode it has in ip.                             *)
LEMMA IlockIp ==
  ASSUME FsInv, NEW p \in Procs, NEW l \in {"open", "exists", "link", "linkbad", "chdir"},
         Ilock(p, l)
  PROVE  /\ st[p].ip \in Inums /\ st[p].dp = 0 /\ st[p].cur = 0 /\ st[p].puts = <<>>
         /\ st[p].pc = l /\ Loaded(st[p].ip).type # "none" /\ dinode[st[p].ip].type # "none"
         /\ st[p].ip # 0 /\ st[p].path \in Seq(Names) /\ st[p].pc # "chdir2"
<1> DEFINE s == st[p]
<1>1. s \in States /\ Shape(s) /\ 0 \notin Inums
  BY Before
<1>2. /\ s.pc = l /\ s.puts = <<>>
      /\ s.pc \in {"open", "exists", "create2", "link", "linkbad", "unlink2", "chdir"}
           => Target(p) = s.ip
      /\ Loaded(Target(p)).type # "none"
  BY IlockIs
<1>3. Target(p) = s.ip
  BY <1>2
<1> HIDE DEF s
<1>4. s.ip \in Inums /\ s.ip # 0 /\ s.dp = 0 /\ s.cur = 0 /\ s.path \in Seq(Names)
  BY <1>1, <1>2 DEF Shape, HasIp, HasDp, States, Numbers
<1>5. dinode[s.ip].type # "none"
  BY <1>2, <1>3, <1>4, LoadedIs
<1>6. s.pc # "chdir2"
  BY <1>2
<1> QED
  BY <1>2, <1>3, <1>4, <1>5, <1>6 DEF s

(* The two forms of the last assignments.                                  *)
LEMMA DoneIs ==
  ASSUME FsInv, NEW p \in Procs, NEW i
  PROVE  /\ [st EXCEPT ![p].pc = "done", ![p].ip = 0, ![p].puts = <<i>>]
              = [st EXCEPT ![p] = DoneCall(st[p], st[p].path, <<i>>)]
         /\ [st EXCEPT ![p].pc = "done", ![p].ip = 0, ![p].path = <<>>, ![p].puts = <<i>>]
              = [st EXCEPT ![p] = DoneCall(st[p], <<>>, <<i>>)]
<1> DEFINE s == st[p]
           q == <<i>>
           e == <<>>
           t == s.path
<1>1. s \in States /\ st \in [Procs -> States]
  BY Before
<1>2. [s EXCEPT !.pc = "done", !.ip = 0, !.puts = q] = DoneCall(s, t, q)
  <2> HIDE DEF s, q
  <2> QED
    BY <1>1 DEF DoneCall, States
<1>3. [s EXCEPT !.pc = "done", !.ip = 0, !.path = e, !.puts = q] = DoneCall(s, e, q)
  BY DEF DoneCall
<1>4. [st EXCEPT ![p].pc = "done", ![p].ip = 0, ![p].puts = q]
        = [st EXCEPT ![p] = [s EXCEPT !.pc = "done", !.ip = 0, !.puts = q]]
  BY <1>1
<1>5. [st EXCEPT ![p].pc = "done", ![p].ip = 0, ![p].path = e, ![p].puts = q]
        = [st EXCEPT ![p] = [s EXCEPT !.pc = "done", !.ip = 0, !.path = e, !.puts = q]]
  BY <1>1
<1> QED
  BY <1>2, <1>3, <1>4, <1>5

(* open() of an existing file takes over the reference of namex().         *)
LEMMA OpenKeepsInv ==
  ASSUME FsInv, NEW p \in Procs, Open(p)
  PROVE  FsInv'
<1> DEFINE s == st[p]
           i == s.ip
<1>1. /\ Ilock(p, "open") /\ Read(i) /\ UNCHANGED <<dinode, dir, ref, lock, cwd, menu>>
      /\ \/ /\ st' = [st EXCEPT ![p].pc = "done", ![p].ip = 0, ![p].puts = <<i>>]
            /\ UNCHANGED <<file, ofile>>
         \/ OpenFile(p, i)
  BY DEF Open
<1>2. /\ i \in Inums /\ s.dp = 0 /\ s.cur = 0 /\ s.puts = <<>> /\ s.pc # "chdir2"
      /\ Loaded(i).type # "none" /\ dinode[i].type # "none" /\ s.path \in Seq(Names) /\ i # 0
  BY <1>1, IlockIp
<1>3. InodesKept(p)
  BY <1>1, <1>2, ReadInodes
<1>4. CASE /\ st' = [st EXCEPT ![p].pc = "done", ![p].ip = 0, ![p].puts = <<i>>]
           /\ UNCHANGED <<file, ofile>>
  <2>1. st' = [st EXCEPT ![p] = DoneCall(s, s.path, <<i>>)] /\ UNCHANGED <<ref, tables>>
    BY <1>1, <1>4, DoneIs DEF tables
  <2> QED
    BY <1>2, <1>3, <2>1, DoneStep
<1>5. CASE OpenFile(p, i)
  BY <1>1, <1>2, <1>3, <1>5, OpenFileKeepsInv
<1> QED
  BY <1>1, <1>4, <1>5

(* create() found the name.                                                *)
LEMMA CreateExistsKeepsInv ==
  ASSUME FsInv, NEW p \in Procs, CreateExists(p)
  PROVE  FsInv'
<1> DEFINE s == st[p]
           i == s.ip
<1>1. /\ Ilock(p, "exists") /\ Read(i) /\ UNCHANGED <<dinode, dir, ref, lock, cwd, menu>>
      /\ \/ /\ st' = [st EXCEPT ![p].pc = "done", ![p].ip = 0, ![p].path = <<>>,
                                ![p].puts = <<i>>]
            /\ UNCHANGED <<file, ofile>>
         \/ OpenFile(p, i)
  BY DEF CreateExists
<1>2. /\ i \in Inums /\ s.dp = 0 /\ s.cur = 0 /\ s.puts = <<>> /\ s.pc # "chdir2"
      /\ Loaded(i).type # "none" /\ dinode[i].type # "none" /\ i # 0
  BY <1>1, IlockIp
<1>3. InodesKept(p)
  BY <1>1, <1>2, ReadInodes
<1>4. CASE /\ st' = [st EXCEPT ![p].pc = "done", ![p].ip = 0, ![p].path = <<>>,
                               ![p].puts = <<i>>]
           /\ UNCHANGED <<file, ofile>>
  <2> DEFINE e == <<>>
  <2>1. st' = [st EXCEPT ![p] = DoneCall(s, e, <<i>>)] /\ UNCHANGED <<ref, tables>>
    BY <1>1, <1>4, DoneIs DEF tables
  <2>2. e \in Seq(Names)
    OBVIOUS
  <2> QED
    BY <1>2, <1>3, <2>1, <2>2, DoneStep
<1>5. CASE OpenFile(p, i)
  BY <1>1, <1>2, <1>3, <1>5, OpenFileKeepsInv
<1> QED
  BY <1>1, <1>4, <1>5

(* The inode that create() returned is opened or put.                      *)
LEMMA CreatedKeepsInv ==
  ASSUME FsInv, NEW p \in Procs, Created(p)
  PROVE  FsInv'
<1> DEFINE s == st[p]
           i == s.ip
<1>1. /\ s.pc = "created" /\ s.puts = <<>> /\ lock' = [lock EXCEPT ![i] = Nobody]
      /\ UNCHANGED <<dinode, dir, cache, ref, cwd, menu>>
      /\ \/ /\ st' = [st EXCEPT ![p].pc = "done", ![p].ip = 0, ![p].puts = <<i>>]
            /\ UNCHANGED <<file, ofile>>
         \/ OpenFile(p, i)
  BY DEF Created
<1>2. s \in States /\ Shape(s) /\ 0 \notin Inums /\ lock \in [Inums -> Procs \cup {Nobody}]
  BY Before
<1>3. /\ i \in Inums /\ i # 0 /\ s.dp = 0 /\ s.cur = 0 /\ s.path \in Seq(Names)
      /\ s.pc # "chdir2"
  BY <1>1, <1>2 DEF Shape, HasIp, HasDp, States, Numbers
<1>4. dinode[i].type # "none" /\ lock[i] = p
  BY <1>1 DEF FsInv, HeldAllocated, LocksHeld
<1>5. InodesKept(p)
  <2>1. LocksKept(p) /\ lock' \in [Inums -> Procs \cup {Nobody}]
    BY <1>1, <1>2, <1>3, <1>4 DEF LocksKept
  <2>2. CacheKept
    BY <1>1, SameCacheKept
  <2> QED
    BY <1>1, <2>1, <2>2, Before DEF InodesKept
<1>6. CASE /\ st' = [st EXCEPT ![p].pc = "done", ![p].ip = 0, ![p].puts = <<i>>]
           /\ UNCHANGED <<file, ofile>>
  <2>1. st' = [st EXCEPT ![p] = DoneCall(s, s.path, <<i>>)] /\ UNCHANGED <<ref, tables>>
    BY <1>1, <1>6, DoneIs DEF tables
  <2> QED
    BY <1>1, <1>3, <1>5, <2>1, DoneStep
<1>7. CASE OpenFile(p, i)
  BY <1>1, <1>3, <1>4, <1>5, <1>7, OpenFileKeepsInv
<1> QED
  BY <1>1, <1>6, <1>7

(* sys_link() takes its link count back.                                   *)
LEMMA LinkBadKeepsInv ==
  ASSUME FsInv, NEW p \in Procs, LinkBad(p)
  PROVE  FsInv'
<1> DEFINE s == st[p]
           i == s.ip
           t == Loaded(i).type
           n == Loaded(i).nlink - 1
<1>1. /\ Ilock(p, "linkbad") /\ Iupdate(i, t, n) /\ UNCHANGED <<dir, ref, lock, tables>>
      /\ st' = [st EXCEPT ![p].pc = "done", ![p].ip = 0, ![p].puts = <<i>>]
  BY DEF LinkBad
<1>2. /\ i \in Inums /\ s.dp = 0 /\ s.cur = 0 /\ s.puts = <<>> /\ s.pc # "chdir2"
      /\ t # "none" /\ s.path \in Seq(Names) /\ i # 0
  BY <1>1, IlockIp
<1>3. t \in Types /\ n \in Int
  BY <1>2, LoadedIs DEF Copies
<1>4. InodesKept(p)
  <2> HIDE DEF t, n
  <2>1. CacheKept /\ dinode' \in [Inums -> [type : Types, nlink : Int]]
    BY <1>1, <1>2, <1>3, IupdateKept
  <2> QED
    BY <1>1, <2>1, Before DEF InodesKept, LocksKept
<1>5. st' = [st EXCEPT ![p] = DoneCall(s, s.path, <<i>>)]
  BY <1>1, DoneIs
<1> QED
  BY <1>1, <1>2, <1>4, <1>5, DoneStep

(* sys_unlink() writes the link count and puts the inode.                  *)
LEMMA UnlinkedKeepsInv ==
  ASSUME FsInv, NEW p \in Procs, Unlinked(p)
  PROVE  FsInv'
<1> DEFINE s == st[p]
           i == s.ip
           t == cache[i].type
           n == cache[i].nlink - 1
<1>1. /\ s.pc = "unlinked" /\ s.puts = <<>> /\ Iupdate(i, t, n)
      /\ lock' = [lock EXCEPT ![i] = Nobody] /\ UNCHANGED <<dir, ref, tables>>
      /\ st' = [st EXCEPT ![p].pc = "done", ![p].ip = 0, ![p].puts = <<i>>]
  BY DEF Unlinked
<1>2. s \in States /\ Shape(s) /\ 0 \notin Inums /\ lock \in [Inums -> Procs \cup {Nobody}]
      /\ cache \in [Inums -> Copies]
  BY Before
<1>3. /\ i \in Inums /\ i # 0 /\ s.dp = 0 /\ s.cur = 0 /\ s.path \in Seq(Names)
      /\ s.pc # "chdir2"
  BY <1>1, <1>2 DEF Shape, HasIp, HasDp, States, Numbers
<1>4. lock[i] = p /\ cache[i].valid
  BY <1>1 DEF FsInv, LocksHeld, UnlinkedValid
<1>5. t \in Types /\ t # "none" /\ n \in Int
  <2>1. cache[i] \in Copies
    BY <1>2, <1>3
  <2> QED
    BY <1>3, <1>4, <2>1 DEF Copies, FsInv, Coherent
<1>6. InodesKept(p)
  <2>1. LocksKept(p) /\ lock' \in [Inums -> Procs \cup {Nobody}]
    BY <1>1, <1>2, <1>3, <1>4 DEF LocksKept
  <2> HIDE DEF t, n
  <2>2. CacheKept /\ dinode' \in [Inums -> [type : Types, nlink : Int]]
    BY <1>1, <1>3, <1>5, IupdateKept
  <2> QED
    BY <1>1, <2>1, <2>2, Before DEF InodesKept
<1>7. st' = [st EXCEPT ![p] = DoneCall(s, s.path, <<i>>)]
  BY <1>1, DoneIs
<1> QED
  BY <1>1, <1>3, <1>6, <1>7, DoneStep

------------------------------------------------------------------------------
(* sys_link() and sys_chdir().                                             *)

(* iupdate() of one inode with iget() of another keeps the cache coherent. *)
LEMMA SlottedUpdateKept ==
  ASSUME FsInv, NEW x \in Inums, NEW i \in Inums, NEW k \in Copies,
         NEW d \in [type : Types, nlink : Int], k.valid, k.type = d.type, k.nlink = d.nlink,
         d.type # "none", cache' = [Slotted(x) EXCEPT ![i] = k], dinode' = [dinode EXCEPT ![i] = d]
  PROVE  CacheKept /\ dinode' \in [Inums -> [type : Types, nlink : Int]]
<1> DEFINE S == Slotted(x)
<1>1. cache' = [S EXCEPT ![i] = k] /\ dinode \in [Inums -> [type : Types, nlink : Int]]
  BY DEF FsInv, TypeOK, InodesTypeOK
<1>2. /\ S \in [Inums -> Copies]
      /\ \A y \in Inums : /\ S[y].type = cache[y].type
                          /\ S[y].nlink = cache[y].nlink
                          /\ S[y].valid => cache[y].valid
                          /\ cache[y].valid => S[y].valid \/ ref[y] = 0
  BY SlottedIs
<1> HIDE DEF S
<1>3. /\ cache'[i] = k /\ \A y \in Inums : y # i => cache'[y] = S[y]
      /\ cache' \in [Inums -> Copies]
  BY <1>1, <1>2
<1>4. /\ dinode'[i] = d /\ \A y \in Inums : y # i => dinode'[y] = dinode[y]
      /\ dinode' \in [Inums -> [type : Types, nlink : Int]]
  BY <1>1
<1>5. Coherent'
  BY <1>2, <1>3, <1>4 DEF FsInv, Coherent
<1>6. ValidKept
  BY <1>2, <1>3 DEF ValidKept
<1>7. AllocatedKept
  BY <1>4 DEF AllocatedKept
<1> QED
  BY <1>3, <1>4, <1>5, <1>6, <1>7 DEF CacheKept

(* sys_link() counts the link and starts the second walk.                  *)
LEMMA LinkKeepsInv ==
  ASSUME FsInv, NEW p \in Procs, Link(p)
  PROVE  FsInv'
<1> DEFINE s == st[p]
           i == s.ip
           new == s.call.new
           start == StartOf(p, new)
           up == Loaded(i).nlink + 1
<1>1. Ilock(p, "link") /\ UNCHANGED <<dir, lock, tables>>
  BY DEF Link
<1>2. /\ i \in Inums /\ s.dp = 0 /\ s.cur = 0 /\ s.puts = <<>> /\ s.pc # "chdir2"
      /\ Loaded(i).type # "none" /\ dinode[i].type # "none" /\ s.path \in Seq(Names) /\ i # 0
      /\ s.pc = "link"
  BY <1>1, IlockIp
<1>3. CASE /\ Read(i) /\ UNCHANGED <<dinode, ref, panic>>
           /\ st' = [st EXCEPT ![p].pc = "done", ![p].ip = 0, ![p].puts = <<i>>]
  <2>1. InodesKept(p)
    BY <1>1, <1>2, <1>3, ReadInodes
  <2>2. st' = [st EXCEPT ![p] = DoneCall(s, s.path, <<i>>)]
    BY <1>3, DoneIs
  <2> QED
    BY <1>1, <1>2, <1>3, <2>1, <2>2, DoneStep
<1>4. CASE /\ dinode' = [dinode EXCEPT ![i] = [type |-> Loaded(i).type, nlink |-> up]]
           /\ ref' = Referenced(start)
           /\ cache' = [Slotted(start) EXCEPT ![i] = [Loaded(i) EXCEPT !.nlink = up]]
           /\ st' = [st EXCEPT ![p].pc = "walk2", ![p].path = Elements(new), ![p].cur = start]
  <2> DEFINE e == Elements(new)
             r == [s EXCEPT !.pc = "walk2", !.path = e, !.cur = start]
             k == [Loaded(i) EXCEPT !.nlink = up]
             d == [type |-> Loaded(i).type, nlink |-> up]
  <2>1. s \in States /\ Shape(s) /\ st \in [Procs -> States] /\ 0 \notin Inums
        /\ start \in Inums
    BY Before DEF StartOf
  <2>2. s.call.op = "link" /\ e \in Seq(Names)
    <3>1. s.call.op = "link" /\ s.call \in Calls
      BY <1>2, <2>1 DEF Shape, States
    <3>2. s.call # NoCall
      BY <3>1 DEF NoCall
    <3>3. s.call \in UNION Menus
      BY <3>1, <3>2, Zenon DEF Calls
    <3> QED
      BY <3>1, <3>3, PathsAssumption
  <2>3. CacheKept /\ dinode' \in [Inums -> [type : Types, nlink : Int]]
    <3>1. Loaded(i) \in Copies /\ Loaded(i).valid
      BY <1>2, LoadedIs
    <3> DEFINE l == Loaded(i)
    <3>2. up \in Int
      BY <3>1 DEF Copies
    <3> HIDE DEF l, up
    <3>3. k \in Copies /\ k.type = l.type /\ k.nlink = up
      BY <3>1, <3>2 DEF Copies, l
    <3>4. k.valid
      BY <3>1 DEF Copies, l
    <3>5. d \in [type : Types, nlink : Int] /\ d.type = l.type /\ d.nlink = up
      BY <3>1, <3>2 DEF Copies, l
    <3>6. cache' = [Slotted(start) EXCEPT ![i] = k] /\ dinode' = [dinode EXCEPT ![i] = d]
      BY <1>4
    <3> HIDE DEF k, d, start
    <3> QED
      BY <1>2, <2>1, <3>3, <3>4, <3>5, <3>6, SlottedUpdateKept DEF l
  <2>4. st' = [st EXCEPT ![p] = r]
    BY <1>4, <2>1
  <2>5. ref' = Referenced(start)
    BY <1>4
  <2> HIDE DEF e, s, start
  <2>6. r \in States
    <3>1. "walk2" \in Labels /\ start \in Numbers
      BY <2>1 DEF Labels, Numbers
    <3> QED
      BY <2>1, <2>2, <3>1 DEF States
  <2>7. r.pc = "walk2" /\ r.cur = start /\ r.path = e /\ r.puts = s.puts /\ r.ip = s.ip
        /\ r.dp = s.dp /\ r.call = s.call
    BY <2>1 DEF States
  <2>8. ~r.half
    BY <1>2, <2>1 DEF States, Shape
  <2> HIDE DEF r
  <2>9. Shape(r)
    BY <1>2, <2>1, <2>2, <2>7, <2>8 DEF Shape, HasIp, HasDp
  <2>10. RefsMove(p, r)
    <3>1. CwdIn(s, cwd[p]) = cwd[p] /\ Put1In(s) = 0 /\ Put2In(s) = 0
      BY <1>2, PutsIn DEF CwdIn
    <3>2. CwdIn(r, cwd[p]) = cwd[p]
      BY <2>7 DEF CwdIn
    <3>3. Put1In(r) = 0 /\ Put2In(r) = 0
      BY <1>2, <2>7, PutsIn
    <3>4. /\ ref' \in [Inums -> Int]
          /\ \A j \in Inums : ref'[j] = ref[j] + One(start = j) /\ ref[j] \in Int
      BY <2>1, <2>5, Before, ReferencedIs
    <3> QED
      BY <1>2, <2>1, <2>7, <3>1, <3>2, <3>3, <3>4 DEF RefsMove, OwnOf, One, s
  <2>11. InodesKept(p)
    BY <1>1, <2>3, Before DEF InodesKept, LocksKept
  <2>12. r.pc \in Quiet /\ st[p].pc # "chdir2"
    BY <1>2, <2>7 DEF Quiet, s
  <2> QED
    BY <1>1, <2>4, <2>6, <2>9, <2>10, <2>11, <2>12, QuietStep
<1> QED
  BY <1>3, <1>4 DEF Link

(* sys_chdir() locks the new directory and puts the old one.               *)
LEMMA ChdirKeepsInv ==
  ASSUME FsInv, NEW p \in Procs, Chdir(p)
  PROVE  FsInv'
<1> DEFINE s == st[p]
           i == s.ip
<1>1. Ilock(p, "chdir") /\ Read(i) /\ UNCHANGED <<dinode, dir, ref, lock, tables>>
  BY DEF Chdir
<1>2. /\ i \in Inums /\ s.dp = 0 /\ s.cur = 0 /\ s.puts = <<>> /\ s.pc # "chdir2"
      /\ Loaded(i).type # "none" /\ dinode[i].type # "none" /\ s.path \in Seq(Names) /\ i # 0
      /\ s.pc = "chdir"
  BY <1>1, IlockIp
<1>3. InodesKept(p)
  BY <1>1, <1>2, ReadInodes
<1>4. CASE st' = [st EXCEPT ![p].pc = "done", ![p].ip = 0, ![p].puts = <<i>>]
  <2>1. st' = [st EXCEPT ![p] = DoneCall(s, s.path, <<i>>)]
    BY <1>4, DoneIs
  <2> QED
    BY <1>1, <1>2, <1>3, <2>1, DoneStep
<1>5. CASE st' = [st EXCEPT ![p].pc = "chdir2", ![p].puts = <<cwd[p]>>]
  <2> DEFINE c == cwd[p]
             q == <<c>>
             r == [s EXCEPT !.pc = "chdir2", !.puts = q]
  <2>1. s \in States /\ Shape(s) /\ st \in [Procs -> States] /\ 0 \notin Inums /\ c \in Inums
    BY Before
  <2>2. st' = [st EXCEPT ![p] = r]
    BY <1>5, <2>1
  <2>3. q \in Seq(Inums) /\ q # <<>> /\ Len(q) <= 2 /\ q = <<c>>
    BY <2>1
  <2> HIDE DEF q, s, c, i
  <2>4. r \in States
    <3>1. "chdir2" \in Labels
      BY DEF Labels
    <3> QED
      BY <2>1, <2>3, <3>1 DEF States
  <2>5. r.pc = "chdir2" /\ r.cur = s.cur /\ r.path = s.path /\ r.puts = q /\ r.ip = s.ip
        /\ r.dp = s.dp /\ r.call = s.call
    BY <2>1 DEF States
  <2> HIDE DEF r
  <2>6. Shape(r)
    BY <1>2, <2>3, <2>5 DEF Shape, HasIp, HasDp, i
  <2>7. \A j \in Inums : ref'[j] = ref[j] - OwnOf(st[p], cwd[p], j) + OwnOf(r, cwd[p], j)
    <3>1. CwdIn(s, c) = c /\ Put1In(s) = 0 /\ Put2In(s) = 0
      BY <1>2, PutsIn DEF CwdIn
    <3>2. CwdIn(r, c) = 0
      BY <2>5 DEF CwdIn
    <3>3. Put1In(r) = c /\ Put2In(r) = 0
      BY <2>3, <2>5, PutsIn
    <3> QED
      BY <1>1, <2>1, <2>5, <3>1, <3>2, <3>3, Before DEF OwnOf, One, s, c
  <2>8. InodesTypeOK' /\ Coherent' /\ AllocatedKept /\ ValidKept /\ LocksKept(p)
    <3>1. ref' \in [Inums -> Int]
      BY <1>1, Before
    <3> QED
      BY <1>3, <3>1 DEF InodesTypeOK, InodesKept, CacheKept, Copies
  <2>9. OwnLocks(p, r)
    BY <2>5 DEF OwnLocks
  <2>10. dinode'[r.ip].type # "none"
    BY <1>1, <1>2, <2>5 DEF i
  <2>11. UNCHANGED tables /\ r.pc = "chdir2"
    BY <1>1, <2>5
  <2> QED
    BY <2>2, <2>4, <2>6, <2>7, <2>8, <2>9, <2>10, <2>11, CallStepKeepsInv
<1> QED
  BY <1>4, <1>5 DEF Chdir

(* The process gives its own reference to its current directory.           *)
LEMMA ChdirSetKeepsInv ==
  ASSUME FsInv, NEW p \in Procs, ChdirSet(p)
  PROVE  FsInv'
<1> DEFINE s == st[p]
           c == s.ip
           r == Idle
<1>1. /\ s.pc = "chdir2" /\ s.puts = <<>> /\ cwd' = [cwd EXCEPT ![p] = c]
      /\ st' = [st EXCEPT ![p] = r]
      /\ UNCHANGED <<dinode, dir, cache, ref, lock, file, ofile, menu>>
  BY DEF ChdirSet
<1>2. s \in States /\ Shape(s) /\ 0 \notin Inums
  BY Before
<1>3. c \in Inums /\ s.dp = 0 /\ s.cur = 0
  BY <1>1, <1>2 DEF Shape, HasIp, HasDp, States, Numbers
<1>4. /\ r \in States /\ Shape(r) /\ r.pc = "idle" /\ r.cur = 0 /\ r.ip = 0 /\ r.dp = 0
      /\ r.puts = <<>>
  BY IdleIs
<1> HIDE DEF r, s
<1>5. RefsFollow(p, r, c, 0)
  <2> SUFFICES ASSUME NEW j \in Inums
               PROVE  ref'[j] = ref[j] - OwnOf(st[p], cwd[p], j) + OwnOf(r, c, j)
                                - Opened(0, j) + Opened(0, j)'
    BY DEF RefsFollow
  <2>1. Opened(0, j) = 0 /\ Opened(0, j)' = 0
    BY DEF Opened, One
  <2>2. OwnOf(s, cwd[p], j) = One(c = j)
    <3>1. CwdIn(s, cwd[p]) = 0 /\ Put1In(s) = 0 /\ Put2In(s) = 0
      BY <1>1, PutsIn DEF CwdIn
    <3> QED
      BY <1>2, <1>3, <3>1 DEF OwnOf, One
  <2>3. OwnOf(r, c, j) = One(c = j)
    <3>1. CwdIn(r, c) = c /\ Put1In(r) = 0 /\ Put2In(r) = 0
      BY <1>4, PutsIn DEF CwdIn
    <3> QED
      BY <1>2, <1>4, <3>1 DEF OwnOf, One
  <2>4. ref'[j] = ref[j] /\ ref[j] \in Int
    BY <1>1, Before
  <2> QED
    BY <2>1, <2>2, <2>3, <2>4 DEF One, s
<1>6. OwnAllocated(r, c, 0)
  BY <1>1, <1>4 DEF OwnAllocated, FsInv, HeldAllocated, s
<1>7. InodesTypeOK' /\ Coherent' /\ AllocatedKept /\ ValidKept /\ LocksKept(p)
  BY <1>1, SameCacheKept DEF FsInv, TypeOK, InodesTypeOK, CacheKept, LocksKept
<1>8. FilesTypeOK' /\ FilesCounted' /\ FilesHaveInode'
  BY <1>1 DEF FsInv, TypeOK, FilesTypeOK, FilesCounted, Descs, FilesHaveInode
<1>9. OwnLocks(p, r) /\ OnlyFile(0)
  BY <1>1, <1>4 DEF OwnLocks, OnlyFile
<1>10. menu' = menu
  BY <1>1
<1> QED
  BY <1>1, <1>3, <1>4, <1>5, <1>6, <1>7, <1>8, <1>9, <1>10, StepKeepsInv, Zenon

(* A system call returns, chdir() with its new directory.                  *)
LEMMA ReturnKeepsInv ==
  ASSUME FsInv, NEW p \in Procs, Return(p)
  PROVE  FsInv'
<1> DEFINE s == st[p]
           r == Idle
<1>1. /\ s.pc = "done" /\ s.puts = <<>> /\ st' = [st EXCEPT ![p] = r]
      /\ UNCHANGED <<dinode, dir, cache, ref, lock, tables>>
  BY DEF Return
<1>2. s \in States /\ Shape(s) /\ 0 \notin Inums
  BY Before
<1>3. s.ip = 0 /\ s.dp = 0 /\ s.cur = 0 /\ s.pc # "chdir2"
  BY <1>1, <1>2 DEF Shape, HasIp, HasDp
<1>4. /\ r \in States /\ Shape(r) /\ r.pc = "idle" /\ r.cur = 0 /\ r.ip = 0 /\ r.dp = 0
      /\ r.puts = <<>>
  BY IdleIs
<1> HIDE DEF r, s
<1>5. RefsMove(p, r)
  <2>1. CwdIn(s, cwd[p]) = cwd[p] /\ Put1In(s) = 0 /\ Put2In(s) = 0
    BY <1>1, PutsIn DEF CwdIn
  <2>2. CwdIn(r, cwd[p]) = cwd[p] /\ Put1In(r) = 0 /\ Put2In(r) = 0
    BY <1>4, PutsIn DEF CwdIn
  <2> QED
    BY <1>1, <1>3, <1>4, <2>1, <2>2, Before DEF RefsMove, OwnOf, One, s
<1>6. InodesKept(p)
  BY <1>1, SameCacheKept, Before DEF InodesKept, LocksKept
<1>7. r.pc \in Quiet /\ st[p].pc # "chdir2"
  BY <1>3, <1>4 DEF Quiet, s
<1> QED
  BY <1>1, <1>4, <1>5, <1>6, <1>7, QuietStep

(* A step that only panics, and one that changes nothing.                  *)
LEMMA StutterKeepsInv ==
  ASSUME FsInv, UNCHANGED <<dinode, dir, cache, ref, lock, tables, st>>
  PROVE  FsInv'
<1>1. TypeOK' /\ ShapeOK' /\ LocksHeld'
  BY DEF FsInv, TypeOK, InodesTypeOK, FilesTypeOK, ShapeOK, LocksHeld, tables
<1>2. Coherent' /\ FilesHaveInode' /\ HeldAllocated' /\ UnlinkedValid'
  BY DEF FsInv, Coherent, FilesHaveInode, HeldAllocated, UnlinkedValid, tables
<1>3. FilesCounted'
  BY DEF FsInv, FilesCounted, Descs, tables
<1>4. RefCounted'
  BY DEF FsInv, RefCounted, Total, CwdOf, CurOf, IpOf, DpOf, Put1Of, Put2Of, FilesOf,
         Cwd, Put1, Put2, Inode, tables
<1> QED
  BY <1>1, <1>2, <1>3, <1>4 DEF FsInv

------------------------------------------------------------------------------
(* sys_dup() and sys_close().                                              *)

(* An open descriptor is counted by its file.                              *)
LEMMA DescCounted ==
  ASSUME FsInv, NEW p \in Procs, NEW d \in FDs, ofile[p][d] # 0
  PROVE  /\ ofile[p][d] \in 1..NFILE
         /\ file[ofile[p][d]].ref \in Nat /\ file[ofile[p][d]].ref > 0
<1>1. ofile[p][d] \in 0..NFILE
  BY DEF FsInv, TypeOK, FilesTypeOK
<1>2. PICK f \in 1..NFILE : f = ofile[p][d]
  BY <1>1
<1>3. IsFiniteSet(Descs(f))
  <2>1. IsFiniteSet(FDs)
    <3>1. NOFILE \in Int /\ 1 \in Int
      BY FileSysAssumption
    <3> QED
      BY <3>1, FS_Interval, Zenon DEF FDs
  <2>2. IsFiniteSet(Procs \X FDs)
    BY <2>1, FileSysAssumption, FS_Product
  <2>3. Descs(f) \subseteq Procs \X FDs
    BY DEF Descs
  <2> QED
    BY <2>2, <2>3, FS_Subset
<1>4. Descs(f) # {}
  <2>1. <<p, d>> \in Descs(f)
    BY <1>2 DEF Descs
  <2> QED
    BY <2>1
<1>5. Cardinality(Descs(f)) \in Nat /\ Cardinality(Descs(f)) # 0
  BY <1>3, <1>4, FS_EmptySet, FS_CardinalityType
<1>6. file[f].ref = Cardinality(Descs(f))
  BY DEF FsInv, FilesCounted
<1> QED
  BY <1>2, <1>5, <1>6

(* Only the number of descriptors of an open file changes.                 *)
FileRefSet(p, d, v, f, n) ==
  /\ ofile[p][d] \in {0, f} /\ v \in {0, f} /\ n > 0 /\ file[f].ref > 0
  /\ n = file[f].ref - One(ofile[p][d] = f) + One(v = f)
  /\ file' = [file EXCEPT ![f].ref = n]
  /\ UNCHANGED <<dinode, dir, cache, ref, lock, cwd, st, menu>>

(* A file count that moves together with one descriptor.                   *)
LEMMA FileRefStep ==
  ASSUME FsInv, NEW p \in Procs, NEW d \in FDs, NEW v, v \in 0..NFILE, DescSet(p, d, v),
         NEW f \in 1..NFILE, NEW n \in Nat, FileRefSet(p, d, v, f, n)
  PROVE  FsInv'
<1>0. /\ ofile[p][d] \in {0, f} /\ v \in {0, f} /\ n > 0 /\ file[f].ref > 0
      /\ n = file[f].ref - One(ofile[p][d] = f) + One(v = f)
      /\ file' = [file EXCEPT ![f].ref = n]
      /\ UNCHANGED <<dinode, dir, cache, ref, lock, cwd, st, menu>>
  BY DEF FileRefSet
<1> DEFINE w == [file[f] EXCEPT !.ref = n]
<1>1. file \in [1..NFILE -> [ref : Int, ip : Numbers]]
  BY DEF FsInv, TypeOK, FilesTypeOK
<1>2. w \in [ref : Int, ip : Numbers] /\ w.ref = n /\ w.ip = file[f].ip
  BY <1>1
<1>3. file' = [file EXCEPT ![f] = w]
  BY <1>0, <1>1
<1> HIDE DEF w
<1>4. /\ file' \in [1..NFILE -> [ref : Int, ip : Numbers]] /\ file'[f] = w
      /\ \A g \in 1..NFILE : g # f => file'[g] = file[g]
  BY <1>1, <1>2, <1>3
<1>5. DescsMove(p, d, v)
  BY DescsStep, Zenon
<1>6. FilesTypeOK'
  BY <1>4, <1>5 DEF FilesTypeOK, DescsMove
<1>7. FilesCounted'
  <2> SUFFICES ASSUME NEW g \in 1..NFILE PROVE file'[g].ref = Cardinality(Descs(g)')
    BY DEF FilesCounted
  <2>1. file[g].ref = Cardinality(Descs(g))
    BY DEF FsInv, FilesCounted
  <2>2. /\ Cardinality(Descs(g)) \in Nat
        /\ Cardinality(Descs(g)') = Cardinality(Descs(g)) - One(ofile[p][d] = g) + One(v = g)
    BY <1>5 DEF DescsMove
  <2>3. CASE g = f
    BY <1>0, <1>2, <1>4, <2>1, <2>2, <2>3
  <2>4. CASE g # f
    <3>1. One(ofile[p][d] = g) = 0 /\ One(v = g) = 0
      <4>1. ofile[p][d] \in {0, f} /\ v \in {0, f}
        BY <1>0
      <4> QED
        BY <2>4, <4>1 DEF One
    <3> QED
      BY <1>4, <2>1, <2>2, <2>4, <3>1
  <2> QED
    BY <2>3, <2>4
<1>8. FilesHaveInode'
  BY <1>0, <1>2, <1>4 DEF FilesHaveInode, FsInv
<1>9. \A g \in 1..NFILE : Inode(g)' = Inode(g)
  BY <1>0, <1>2, <1>4 DEF Inode, InodeIn
<1>10. TypeOK'
  BY <1>0, <1>6 DEF TypeOK, FsInv, InodesTypeOK
<1>11. ShapeOK' /\ LocksHeld' /\ Coherent' /\ UnlinkedValid'
  BY <1>0 DEF FsInv, ShapeOK, LocksHeld, Coherent, UnlinkedValid
<1>12. HeldAllocated'
  <2>1. \A g \in 1..NFILE : file'[g].ref > 0 => dinode'[file'[g].ip].type # "none"
    BY <1>0, <1>2, <1>4 DEF FsInv, HeldAllocated
  <2> QED
    BY <1>0, <2>1 DEF FsInv, HeldAllocated
<1>13. RefCounted'
  <2> SUFFICES ASSUME NEW i \in Inums PROVE ref'[i] = Total(i)'
    BY DEF RefCounted
  <2>1. FilesOf(i)' = FilesOf(i)
    BY <1>9 DEF FilesOf
  <2>2. /\ CwdOf(i)' = CwdOf(i) /\ CurOf(i)' = CurOf(i) /\ IpOf(i)' = IpOf(i)
        /\ DpOf(i)' = DpOf(i) /\ Put1Of(i)' = Put1Of(i) /\ Put2Of(i)' = Put2Of(i)
    BY <1>0 DEF CwdOf, CurOf, IpOf, DpOf, Put1Of, Put2Of, Cwd, Put1, Put2
  <2>3. Total(i)' = Total(i)
    BY <2>1, <2>2 DEF Total
  <2> QED
    BY <1>0, <2>3 DEF FsInv, RefCounted
<1> QED
  BY <1>7, <1>8, <1>10, <1>11, <1>12, <1>13 DEF FsInv

(* dup() counts the file once more.                                        *)
LEMMA DupKeepsInv ==
  ASSUME FsInv, NEW p \in Procs, NEW d \in FDs, Dup(p, d)
  PROVE  FsInv'
<1>1. PICK f : f = ofile[p][d]
  OBVIOUS
<1>2. f # 0 /\ FreeFDs(p) # {}
  BY <1>1 DEF Dup, Argfd
<1>3. f \in 1..NFILE /\ file[f].ref \in Nat /\ file[f].ref > 0
  BY <1>1, <1>2, DescCounted
<1>4. PICK k \in FDs : ofile[p][k] = 0 /\ DescSet(p, k, f)
  <2>1. FreeFDs(p) \in SUBSET Nat
    BY DEF FreeFDs, FDs
  <2>2. Least(FreeFDs(p)) \in FreeFDs(p)
    BY <1>2, <2>1, LeastIsIn, Zenon
  <2>3. DescSet(p, Least(FreeFDs(p)), f)
    BY <1>1 DEF Dup, Argfd, DescSet
  <2> QED
    BY <2>2, <2>3 DEF FreeFDs
<1>5. PICK n \in Nat : n = file[f].ref + 1
  BY <1>3
<1>6. file' = [file EXCEPT ![f].ref = n]
  BY <1>1, <1>5 DEF Dup, Argfd, Filedup
<1>7. n = file[f].ref - One(ofile[p][k] = f) + One(f = f) /\ n > 0
  BY <1>2, <1>3, <1>4, <1>5 DEF One
<1>8. ofile[p][k] \in {0, f} /\ f \in {0, f} /\ f \in 0..NFILE
  BY <1>3, <1>4
<1>9. UNCHANGED <<dinode, dir, cache, ref, lock, cwd, st, menu>>
  BY DEF Dup
<1>10. FileRefSet(p, k, f, f, n)
  BY <1>3, <1>6, <1>7, <1>8, <1>9 DEF FileRefSet
<1> QED
  BY <1>3, <1>4, <1>5, <1>8, <1>10, FileRefStep, Zenon

(* The last fileclose(): the reference of the file goes to its iput().     *)
LEMMA LastCloseStep ==
  ASSUME FsInv, NEW p \in Procs, NEW d \in FDs, st[p].pc = "idle",
         NEW f \in 1..NFILE, f = ofile[p][d], DescSet(p, d, 0), file[f].ref = 1,
         file' = [file EXCEPT ![f] = [ref |-> 0, ip |-> 0]],
         st' = [st EXCEPT ![p].pc = "done", ![p].puts = <<file[f].ip>>],
         UNCHANGED <<dinode, dir, cache, ref, lock, cwd, menu>>
  PROVE  FsInv'
<1> DEFINE s == st[p]
           i == file[f].ip
           q == <<i>>
           w == [ref |-> 0, ip |-> 0]
           r == [s EXCEPT !.pc = "done", !.puts = q]
<1>1. s \in States /\ Shape(s) /\ st \in [Procs -> States] /\ 0 \notin Inums
      /\ cwd[p] \in Inums
  BY Before
<1>2. file \in [1..NFILE -> [ref : Int, ip : Numbers]]
  BY DEF FsInv, TypeOK, FilesTypeOK
<1>3. i \in Inums
  BY <1>2 DEF FsInv, FilesHaveInode, Numbers
<1>4. st' = [st EXCEPT ![p] = r]
  BY <1>1
<1>5. q \in Seq(Inums) /\ q # <<>> /\ Len(q) <= 2 /\ q = <<i>>
  BY <1>3
<1>6. w \in [ref : Int, ip : Numbers] /\ w.ref = 0
  BY DEF Numbers
<1>7. s.pc = "idle" /\ file' = [file EXCEPT ![f] = w]
  OBVIOUS
<1>8. s.ip = 0 /\ s.dp = 0 /\ s.cur = 0 /\ s.puts = <<>>
  BY <1>1, <1>7 DEF Shape, HasIp, HasDp
<1> HIDE DEF q, s, i, w
<1>9. r \in States
  <2>1. "done" \in Labels
    BY DEF Labels
  <2> QED
    BY <1>1, <1>5, <2>1 DEF States
<1>10. r.pc = "done" /\ r.cur = s.cur /\ r.path = s.path /\ r.puts = q /\ r.ip = s.ip
       /\ r.dp = s.dp /\ r.call = s.call
  BY <1>1 DEF States
<1> HIDE DEF r
<1>11. Shape(r)
  BY <1>5, <1>8, <1>10 DEF Shape, HasIp, HasDp
<1>12. /\ file' \in [1..NFILE -> [ref : Int, ip : Numbers]] /\ file'[f] = w
       /\ \A g \in 1..NFILE : g # f => file'[g] = file[g]
  BY <1>2, <1>6, <1>7
<1>13. DescsMove(p, d, 0)
  <2>1. 0 \in 0..NFILE
    BY FileSysAssumption
  <2> QED
    BY <2>1, DescsStep, Zenon
<1>14. FilesTypeOK'
  BY <1>12, <1>13 DEF FilesTypeOK, DescsMove
<1>15. FilesCounted'
  <2> SUFFICES ASSUME NEW g \in 1..NFILE PROVE file'[g].ref = Cardinality(Descs(g)')
    BY DEF FilesCounted
  <2>1. file[g].ref = Cardinality(Descs(g))
    BY DEF FsInv, FilesCounted
  <2>2. /\ Cardinality(Descs(g)) \in Nat
        /\ Cardinality(Descs(g)') = Cardinality(Descs(g)) - One(f = g) + One(0 = g)
    BY <1>13 DEF DescsMove
  <2>3. One(0 = g) = 0
    BY DEF One
  <2>4. CASE g = f
    <3>1. One(f = g) = 1 /\ Cardinality(Descs(g)) = 1 /\ file'[g].ref = 0
      BY <1>6, <1>12, <2>1, <2>4 DEF One
    <3> QED
      BY <2>2, <2>3, <3>1
  <2>5. CASE g # f
    <3>1. One(f = g) = 0 /\ file'[g] = file[g]
      BY <1>12, <2>5 DEF One
    <3> QED
      BY <2>1, <2>2, <2>3, <3>1
  <2> QED
    BY <2>4, <2>5
<1>16. FilesHaveInode'
  BY <1>6, <1>12 DEF FilesHaveInode, FsInv
<1>17. OnlyFile(f)
  BY <1>12 DEF OnlyFile
<1>18. RefsFollow(p, r, cwd[p], f)
  <2> SUFFICES ASSUME NEW j \in Inums
               PROVE  ref'[j] = ref[j] - OwnOf(st[p], cwd[p], j) + OwnOf(r, cwd[p], j)
                                - Opened(f, j) + Opened(f, j)'
    BY DEF RefsFollow
  <2>1. Inode(f) = i /\ Inode(f)' = 0
    BY <1>6, <1>12 DEF Inode, InodeIn, i
  <2>2. Opened(f, j) = One(i = j) /\ Opened(f, j)' = 0
    BY <1>1, <2>1 DEF Opened, One
  <2>3. CwdIn(s, cwd[p]) = cwd[p] /\ Put1In(s) = 0 /\ Put2In(s) = 0
    BY <1>7, <1>8, PutsIn DEF CwdIn
  <2>4. CwdIn(r, cwd[p]) = cwd[p] /\ Put1In(r) = i /\ Put2In(r) = 0
    BY <1>5, <1>10, PutsIn DEF CwdIn
  <2>5. OwnOf(s, cwd[p], j) = One(cwd[p] = j) /\ OwnOf(r, cwd[p], j) = One(cwd[p] = j) + One(i = j)
    BY <1>1, <1>8, <1>10, <2>3, <2>4 DEF OwnOf, One
  <2>6. ref'[j] = ref[j] /\ ref[j] \in Int
    BY Before
  <2> QED
    BY <2>2, <2>5, <2>6 DEF One, s
<1>19. OwnAllocated(r, cwd[p], f)
  BY <1>6, <1>7, <1>10, <1>12 DEF OwnAllocated, FsInv, HeldAllocated, s
<1>20. InodesTypeOK' /\ Coherent' /\ AllocatedKept /\ ValidKept /\ LocksKept(p)
  BY SameCacheKept DEF FsInv, TypeOK, InodesTypeOK, CacheKept, LocksKept
<1>21. OwnLocks(p, r)
  BY <1>10 DEF OwnLocks
<1>22. cwd' = [cwd EXCEPT ![p] = cwd[p]] /\ menu' = menu
  BY DEF FsInv, TypeOK
<1> QED
  BY <1>1, <1>4, <1>9, <1>11, <1>14, <1>15, <1>16, <1>17, <1>18, <1>19, <1>20, <1>21, <1>22,
     StepKeepsInv, Zenon

(* close() drops the file, and its inode with the last descriptor.         *)
LEMMA CloseKeepsInv ==
  ASSUME FsInv, NEW p \in Procs, NEW d \in FDs, Close(p, d)
  PROVE  FsInv'
<1>1. PICK f : f = ofile[p][d]
  OBVIOUS
<1>2. f # 0 /\ DescSet(p, d, 0) /\ Fileclose(p, f)
      /\ UNCHANGED <<dinode, dir, cache, ref, lock, cwd, menu>> /\ st[p].pc = "idle"
  BY <1>1 DEF Close, Argfd, DescSet
<1>3. f \in 1..NFILE /\ file[f].ref \in Nat /\ file[f].ref > 0
  BY <1>1, <1>2, DescCounted
<1>4. CASE file[f].ref > 1
  <2>1. PICK n \in Nat : n = file[f].ref - 1
    BY <1>3
  <2>2. file' = [file EXCEPT ![f].ref = n] /\ st' = st
    BY <1>2, <1>4, <2>1 DEF Fileclose
  <2>0. PICK v : v = 0
    OBVIOUS
  <2>3. n = file[f].ref - One(ofile[p][d] = f) + One(v = f) /\ n > 0
    BY <1>1, <1>2, <1>3, <1>4, <2>0, <2>1 DEF One
  <2>4. v \in 0..NFILE /\ DescSet(p, d, v)
    BY <1>2, <2>0, FileSysAssumption
  <2>5. ofile[p][d] \in {0, f} /\ v \in {0, f}
    BY <1>1, <2>0
  <2>7. file' = [file EXCEPT ![f].ref = n]
    BY <2>2
  <2>6. UNCHANGED <<dinode, dir, cache, ref, lock, cwd, st, menu>>
    BY <1>2, <2>2
  <2>8. FileRefSet(p, d, v, f, n)
    BY <1>3, <2>3, <2>5, <2>6, <2>7 DEF FileRefSet
  <2> QED
    BY <1>3, <2>1, <2>4, <2>8, FileRefStep, Zenon
<1>5. CASE ~(file[f].ref > 1)
  <2>1. file[f].ref = 1
    BY <1>3, <1>5
  <2>2. /\ file' = [file EXCEPT ![f] = [ref |-> 0, ip |-> 0]]
        /\ st' = [st EXCEPT ![p].pc = "done", ![p].puts = <<file[f].ip>>]
    BY <1>2, <1>5 DEF Fileclose
  <2> QED
    BY <1>1, <1>2, <1>3, <2>1, <2>2, LastCloseStep
<1> QED
  BY <1>4, <1>5

------------------------------------------------------------------------------
(* The system calls that work on a directory: create(), the end of         *)
(* sys_link() and sys_unlink().                                            *)

(* StepKeepsInv for a step that keeps locks for the next one.              *)
LEMMA LockedStep ==
  ASSUME FsInv, NEW p \in Procs, NEW r \in States, st' = [st EXCEPT ![p] = r],
         UNCHANGED tables, Shape(r), r.pc # "chdir2", st[p].pc # "chdir2",
         RefsMove(p, r), InodesKept(p), OwnLocks(p, r),
         r.pc = "created" => dinode'[r.ip].type # "none",
         r.pc = "unlinked" => cache'[r.ip].valid
  PROVE  FsInv'
<1>1. InodesTypeOK'
  BY DEF InodesTypeOK, InodesKept, CacheKept, Copies, RefsMove
<1>2. /\ Coherent' /\ AllocatedKept /\ ValidKept /\ LocksKept(p)
      /\ \A j \in Inums : ref'[j] = ref[j] - OwnOf(st[p], cwd[p], j) + OwnOf(r, cwd[p], j)
  BY DEF InodesKept, CacheKept, RefsMove
<1>3. r.pc \in {"chdir2", "created"} => dinode'[r.ip].type # "none"
  OBVIOUS
<1> QED
  BY <1>1, <1>2, <1>3, CallStepKeepsInv

(* A system call locks the directory it has in dp.                         *)
DirLocked(p, l) ==
  /\ st[p] \in States /\ Shape(st[p]) /\ st \in [Procs -> States] /\ 0 \notin Inums
  /\ st[p].pc = l /\ st[p].puts = <<>> /\ ~st[p].half
  /\ st[p].dp \in Inums /\ st[p].dp # 0 /\ st[p].cur = 0
  /\ l = "link2" => st[p].ip \in Inums /\ st[p].ip # 0 /\ st[p].call.op = "link"
  /\ l # "link2" => st[p].ip = 0
  /\ l = "unlink" => st[p].call.op = "unlink"
  /\ st[p].path \in Seq(Names) /\ st[p].path # <<>> /\ Head(st[p].path) \in Names
  /\ Dirlookup(st[p].dp, Head(st[p].path)) \in Numbers
  /\ Loaded(st[p].dp).type # "none" /\ dinode[st[p].dp].type # "none"
  /\ lock[st[p].dp] = Nobody

(* The directory that a step locks is one it has in hand.                  *)
LEMMA IlockDp ==
  ASSUME FsInv, NEW p \in Procs, NEW l \in {"create", "link2", "unlink"}, Ilock(p, l)
  PROVE  DirLocked(p, l)
<1> DEFINE s == st[p]
<1>1. s \in States /\ Shape(s) /\ st \in [Procs -> States] /\ 0 \notin Inums
  BY Before
<1>2. /\ s.pc = l /\ s.puts = <<>> /\ ~s.half
      /\ s.pc \in {"create", "link2", "unlink"} => Target(p) = s.dp
      /\ Loaded(Target(p)).type # "none" /\ lock[Target(p)] = Nobody
  BY IlockIs
<1>3. Target(p) = s.dp
  BY <1>2
<1> HIDE DEF s
<1>4. /\ s.dp \in Inums /\ s.dp # 0 /\ s.cur = 0
      /\ l = "link2" => s.ip \in Inums /\ s.ip # 0 /\ s.call.op = "link"
      /\ l # "link2" => s.ip = 0
      /\ l = "unlink" => s.call.op = "unlink"
  BY <1>1, <1>2 DEF Shape, HasIp, HasDp, States, Numbers
<1>5. s.path \in Seq(Names) /\ s.path # <<>> /\ Head(s.path) \in Names
  <2>1. s.path \in Seq(Names) /\ s.path # <<>>
    BY <1>1, <1>2 DEF Shape, States
  <2> QED
    BY <2>1
<1>6. Dirlookup(s.dp, Head(s.path)) \in Numbers
  BY <1>4, <1>5, Before DEF Dirlookup, Entries, Numbers
<1>7. Loaded(s.dp).type # "none" /\ dinode[s.dp].type # "none"
  BY <1>2, <1>3, <1>4, LoadedIs
<1> QED
  BY <1>1, <1>2, <1>3, <1>4, <1>5, <1>6, <1>7 DEF DirLocked, s

(* sys_unlink() locks the directory and looks the name up.                 *)
LEMMA UnlinkKeepsInv ==
  ASSUME FsInv, NEW p \in Procs, Unlink(p)
  PROVE  FsInv'
<1> DEFINE s == st[p]
           dp == s.dp
           old == Dirlookup(dp, Head(s.path))
<1>1. Ilock(p, "unlink") /\ UNCHANGED <<dinode, dir, tables>>
  BY DEF Unlink
<1>2. DirLocked(p, "unlink")
  BY <1>1, IlockDp
<1>3. /\ s \in States /\ Shape(s) /\ st \in [Procs -> States] /\ 0 \notin Inums
      /\ s.pc = "unlink" /\ s.puts = <<>> /\ dp \in Inums /\ s.cur = 0
      /\ s.ip = 0 /\ s.call.op = "unlink" /\ s.path # <<>> /\ old \in Numbers
      /\ Loaded(dp).type # "none" /\ lock[dp] = Nobody
  BY <1>2 DEF DirLocked
<1>h. ~s.half
  BY <1>2 DEF DirLocked
<1>4. CASE /\ Read(dp) /\ UNCHANGED <<ref, lock, panic>>
           /\ st' = [st EXCEPT ![p].pc = "done", ![p].dp = 0, ![p].path = <<>>,
                               ![p].puts = <<dp>>]
  <2> DEFINE e == <<>>
             q == <<dp>>
             r == [s EXCEPT !.pc = "done", !.dp = 0, !.path = e, !.puts = q]
  <2>1. "done" \in Labels /\ e \in Seq(Names) /\ q \in Seq(Inums) /\ 0 \in Numbers
    BY <1>3 DEF Labels, Numbers
  <2>2. q = <<dp>> /\ q # <<>> /\ Len(q) <= 2
    OBVIOUS
  <2>3. st' = [st EXCEPT ![p] = r]
    BY <1>3, <1>4
  <2>4. InodesKept(p)
    BY <1>1, <1>3, <1>4, ReadInodes
  <2> HIDE DEF e, q, s, dp
  <2>5. r \in States
    BY <1>3, <2>1 DEF States
  <2>6. r.pc = "done" /\ r.cur = s.cur /\ r.path = e /\ r.puts = q /\ r.ip = s.ip
        /\ r.dp = 0 /\ r.call = s.call
    BY <1>3 DEF States
  <2> HIDE DEF r
  <2>7. Shape(r)
    BY <1>3, <2>2, <2>6 DEF Shape, HasIp, HasDp
  <2>8. r.pc \in Quiet /\ st[p].pc # "chdir2"
    BY <1>3, <2>6 DEF Quiet, s
  <2>9. RefsMove(p, r)
    <3>1. CwdIn(s, cwd[p]) = cwd[p] /\ Put1In(s) = 0 /\ Put2In(s) = 0
      BY <1>3, PutsIn DEF CwdIn
    <3>2. CwdIn(r, cwd[p]) = cwd[p] /\ Put1In(r) = dp /\ Put2In(r) = 0
      BY <2>2, <2>6, PutsIn DEF CwdIn
    <3> QED
      BY <1>3, <1>4, <2>6, <3>1, <3>2, Before DEF RefsMove, OwnOf, One, s, dp
  <2> QED
    BY <1>1, <2>3, <2>4, <2>5, <2>7, <2>8, <2>9, QuietStep
<1>5. CASE /\ old # 0 /\ ref' = Referenced(old)
           /\ cache' = [Slotted(old) EXCEPT ![dp] = Loaded(dp)]
           /\ lock' = [lock EXCEPT ![dp] = p]
           /\ st' = [st EXCEPT ![p].pc = "unlink2", ![p].ip = old]
  <2> DEFINE r == [s EXCEPT !.pc = "unlink2", !.ip = old]
  <2>1. "unlink2" \in Labels /\ old \in Inums
    BY <1>3, <1>5 DEF Labels, Numbers
  <2>2. st' = [st EXCEPT ![p] = r]
    BY <1>3, <1>5
  <2>3. InodesKept(p)
    <3>1. CacheKept
      BY <1>1, <1>3, <1>5, <2>1, SlottedReadKept
    <3>2. LocksKept(p) /\ lock' \in [Inums -> Procs \cup {Nobody}]
      BY <1>3, <1>5, Before DEF LocksKept
    <3> QED
      BY <1>1, <3>1, <3>2, Before DEF InodesKept
  <2>4. lock'[dp] = p
    BY <1>3, <1>5, Before
  <2> HIDE DEF s, dp, old
  <2>5. r \in States
    BY <1>3, <2>1 DEF States
  <2>6. r.pc = "unlink2" /\ r.cur = s.cur /\ r.path = s.path /\ r.puts = s.puts /\ r.ip = old
        /\ r.dp = dp /\ r.call = s.call
    BY <1>3 DEF States, dp
  <2>h. ~r.half
    BY <1>3, <1>h DEF States
  <2> HIDE DEF r
  <2>7. Shape(r)
    BY <1>3, <1>5, <2>6, <2>h DEF Shape, HasIp, HasDp
  <2>8. RefsMove(p, r)
    <3>1. CwdIn(s, cwd[p]) = cwd[p] /\ Put1In(s) = 0 /\ Put2In(s) = 0
      BY <1>3, PutsIn DEF CwdIn
    <3>2. CwdIn(r, cwd[p]) = cwd[p] /\ Put1In(r) = 0 /\ Put2In(r) = 0
      BY <1>3, <2>6, PutsIn DEF CwdIn
    <3>3. /\ ref' \in [Inums -> Int]
          /\ \A j \in Inums : ref'[j] = ref[j] + One(old = j) /\ ref[j] \in Int
      BY <1>5, <2>1, Before, ReferencedIs
    <3> QED
      BY <1>3, <2>6, <3>1, <3>2, <3>3 DEF RefsMove, OwnOf, One, s, dp
  <2>9. OwnLocks(p, r) /\ r.pc # "chdir2" /\ r.pc # "created" /\ r.pc # "unlinked"
    BY <2>4, <2>6 DEF OwnLocks
  <2>10. st[p].pc # "chdir2"
    BY <1>3 DEF s
  <2> QED
    BY <1>1, <2>2, <2>3, <2>5, <2>7, <2>8, <2>9, <2>10, LockedStep
<1> QED
  BY <1>4, <1>5 DEF Unlink

(* ialloc() takes an inode that has no valid copy.                         *)
LEMMA IallocKept ==
  ASSUME FsInv, NEW i \in Inums, NEW x \in Inums, Loaded(i).type # "none",
         dinode[x].type = "none", NEW d \in [type : Types, nlink : Int], d.type # "none",
         cache' = [Slotted(x) EXCEPT ![i] = Loaded(i)], dinode' = [dinode EXCEPT ![x] = d]
  PROVE  CacheKept /\ dinode' \in [Inums -> [type : Types, nlink : Int]]
<1> DEFINE S == Slotted(x)
           l == Loaded(i)
<1>1. l \in Copies /\ l.valid /\ l.type = dinode[i].type /\ l.nlink = dinode[i].nlink
      /\ l.type # "none"
  BY LoadedIs
<1>2. cache' = [S EXCEPT ![i] = l] /\ dinode \in [Inums -> [type : Types, nlink : Int]]
  BY DEF FsInv, TypeOK, InodesTypeOK
<1>3. /\ S \in [Inums -> Copies]
      /\ \A y \in Inums : /\ S[y].type = cache[y].type
                          /\ S[y].nlink = cache[y].nlink
                          /\ S[y].valid => cache[y].valid
                          /\ cache[y].valid => S[y].valid \/ ref[y] = 0
  BY SlottedIs
<1> HIDE DEF S, l
<1>4. /\ cache'[i] = l /\ \A y \in Inums : y # i => cache'[y] = S[y]
      /\ cache' \in [Inums -> Copies]
  BY <1>1, <1>2, <1>3
<1>5. /\ dinode'[x] = d /\ \A y \in Inums : y # x => dinode'[y] = dinode[y]
      /\ dinode' \in [Inums -> [type : Types, nlink : Int]]
  BY <1>2
<1>6. x # i /\ ~cache[x].valid
  BY <1>1 DEF FsInv, Coherent
<1>7. Coherent'
  BY <1>1, <1>3, <1>4, <1>5, <1>6 DEF FsInv, Coherent
<1>8. ValidKept
  BY <1>1, <1>3, <1>4 DEF ValidKept
<1>9. AllocatedKept
  BY <1>5 DEF AllocatedKept
<1> QED
  BY <1>4, <1>5, <1>7, <1>8, <1>9 DEF CacheKept

(* create() locks the directory, looks the name up and allocates an inode  *)
(* if there is none.                                                       *)
LEMMA CreateKeepsInv ==
  ASSUME FsInv, NEW p \in Procs, Create(p)
  PROVE  FsInv'
<1> DEFINE s == st[p]
           dp == s.dp
           old == Dirlookup(dp, Head(s.path))
           new == Least(FreeInums)
<1>1. Ilock(p, "create") /\ UNCHANGED <<dir, tables>>
  BY DEF Create
<1>2. DirLocked(p, "create")
  BY <1>1, IlockDp
<1>3. /\ s \in States /\ Shape(s) /\ st \in [Procs -> States] /\ 0 \notin Inums
      /\ s.pc = "create" /\ s.puts = <<>> /\ dp \in Inums /\ s.cur = 0
      /\ s.ip = 0 /\ s.path # <<>> /\ old \in Numbers
      /\ Loaded(dp).type # "none" /\ lock[dp] = Nobody
  BY <1>2 DEF DirLocked
<1>h. ~s.half
  BY <1>2 DEF DirLocked
<1>4. CASE UNCHANGED <<dinode, cache, ref, lock, st>>
  BY <1>1, <1>4, StutterKeepsInv
<1>5. CASE /\ old # 0 /\ ref' = Referenced(old)
           /\ cache' = [Slotted(old) EXCEPT ![dp] = Loaded(dp)]
           /\ st' = [st EXCEPT ![p].pc = "exists", ![p].ip = old, ![p].dp = 0,
                               ![p].puts = <<dp>>]
           /\ UNCHANGED <<dinode, lock>>
  <2> DEFINE q == <<dp>>
             r == [s EXCEPT !.pc = "exists", !.ip = old, !.dp = 0, !.puts = q]
  <2>1. "exists" \in Labels /\ q \in Seq(Inums) /\ 0 \in Numbers /\ old \in Inums
    BY <1>3, <1>5 DEF Labels, Numbers
  <2>2. q = <<dp>> /\ q # <<>> /\ Len(q) <= 2
    OBVIOUS
  <2>3. st' = [st EXCEPT ![p] = r]
    BY <1>3, <1>5
  <2>4. InodesKept(p)
    <3>1. CacheKept
      BY <1>3, <1>5, <2>1, SlottedReadKept
    <3> QED
      BY <1>1, <1>5, <3>1, Before DEF InodesKept, LocksKept
  <2> HIDE DEF q, s, dp, old
  <2>5. r \in States
    BY <1>3, <2>1 DEF States
  <2>6. r.pc = "exists" /\ r.cur = s.cur /\ r.path = s.path /\ r.puts = q /\ r.ip = old
        /\ r.dp = 0 /\ r.call = s.call
    BY <1>3 DEF States
  <2> HIDE DEF r
  <2>7. Shape(r)
    BY <1>3, <1>5, <2>2, <2>6 DEF Shape, HasIp, HasDp
  <2>8. r.pc \in Quiet /\ st[p].pc # "chdir2"
    BY <1>3, <2>6 DEF Quiet, s
  <2>9. RefsMove(p, r)
    <3>1. CwdIn(s, cwd[p]) = cwd[p] /\ Put1In(s) = 0 /\ Put2In(s) = 0
      BY <1>3, PutsIn DEF CwdIn
    <3>2. CwdIn(r, cwd[p]) = cwd[p] /\ Put1In(r) = dp /\ Put2In(r) = 0
      BY <2>2, <2>6, PutsIn DEF CwdIn
    <3>3. /\ ref' \in [Inums -> Int]
          /\ \A j \in Inums : ref'[j] = ref[j] + One(old = j) /\ ref[j] \in Int
      BY <1>5, <2>1, Before, ReferencedIs
    <3> QED
      BY <1>3, <2>6, <3>1, <3>2, <3>3 DEF RefsMove, OwnOf, One, s, dp
  <2> QED
    BY <1>1, <2>3, <2>4, <2>5, <2>7, <2>8, <2>9, QuietStep
<1>6. CASE /\ FreeInums # {}
           /\ dinode' = [dinode EXCEPT ![new] = [type |-> TypeOf(s.call.op), nlink |-> 0]]
           /\ ref' = Referenced(new)
           /\ cache' = [Slotted(new) EXCEPT ![dp] = Loaded(dp)]
           /\ lock' = [lock EXCEPT ![dp] = p]
           /\ st' = [st EXCEPT ![p].pc = "create2", ![p].ip = new]
  <2> DEFINE d == [type |-> TypeOf(s.call.op), nlink |-> 0]
             r == [s EXCEPT !.pc = "create2", !.ip = new]
  <2>1. new \in Inums /\ dinode[new].type = "none"
    <3>1. FreeInums \in SUBSET Nat
      BY DEF FreeInums, Inums
    <3>2. new \in FreeInums
      BY <1>6, <3>1, LeastIsIn, Zenon
    <3> QED
      BY <3>2 DEF FreeInums
  <2>2. d \in [type : Types, nlink : Int] /\ d.type # "none"
    BY DEF TypeOf, Types
  <2>3. st' = [st EXCEPT ![p] = r] /\ dinode' = [dinode EXCEPT ![new] = d]
    BY <1>3, <1>6
  <2>4. lock'[dp] = p /\ LocksKept(p) /\ lock' \in [Inums -> Procs \cup {Nobody}]
    BY <1>3, <1>6, Before DEF LocksKept
  <2> HIDE DEF d, new
  <2>5. InodesKept(p)
    <3>1. CacheKept /\ dinode' \in [Inums -> [type : Types, nlink : Int]]
      BY <1>3, <1>6, <2>1, <2>2, <2>3, IallocKept
    <3> QED
      BY <1>1, <2>4, <3>1, Before DEF InodesKept
  <2> HIDE DEF s, dp
  <2>6. r \in States
    <3>1. "create2" \in Labels /\ new \in Numbers
      BY <2>1 DEF Labels, Numbers
    <3> QED
      BY <1>3, <3>1 DEF States
  <2>7. r.pc = "create2" /\ r.cur = s.cur /\ r.path = s.path /\ r.puts = s.puts /\ r.ip = new
        /\ r.dp = dp /\ r.call = s.call
    BY <1>3 DEF States, dp
  <2>h. ~r.half
    BY <1>3, <1>h DEF States
  <2> HIDE DEF r
  <2>8. Shape(r)
    BY <1>3, <2>1, <2>7, <2>h DEF Shape, HasIp, HasDp
  <2>9. RefsMove(p, r)
    <3>1. CwdIn(s, cwd[p]) = cwd[p] /\ Put1In(s) = 0 /\ Put2In(s) = 0
      BY <1>3, PutsIn DEF CwdIn
    <3>2. CwdIn(r, cwd[p]) = cwd[p] /\ Put1In(r) = 0 /\ Put2In(r) = 0
      BY <1>3, <2>7, PutsIn DEF CwdIn
    <3>3. /\ ref' \in [Inums -> Int]
          /\ \A j \in Inums : ref'[j] = ref[j] + One(new = j) /\ ref[j] \in Int
      BY <1>6, <2>1, Before, ReferencedIs
    <3> QED
      BY <1>3, <2>7, <3>1, <3>2, <3>3 DEF RefsMove, OwnOf, One, s, dp
  <2>10. OwnLocks(p, r) /\ r.pc # "chdir2" /\ r.pc # "created" /\ r.pc # "unlinked"
    BY <2>4, <2>7 DEF OwnLocks
  <2>11. st[p].pc # "chdir2"
    BY <1>3 DEF s
  <2>12. st' = [st EXCEPT ![p] = r]
    BY <2>3
  <2> QED
    BY <1>1, <2>5, <2>6, <2>8, <2>9, <2>10, <2>11, <2>12, LockedStep
<1> QED
  BY <1>4, <1>5, <1>6 DEF Create

(* sys_link() writes the entry, or finds that it cannot.                   *)
LEMMA LinkEntryKeepsInv ==
  ASSUME FsInv, NEW p \in Procs, LinkEntry(p)
  PROVE  FsInv'
<1> DEFINE s == st[p]
           dp == s.dp
           i == s.ip
           old == Dirlookup(dp, Head(s.path))
<1>1. Ilock(p, "link2") /\ UNCHANGED <<dinode, tables>>
  BY DEF LinkEntry
<1>2. DirLocked(p, "link2")
  BY <1>1, IlockDp
<1>3. /\ s \in States /\ Shape(s) /\ st \in [Procs -> States] /\ 0 \notin Inums
      /\ s.pc = "link2" /\ s.puts = <<>> /\ dp \in Inums /\ s.cur = 0
      /\ i \in Inums /\ s.call.op = "link" /\ Head(s.path) \in Names /\ old \in Numbers
      /\ Loaded(dp).type # "none" /\ lock[dp] = Nobody
  BY <1>2 DEF DirLocked
<1>4. CASE /\ dir' = [dir EXCEPT ![dp][Head(s.path)] = i]
           /\ Read(dp) /\ UNCHANGED <<ref, lock, panic>>
           /\ st' = [st EXCEPT ![p].pc = "done", ![p].ip = 0, ![p].dp = 0,
                               ![p].path = <<>>, ![p].puts = <<dp, i>>]
  <2> DEFINE e == <<>>
             q == <<dp, i>>
             r == [s EXCEPT !.pc = "done", !.ip = 0, !.dp = 0, !.path = e, !.puts = q]
  <2>1. "done" \in Labels /\ e \in Seq(Names) /\ q \in Seq(Inums) /\ 0 \in Numbers
    BY <1>3 DEF Labels, Numbers
  <2>2. q = <<dp, i>> /\ q # <<>> /\ Len(q) <= 2
    OBVIOUS
  <2>3. st' = [st EXCEPT ![p] = r]
    BY <1>3, <1>4
  <2>4. InodesKept(p)
    <3>1. CacheKept
      BY <1>1, <1>3, <1>4, ReadKept
    <3>2. dir' \in [Inums -> Entries]
      <4>1. dir \in [Inums -> Entries] /\ i \in Inums \cup {0}
        BY <1>3, Before
      <4> QED
        BY <1>3, <1>4, <4>1 DEF Entries
    <3> QED
      BY <1>1, <1>4, <3>1, <3>2, Before DEF InodesKept, LocksKept
  <2> HIDE DEF e, q, s, dp, i
  <2>5. r \in States
    BY <1>3, <2>1 DEF States
  <2>6. r.pc = "done" /\ r.cur = s.cur /\ r.path = e /\ r.puts = q /\ r.ip = 0
        /\ r.dp = 0 /\ r.call = s.call
    BY <1>3 DEF States
  <2> HIDE DEF r
  <2>7. Shape(r)
    BY <1>3, <2>2, <2>6 DEF Shape, HasIp, HasDp
  <2>8. r.pc \in Quiet /\ st[p].pc # "chdir2"
    BY <1>3, <2>6 DEF Quiet, s
  <2>9. RefsMove(p, r)
    <3>1. CwdIn(s, cwd[p]) = cwd[p] /\ Put1In(s) = 0 /\ Put2In(s) = 0
      BY <1>3, PutsIn DEF CwdIn
    <3>2. CwdIn(r, cwd[p]) = cwd[p] /\ Put1In(r) = dp /\ Put2In(r) = i
      BY <2>2, <2>6, PutsIn DEF CwdIn
    <3> QED
      BY <1>3, <1>4, <2>6, <3>1, <3>2, Before DEF RefsMove, OwnOf, One, s, dp, i
  <2> QED
    BY <1>1, <2>3, <2>4, <2>5, <2>7, <2>8, <2>9, QuietStep
<1>5. CASE /\ old # 0 /\ ref' = Referenced(old)
           /\ cache' = [Slotted(old) EXCEPT ![dp] = Loaded(dp)]
           /\ lock' = [lock EXCEPT ![dp] = p]
           /\ st' = [st EXCEPT ![p].pc = "drop", ![p].path = <<>>, ![p].puts = <<old>>]
           /\ UNCHANGED dir
  <2> DEFINE e == <<>>
             q == <<old>>
             r == [s EXCEPT !.pc = "drop", !.path = e, !.puts = q]
  <2>1. "drop" \in Labels /\ e \in Seq(Names) /\ q \in Seq(Inums) /\ old \in Inums
    BY <1>3, <1>5 DEF Labels, Numbers
  <2>2. q = <<old>> /\ q # <<>> /\ Len(q) <= 2
    OBVIOUS
  <2>3. st' = [st EXCEPT ![p] = r]
    BY <1>3, <1>5
  <2>4. lock'[dp] = p /\ LocksKept(p) /\ lock' \in [Inums -> Procs \cup {Nobody}]
    BY <1>3, <1>5, Before DEF LocksKept
  <2>5. InodesKept(p)
    <3>1. CacheKept
      BY <1>1, <1>3, <1>5, <2>1, SlottedReadKept
    <3> QED
      BY <1>1, <1>5, <2>4, <3>1, Before DEF InodesKept
  <2> HIDE DEF e, q, s, dp, i, old
  <2>6. r \in States
    BY <1>3, <2>1 DEF States
  <2>7. r.pc = "drop" /\ r.cur = s.cur /\ r.path = e /\ r.puts = q /\ r.ip = i
        /\ r.dp = dp /\ r.call = s.call
    BY <1>3 DEF States, dp, i
  <2> HIDE DEF r
  <2>8. Shape(r)
    BY <1>3, <2>2, <2>7 DEF Shape, HasIp, HasDp
  <2>9. RefsMove(p, r)
    <3>1. CwdIn(s, cwd[p]) = cwd[p] /\ Put1In(s) = 0 /\ Put2In(s) = 0
      BY <1>3, PutsIn DEF CwdIn
    <3>2. CwdIn(r, cwd[p]) = cwd[p] /\ Put1In(r) = old /\ Put2In(r) = 0
      BY <2>2, <2>7, PutsIn DEF CwdIn
    <3>3. /\ ref' \in [Inums -> Int]
          /\ \A j \in Inums : ref'[j] = ref[j] + One(old = j) /\ ref[j] \in Int
      BY <1>5, <2>1, Before, ReferencedIs
    <3> QED
      BY <1>3, <2>7, <3>1, <3>2, <3>3 DEF RefsMove, OwnOf, One, s, dp, i
  <2>10. OwnLocks(p, r) /\ r.pc # "chdir2" /\ r.pc # "created" /\ r.pc # "unlinked"
    BY <2>4, <2>7 DEF OwnLocks
  <2>11. st[p].pc # "chdir2"
    BY <1>3 DEF s
  <2> QED
    BY <1>1, <2>3, <2>5, <2>6, <2>8, <2>9, <2>10, <2>11, LockedStep
<1> QED
  BY <1>4, <1>5 DEF LinkEntry

(* The error paths put the directory.                                      *)
LEMMA DropParentKeepsInv ==
  ASSUME FsInv, NEW p \in Procs, DropParent(p)
  PROVE  FsInv'
<1> DEFINE s == st[p]
           dp == s.dp
           a == IF s.call.op = "link" THEN "linkbad" ELSE "done"
           q == <<dp>>
           r == [s EXCEPT !.pc = a, !.dp = 0, !.puts = q]
<1>1. /\ s.pc = "drop" /\ s.puts = <<>> /\ lock' = [lock EXCEPT ![dp] = Nobody]
      /\ st' = [st EXCEPT ![p].pc = a, ![p].dp = 0, ![p].puts = q]
      /\ UNCHANGED <<dinode, dir, cache, ref, tables>>
  BY DEF DropParent
<1>2. s \in States /\ Shape(s) /\ st \in [Procs -> States] /\ 0 \notin Inums
  BY Before
<1>3. dp \in Inums /\ s.cur = 0 /\ (s.ip # 0 <=> s.call.op = "link")
  BY <1>1, <1>2 DEF Shape, HasIp, HasDp, States, Numbers
<1>4. lock[dp] = p
  BY <1>1 DEF FsInv, LocksHeld
<1>5. a \in Labels /\ q \in Seq(Inums) /\ 0 \in Numbers
  BY <1>3 DEF Labels, Numbers
<1>6. q = <<dp>> /\ q # <<>> /\ Len(q) <= 2
      /\ (s.call.op = "link" => a = "linkbad") /\ (s.call.op # "link" => a = "done")
  OBVIOUS
<1>7. st' = [st EXCEPT ![p] = r]
  BY <1>1, <1>2
<1>8. InodesKept(p)
  <2>1. LocksKept(p) /\ lock' \in [Inums -> Procs \cup {Nobody}]
    BY <1>1, <1>3, <1>4, Before DEF LocksKept
  <2>2. CacheKept
    BY <1>1, SameCacheKept
  <2> QED
    BY <1>1, <2>1, <2>2, Before DEF InodesKept
<1> HIDE DEF a, q, s, dp
<1>9. r \in States
  BY <1>2, <1>5 DEF States
<1>10. r.pc = a /\ r.cur = s.cur /\ r.path = s.path /\ r.puts = q /\ r.ip = s.ip
       /\ r.dp = 0 /\ r.call = s.call
  BY <1>2 DEF States
<1> HIDE DEF r
<1>11. Shape(r)
  BY <1>2, <1>3, <1>6, <1>10 DEF Shape, HasIp, HasDp
<1>12. r.pc \in Quiet /\ st[p].pc # "chdir2"
  BY <1>1, <1>6, <1>10 DEF Quiet, s
<1>13. RefsMove(p, r)
  <2>1. CwdIn(s, cwd[p]) = cwd[p] /\ Put1In(s) = 0 /\ Put2In(s) = 0
    BY <1>1, PutsIn DEF CwdIn
  <2>2. CwdIn(r, cwd[p]) = cwd[p] /\ Put1In(r) = dp /\ Put2In(r) = 0
    BY <1>6, <1>10, <1>12, PutsIn DEF CwdIn, Quiet
  <2> QED
    BY <1>1, <1>2, <1>10, <2>1, <2>2, Before DEF RefsMove, OwnOf, One, s, dp
<1> QED
  BY <1>1, <1>7, <1>8, <1>9, <1>11, <1>12, <1>13, QuietStep

(* A system call holds dp and locks ip.                                    *)
BothLocked(p, l) ==
  /\ st[p] \in States /\ Shape(st[p]) /\ st \in [Procs -> States] /\ 0 \notin Inums
  /\ st[p].pc = l /\ st[p].puts = <<>> /\ st[p].cur = 0
  /\ st[p].dp \in Inums /\ st[p].dp # 0 /\ st[p].ip \in Inums /\ st[p].ip # 0
  /\ st[p].ip # st[p].dp
  /\ l = "unlink2" => st[p].call.op = "unlink"
  /\ st[p].path \in Seq(Names) /\ st[p].path # <<>> /\ Head(st[p].path) \in Names
  /\ Loaded(st[p].ip).type # "none"
  /\ lock[st[p].dp] = p /\ lock[st[p].ip] = Nobody

(* A step with directory and inode locked: both are in hand and differ.    *)
LEMMA IlockBoth ==
  ASSUME FsInv, NEW p \in Procs, NEW l \in {"create2", "unlink2"}, Ilock(p, l)
  PROVE  BothLocked(p, l)
<1> DEFINE s == st[p]
<1>1. s \in States /\ Shape(s) /\ st \in [Procs -> States] /\ 0 \notin Inums
  BY Before
<1>2. /\ s.pc = l /\ s.puts = <<>>
      /\ s.pc \in {"open", "exists", "create2", "link", "linkbad", "unlink2", "chdir"}
           => Target(p) = s.ip
      /\ Loaded(Target(p)).type # "none" /\ lock[Target(p)] = Nobody
  BY IlockIs
<1>3. Target(p) = s.ip
  BY <1>2
<1>4. lock[s.dp] = p /\ p # Nobody
  BY <1>2, FileSysAssumption DEF FsInv, LocksHeld
<1> HIDE DEF s
<1>5. /\ s.dp \in Inums /\ s.dp # 0 /\ s.cur = 0 /\ s.ip \in Inums /\ s.ip # 0
      /\ l = "unlink2" => s.call.op = "unlink"
  BY <1>1, <1>2 DEF Shape, HasIp, HasDp, States, Numbers
<1>6. s.path \in Seq(Names) /\ s.path # <<>> /\ Head(s.path) \in Names
  <2>1. s.path \in Seq(Names) /\ s.path # <<>>
    BY <1>1, <1>2 DEF Shape, States
  <2> QED
    BY <2>1
<1>7. s.ip # s.dp
  BY <1>2, <1>3, <1>4
<1> QED
  BY <1>1, <1>2, <1>3, <1>4, <1>5, <1>6, <1>7 DEF BothLocked, s

(* Inode i is written, and of inode d at most the link count.              *)
TwoWritten(i, d) ==
  /\ cache' \in [Inums -> Copies] /\ dinode' \in [Inums -> [type : Types, nlink : Int]]
  /\ cache'[i].valid /\ cache'[i].type = dinode'[i].type /\ cache'[i].nlink = dinode'[i].nlink
  /\ dinode'[i].type # "none"
  /\ cache'[d].valid <=> cache[d].valid
  /\ cache'[d].type = cache[d].type /\ dinode'[d].type = dinode[d].type
  /\ cache[d].valid => cache'[d].nlink = dinode'[d].nlink
  /\ \A x \in Inums : x # i /\ x # d => cache'[x] = cache[x] /\ dinode'[x] = dinode[x]

(* iupdate() of a directory and of an inode in it keeps the cache          *)
(* coherent.                                                               *)
LEMMA TwoWrittenKept ==
  ASSUME FsInv, NEW i \in Inums, NEW d \in Inums, TwoWritten(i, d)
  PROVE  CacheKept
<1>1. Coherent'
  BY DEF TwoWritten, FsInv, Coherent
<1>2. AllocatedKept /\ ValidKept
  BY DEF TwoWritten, AllocatedKept, ValidKept
<1> QED
  BY <1>1, <1>2 DEF CacheKept, TwoWritten

(* The state after create() and sys_unlink() put the directory.            *)
LEMMA ParentPut ==
  ASSUME FsInv, NEW p \in Procs, NEW l \in {"create2", "unlink2"}, BothLocked(p, l),
         NEW a \in {"created", "unlinked"},
         lock' = [lock EXCEPT ![st[p].dp] = Nobody, ![st[p].ip] = p],
         st' = [st EXCEPT ![p].pc = a, ![p].dp = 0, ![p].path = <<>>,
                          ![p].puts = <<st[p].dp>>],
         UNCHANGED <<ref, tables>>, TwoWritten(st[p].ip, st[p].dp),
         dir' \in [Inums -> Entries]
  PROVE  FsInv'
<1> DEFINE s == st[p]
           dp == s.dp
           i == s.ip
           e == <<>>
           q == <<dp>>
           r == [s EXCEPT !.pc = a, !.dp = 0, !.path = e, !.puts = q]
<1>1. /\ s \in States /\ Shape(s) /\ st \in [Procs -> States] /\ 0 \notin Inums
      /\ s.pc = l /\ s.puts = <<>> /\ s.cur = 0 /\ dp \in Inums /\ i \in Inums /\ i # dp
      /\ lock[dp] = p /\ lock[i] = Nobody
  BY DEF BothLocked
<1>2. a \in Labels /\ e \in Seq(Names) /\ q \in Seq(Inums) /\ 0 \in Numbers
  BY <1>1 DEF Labels, Numbers
<1>3. q = <<dp>> /\ q # <<>> /\ Len(q) <= 2
  OBVIOUS
<1>4. st' = [st EXCEPT ![p] = r]
  BY <1>1
<1>5. lock'[i] = p /\ LocksKept(p) /\ lock' \in [Inums -> Procs \cup {Nobody}]
  <2>1. lock \in [Inums -> Procs \cup {Nobody}]
    BY Before
  <2>2. lock' = [lock EXCEPT ![dp] = Nobody, ![i] = p]
    OBVIOUS
  <2> HIDE DEF dp, i, s
  <2> QED
    BY <1>1, <2>1, <2>2 DEF LocksKept
<1>6. TwoWritten(i, dp)
  OBVIOUS
<1> HIDE DEF e, q, s, dp, i
<1>7. CacheKept
  BY <1>1, <1>6, TwoWrittenKept
<1>8. InodesKept(p)
  BY <1>5, <1>6, <1>7 DEF InodesKept, TwoWritten
<1>9. r \in States
  BY <1>1, <1>2 DEF States
<1>10. r.pc = a /\ r.cur = s.cur /\ r.path = e /\ r.puts = q /\ r.ip = i
       /\ r.dp = 0 /\ r.call = s.call
  BY <1>1 DEF States, i
<1> HIDE DEF r
<1>11. Shape(r)
  BY <1>1, <1>3, <1>10 DEF Shape, HasIp, HasDp
<1>12. RefsMove(p, r)
  <2>1. CwdIn(s, cwd[p]) = cwd[p] /\ Put1In(s) = 0 /\ Put2In(s) = 0
    BY <1>1, PutsIn DEF CwdIn
  <2>2. CwdIn(r, cwd[p]) = cwd[p] /\ Put1In(r) = dp /\ Put2In(r) = 0
    BY <1>3, <1>10, PutsIn DEF CwdIn
  <2> QED
    BY <1>1, <1>10, <2>1, <2>2, Before DEF RefsMove, OwnOf, One, s, dp, i
<1>13. OwnLocks(p, r) /\ r.pc # "chdir2"
  BY <1>5, <1>10 DEF OwnLocks
<1>14. dinode'[r.ip].type # "none" /\ cache'[r.ip].valid
  BY <1>6, <1>10 DEF TwoWritten
<1>15. st[p].pc # "chdir2"
  BY <1>1 DEF s
<1> QED
  BY <1>4, <1>8, <1>9, <1>11, <1>12, <1>13, <1>14, <1>15, LockedStep

(* create() makes the new inode and its entries.                           *)
LEMMA CreateLinkKeepsInv ==
  ASSUME FsInv, NEW p \in Procs, CreateLink(p)
  PROVE  FsInv'
<1> DEFINE s == st[p]
           dp == s.dp
           i == s.ip
           name == Head(s.path)
           t == Loaded(i).type
           dirs == [dir EXCEPT ![dp][name] = i]
           linked == [dinode EXCEPT ![i] = [type |-> t, nlink |-> 1]]
           k == [valid |-> TRUE, type |-> t, nlink |-> 1]
           d == [type |-> t, nlink |-> 1]
           n == IF t = "dir" THEN cache[dp].nlink + 1 ELSE cache[dp].nlink
           v == [cache[dp] EXCEPT !.nlink = n]
           u == [dinode[dp] EXCEPT !.nlink = cache[dp].nlink + 1]
<1>1. /\ Ilock(p, "create2")
      /\ \/ /\ t = "dir"
            /\ dinode' = [linked EXCEPT ![dp].nlink = cache[dp].nlink + 1]
            /\ dir' = [dirs EXCEPT ![i]["."] = i, ![i][".."] = dp]
         \/ t # "dir" /\ dinode' = linked /\ dir' = dirs
      /\ cache' = [cache EXCEPT ![dp].nlink = IF t = "dir" THEN @ + 1 ELSE @, ![i] = k]
      /\ lock' = [lock EXCEPT ![dp] = Nobody, ![i] = p]
      /\ st' = [st EXCEPT ![p].pc = "created", ![p].dp = 0, ![p].path = <<>>,
                          ![p].puts = <<dp>>]
      /\ UNCHANGED <<ref, tables>>
  BY DEF CreateLink
<1>2. BothLocked(p, "create2")
  BY <1>1, IlockBoth
<1>3. /\ dp \in Inums /\ i \in Inums /\ i # dp /\ t # "none" /\ name \in Names
  BY <1>2 DEF BothLocked
<1>4. /\ dinode \in [Inums -> [type : Types, nlink : Int]] /\ cache \in [Inums -> Copies]
      /\ dir \in [Inums -> Entries]
  BY Before
<1>5. t \in Types
  BY <1>3, LoadedIs DEF Copies
<1>6. k \in Copies /\ k.valid /\ k.type = t /\ k.nlink = 1
      /\ d \in [type : Types, nlink : Int] /\ d.type = t /\ d.nlink = 1
  BY <1>5 DEF Copies
<1>7. cache[dp] \in Copies /\ dinode[dp] \in [type : Types, nlink : Int] /\ n \in Int
  <2>1. cache[dp] \in Copies /\ dinode[dp] \in [type : Types, nlink : Int]
    BY <1>3, <1>4
  <2> QED
    BY <2>1 DEF Copies
<1>8. v \in Copies /\ v.type = cache[dp].type /\ v.nlink = n
  <2> HIDE DEF n
  <2> QED
    BY <1>7 DEF Copies
<1>9. v.valid <=> cache[dp].valid
  BY <1>7 DEF Copies
<1>10. u \in [type : Types, nlink : Int] /\ u.type = dinode[dp].type
       /\ u.nlink = cache[dp].nlink + 1
  BY <1>7 DEF Copies
<1>11. dir' \in [Inums -> Entries]
  <2>0. i \in Inums \cup {0} /\ dp \in Inums \cup {0} /\ "." \in Names /\ ".." \in Names
    BY <1>3, FileSysAssumption DEF Dots
  <2> HIDE DEF i, dp, name
  <2>1. dirs \in [Inums -> Entries]
    BY <1>3, <1>4, <2>0 DEF Entries
  <2> HIDE DEF dirs
  <2>2. [dirs EXCEPT ![i]["."] = i, ![i][".."] = dp] \in [Inums -> Entries]
    BY <1>3, <2>0, <2>1 DEF Entries
  <2> QED
    BY <1>1, <2>1, <2>2
<1>12. cache' = [cache EXCEPT ![dp] = v, ![i] = k]
  BY <1>1, <1>3, <1>4
<1>13. \/ t = "dir" /\ dinode' = [dinode EXCEPT ![i] = d, ![dp] = u]
       \/ t # "dir" /\ dinode' = [dinode EXCEPT ![i] = d]
  BY <1>1, <1>3, <1>4
<1>14. n = (IF t = "dir" THEN cache[dp].nlink + 1 ELSE cache[dp].nlink)
  OBVIOUS
<1>15. cache[dp].valid => cache[dp].nlink = dinode[dp].nlink
  BY <1>3 DEF FsInv, Coherent
<1> HIDE DEF k, d, u, v, n, t, dp, i
<1>16. /\ cache' \in [Inums -> Copies] /\ cache'[i] = k /\ cache'[dp] = v
       /\ \A x \in Inums : x # i /\ x # dp => cache'[x] = cache[x]
  BY <1>3, <1>4, <1>6, <1>8, <1>12
<1>17. /\ dinode' \in [Inums -> [type : Types, nlink : Int]] /\ dinode'[i] = d
       /\ t = "dir" => dinode'[dp] = u
       /\ t # "dir" => dinode'[dp] = dinode[dp]
       /\ \A x \in Inums : x # i /\ x # dp => dinode'[x] = dinode[x]
  BY <1>3, <1>4, <1>6, <1>10, <1>13
<1>18. dinode'[dp].type = dinode[dp].type
       /\ (cache[dp].valid => cache'[dp].nlink = dinode'[dp].nlink)
  <2>1. CASE t = "dir"
    BY <1>8, <1>10, <1>14, <1>16, <1>17, <2>1
  <2>2. CASE t # "dir"
    BY <1>8, <1>14, <1>15, <1>16, <1>17, <2>2
  <2> QED
    BY <2>1, <2>2
<1>19. TwoWritten(i, dp)
  BY <1>3, <1>6, <1>8, <1>9, <1>16, <1>17, <1>18 DEF TwoWritten
<1>20. "created" \in {"created", "unlinked"} /\ "create2" \in {"create2", "unlink2"}
  OBVIOUS
<1> QED
  BY <1>1, <1>2, <1>11, <1>19, <1>20, ParentPut DEF i, dp, s

(* sys_unlink() removes the entry.                                         *)
LEMMA UnlinkEntryKeepsInv ==
  ASSUME FsInv, NEW p \in Procs, UnlinkEntry(p)
  PROVE  FsInv'
<1> DEFINE s == st[p]
           dp == s.dp
           i == s.ip
           name == Head(s.path)
           isdir == Loaded(i).type = "dir"
           n == cache[dp].nlink - (IF isdir THEN 1 ELSE 0)
<1>1. Ilock(p, "unlink2") /\ UNCHANGED <<ref, tables>>
  BY DEF UnlinkEntry
<1>2. BothLocked(p, "unlink2")
  BY <1>1, IlockBoth
<1>3. /\ s \in States /\ Shape(s) /\ st \in [Procs -> States] /\ 0 \notin Inums
      /\ s.pc = "unlink2" /\ s.puts = <<>> /\ s.cur = 0 /\ dp \in Inums /\ i \in Inums
      /\ i # dp /\ s.call.op = "unlink" /\ name \in Names /\ Loaded(i).type # "none"
      /\ lock[dp] = p
  BY <1>2 DEF BothLocked
<1>4. CASE UNCHANGED <<dinode, dir, cache, lock, st>>
  BY <1>1, <1>4, StutterKeepsInv
<1>5. CASE /\ Read(i) /\ UNCHANGED <<dinode, dir, lock, panic>>
           /\ st' = [st EXCEPT ![p].pc = "drop", ![p].ip = 0, ![p].path = <<>>,
                               ![p].puts = <<i>>]
  <2> DEFINE e == <<>>
             q == <<i>>
             r == [s EXCEPT !.pc = "drop", !.ip = 0, !.path = e, !.puts = q]
  <2>1. "drop" \in Labels /\ e \in Seq(Names) /\ q \in Seq(Inums) /\ 0 \in Numbers
    BY <1>3 DEF Labels, Numbers
  <2>2. q = <<i>> /\ q # <<>> /\ Len(q) <= 2
    OBVIOUS
  <2>3. st' = [st EXCEPT ![p] = r]
    BY <1>3, <1>5
  <2>4. InodesKept(p)
    BY <1>1, <1>3, <1>5, ReadInodes
  <2>5. lock' = lock
    BY <1>5
  <2> HIDE DEF e, q, s, dp, i
  <2>6. r \in States
    BY <1>3, <2>1 DEF States
  <2>7. r.pc = "drop" /\ r.cur = s.cur /\ r.path = e /\ r.puts = q /\ r.ip = 0
        /\ r.dp = dp /\ r.call = s.call
    BY <1>3 DEF States, dp
  <2> HIDE DEF r
  <2>8. Shape(r)
    BY <1>3, <2>2, <2>7 DEF Shape, HasIp, HasDp
  <2>9. RefsMove(p, r)
    <3>1. CwdIn(s, cwd[p]) = cwd[p] /\ Put1In(s) = 0 /\ Put2In(s) = 0
      BY <1>3, PutsIn DEF CwdIn
    <3>2. CwdIn(r, cwd[p]) = cwd[p] /\ Put1In(r) = i /\ Put2In(r) = 0
      BY <2>2, <2>7, PutsIn DEF CwdIn
    <3> QED
      BY <1>1, <1>3, <2>7, <3>1, <3>2, Before DEF RefsMove, OwnOf, One, s, dp, i
  <2>10. OwnLocks(p, r) /\ r.pc # "chdir2" /\ r.pc # "created" /\ r.pc # "unlinked"
    BY <1>3, <2>5, <2>7 DEF OwnLocks
  <2>11. st[p].pc # "chdir2"
    BY <1>3 DEF s
  <2> QED
    BY <1>1, <2>3, <2>4, <2>6, <2>8, <2>9, <2>10, <2>11, LockedStep
<1>6. CASE /\ dir' = [dir EXCEPT ![dp][name] = 0]
           /\ dinode' = [dinode EXCEPT ![dp].nlink = n]
           /\ cache' = [cache EXCEPT ![i] = Loaded(i), ![dp].nlink = n]
           /\ lock' = [lock EXCEPT ![dp] = Nobody, ![i] = p]
           /\ st' = [st EXCEPT ![p].pc = "unlinked", ![p].dp = 0, ![p].path = <<>>,
                               ![p].puts = <<dp>>]
  <2> DEFINE k == Loaded(i)
             v == [cache[dp] EXCEPT !.nlink = n]
             u == [dinode[dp] EXCEPT !.nlink = n]
  <2>1. /\ dinode \in [Inums -> [type : Types, nlink : Int]] /\ cache \in [Inums -> Copies]
        /\ dir \in [Inums -> Entries]
    BY Before
  <2>2. /\ k \in Copies /\ k.valid /\ k.type = dinode[i].type /\ k.nlink = dinode[i].nlink
        /\ k.type # "none"
    BY <1>3, LoadedIs
  <2>3. cache[dp] \in Copies /\ dinode[dp] \in [type : Types, nlink : Int] /\ n \in Int
    <3>1. cache[dp] \in Copies /\ dinode[dp] \in [type : Types, nlink : Int]
      BY <1>3, <2>1
    <3> QED
      BY <3>1 DEF Copies
  <2>4. cache' = [cache EXCEPT ![i] = k, ![dp] = v] /\ dinode' = [dinode EXCEPT ![dp] = u]
    BY <1>3, <1>6, <2>1
  <2> HIDE DEF n
  <2>5. /\ v \in Copies /\ v.type = cache[dp].type /\ v.nlink = n
        /\ u \in [type : Types, nlink : Int] /\ u.type = dinode[dp].type /\ u.nlink = n
    BY <2>3 DEF Copies
  <2>6. v.valid <=> cache[dp].valid
    BY <2>3 DEF Copies
  <2>7. dir' \in [Inums -> Entries]
    BY <1>3, <1>6, <2>1 DEF Entries
  <2> HIDE DEF k, u, v, dp, i
  <2>8. /\ cache' \in [Inums -> Copies] /\ cache'[i] = k /\ cache'[dp] = v
        /\ \A x \in Inums : x # i /\ x # dp => cache'[x] = cache[x]
    BY <1>3, <2>1, <2>2, <2>4, <2>5
  <2>9. /\ dinode' \in [Inums -> [type : Types, nlink : Int]] /\ dinode'[dp] = u
        /\ \A x \in Inums : x # dp => dinode'[x] = dinode[x]
    BY <1>3, <2>1, <2>4, <2>5
  <2>10. TwoWritten(i, dp)
    BY <1>3, <2>2, <2>5, <2>6, <2>8, <2>9 DEF TwoWritten
  <2>11. "unlinked" \in {"created", "unlinked"} /\ "unlink2" \in {"create2", "unlink2"}
    OBVIOUS
  <2> QED
    BY <1>1, <1>2, <1>6, <2>7, <2>10, <2>11, ParentPut DEF i, dp, s
<1> QED
  BY <1>4, <1>5, <1>6 DEF UnlinkEntry

------------------------------------------------------------------------------
(* The invariant.                                                          *)

(* The state after mkfs and boot satisfies the invariant.                  *)
LEMMA FsInit == Init => FsInv
<1> SUFFICES ASSUME Init PROVE FsInv
  OBVIOUS
<1>1. 0 \notin Inums /\ Root \in Inums /\ ".." \in Names /\ "." \in Names /\ NFILE \in Nat
  BY FileSysAssumption DEF Dots, Inums
<1>2. IsFiniteSet(Procs) /\ Cardinality(Procs) \in Nat
  BY FileSysAssumption, FS_CardinalityType
<1>3. /\ Idle \in States /\ Shape(Idle)
      /\ Idle.pc = "idle" /\ Idle.cur = 0 /\ Idle.ip = 0 /\ Idle.dp = 0 /\ Idle.puts = <<>>
  BY IdleIs
<1>4. \A p \in Procs : st[p] = Idle /\ cwd[p] = Root
  BY DEF Init
<1> DEFINE w == [ref |-> 0, ip |-> 0]
           k == [valid |-> FALSE, type |-> "none", nlink |-> 0]
<1>5. w \in [ref : Int, ip : Numbers] /\ w.ref = 0 /\ k \in Copies /\ ~k.valid
  BY DEF Numbers, Copies, Types
<1>6. file = [f \in 1..NFILE |-> w] /\ cache = [i \in Inums |-> k]
  BY DEF Init
<1>7. TypeOK
  <2>1. dinode \in [Inums -> [type : Types, nlink : Int]]
    BY DEF Init, MkfsIalloc, Types
  <2>2. dir \in [Inums -> Entries]
    <3>1. Empty \in Entries
      BY DEF Empty, Entries
    <3>2. [Empty EXCEPT !["."] = Root, ![".."] = Root] \in Entries
      BY <1>1, <3>1 DEF Entries
    <3> QED
      BY <3>1, <3>2 DEF Init, MkfsRoot
  <2>3. cache \in [Inums -> Copies]
    BY <1>5, <1>6
  <2>4. ref \in [Inums -> Int] /\ lock \in [Inums -> Procs \cup {Nobody}]
    BY <1>2 DEF Init
  <2>5. file \in [1..NFILE -> [ref : Int, ip : Numbers]]
    BY <1>5, <1>6
  <2>6. ofile \in [Procs -> [FDs -> 0..NFILE]]
    BY <1>1 DEF Init
  <2>7. cwd \in [Procs -> Inums] /\ menu \in Menus
    BY <1>1 DEF Init
  <2>8. st \in [Procs -> States]
    BY <1>3 DEF Init
  <2> QED
    BY <2>1, <2>2, <2>3, <2>4, <2>5, <2>6, <2>7, <2>8
    DEF TypeOK, InodesTypeOK, FilesTypeOK, Copies
<1>8. ShapeOK /\ LocksHeld /\ UnlinkedValid
  BY <1>3, <1>4 DEF ShapeOK, LocksHeld, UnlinkedValid
<1> HIDE DEF w, k
<1>9. Coherent
  BY <1>5, <1>6 DEF Coherent
<1>10. FilesCounted
  <2> SUFFICES ASSUME NEW f \in 1..NFILE PROVE file[f].ref = Cardinality(Descs(f))
    BY DEF FilesCounted
  <2>1. \A y \in Procs \X FDs : ofile[y[1]][y[2]] = 0
    BY DEF Init
  <2>2. Descs(f) = {}
    BY <2>1 DEF Descs
  <2> QED
    BY <1>5, <1>6, <2>2, FS_EmptySet
<1>11. FilesHaveInode
  BY <1>5, <1>6 DEF FilesHaveInode
<1>12. HeldAllocated
  <2>1. dinode[Root].type # "none"
    BY <1>1 DEF Init, MkfsIalloc
  <2> QED
    BY <1>3, <1>4, <1>5, <1>6, <2>1 DEF HeldAllocated
<1>13. RefCounted
  <2> SUFFICES ASSUME NEW i \in Inums PROVE ref[i] = Total(i)
    BY DEF RefCounted
  <2>1. CwdOf(i) = IF i = Root THEN Procs ELSE {}
    BY <1>3, <1>4 DEF CwdOf, Cwd, CwdIn
  <2>2. CurOf(i) = {} /\ IpOf(i) = {} /\ DpOf(i) = {}
    BY <1>1, <1>3, <1>4 DEF CurOf, IpOf, DpOf
  <2>3. Put1Of(i) = {} /\ Put2Of(i) = {}
    <3>1. Put1In(Idle) = 0 /\ Put2In(Idle) = 0
      BY <1>3, PutsIn
    <3> QED
      BY <1>1, <1>4, <3>1 DEF Put1Of, Put2Of, Put1, Put2
  <2>4. FilesOf(i) = {}
    BY <1>1, <1>5, <1>6 DEF FilesOf, Inode, InodeIn
  <2>5. Total(i) = Cardinality(CwdOf(i)) + 0 + 0 + 0 + 0 + 0 + 0
    BY <2>2, <2>3, <2>4, FS_EmptySet DEF Total
  <2>6. ref[i] = IF i = Root THEN Cardinality(Procs) ELSE 0
    BY DEF Init
  <2> QED
    BY <1>2, <2>1, <2>5, <2>6, FS_EmptySet
<1> QED
  BY <1>7, <1>8, <1>9, <1>10, <1>11, <1>12, <1>13 DEF FsInv

(* Every step preserves the invariant.                                     *)
LEMMA FsNext == FsInv /\ [Next]_vars => FsInv'
<1> SUFFICES ASSUME FsInv, [Next]_vars PROVE FsInv'
  OBVIOUS
<1>1. CASE UNCHANGED vars
  BY <1>1, StutterKeepsInv DEF vars, tables
<1>2. ASSUME NEW p \in Procs, Start(p) PROVE FsInv'
  BY <1>2, StartKeepsInv
<1>3. ASSUME NEW p \in Procs, WalkStep(p) \/ WalkEnd(p) PROVE FsInv'
  BY <1>3, WalkStepKeepsInv, WalkEndKeepsInv
<1>4. ASSUME NEW p \in Procs, IlockNoType(p) PROVE FsInv'
  BY <1>4, StutterKeepsInv DEF IlockNoType
<1>5. ASSUME NEW p \in Procs, IputLocked(p) \/ IputUnref(p) PROVE FsInv'
  BY <1>5, IputLockedKeepsInv, IputUnrefKeepsInv
<1>6. ASSUME NEW p \in Procs, Open(p) PROVE FsInv'
  BY <1>6, OpenKeepsInv
<1>7. ASSUME NEW p \in Procs, NEW d \in FDs, Dup(p, d) \/ Close(p, d) PROVE FsInv'
  BY <1>7, DupKeepsInv, CloseKeepsInv
<1>8. ASSUME NEW p \in Procs, Create(p) \/ CreateExists(p) \/ CreateLink(p) \/ Created(p)
      PROVE  FsInv'
  BY <1>8, CreateKeepsInv, CreateExistsKeepsInv, CreateLinkKeepsInv, CreatedKeepsInv
<1>9. ASSUME NEW p \in Procs, Link(p) \/ LinkEntry(p) \/ DropParent(p) \/ LinkBad(p)
      PROVE  FsInv'
  BY <1>9, LinkKeepsInv, LinkEntryKeepsInv, DropParentKeepsInv, LinkBadKeepsInv
<1>10. ASSUME NEW p \in Procs, Unlink(p) \/ UnlinkEntry(p) \/ Unlinked(p) PROVE FsInv'
  BY <1>10, UnlinkKeepsInv, UnlinkEntryKeepsInv, UnlinkedKeepsInv
<1>11. ASSUME NEW p \in Procs, Chdir(p) \/ ChdirSet(p) \/ Return(p) PROVE FsInv'
  BY <1>11, ChdirKeepsInv, ChdirSetKeepsInv, ReturnKeepsInv
<1> QED
  BY <1>1, <1>2, <1>3, <1>4, <1>5, <1>6, <1>7, <1>8, <1>9, <1>10, <1>11 DEF Next

(* The invariant holds in every reachable state.                           *)
LEMMA FsAlways == Spec => []FsInv
BY FsInit, FsNext, PTL DEF Spec

------------------------------------------------------------------------------
(* The pointers, counted apart.                                            *)

Tag(t, S) == {<<t, x>> : x \in S}
TagPut(k, S) == {<<"put", x, k>> : x \in S}

(* Tagging the elements of a set keeps their number.                       *)
LEMMA TagCount ==
  ASSUME NEW t, NEW S, IsFiniteSet(S)
  PROVE  /\ IsFiniteSet(Tag(t, S)) /\ Cardinality(Tag(t, S)) = Cardinality(S)
         /\ IsFiniteSet(TagPut(t, S)) /\ Cardinality(TagPut(t, S)) = Cardinality(S)
<1> DEFINE f == [x \in S |-> <<t, x>>]
           g == [x \in S |-> <<"put", x, t>>]
<1>1. f \in Bijection(S, Tag(t, S))
  BY DEF Bijection, Injection, Surjection, IsInjective, Tag
<1>2. g \in Bijection(S, TagPut(t, S))
  BY DEF Bijection, Injection, Surjection, IsInjective, TagPut
<1>3. ExistsBijection(S, Tag(t, S)) /\ ExistsBijection(S, TagPut(t, S))
  BY <1>1, <1>2 DEF ExistsBijection
<1> QED
  BY <1>3, FS_Bijection

(* The size of a disjoint union.                                           *)
LEMMA Disjoint ==
  ASSUME NEW S, IsFiniteSet(S), NEW T, IsFiniteSet(T), \A x \in S : x \notin T
  PROVE  /\ IsFiniteSet(S \cup T)
         /\ Cardinality(S \cup T) = Cardinality(S) + Cardinality(T)
<1>1. S \cap T = {}
  OBVIOUS
<1>2. Cardinality(S) \in Nat /\ Cardinality(T) \in Nat
  BY FS_CardinalityType
<1>3. /\ IsFiniteSet(S \cup T)
      /\ Cardinality(S \cup T) = Cardinality(S) + Cardinality(T) - Cardinality(S \cap T)
  BY FS_Union, Zenon
<1>4. Cardinality(S \cap T) = 0
  BY <1>1, FS_EmptySet, Zenon
<1> QED
  BY <1>2, <1>3, <1>4

(* The pointers counted kind by kind are those of ReferencesExact.         *)
LEMMA PointersCounted ==
  ASSUME FsInv, NEW i \in Inums
  PROVE  Cardinality(Pointers(i)) = Total(i)
<1> DEFINE A == Tag("cwd", CwdOf(i))
           F == Tag("file", FilesOf(i))
           C == Tag("cur", CurOf(i))
           I == Tag("ip", IpOf(i))
           D == Tag("dp", DpOf(i))
           P == TagPut(1, Put1Of(i))
           Q == TagPut(2, Put2Of(i))
<1>1. i # 0 /\ IsFiniteSet(Procs) /\ IsFiniteSet(1..NFILE)
  BY Finite DEF Inums
<1>2. /\ IsFiniteSet(CwdOf(i)) /\ IsFiniteSet(CurOf(i)) /\ IsFiniteSet(IpOf(i))
      /\ IsFiniteSet(DpOf(i)) /\ IsFiniteSet(Put1Of(i)) /\ IsFiniteSet(Put2Of(i))
  <2>1. /\ CwdOf(i) \subseteq Procs /\ CurOf(i) \subseteq Procs /\ IpOf(i) \subseteq Procs
        /\ DpOf(i) \subseteq Procs /\ Put1Of(i) \subseteq Procs /\ Put2Of(i) \subseteq Procs
    BY DEF CwdOf, CurOf, IpOf, DpOf, Put1Of, Put2Of
  <2> QED
    BY <1>1, <2>1, FS_Subset
<1>3. IsFiniteSet(FilesOf(i))
  <2> DEFINE E == 1..NFILE
  <2>1. FilesOf(i) \subseteq E /\ IsFiniteSet(E)
    BY <1>1 DEF FilesOf
  <2> HIDE DEF E
  <2> QED
    BY <2>1, FS_Subset
<1>4. /\ IsFiniteSet(A) /\ IsFiniteSet(F) /\ IsFiniteSet(C) /\ IsFiniteSet(I)
      /\ IsFiniteSet(D) /\ IsFiniteSet(P) /\ IsFiniteSet(Q)
      /\ Cardinality(A) = Cardinality(CwdOf(i)) /\ Cardinality(F) = Cardinality(FilesOf(i))
      /\ Cardinality(C) = Cardinality(CurOf(i)) /\ Cardinality(I) = Cardinality(IpOf(i))
      /\ Cardinality(D) = Cardinality(DpOf(i)) /\ Cardinality(P) = Cardinality(Put1Of(i))
      /\ Cardinality(Q) = Cardinality(Put2Of(i))
  BY <1>2, <1>3, TagCount, Zenon
<1>5. {<<"cwd", p>> : p \in {q \in Procs : cwd[q] = i /\ st[q].pc # "chdir2"}} = A
  <2>1. {q \in Procs : cwd[q] = i /\ st[q].pc # "chdir2"} = CwdOf(i)
    BY <1>1 DEF CwdOf, Cwd, CwdIn
  <2> QED
    BY <2>1 DEF Tag
<1>6. {<<"file", f>> : f \in {g \in 1..NFILE : file[g].ref > 0 /\ file[g].ip = i}} = F
  <2>1. {g \in 1..NFILE : file[g].ref > 0 /\ file[g].ip = i} = FilesOf(i)
    BY <1>1 DEF FilesOf, Inode, InodeIn
  <2> QED
    BY <2>1 DEF Tag
<1>7. /\ {<<"cur", p>> : p \in {q \in Procs : st[q].cur = i}} = C
      /\ {<<"ip", p>> : p \in {q \in Procs : st[q].ip = i}} = I
      /\ {<<"dp", p>> : p \in {q \in Procs : st[q].dp = i}} = D
  BY DEF Tag, CurOf, IpOf, DpOf
<1>8. UNION {{<<"put", p, k>> : k \in {m \in DOMAIN st[p].puts : st[p].puts[m] = i}} : p \in Procs}
        = P \cup Q
  <2> DEFINE M(p) == {m \in DOMAIN st[p].puts : st[p].puts[m] = i}
  <2>1. ASSUME NEW p \in Procs
        PROVE  /\ M(p) \subseteq {1, 2}
               /\ 1 \in M(p) <=> p \in Put1Of(i)
               /\ 2 \in M(p) <=> p \in Put2Of(i)
    <3> DEFINE q == st[p].puts
    <3>1. q \in Seq(Inums) /\ Len(q) <= 2
      BY Before DEF States, Shape
    <3>2. Len(q) \in Nat /\ DOMAIN q = 1..Len(q)
      BY <3>1
    <3> HIDE DEF q
    <3>3. M(p) = {m \in 1..Len(q) : q[m] = i}
      BY <3>2 DEF q
    <3>4. M(p) \subseteq {1, 2}
      BY <3>1, <3>2, <3>3
    <3>5. Put1(p) = (IF Len(q) >= 1 THEN q[1] ELSE 0) /\ Put2(p) = (IF Len(q) >= 2 THEN q[2] ELSE 0)
      BY DEF Put1, Put2, Put1In, Put2In, q
    <3>6. 1 \in M(p) <=> p \in Put1Of(i)
      BY <1>1, <3>2, <3>3, <3>5 DEF Put1Of
    <3>7. 2 \in M(p) <=> p \in Put2Of(i)
      BY <1>1, <3>2, <3>3, <3>5 DEF Put2Of
    <3> QED
      BY <3>4, <3>6, <3>7
  <2>2. \A p \in Put1Of(i) \cup Put2Of(i) : p \in Procs
    BY DEF Put1Of, Put2Of
  <2> HIDE DEF M
  <2>3. UNION {{<<"put", p, k>> : k \in M(p)} : p \in Procs} = P \cup Q
    BY <2>1, <2>2 DEF TagPut
  <2> QED
    BY <2>3 DEF M
<1>9. Pointers(i) = A \cup F \cup C \cup I \cup D \cup (P \cup Q)
  <2> HIDE DEF A, F, C, I, D, P, Q
  <2> QED
    BY <1>5, <1>6, <1>7, <1>8, Zenon DEF Pointers
<1>10. /\ \A z \in A : z[1] = "cwd"
       /\ \A z \in F : z[1] = "file"
       /\ \A z \in C : z[1] = "cur"
       /\ \A z \in I : z[1] = "ip"
       /\ \A z \in D : z[1] = "dp"
       /\ \A z \in P : z[1] = "put" /\ z[3] = 1
       /\ \A z \in Q : z[1] = "put" /\ z[3] = 2
  BY DEF Tag, TagPut
<1> HIDE DEF A, F, C, I, D, P, Q
<1>11. IsFiniteSet(P \cup Q) /\ Cardinality(P \cup Q) = Cardinality(P) + Cardinality(Q)
  <2>1. \A z \in P : z \notin Q
    BY <1>10
  <2> QED
    BY <1>4, <2>1, Disjoint
<1>12. IsFiniteSet(A \cup F) /\ Cardinality(A \cup F) = Cardinality(A) + Cardinality(F)
  <2>1. \A z \in A : z \notin F
    BY <1>10
  <2> QED
    BY <1>4, <2>1, Disjoint
<1>13. /\ IsFiniteSet(A \cup F \cup C)
       /\ Cardinality(A \cup F \cup C) = Cardinality(A \cup F) + Cardinality(C)
  <2>1. \A z \in A \cup F : z \notin C
    BY <1>10
  <2> QED
    BY <1>4, <1>12, <2>1, Disjoint
<1>14. /\ IsFiniteSet(A \cup F \cup C \cup I)
       /\ Cardinality(A \cup F \cup C \cup I) = Cardinality(A \cup F \cup C) + Cardinality(I)
  <2>1. \A z \in A \cup F \cup C : z \notin I
    BY <1>10
  <2> QED
    BY <1>4, <1>13, <2>1, Disjoint
<1>15. /\ IsFiniteSet(A \cup F \cup C \cup I \cup D)
       /\ Cardinality(A \cup F \cup C \cup I \cup D)
            = Cardinality(A \cup F \cup C \cup I) + Cardinality(D)
  <2>1. \A z \in A \cup F \cup C \cup I : z \notin D
    BY <1>10
  <2> QED
    BY <1>4, <1>14, <2>1, Disjoint
<1>16. Cardinality(Pointers(i)) = Cardinality(A \cup F \cup C \cup I \cup D) + Cardinality(P \cup Q)
  <2>1. \A z \in A \cup F \cup C \cup I \cup D : z \notin P \cup Q
    BY <1>10
  <2> QED
    BY <1>9, <1>11, <1>15, <2>1, Disjoint
<1> DEFINE c1 == Cardinality(CwdOf(i))
           c2 == Cardinality(CurOf(i))
           c3 == Cardinality(IpOf(i))
           c4 == Cardinality(DpOf(i))
           c5 == Cardinality(Put1Of(i))
           c6 == Cardinality(Put2Of(i))
           c7 == Cardinality(FilesOf(i))
<1>17. c1 \in Nat /\ c2 \in Nat /\ c3 \in Nat /\ c4 \in Nat /\ c5 \in Nat /\ c6 \in Nat /\ c7 \in Nat
  BY Finite
<1>18. Total(i) = c1 + c2 + c3 + c4 + c5 + c6 + c7
  BY DEF Total
<1>19. Cardinality(Pointers(i)) = c1 + c7 + c2 + c3 + c4 + (c5 + c6)
  BY <1>4, <1>11, <1>12, <1>13, <1>14, <1>15, <1>16
<1> HIDE DEF c1, c2, c3, c4, c5, c6, c7
<1> QED
  BY <1>17, <1>18, <1>19

(* What the invariant says to a user of the inode cache.                   *)
LEMMA FsInvImplies == FsInv => ReferencesExact /\ CacheCoherent
<1> SUFFICES ASSUME FsInv PROVE ReferencesExact /\ CacheCoherent
  OBVIOUS
<1>1. CacheCoherent
  BY DEF FsInv, Coherent, CacheCoherent
<1>2. ASSUME NEW i \in Inums PROVE ref[i] = Cardinality(Pointers(i))
  BY PointersCounted DEF FsInv, RefCounted
<1>3. ASSUME NEW i \in Inums,
             \/ \E p \in Procs : cwd[p] = i /\ st[p].pc # "chdir2"
             \/ \E f \in 1..NFILE : file[f].ref > 0 /\ file[f].ip = i
      PROVE  dinode[i].type # "none"
  BY <1>3 DEF FsInv, HeldAllocated
<1> QED
  BY <1>1, <1>2, <1>3, Zenon DEF ReferencesExact

(* ip->ref is the number of pointers to the inode that the kernel holds,   *)
(* through every interleaving of namex(), iput(), create(), sys_link(),    *)
(* sys_unlink(), sys_chdir(), fileclose() and filedup(), so that iput()    *)
(* never frees the inode of an open file or of a current directory.        *)
THEOREM ReferencesAlwaysExact == Spec => []ReferencesExact
BY FsAlways, FsInvImplies, PTL

(* What ilock() read into a slot agrees with the disk as long as the slot  *)
(* is valid, whoever links, unlinks, frees or reallocates the inode.       *)
THEOREM CacheAlwaysCoherent == Spec => []CacheCoherent
BY FsAlways, FsInvImplies, PTL

------------------------------------------------------------------------------
(* Names and links.  A walk through ".." can leave a directory that has    *)
(* been removed for one that has been freed and taken again, and           *)
(* create() sets the link count of a new inode without looking at it: what *)
(* follows is for menus of calls without ".." in their paths (Descends).   *)

(* A process is in a call of the menu, or in none.                         *)
CallsFromMenu == \A p \in Procs : st[p].call \in menu \cup {NoCall}

(* A call can still get at inode i: a pointer that only waits for ref-- is *)
(* left out.                                                               *)
UsesIn(s, c, i) ==
  \/ CwdIn(s, c) = i \/ s.cur = i \/ s.ip = i \/ s.dp = i \/ Put2In(s) = i
  \/ Put1In(s) = i /\ ~s.half

Uses(p, i) == UsesIn(st[p], cwd[p], i)

(* sys_link() has counted a link, or sys_unlink() not yet discounted one,  *)
(* that has no name.                                                       *)
Linking(s) == s.call.op = "link" /\ s.pc \in {"walk2", "link2", "drop", "linkbad"}

Pending(s) == Linking(s) \/ s.pc = "unlinked"

PendingOf(i) == {p \in Procs : st[p].ip = i /\ Pending(st[p])}

Named(i) == \E d \in Inums, n \in Names : Entry(d, n, i)

(* p is in create(), between ialloc() and ilock() of i.                    *)
Makes(p, i) == st[p].pc = "create2" /\ st[p].ip = i

(* What process p works with is allocated, and of the type it needs.       *)
LiveOf(p) == \A i \in Inums : Uses(p, i) => dinode[i].type # "none"

TypesOf(p) ==
  /\ st[p].dp # 0 => dinode[st[p].dp].type = "dir"
  /\ Linking(st[p]) => dinode[st[p].ip].type # "dir"

(* Nobody else can get at an inode that is being made.                     *)
FreshOf(p) ==
  st[p].pc = "create2" =>
    /\ \A q \in Procs : q # p => ~Uses(q, st[p].ip)
    /\ cwd[p] # st[p].ip /\ st[p].dp # st[p].ip
    /\ \A f \in 1..NFILE : Inode(f) # st[p].ip
    /\ ~Named(st[p].ip) /\ dir[st[p].ip] = Empty /\ st[p].ip # Root

(* What create() and sys_unlink() found in the directory they have locked. *)
FoundOf(p) ==
  st[p].pc \in {"create2", "unlink2"} =>
    /\ st[p].puts = <<>> /\ Head(st[p].path) \notin Dots
    /\ cache[st[p].dp].valid
    /\ dir[st[p].dp][Head(st[p].path)] = IF st[p].pc = "create2" THEN 0 ELSE st[p].ip

CallOK(p) ==
  ~HasDotDot(st[p].path) /\ LiveOf(p) /\ TypesOf(p) /\ FreshOf(p) /\ FoundOf(p)

FreeUnlinked == \A i \in Inums : dinode[i].type = "none" => dinode[i].nlink = 0

OnlyDirsFilled == \A i \in Inums : dinode[i].type # "dir" => dir[i] = Empty

DirsHaveDot ==
  \A i \in Inums : dinode[i].type = "dir" /\ (\A p \in Procs : ~Makes(p, i)) => dir[i]["."] = i

LinksCounted ==
  \A i \in Inums : Cardinality(LinksTo(i)) + Cardinality(PendingOf(i)) <= dinode[i].nlink

RootStays == dir[Root][".."] = Root /\ ~Named(Root) /\ dinode[Root].type = "dir"

TreeInv ==
  /\ \A p \in Procs : CallOK(p)
  /\ FreeUnlinked /\ OnlyDirsFilled /\ DirsHaveDot /\ LinksCounted /\ RootStays
  /\ DirectoryTree

(* A step of process p.                                                    *)
Moves(p) == \A q \in Procs : q # p => st'[q] = st[q] /\ cwd'[q] = cwd[q]

(* A file that p opens is one it had in hand.                              *)
FilesFrom(p) ==
  \A f \in 1..NFILE : Inode(f)' = Inode(f) \/ Inode(f)' = 0 \/ Uses(p, Inode(f)')

(* The inodes that other processes work with stay what they are.           *)
OthersKept(p) ==
  \A q \in Procs : q # p =>
    /\ \A i \in Inums : Uses(q, i) => dinode'[i].type = dinode[i].type
    /\ st[q].pc \in {"create2", "unlink2"} =>
         dir'[st[q].dp][Head(st[q].path)] = dir[st[q].dp][Head(st[q].path)]
    /\ st[q].pc = "create2" =>
         /\ ~Named(st[q].ip)' /\ dir'[st[q].ip] = Empty
         /\ ~Uses(p, st[q].ip)'

(* The inodes at hand at each step.                                        *)
LEMMA InHand ==
  ASSUME FsInv, NEW q \in Procs
  PROVE  /\ st[q].ip # 0 => st[q].ip \in Inums /\ Uses(q, st[q].ip)
         /\ st[q].dp # 0 => st[q].dp \in Inums /\ Uses(q, st[q].dp)
         /\ st[q].cur # 0 => st[q].cur \in Inums /\ Uses(q, st[q].cur)
         /\ st[q].pc \in {"create2", "unlink2"} => st[q].ip # 0 /\ st[q].dp # 0
         /\ Linking(st[q]) \/ st[q].pc = "unlinked" => st[q].ip # 0
<1>1. st[q] \in States /\ Shape(st[q])
  BY Before
<1>2. st[q].ip \in Numbers /\ st[q].dp \in Numbers /\ st[q].cur \in Numbers
  BY <1>1 DEF States
<1> QED
  BY <1>1, <1>2 DEF Shape, HasIp, HasDp, Numbers, Uses, UsesIn, Linking

(* The copy of a directory that a call keeps locked stays valid.           *)
LEMMA HeldValid ==
  ASSUME FsInv, NEW q \in Procs, st[q].dp # 0, ValidKept, cache[st[q].dp].valid
  PROVE  cache'[st[q].dp].valid
<1>1. st[q].dp \in Inums /\ ~Unheld(st[q].dp)
  BY InHand DEF Unheld
<1>2. ref[st[q].dp] = Total(st[q].dp)
  BY <1>1 DEF FsInv, RefCounted
<1>3. ref[st[q].dp] >= 1 /\ ref[st[q].dp] \in Nat
  BY <1>1, <1>2, HeldCounted
<1> QED
  BY <1>1, <1>3 DEF ValidKept

(* The calls of all processes after a step of one of them.                 *)
LEMMA CallsStep ==
  ASSUME FsInv, TreeInv, NEW p \in Procs, Moves(p), ValidKept, OthersKept(p), FilesFrom(p),
         CallOK(p)'
  PROVE  \A q \in Procs : CallOK(q)'
<1> SUFFICES ASSUME NEW q \in Procs, q # p PROVE CallOK(q)'
  OBVIOUS
<1>1. CallOK(q) /\ st'[q] = st[q] /\ cwd'[q] = cwd[q]
  BY DEF TreeInv, Moves
<1>2. /\ \A i \in Inums : Uses(q, i) => dinode'[i].type = dinode[i].type
      /\ st[q].pc \in {"create2", "unlink2"} =>
           dir'[st[q].dp][Head(st[q].path)] = dir[st[q].dp][Head(st[q].path)]
      /\ st[q].pc = "create2" =>
           /\ ~Named(st[q].ip)' /\ dir'[st[q].ip] = Empty /\ ~Uses(p, st[q].ip)'
  BY DEF OthersKept
<1>3. ~HasDotDot(st[q].path)'
  BY <1>1 DEF CallOK, HasDotDot
<1>4. LiveOf(q)'
  BY <1>1, <1>2 DEF CallOK, LiveOf, Uses
<1>5. TypesOf(q)'
  BY <1>1, <1>2, InHand DEF CallOK, TypesOf
<1>6. FoundOf(q)'
  BY <1>1, <1>2, InHand, HeldValid DEF CallOK, FoundOf
<1>7. ASSUME st[q].pc = "create2" PROVE FreshOf(q)'
  <2> DEFINE i == st[q].ip
  <2>1. i \in Inums /\ i # 0 /\ i = st'[q].ip
    BY <1>1, <1>7, InHand, Before
  <2>2. /\ \A o \in Procs : o # q => ~Uses(o, i)
        /\ cwd[q] # i /\ st[q].dp # i /\ i # Root
        /\ \A f \in 1..NFILE : Inode(f) # i
    BY <1>1, <1>7 DEF CallOK, FreshOf
  <2>3. ASSUME NEW o \in Procs, o # q PROVE ~Uses(o, i)'
    <3>1. CASE o = p
      BY <1>2, <1>7, <3>1
    <3>2. CASE o # p
      BY <2>2, <2>3, <3>2 DEF Moves, Uses
    <3> QED
      BY <3>1, <3>2
  <2>4. ASSUME NEW f \in 1..NFILE PROVE Inode(f)' # i
    BY <2>1, <2>2 DEF FilesFrom
  <2> HIDE DEF i
  <2> QED
    BY <1>1, <1>2, <1>7, <2>1, <2>2, <2>3, <2>4 DEF FreshOf, i
<1> QED
  BY <1>1, <1>3, <1>4, <1>5, <1>6, <1>7 DEF CallOK, FreshOf

(* An inode has finitely many names, and finitely many calls at work on it *)
LEMMA LinksFinite ==
  /\ IsFiniteSet(Inums \X Names)
  /\ \A i : /\ LinksTo(i) \in SUBSET (Inums \X Names) /\ IsFiniteSet(LinksTo(i))
            /\ PendingOf(i) \in SUBSET Procs /\ IsFiniteSet(PendingOf(i))
            /\ Cardinality(LinksTo(i)) \in Nat /\ Cardinality(PendingOf(i)) \in Nat
<1>1. IsFiniteSet(Inums)
  <2>1. NInodes \in Int /\ 1 \in Int
    BY FileSysAssumption
  <2> QED
    BY <2>1, FS_Interval, Zenon DEF Inums
<1>2. IsFiniteSet(Inums \X Names)
  BY <1>1, FileSysAssumption, FS_Product
<1>3. \A i : LinksTo(i) \in SUBSET (Inums \X Names) /\ PendingOf(i) \in SUBSET Procs
  BY DEF LinksTo, PendingOf
<1>4. \A i : IsFiniteSet(LinksTo(i)) /\ IsFiniteSet(PendingOf(i))
  BY <1>2, <1>3, Finite, FS_Subset
<1> QED
  BY <1>2, <1>3, <1>4, FS_CardinalityType

TypesSame == \A i \in Inums : dinode'[i].type = dinode[i].type

(* An inode that p has after the step is one that it had, or one that is   *)
(* named, the root, or open.                                               *)
GainsFound(p) ==
  \A i \in Inums : Uses(p, i)' =>
    Uses(p, i) \/ Named(i) \/ i = Root \/ \E f \in 1..NFILE : Inode(f) = i

(* A name is that of an allocated inode.                                   *)
LEMMA NamedAllocated ==
  ASSUME FsInv, TreeInv, NEW i \in Inums, Named(i) \/ LinksTo(i) # {}
  PROVE  dinode[i].type # "none" /\ LinksTo(i) # {}
<1>1. LinksTo(i) # {}
  <2>1. ASSUME NEW d \in Inums, NEW n \in Names, Entry(d, n, i) PROVE <<d, n>> \in LinksTo(i)
    BY <2>1 DEF LinksTo, IsLink
  <2> QED
    BY <2>1 DEF Named
<1>2. SUFFICES ASSUME dinode[i].type = "none" PROVE FALSE
  BY <1>1
<1>3. Cardinality(LinksTo(i)) + Cardinality(PendingOf(i)) <= 0
  BY <1>2 DEF TreeInv, FreeUnlinked, LinksCounted
<1>4. IsFiniteSet(LinksTo(i)) /\ Cardinality(PendingOf(i)) \in Nat
  BY LinksFinite
<1>5. Cardinality(LinksTo(i)) \in Nat /\ Cardinality(LinksTo(i)) # 0
  BY <1>1, <1>4, FS_CardinalityType, FS_EmptySet
<1> QED
  BY <1>3, <1>4, <1>5

(* A step that leaves the directories and the types of the inodes alone.   *)
LEMMA SameTreeStep ==
  ASSUME FsInv, TreeInv, NEW p \in Procs, Moves(p), ValidKept, FilesFrom(p), GainsFound(p),
         dir' = dir, TypesSame, st[p].pc # "create2", st'[p].pc # "create2",
         ~HasDotDot(st'[p].path), TypesOf(p)', FoundOf(p)', FreeUnlinked', LinksCounted'
  PROVE  TreeInv'
<1>1. \A i \in Inums : Named(i)' <=> Named(i)
  BY DEF Named, Entry
<1>2. ASSUME NEW i \in Inums, Uses(p, i)'
      PROVE  dinode'[i].type # "none" /\ \A q \in Procs : ~Makes(q, i)
  <2>1. \A q \in Procs : CallOK(q) /\ (Makes(q, i) => q # p)
    BY DEF TreeInv, Makes
  <2>2. CASE Uses(p, i)
    BY <2>1, <2>2 DEF CallOK, LiveOf, FreshOf, TypesSame, Makes
  <2>3. CASE Named(i)
    BY <2>1, <2>3, NamedAllocated DEF CallOK, FreshOf, TypesSame, Makes
  <2>4. CASE i = Root
    BY <2>1, <2>4 DEF CallOK, FreshOf, TypesSame, Makes, TreeInv, RootStays
  <2>5. CASE \E f \in 1..NFILE : Inode(f) = i
    <3>1. dinode[i].type # "none"
      BY <2>5, Before DEF Inode, InodeIn, FsInv, HeldAllocated
    <3> QED
      BY <2>1, <2>5, <3>1 DEF CallOK, FreshOf, TypesSame, Makes
  <2> QED
    BY <1>2, <2>2, <2>3, <2>4, <2>5 DEF GainsFound
<1>3. OthersKept(p)
  <2> SUFFICES ASSUME NEW q \in Procs, q # p
               PROVE  /\ \A i \in Inums : Uses(q, i) => dinode'[i].type = dinode[i].type
                      /\ st[q].pc \in {"create2", "unlink2"} =>
                           dir'[st[q].dp][Head(st[q].path)] = dir[st[q].dp][Head(st[q].path)]
                      /\ st[q].pc = "create2" =>
                           /\ ~Named(st[q].ip)' /\ dir'[st[q].ip] = Empty
                           /\ ~Uses(p, st[q].ip)'
    BY DEF OthersKept
  <2>1. ASSUME st[q].pc = "create2"
        PROVE  ~Named(st[q].ip)' /\ dir'[st[q].ip] = Empty /\ ~Uses(p, st[q].ip)'
    <3>1. PICK i \in Inums : i = st[q].ip
      BY <2>1, InHand
    <3>2. Makes(q, i) /\ CallOK(q) /\ i = st'[q].ip
      BY <2>1, <3>1 DEF Makes, TreeInv, Moves
    <3>3. ~Named(i) /\ dir[i] = Empty
      BY <2>1, <3>1, <3>2 DEF CallOK, FreshOf
    <3>4. ~Named(i)' /\ ~Uses(p, i)' /\ dir'[i] = Empty
      BY <1>1, <1>2, <3>2, <3>3
    <3> QED
      BY <3>1, <3>2, <3>4 DEF Named, Uses
  <2> QED
    BY <2>1 DEF TypesSame
<1>4. LiveOf(p)' /\ FreshOf(p)'
  BY <1>2 DEF LiveOf, FreshOf
<1>5. \A q \in Procs : CallOK(q)'
  BY <1>3, <1>4, CallsStep DEF CallOK
<1>6. OnlyDirsFilled'
  BY DEF TreeInv, OnlyDirsFilled, TypesSame
<1>7. DirsHaveDot'
  <2>1. \A q \in Procs, i \in Inums : Makes(q, i)' <=> Makes(q, i)
    BY DEF Makes, Moves
  <2> QED
    BY <2>1 DEF TreeInv, DirsHaveDot, TypesSame
<1>8. RootStays'
  BY <1>1, FileSysAssumption DEF TreeInv, RootStays, TypesSame
<1>9. DirectoryTree'
  BY DEF TreeInv, DirectoryTree, TypesSame, Entry
<1> QED
  BY <1>5, <1>6, <1>7, <1>8, <1>9 DEF TreeInv

(* One process at most becomes, or stops being, one with a link pending.   *)
LEMMA PendingStep ==
  ASSUME NEW p \in Procs, Moves(p), NEW i
  PROVE  Cardinality(PendingOf(i)')
           = Cardinality(PendingOf(i)) - One(p \in PendingOf(i)) + One(p \in PendingOf(i)')
<1>1. PendingOf(i) \in SUBSET Procs /\ PendingOf(i)' \in SUBSET Procs
  BY DEF PendingOf
<1>2. \A q \in Procs : q # p => (q \in PendingOf(i) <=> q \in PendingOf(i)')
  BY DEF PendingOf, Moves
<1> QED
  BY <1>1, <1>2, Finite, CountMove

(* The link counts follow the pending links of p.                          *)
NlinksFollow(p) ==
  \A i \in Inums :
    dinode'[i].nlink = dinode[i].nlink - One(p \in PendingOf(i)) + One(p \in PendingOf(i)')

(* With the directories unchanged, the counts have to follow the pending   *)
(* links only.                                                             *)
LEMMA LinksStep ==
  ASSUME FsInv, TreeInv, NEW p \in Procs, Moves(p), dir' = dir, NlinksFollow(p)
  PROVE  LinksCounted'
<1> SUFFICES ASSUME NEW i \in Inums
             PROVE  Cardinality(LinksTo(i)') + Cardinality(PendingOf(i)') <= dinode'[i].nlink
  BY DEF LinksCounted
<1>1. LinksTo(i)' = LinksTo(i)
  BY DEF LinksTo, IsLink, Entry
<1>2. Cardinality(LinksTo(i)) + Cardinality(PendingOf(i)) <= dinode[i].nlink
  BY DEF TreeInv, LinksCounted
<1>3. dinode[i].nlink \in Int
  BY Before
<1>4. Cardinality(LinksTo(i)) \in Nat /\ Cardinality(PendingOf(i)) \in Nat
  BY LinksFinite
<1>5. /\ Cardinality(PendingOf(i)')
           = Cardinality(PendingOf(i)) - One(p \in PendingOf(i)) + One(p \in PendingOf(i)')
      /\ dinode'[i].nlink = dinode[i].nlink - One(p \in PendingOf(i)) + One(p \in PendingOf(i)')
  BY PendingStep DEF NlinksFollow
<1>6. One(p \in PendingOf(i)) \in Nat /\ One(p \in PendingOf(i)') \in Nat
  BY DEF One
<1> QED
  BY <1>1, <1>2, <1>3, <1>4, <1>5, <1>6

(* A step that changes neither the directories nor the inodes on disk.     *)
LEMMA QuietTreeStep ==
  ASSUME FsInv, TreeInv, NEW p \in Procs, Moves(p), ValidKept, FilesFrom(p), GainsFound(p),
         dir' = dir, dinode' = dinode, st[p].pc # "create2", st'[p].pc # "create2",
         ~HasDotDot(st'[p].path), TypesOf(p)', FoundOf(p)',
         Pending(st'[p]) <=> Pending(st[p]), Pending(st[p]) => st'[p].ip = st[p].ip
  PROVE  TreeInv'
<1>1. TypesSame /\ FreeUnlinked'
  BY DEF TypesSame, TreeInv, FreeUnlinked
<1>2. NlinksFollow(p)
  <2> SUFFICES ASSUME NEW i \in Inums
               PROVE  dinode'[i].nlink
                        = dinode[i].nlink - One(p \in PendingOf(i)) + One(p \in PendingOf(i)')
    BY DEF NlinksFollow
  <2>1. p \in PendingOf(i)' <=> p \in PendingOf(i)
    BY DEF PendingOf
  <2>2. dinode[i].nlink \in Int
    BY Before
  <2> QED
    BY <2>1, <2>2 DEF One
<1> QED
  BY <1>1, <1>2, LinksStep, SameTreeStep

(* What a lookup finds: the directory itself under ".", or a name.         *)
LEMMA LookupIs ==
  ASSUME FsInv, TreeInv, NEW p \in Procs, NEW i \in Inums, Uses(p, i), st[p].pc # "create2",
         dinode[i].type = "dir", NEW n \in Names, n # ".."
  PROVE  /\ n = "." => Dirlookup(i, n) = i
         /\ n # "." /\ Dirlookup(i, n) # 0 => Named(Dirlookup(i, n))
<1>1. \A q \in Procs : ~Makes(q, i)
  BY DEF TreeInv, CallOK, FreshOf, Makes
<1>2. dir[i]["."] = i
  BY <1>1 DEF TreeInv, DirsHaveDot
<1>3. n # "." => Entry(i, n, dir[i][n])
  BY DEF Entry, Dots
<1> QED
  BY <1>2, <1>3 DEF Dirlookup, Named

------------------------------------------------------------------------------
(* The steps that leave the tree alone.                                    *)

(* A step of p that leaves files and current directories alone.            *)
LEMMA TablesMoves ==
  ASSUME FsInv, NEW p \in Procs, NEW r, st' = [st EXCEPT ![p] = r], UNCHANGED tables
  PROVE  Moves(p) /\ FilesFrom(p) /\ st'[p] = r /\ cwd'[p] = cwd[p]
<1>1. st'[p] = r /\ \A q \in Procs : q # p => st'[q] = st[q]
  BY Before
<1> QED
  BY <1>1 DEF Moves, FilesFrom, tables, Inode

(* What a process uses, read off its pointers.                             *)
LEMMA UsesIs ==
  ASSUME NEW s, NEW c, NEW i
  PROVE  UsesIn(s, c, i) =>
           \/ (s.pc # "chdir2" /\ c = i)
           \/ i = 0 \/ s.cur = i \/ s.ip = i \/ s.dp = i \/ Put2In(s) = i \/ Put1In(s) = i
BY DEF UsesIn, CwdIn

(* A system call starts, with the root or the current directory in hand.   *)
LEMMA StartTree ==
  ASSUME Descends, FsInv, TreeInv, NEW p \in Procs, Start(p)
  PROVE  TreeInv'
<1>1. PICK c \in menu :
        /\ c.op \notin {"close", "dup"}
        /\ cache' = Slotted(StartOf(p, c.path))
        /\ st' = [st EXCEPT ![p] = [Idle EXCEPT !.pc = "walk", !.call = c,
                                     !.path = Elements(c.path), !.cur = StartOf(p, c.path)]]
  BY DEF Start
<1> DEFINE i == StartOf(p, c.path)
           e == Elements(c.path)
           r == [Idle EXCEPT !.pc = "walk", !.call = c, !.path = e, !.cur = i]
<1>2. /\ st[p].pc = "idle" /\ UNCHANGED <<dinode, dir, tables>>
      /\ i \in Inums /\ i \in {Root, cwd[p]} /\ 0 \notin Inums /\ c \in UNION Menus
  BY Before DEF Start, StartOf, FsInv, TypeOK
<1>3. ~HasDotDot(e)
  BY <1>1, <1>2 DEF Descends
<1> HIDE DEF i, e
<1>4. /\ r.pc = "walk" /\ r.path = e /\ r.cur = i /\ r.ip = 0 /\ r.dp = 0 /\ r.puts = <<>>
  BY DEF Idle
<1> HIDE DEF r
<1>5. Moves(p) /\ FilesFrom(p) /\ st'[p] = r /\ cwd'[p] = cwd[p]
  BY <1>1, <1>2, TablesMoves DEF r, e, i
<1>6. ValidKept
  BY <1>1, <1>2, SlottedKept DEF CacheKept, i
<1>7. GainsFound(p)
  <2> SUFFICES ASSUME NEW x \in Inums, Uses(p, x)' PROVE Uses(p, x) \/ x = Root
    BY DEF GainsFound
  <2>1. Put1In(r) = 0 /\ Put2In(r) = 0
    BY <1>4, PutsIn
  <2>2. x = cwd[p] \/ x = i
    BY <1>2, <1>4, <1>5, <2>1, UsesIs DEF Uses
  <2>3. Uses(p, cwd[p])
    BY <1>2 DEF Uses, UsesIn, CwdIn
  <2> QED
    BY <1>2, <2>2, <2>3
<1>8. /\ TypesOf(p)' /\ FoundOf(p)'
      /\ ~Pending(st'[p]) /\ ~Pending(st[p])
  BY <1>2, <1>4, <1>5 DEF TypesOf, FoundOf, Pending, Linking
<1> QED
  BY <1>2, <1>3, <1>4, <1>5, <1>6, <1>7, <1>8, QuietTreeStep

(* namex() goes down one directory.                                        *)
LEMMA WalkStepTree ==
  ASSUME FsInv, TreeInv, NEW p \in Procs, WalkStep(p)
  PROVE  TreeInv'
<1> DEFINE s == st[p]
           i == s.cur
           next == Dirlookup(i, Head(s.path))
<1>1. /\ s.pc \in {"walk", "walk2"} /\ s.path # <<>> /\ Ilock(p, s.pc)
      /\ UNCHANGED <<dinode, dir, lock, tables>>
  BY DEF WalkStep
<1>2. s \in States /\ Shape(s) /\ 0 \notin Inums /\ st \in [Procs -> States]
  BY Before
<1>3. s.puts = <<>> /\ ~s.half /\ Target(p) = i /\ Loaded(i).type # "none"
  BY <1>1, IlockIs
<1>4. /\ i \in Inums /\ s.dp = 0 /\ Uses(p, i) /\ (s.pc = "walk" => s.ip = 0)
      /\ (s.pc = "walk2" => s.call.op = "link")
  BY <1>1, <1>2, InHand DEF Shape, HasIp, HasDp, States, Numbers
<1>5. s.path \in Seq(Names) /\ Head(s.path) \in Names /\ Tail(s.path) \in Seq(Names)
  BY <1>1, <1>2 DEF States
<1>6. CallOK(p) /\ ~HasDotDot(s.path) /\ Loaded(i).type = dinode[i].type
  BY <1>4, LoadedIs DEF TreeInv, CallOK
<1>7. Head(s.path) # ".." /\ ~HasDotDot(Tail(s.path)) /\ ~HasDotDot(<<>>)
  BY <1>1, <1>5, <1>6 DEF HasDotDot
<1>8. Pending(s) <=> s.pc = "walk2"
  BY <1>1, <1>4 DEF Pending, Linking
<1>9. \A x : Uses(p, x) <=> cwd[p] = x \/ s.cur = x \/ s.ip = x \/ s.dp = x \/ x = 0
  BY <1>1, <1>3, PutsIn DEF Uses, UsesIn, CwdIn
<1>10. CASE /\ st' = [st EXCEPT ![p].pc = Failed(s), ![p].cur = 0,
                                ![p].path = <<>>, ![p].puts = <<i>>]
            /\ Read(i)
  <2> DEFINE a == Failed(s)
             e == <<>>
             q == <<i>>
             r == [s EXCEPT !.pc = a, !.cur = 0, !.path = e, !.puts = q]
  <2>1. /\ (s.pc = "walk2" => a = "linkbad") /\ (s.pc = "walk" => a = "done")
        /\ st' = [st EXCEPT ![p] = r] /\ ~HasDotDot(e)
    BY <1>2, <1>7, <1>10 DEF Failed
  <2> HIDE DEF a, e
  <2>2. /\ r.pc = a /\ r.cur = 0 /\ r.path = e /\ r.ip = s.ip /\ r.dp = s.dp
        /\ r.call = s.call /\ r.puts = <<i>>
    BY <1>2 DEF States
  <2> HIDE DEF r
  <2>3. Moves(p) /\ FilesFrom(p) /\ st'[p] = r /\ cwd'[p] = cwd[p]
    BY <1>1, <2>1, TablesMoves
  <2>4. ValidKept
    BY <1>1, <1>3, <1>4, <1>10, ReadKept DEF CacheKept
  <2>5. GainsFound(p)
    BY <1>2, <1>9, <2>2, <2>3, UsesIs, PutsIn DEF GainsFound, Uses
  <2>6. /\ TypesOf(p)' /\ FoundOf(p)' /\ st'[p].pc # "create2"
        /\ Pending(st'[p]) <=> Pending(s)
    BY <1>1, <1>4, <1>6, <1>8, <2>1, <2>2, <2>3
       DEF TypesOf, FoundOf, Pending, Linking, CallOK
  <2> QED
    BY <1>1, <2>1, <2>2, <2>3, <2>4, <2>5, <2>6, QuietTreeStep
<1>11. CASE /\ Loaded(i).type = "dir" /\ ForParent(s)
            /\ st' = [st EXCEPT ![p].pc = Found(s), ![p].cur = 0, ![p].dp = i]
            /\ Read(i)
  <2> DEFINE a == Found(s)
             r == [s EXCEPT !.pc = a, !.cur = 0, !.dp = i]
  <2>1. /\ (s.pc = "walk2" => a = "link2") /\ (s.pc = "walk" => a \in {"create", "unlink"})
        /\ st' = [st EXCEPT ![p] = r]
    BY <1>1, <1>2, <1>11 DEF Found, ForParent, Creates
  <2> HIDE DEF a
  <2>2. /\ r.pc = a /\ r.cur = 0 /\ r.path = s.path /\ r.ip = s.ip /\ r.dp = i
        /\ r.call = s.call /\ r.puts = <<>>
    BY <1>2, <1>3 DEF States
  <2> HIDE DEF r
  <2>3. Moves(p) /\ FilesFrom(p) /\ st'[p] = r /\ cwd'[p] = cwd[p]
    BY <1>1, <2>1, TablesMoves
  <2>4. ValidKept
    BY <1>1, <1>3, <1>4, <1>11, ReadKept DEF CacheKept
  <2>5. GainsFound(p)
    BY <1>2, <1>9, <2>2, <2>3, UsesIs, PutsIn DEF GainsFound, Uses
  <2>6. /\ TypesOf(p)' /\ FoundOf(p)' /\ st'[p].pc # "create2"
        /\ Pending(st'[p]) <=> Pending(s)
    BY <1>1, <1>4, <1>6, <1>8, <1>11, <2>1, <2>2, <2>3
       DEF TypesOf, FoundOf, Pending, Linking, CallOK
  <2> QED
    BY <1>1, <1>6, <2>1, <2>2, <2>3, <2>4, <2>5, <2>6, QuietTreeStep
<1>12. CASE /\ Loaded(i).type = "dir" /\ next # 0
            /\ cache' = [Slotted(next) EXCEPT ![i] = Loaded(i)]
            /\ st' = [st EXCEPT ![p].path = Tail(@), ![p].cur = next, ![p].puts = <<i>>]
  <2> DEFINE e == Tail(s.path)
             q == <<i>>
             r == [s EXCEPT !.path = e, !.cur = next, !.puts = q]
  <2>1. next \in Inums /\ (next = i \/ Named(next))
    <3>1. next \in Inums \cup {0}
      BY <1>4, <1>5, Before DEF Dirlookup, Entries
    <3>2. next = i \/ Named(next)
      BY <1>1, <1>4, <1>5, <1>6, <1>7, <1>12, LookupIs
    <3> QED
      BY <1>12, <3>1, <3>2
  <2>2. st' = [st EXCEPT ![p] = r]
    BY <1>2, <1>12
  <2> HIDE DEF next, e
  <2>3. /\ r.pc = s.pc /\ r.cur = next /\ r.path = e /\ r.ip = s.ip /\ r.dp = s.dp
        /\ r.call = s.call /\ r.puts = <<i>>
    BY <1>2 DEF States
  <2> HIDE DEF r
  <2>4. Moves(p) /\ FilesFrom(p) /\ st'[p] = r /\ cwd'[p] = cwd[p]
    BY <1>1, <2>2, TablesMoves
  <2>5. ValidKept
    BY <1>1, <1>3, <1>4, <1>12, <2>1, SlottedReadKept DEF CacheKept
  <2>6. GainsFound(p)
    BY <1>2, <1>9, <2>1, <2>3, <2>4, UsesIs, PutsIn DEF GainsFound, Uses
  <2>7. /\ TypesOf(p)' /\ FoundOf(p)' /\ st'[p].pc # "create2"
        /\ Pending(st'[p]) <=> Pending(s)
    BY <1>1, <1>4, <1>6, <1>8, <2>3, <2>4
       DEF TypesOf, FoundOf, Pending, Linking, CallOK
  <2> QED
    BY <1>1, <1>7, <2>3, <2>4, <2>5, <2>6, <2>7, QuietTreeStep DEF e
<1> QED
  BY <1>10, <1>11, <1>12 DEF WalkStep

(* namex() returns.                                                        *)
LEMMA WalkEndTree ==
  ASSUME FsInv, TreeInv, NEW p \in Procs, WalkEnd(p)
  PROVE  TreeInv'
<1> DEFINE s == st[p]
           i == s.cur
<1>1. /\ s.pc \in {"walk", "walk2"} /\ s.puts = <<>>
      /\ UNCHANGED <<dinode, dir, cache, tables>>
  BY DEF WalkEnd
<1>2. s \in States /\ Shape(s) /\ 0 \notin Inums /\ st \in [Procs -> States]
  BY Before
<1>3. /\ s.dp = 0 /\ (s.pc = "walk" => s.ip = 0 /\ s.call.op \in PathOps)
      /\ (s.pc = "walk2" => s.call.op = "link")
  BY <1>1, <1>2 DEF Shape, HasIp, HasDp
<1>4. CallOK(p) /\ ~HasDotDot(s.path)
  BY DEF TreeInv, CallOK
<1>5. Pending(s) <=> s.pc = "walk2"
  BY <1>1, <1>3 DEF Pending, Linking
<1>6. \A x : Uses(p, x) <=> cwd[p] = x \/ s.cur = x \/ s.ip = x \/ s.dp = x \/ x = 0
  BY <1>1, PutsIn DEF Uses, UsesIn, CwdIn
<1>7. ValidKept
  BY <1>1, SameCacheKept DEF CacheKept
<1>8. CASE /\ ForParent(s)
           /\ st' = [st EXCEPT ![p].pc = Failed(s), ![p].cur = 0, ![p].puts = <<i>>]
  <2> DEFINE a == Failed(s)
             q == <<i>>
             r == [s EXCEPT !.pc = a, !.cur = 0, !.puts = q]
  <2>1. /\ (s.pc = "walk2" => a = "linkbad") /\ (s.pc = "walk" => a = "done")
        /\ st' = [st EXCEPT ![p] = r]
    BY <1>2, <1>8 DEF Failed
  <2> HIDE DEF a
  <2>2. /\ r.pc = a /\ r.cur = 0 /\ r.path = s.path /\ r.ip = s.ip /\ r.dp = s.dp
        /\ r.call = s.call /\ r.puts = <<i>>
    BY <1>2 DEF States
  <2> HIDE DEF r
  <2>3. Moves(p) /\ FilesFrom(p) /\ st'[p] = r /\ cwd'[p] = cwd[p]
    BY <1>1, <2>1, TablesMoves
  <2>4. GainsFound(p)
    BY <1>2, <1>6, <2>2, <2>3, UsesIs, PutsIn DEF GainsFound, Uses
  <2>5. /\ TypesOf(p)' /\ FoundOf(p)' /\ st'[p].pc # "create2"
        /\ Pending(st'[p]) <=> Pending(s)
    BY <1>1, <1>3, <1>4, <1>5, <2>1, <2>2, <2>3
       DEF TypesOf, FoundOf, Pending, Linking, CallOK
  <2> QED
    BY <1>1, <1>4, <1>7, <2>1, <2>2, <2>3, <2>4, <2>5, QuietTreeStep
<1>9. CASE /\ ~ForParent(s)
           /\ st' = [st EXCEPT ![p].pc = Found(s), ![p].cur = 0, ![p].ip = i]
  <2> DEFINE a == Found(s)
             r == [s EXCEPT !.pc = a, !.cur = 0, !.ip = i]
  <2>1. s.pc = "walk" /\ a \in {"open", "link", "chdir"}
    BY <1>1, <1>3, <1>9 DEF Found, ForParent, PathOps, Creates
  <2>2. st' = [st EXCEPT ![p] = r]
    BY <1>2, <1>9
  <2> HIDE DEF a
  <2>3. /\ r.pc = a /\ r.cur = 0 /\ r.path = s.path /\ r.ip = i /\ r.dp = s.dp
        /\ r.call = s.call /\ r.puts = <<>>
    BY <1>1, <1>2 DEF States
  <2> HIDE DEF r
  <2>4. Moves(p) /\ FilesFrom(p) /\ st'[p] = r /\ cwd'[p] = cwd[p]
    BY <1>1, <2>2, TablesMoves
  <2>5. GainsFound(p)
    BY <1>2, <1>6, <2>3, <2>4, UsesIs, PutsIn DEF GainsFound, Uses
  <2>6. /\ TypesOf(p)' /\ FoundOf(p)' /\ st'[p].pc # "create2"
        /\ ~Pending(st'[p]) /\ ~Pending(s)
    BY <1>3, <1>5, <2>1, <2>3, <2>4 DEF TypesOf, FoundOf, Pending, Linking
  <2> QED
    BY <1>1, <1>4, <1>7, <2>3, <2>4, <2>5, <2>6, QuietTreeStep
<1> QED
  BY <1>8, <1>9 DEF WalkEnd

(* iput() drops its reference.                                             *)
LEMMA IputUnrefTree ==
  ASSUME FsInv, TreeInv, NEW p \in Procs, IputUnref(p)
  PROVE  TreeInv'
<1> DEFINE s == st[p]
           q == Tail(s.puts)
           r == [s EXCEPT !.half = FALSE, !.puts = q]
<1>1. /\ s.half /\ st' = [st EXCEPT ![p].half = FALSE, ![p].puts = Tail(@)]
      /\ UNCHANGED <<dinode, dir, cache, tables>>
  BY DEF IputUnref
<1>2. s \in States /\ Shape(s) /\ 0 \notin Inums /\ st \in [Procs -> States]
  BY Before
<1>3. /\ s.puts \in Seq(Inums) /\ s.puts # <<>> /\ Len(s.puts) <= 2
      /\ q \in Seq(Inums) /\ Len(q) = Len(s.puts) - 1
      /\ (Len(s.puts) = 2 => q[1] = s.puts[2]) /\ Len(s.puts) \in Nat /\ Len(s.puts) >= 1
  BY <1>1, <1>2 DEF States, Shape
<1>4. st' = [st EXCEPT ![p] = r]
  BY <1>1, <1>2
<1> HIDE DEF q
<1>5. r.pc = s.pc /\ r.cur = s.cur /\ r.path = s.path /\ r.puts = q /\ r.ip = s.ip
      /\ r.dp = s.dp /\ r.call = s.call
  BY <1>2 DEF States
<1> HIDE DEF r
<1>6. Put2In(r) = 0 /\ Put1In(r) = Put2In(s)
  <2> DEFINE u == s.puts
  <2>1. /\ Len(u) \in Nat /\ Len(u) >= 1 /\ Len(u) <= 2
        /\ Len(q) = Len(u) - 1 /\ (Len(u) = 2 => q[1] = u[2])
    BY <1>3
  <2> HIDE DEF u
  <2>2. Put2In(s) = (IF Len(u) >= 2 THEN u[2] ELSE 0)
    BY DEF Put2In, u
  <2>3. Put1In(r) = (IF Len(q) >= 1 THEN q[1] ELSE 0) /\ Put2In(r) = (IF Len(q) >= 2 THEN q[2] ELSE 0)
    BY <1>5 DEF Put1In, Put2In
  <2> QED
    BY <2>1, <2>2, <2>3
<1>7. Moves(p) /\ FilesFrom(p) /\ st'[p] = r /\ cwd'[p] = cwd[p]
  BY <1>1, <1>4, TablesMoves
<1>8. ValidKept
  BY <1>1, SameCacheKept DEF CacheKept
<1>9. GainsFound(p)
  BY <1>2, <1>5, <1>6, <1>7 DEF GainsFound, Uses, UsesIn, CwdIn
<1>10. CallOK(p) /\ s.pc \notin {"create2", "unlink2"}
  BY <1>3 DEF TreeInv, CallOK, FoundOf
<1>11. /\ TypesOf(p)' /\ FoundOf(p)' /\ ~HasDotDot(s.path)
       /\ Pending(st'[p]) <=> Pending(s)
  BY <1>1, <1>5, <1>7, <1>10 DEF TypesOf, FoundOf, Pending, Linking, CallOK
<1> QED
  BY <1>1, <1>5, <1>7, <1>8, <1>9, <1>10, <1>11, QuietTreeStep


(* iput() without a last reference to drop only marks the call.            *)
LEMMA IputHalfTree ==
  ASSUME FsInv, TreeInv, NEW p \in Procs, IputLocked(p), UNCHANGED <<dinode, dir, cache>>
  PROVE  TreeInv'
<1> DEFINE s == st[p]
           r == [s EXCEPT !.half = TRUE]
<1>1. s.puts # <<>> /\ st' = [st EXCEPT ![p].half = TRUE] /\ UNCHANGED tables
  BY DEF IputLocked
<1>2. s \in States /\ 0 \notin Inums /\ st \in [Procs -> States]
  BY Before
<1>3. st' = [st EXCEPT ![p] = r]
  BY <1>1, <1>2
<1>4. r.pc = s.pc /\ r.cur = s.cur /\ r.path = s.path /\ r.puts = s.puts /\ r.ip = s.ip
      /\ r.dp = s.dp /\ r.call = s.call
  BY <1>2 DEF States
<1>5. r.half
  BY <1>2 DEF States
<1> HIDE DEF r
<1>6. Moves(p) /\ FilesFrom(p) /\ st'[p] = r /\ cwd'[p] = cwd[p]
  BY <1>1, <1>3, TablesMoves
<1>7. ValidKept
  BY SameCacheKept DEF CacheKept
<1>8. GainsFound(p)
  BY <1>4, <1>5, <1>6 DEF GainsFound, Uses, UsesIn, CwdIn, Put1In, Put2In
<1>9. CallOK(p) /\ s.pc \notin {"create2", "unlink2"}
  BY <1>1 DEF TreeInv, CallOK, FoundOf
<1>10. /\ TypesOf(p)' /\ FoundOf(p)' /\ ~HasDotDot(s.path)
       /\ Pending(st'[p]) <=> Pending(s)
  BY <1>4, <1>6, <1>9 DEF TypesOf, FoundOf, Pending, Linking, CallOK
<1> QED
  BY <1>4, <1>6, <1>7, <1>8, <1>9, <1>10, QuietTreeStep

(* A system call that is over has gained nothing.                          *)
LEMMA DoneUses ==
  ASSUME FsInv, NEW p \in Procs, NEW e, NEW q, q = <<>> \/ q = <<st[p].ip>>,
         st[p].puts = <<>>, st[p].dp = 0, st[p].cur = 0, st[p].pc # "chdir2",
         st' = [st EXCEPT ![p] = DoneCall(st[p], e, q)], cwd' = cwd
  PROVE  /\ Moves(p) /\ GainsFound(p) /\ TypesOf(p)' /\ FoundOf(p)'
         /\ st'[p].pc = "done" /\ st'[p].path = e /\ st'[p].ip = 0 /\ ~Pending(st'[p])
<1> DEFINE s == st[p]
           r == DoneCall(s, e, q)
<1>1. s \in States /\ 0 \notin Inums /\ st \in [Procs -> States]
  BY Before
<1>2. /\ r.pc = "done" /\ r.cur = 0 /\ r.path = e /\ r.puts = q /\ r.ip = 0 /\ r.dp = 0
  BY <1>1 DEF States, DoneCall
<1> HIDE DEF r
<1>3. Moves(p) /\ st'[p] = r /\ cwd'[p] = cwd[p]
  BY <1>1 DEF r, Moves
<1>4. Put2In(r) = 0 /\ Put1In(r) \in {0, s.ip}
  BY <1>2, PutsIn
<1>5. GainsFound(p)
  BY <1>1, <1>2, <1>3, <1>4 DEF GainsFound, Uses, UsesIn, CwdIn
<1>6. TypesOf(p)' /\ FoundOf(p)' /\ ~Pending(st'[p])
  BY <1>2, <1>3 DEF TypesOf, FoundOf, Pending, Linking
<1> QED
  BY <1>2, <1>3, <1>5, <1>6

(* A call that ends with its inode put, or given to a file.                *)
LEMMA DoneTree ==
  ASSUME FsInv, TreeInv, NEW p \in Procs, NEW e, NEW q, q = <<>> \/ q = <<st[p].ip>>,
         st[p].puts = <<>>, st[p].dp = 0, st[p].cur = 0, st[p].pc \notin {"chdir2", "create2"},
         ~Pending(st[p]), ~HasDotDot(e),
         st' = [st EXCEPT ![p] = DoneCall(st[p], e, q)], cwd' = cwd, UNCHANGED <<dinode, dir>>,
         ValidKept, FilesFrom(p)
  PROVE  TreeInv'
<1>1. /\ Moves(p) /\ GainsFound(p) /\ TypesOf(p)' /\ FoundOf(p)'
      /\ st'[p].pc = "done" /\ st'[p].path = e /\ st'[p].ip = 0 /\ ~Pending(st'[p])
  BY DoneUses
<1> QED
  BY <1>1, QuietTreeStep

(* The end of sys_open().                                                  *)
LEMMA OpenFileTree ==
  ASSUME FsInv, TreeInv, NEW p \in Procs,
         st[p].puts = <<>>, st[p].dp = 0, st[p].cur = 0, st[p].pc \notin {"chdir2", "create2"},
         ~Pending(st[p]), OpenFile(p, st[p].ip), cwd' = cwd, UNCHANGED <<dinode, dir>>, ValidKept
  PROVE  TreeInv'
<1> DEFINE i == st[p].ip
           e == <<>>
<1>1. ~HasDotDot(e) /\ Uses(p, i)
  BY DEF HasDotDot, Uses, UsesIn
<1>2. CASE /\ FreeFiles # {}
           /\ file' = [file EXCEPT ![Least(FreeFiles)] = [ref |-> 1, ip |-> i]]
           /\ st' = [st EXCEPT ![p].pc = "done", ![p].ip = 0, ![p].path = <<>>]
  <2>1. FilesFrom(p)
    <3>1. file \in [1..NFILE -> [ref : Int, ip : Numbers]]
      BY DEF FsInv, TypeOK, FilesTypeOK
    <3>2. \A f \in 1..NFILE : file'[f] = file[f] \/ file'[f] = [ref |-> 1, ip |-> i]
      BY <1>2, <3>1
    <3>3. InodeIn([ref |-> 1, ip |-> i]) = i
      BY DEF InodeIn
    <3> QED
      BY <1>1, <3>2, <3>3 DEF FilesFrom, Inode
  <2>2. st' = [st EXCEPT ![p] = DoneCall(st[p], e, <<>>)]
    <3>1. st \in [Procs -> States] /\ st[p] \in States
      BY Before
    <3>2. [st[p] EXCEPT !.pc = "done", !.ip = 0, !.path = <<>>] = DoneCall(st[p], e, <<>>)
      BY <3>1 DEF DoneCall, States
    <3>3. st' = [st EXCEPT ![p] = [st[p] EXCEPT !.pc = "done", !.ip = 0, !.path = <<>>]]
      BY <1>2, <3>1
    <3> QED
      BY <3>2, <3>3
  <2> QED
    BY <1>1, <2>1, <2>2, DoneTree
<1>3. CASE /\ UNCHANGED <<file, ofile>>
           /\ st' = [st EXCEPT ![p].pc = "done", ![p].ip = 0, ![p].path = <<>>,
                               ![p].puts = <<i>>]
  <2>1. FilesFrom(p)
    BY <1>3 DEF FilesFrom, Inode
  <2>2. st' = [st EXCEPT ![p] = DoneCall(st[p], e, <<i>>)]
    BY <1>3, DoneIs
  <2> QED
    BY <1>1, <2>1, <2>2, DoneTree
<1> QED
  BY <1>2, <1>3 DEF OpenFile


(* sys_open() of a name that exists.                                       *)
LEMMA OpenTree ==
  ASSUME FsInv, TreeInv, NEW p \in Procs, Open(p)
  PROVE  TreeInv'
<1> DEFINE s == st[p]
           i == s.ip
<1>1. /\ Ilock(p, "open") /\ Read(i) /\ UNCHANGED <<dinode, dir, cwd, menu>>
      /\ \/ /\ st' = [st EXCEPT ![p].pc = "done", ![p].ip = 0, ![p].puts = <<i>>]
            /\ UNCHANGED <<file, ofile>>
         \/ OpenFile(p, i)
  BY DEF Open
<1>2. /\ i \in Inums /\ s.dp = 0 /\ s.cur = 0 /\ s.puts = <<>> /\ s.pc = "open"
      /\ Loaded(i).type # "none"
  BY <1>1, IlockIp
<1>3. ValidKept /\ ~Pending(s) /\ ~HasDotDot(s.path)
  BY <1>1, <1>2, ReadKept DEF CacheKept, Pending, Linking, TreeInv, CallOK
<1>4. CASE /\ st' = [st EXCEPT ![p].pc = "done", ![p].ip = 0, ![p].puts = <<i>>]
           /\ UNCHANGED <<file, ofile>>
  <2>1. st' = [st EXCEPT ![p] = DoneCall(s, s.path, <<i>>)] /\ FilesFrom(p)
    BY <1>4, DoneIs DEF FilesFrom, Inode
  <2> QED
    BY <1>1, <1>2, <1>3, <2>1, DoneTree
<1>5. CASE OpenFile(p, i)
  BY <1>1, <1>2, <1>3, <1>5, OpenFileTree
<1> QED
  BY <1>1, <1>4, <1>5

(* create() of a name that exists.                                         *)
LEMMA CreateExistsTree ==
  ASSUME FsInv, TreeInv, NEW p \in Procs, CreateExists(p)
  PROVE  TreeInv'
<1> DEFINE s == st[p]
           i == s.ip
           e == <<>>
<1>1. /\ Ilock(p, "exists") /\ Read(i) /\ UNCHANGED <<dinode, dir, cwd, menu>>
      /\ \/ /\ st' = [st EXCEPT ![p].pc = "done", ![p].ip = 0, ![p].path = <<>>,
                                ![p].puts = <<i>>]
            /\ UNCHANGED <<file, ofile>>
         \/ OpenFile(p, i)
  BY DEF CreateExists
<1>2. /\ i \in Inums /\ s.dp = 0 /\ s.cur = 0 /\ s.puts = <<>> /\ s.pc = "exists"
      /\ Loaded(i).type # "none"
  BY <1>1, IlockIp
<1>3. ValidKept /\ ~Pending(s) /\ ~HasDotDot(e)
  BY <1>1, <1>2, ReadKept DEF CacheKept, Pending, Linking, HasDotDot
<1>4. CASE /\ st' = [st EXCEPT ![p].pc = "done", ![p].ip = 0, ![p].path = <<>>,
                               ![p].puts = <<i>>]
           /\ UNCHANGED <<file, ofile>>
  <2>1. st' = [st EXCEPT ![p] = DoneCall(s, e, <<i>>)] /\ FilesFrom(p)
    BY <1>4, DoneIs DEF FilesFrom, Inode
  <2> QED
    BY <1>1, <1>2, <1>3, <2>1, DoneTree
<1>5. CASE OpenFile(p, i)
  BY <1>1, <1>2, <1>3, <1>5, OpenFileTree
<1> QED
  BY <1>1, <1>4, <1>5

(* What the callers of create() do with the new inode.                     *)
LEMMA CreatedTree ==
  ASSUME FsInv, TreeInv, NEW p \in Procs, Created(p)
  PROVE  TreeInv'
<1> DEFINE s == st[p]
           i == s.ip
<1>1. /\ s.pc = "created" /\ s.puts = <<>> /\ UNCHANGED <<dinode, dir, cache, cwd, menu>>
      /\ \/ /\ st' = [st EXCEPT ![p].pc = "done", ![p].ip = 0, ![p].puts = <<i>>]
            /\ UNCHANGED <<file, ofile>>
         \/ OpenFile(p, i)
  BY DEF Created
<1>2. s.dp = 0 /\ s.cur = 0
  BY <1>1, Before DEF Shape, HasIp, HasDp
<1>3. ValidKept /\ ~Pending(s) /\ ~HasDotDot(s.path)
  BY <1>1, SameCacheKept DEF CacheKept, Pending, Linking, TreeInv, CallOK
<1>4. CASE /\ st' = [st EXCEPT ![p].pc = "done", ![p].ip = 0, ![p].puts = <<i>>]
           /\ UNCHANGED <<file, ofile>>
  <2>1. st' = [st EXCEPT ![p] = DoneCall(s, s.path, <<i>>)] /\ FilesFrom(p)
    BY <1>4, DoneIs DEF FilesFrom, Inode
  <2> QED
    BY <1>1, <1>2, <1>3, <2>1, DoneTree
<1>5. CASE OpenFile(p, i)
  BY <1>1, <1>2, <1>3, <1>5, OpenFileTree
<1> QED
  BY <1>1, <1>4, <1>5

(* sys_dup(), and a step that panics: no call moves.                       *)
LEMMA StillTree ==
  ASSUME TreeInv, UNCHANGED <<dinode, dir, st, cwd>>, cache' = cache,
         \A f \in 1..NFILE : Inode(f)' = Inode(f)
  PROVE  TreeInv'
<1>1. ASSUME NEW q \in Procs PROVE CallOK(q)'
  <2>1. CallOK(q)
    BY DEF TreeInv
  <2> QED
    BY <2>1 DEF CallOK, HasDotDot, LiveOf, Uses, TypesOf, FreshOf, FoundOf, Named, Entry
<1>2. FreeUnlinked' /\ OnlyDirsFilled' /\ DirsHaveDot' /\ RootStays' /\ DirectoryTree'
  BY DEF TreeInv, FreeUnlinked, OnlyDirsFilled, DirsHaveDot, Makes, RootStays, Named, Entry,
         DirectoryTree
<1>3. LinksCounted'
  BY DEF TreeInv, LinksCounted, LinksTo, IsLink, Entry, PendingOf
<1> QED
  BY <1>1, <1>2, <1>3 DEF TreeInv

(* dup() gives an open inode one more descriptor.                          *)
LEMMA DupTree ==
  ASSUME FsInv, TreeInv, NEW p \in Procs, NEW d \in FDs, Dup(p, d)
  PROVE  TreeInv'
<1> DEFINE f == Argfd(p, d)
<1>1. f # 0 /\ file' = Filedup(f) /\ UNCHANGED <<dinode, dir, cache, cwd, st>>
  BY DEF Dup
<1>2. file \in [1..NFILE -> [ref : Int, ip : Numbers]] /\ f \in 1..NFILE
  BY <1>1, FileSysAssumption DEF FsInv, TypeOK, FilesTypeOK, Argfd
<1>3. file[f].ref > 0
  BY <1>1, <1>2, DescCounted DEF Argfd
<1>4. ASSUME NEW g \in 1..NFILE PROVE Inode(g)' = Inode(g)
  <2>1. file'[g].ip = file[g].ip /\ (file'[g].ref > 0 <=> file[g].ref > 0)
    BY <1>1, <1>2, <1>3 DEF Filedup
  <2> QED
    BY <2>1 DEF Inode, InodeIn
<1> QED
  BY <1>1, <1>4, StillTree


(* fileclose() puts the inode of the file.                                 *)
LEMMA CloseTree ==
  ASSUME FsInv, TreeInv, NEW p \in Procs, NEW d \in FDs, Close(p, d)
  PROVE  TreeInv'
<1> DEFINE f == ofile[p][d]
           s == st[p]
<1>1. /\ f # 0 /\ UNCHANGED <<dinode, dir, cache, cwd>> /\ Fileclose(p, f) /\ s.pc = "idle"
  BY DEF Close, Argfd
<1>2. /\ f \in 1..NFILE /\ file[f].ref \in Nat /\ file[f].ref > 0
      /\ file \in [1..NFILE -> [ref : Int, ip : Numbers]]
  BY <1>1, DescCounted DEF FsInv, TypeOK, FilesTypeOK
<1> HIDE DEF f
<1>3. CASE file[f].ref > 1
  <2>1. file' = [file EXCEPT ![f].ref = @ - 1] /\ UNCHANGED st
    BY <1>1, <1>3 DEF Fileclose
  <2>2. ASSUME NEW g \in 1..NFILE PROVE Inode(g)' = Inode(g)
    <3>1. file'[g].ip = file[g].ip /\ (file'[g].ref > 0 <=> file[g].ref > 0)
      BY <1>2, <1>3, <2>1
    <3> QED
      BY <3>1 DEF Inode, InodeIn
  <2> QED
    BY <1>1, <2>1, <2>2, StillTree
<1>4. CASE ~(file[f].ref > 1)
  <2> DEFINE i == file[f].ip
             q == <<i>>
             r == [s EXCEPT !.pc = "done", !.puts = q]
  <2>1. /\ file' = [file EXCEPT ![f] = [ref |-> 0, ip |-> 0]]
        /\ st' = [st EXCEPT ![p].pc = "done", ![p].puts = <<i>>]
    BY <1>1, <1>4 DEF Fileclose
  <2>2. s \in States /\ Shape(s) /\ 0 \notin Inums /\ st \in [Procs -> States]
    BY Before
  <2>3. s.cur = 0 /\ s.ip = 0 /\ s.dp = 0 /\ s.puts = <<>>
    BY <1>1, <2>2 DEF Shape, HasIp, HasDp
  <2>4. st' = [st EXCEPT ![p] = r]
    BY <2>1, <2>2
  <2>5. Inode(f) = i
    BY <1>2 DEF Inode, InodeIn
  <2> HIDE DEF i
  <2>6. r.pc = "done" /\ r.puts = <<i>> /\ r.cur = 0 /\ r.ip = 0 /\ r.dp = 0 /\ r.path = s.path
    BY <2>2, <2>3 DEF States
  <2> HIDE DEF r
  <2>7. Moves(p) /\ st'[p] = r /\ cwd'[p] = cwd[p]
    BY <1>1, <2>2, <2>4 DEF Moves
  <2>8. FilesFrom(p)
    <3>1. \A g \in 1..NFILE : file'[g] = file[g] \/ file'[g] = [ref |-> 0, ip |-> 0]
      BY <1>2, <2>1
    <3>2. InodeIn([ref |-> 0, ip |-> 0]) = 0
      BY DEF InodeIn
    <3> QED
      BY <3>1, <3>2 DEF FilesFrom, Inode
  <2>9. GainsFound(p)
    <3>1. Put1In(r) = i /\ Put2In(r) = 0
      BY <2>6, PutsIn
    <3> QED
      BY <1>1, <1>2, <2>2, <2>5, <2>6, <2>7, <3>1 DEF GainsFound, Uses, UsesIn, CwdIn
  <2>10. ValidKept
    BY <1>1, SameCacheKept DEF CacheKept
  <2>11. /\ TypesOf(p)' /\ FoundOf(p)' /\ ~Pending(st'[p]) /\ ~Pending(s)
         /\ ~HasDotDot(st'[p].path)
    BY <1>1, <2>6, <2>7 DEF TypesOf, FoundOf, Pending, Linking, TreeInv, CallOK
  <2> QED
    BY <1>1, <2>6, <2>7, <2>8, <2>9, <2>10, <2>11, QuietTreeStep
<1> QED
  BY <1>3, <1>4

(* sys_chdir() keeps the new directory in hand, and puts the old one.      *)
LEMMA ChdirTree ==
  ASSUME FsInv, TreeInv, NEW p \in Procs, Chdir(p)
  PROVE  TreeInv'
<1> DEFINE s == st[p]
           i == s.ip
           c == cwd[p]
<1>1. Ilock(p, "chdir") /\ Read(i) /\ UNCHANGED <<dinode, dir, tables>>
  BY DEF Chdir
<1>2. /\ i \in Inums /\ s.dp = 0 /\ s.cur = 0 /\ s.puts = <<>> /\ s.pc = "chdir"
      /\ Loaded(i).type # "none"
  BY <1>1, IlockIp
<1>3. ValidKept /\ ~Pending(s) /\ ~HasDotDot(s.path)
  BY <1>1, <1>2, ReadKept DEF CacheKept, Pending, Linking, TreeInv, CallOK
<1>4. CASE st' = [st EXCEPT ![p].pc = "done", ![p].ip = 0, ![p].puts = <<i>>]
  <2>1. st' = [st EXCEPT ![p] = DoneCall(s, s.path, <<i>>)] /\ FilesFrom(p) /\ cwd' = cwd
    BY <1>1, <1>4, DoneIs DEF FilesFrom, Inode, tables
  <2> QED
    BY <1>1, <1>2, <1>3, <2>1, DoneTree
<1>5. CASE st' = [st EXCEPT ![p].pc = "chdir2", ![p].puts = <<c>>]
  <2> DEFINE q == <<c>>
             r == [s EXCEPT !.pc = "chdir2", !.puts = q]
  <2>1. s \in States /\ 0 \notin Inums /\ st \in [Procs -> States]
    BY Before
  <2>2. st' = [st EXCEPT ![p] = r]
    BY <1>5, <2>1
  <2> HIDE DEF c
  <2>3. /\ r.pc = "chdir2" /\ r.puts = <<c>> /\ r.cur = 0 /\ r.ip = i /\ r.dp = 0
        /\ r.path = s.path
    BY <1>2, <2>1 DEF States
  <2> HIDE DEF r
  <2>4. Moves(p) /\ FilesFrom(p) /\ st'[p] = r /\ cwd'[p] = cwd[p]
    BY <1>1, <2>2, TablesMoves
  <2>5. GainsFound(p)
    <3>1. Put1In(r) = c /\ Put2In(r) = 0
      BY <2>3, PutsIn
    <3> QED
      BY <1>2, <2>1, <2>3, <2>4, <3>1 DEF GainsFound, Uses, UsesIn, CwdIn, c
  <2>6. TypesOf(p)' /\ FoundOf(p)' /\ ~Pending(st'[p])
    BY <2>3, <2>4 DEF TypesOf, FoundOf, Pending, Linking
  <2> QED
    BY <1>1, <1>2, <1>3, <2>3, <2>4, <2>5, <2>6, QuietTreeStep
<1> QED
  BY <1>4, <1>5 DEF Chdir

(* A call returns, with what is its current directory by then.             *)
LEMMA IdleTree ==
  ASSUME FsInv, TreeInv, NEW p \in Procs, st[p].pc \in {"done", "chdir2"},
         st' = [st EXCEPT ![p] = Idle], \A q \in Procs : q # p => cwd'[q] = cwd[q],
         (cwd'[p] = cwd[p] /\ st[p].pc # "chdir2") \/ cwd'[p] = st[p].ip,
         UNCHANGED <<dinode, dir, file>>, cache' = cache
  PROVE  TreeInv'
<1> DEFINE s == st[p]
           r == Idle
<1>1. s \in States /\ 0 \notin Inums /\ st \in [Procs -> States]
  BY Before
<1>2. r.pc = "idle" /\ r.cur = 0 /\ r.ip = 0 /\ r.dp = 0 /\ r.puts = <<>> /\ r.path = <<>>
  BY DEF Idle
<1> HIDE DEF r
<1>3. Moves(p) /\ st'[p] = r /\ FilesFrom(p)
  BY <1>1 DEF Moves, FilesFrom, Inode, r
<1>4. GainsFound(p)
  <2>1. Put1In(r) = 0 /\ Put2In(r) = 0
    BY <1>2, PutsIn
  <2>2. \A x \in Inums : Uses(p, x)' => x = cwd'[p]
    BY <1>1, <1>2, <1>3, <2>1 DEF Uses, UsesIn, CwdIn
  <2>3. Uses(p, cwd'[p])
    BY DEF Uses, UsesIn, CwdIn
  <2> QED
    BY <2>2, <2>3 DEF GainsFound
<1>5. ValidKept
  BY SameCacheKept DEF CacheKept
<1>6. /\ TypesOf(p)' /\ FoundOf(p)' /\ ~Pending(st'[p]) /\ ~Pending(s)
      /\ ~HasDotDot(st'[p].path)
  BY <1>2, <1>3 DEF TypesOf, FoundOf, Pending, Linking, HasDotDot
<1> QED
  BY <1>2, <1>3, <1>4, <1>5, <1>6, QuietTreeStep

(* sys_chdir() sets the current directory, and every other call returns.   *)
LEMMA ReturnTree ==
  ASSUME FsInv, TreeInv, NEW p \in Procs, ChdirSet(p) \/ Return(p)
  PROVE  TreeInv'
<1>1. cwd \in [Procs -> Inums]
  BY DEF FsInv, TypeOK
<1>2. CASE ChdirSet(p)
  BY <1>1, <1>2, IdleTree DEF ChdirSet
<1>3. CASE Return(p)
  BY <1>1, <1>3, IdleTree DEF Return, tables
<1> QED
  BY <1>2, <1>3

(* iunlockput(dp) on an error path.                                        *)
LEMMA DropParentTree ==
  ASSUME FsInv, TreeInv, NEW p \in Procs, DropParent(p)
  PROVE  TreeInv'
<1> DEFINE s == st[p]
           d == s.dp
           a == IF s.call.op = "link" THEN "linkbad" ELSE "done"
           q == <<d>>
           r == [s EXCEPT !.pc = a, !.dp = 0, !.puts = q]
<1>1. /\ s.pc = "drop" /\ s.puts = <<>> /\ UNCHANGED <<dinode, dir, cache, tables>>
      /\ st' = [st EXCEPT ![p].pc = a, ![p].dp = 0, ![p].puts = <<d>>]
  BY DEF DropParent
<1>2. s \in States /\ Shape(s) /\ 0 \notin Inums /\ st \in [Procs -> States]
  BY Before
<1>3. st' = [st EXCEPT ![p] = r]
  BY <1>1, <1>2
<1>4. /\ (s.call.op = "link" => a = "linkbad") /\ (s.call.op # "link" => a = "done")
      /\ s.cur = 0
  BY <1>1, <1>2 DEF Shape
<1> HIDE DEF a, d
<1>5. /\ r.pc = a /\ r.puts = <<d>> /\ r.cur = 0 /\ r.ip = s.ip /\ r.dp = 0
      /\ r.path = s.path /\ r.call = s.call
  BY <1>2, <1>4 DEF States
<1> HIDE DEF r
<1>6. Moves(p) /\ FilesFrom(p) /\ st'[p] = r /\ cwd'[p] = cwd[p]
  BY <1>1, <1>3, TablesMoves
<1>7. GainsFound(p)
  <2>1. Put1In(r) = d /\ Put2In(r) = 0
    BY <1>5, PutsIn
  <2>2. \A x \in Inums : Uses(p, x)' => x = cwd[p] \/ x = s.ip \/ x = d
    BY <1>2, <1>5, <1>6, <2>1, UsesIs DEF Uses
  <2>3. Uses(p, cwd[p]) /\ Uses(p, s.ip) /\ Uses(p, d)
    BY <1>1 DEF Uses, UsesIn, CwdIn, d
  <2> QED
    BY <2>2, <2>3 DEF GainsFound
<1>8. ValidKept
  BY <1>1, SameCacheKept DEF CacheKept
<1>9. CallOK(p)
  BY DEF TreeInv
<1>10. /\ TypesOf(p)' /\ FoundOf(p)' /\ (Pending(st'[p]) <=> Pending(s))
       /\ ~HasDotDot(s.path) /\ st'[p].pc # "create2"
  BY <1>1, <1>4, <1>5, <1>6, <1>9 DEF TypesOf, FoundOf, Pending, Linking, CallOK
<1> QED
  BY <1>1, <1>5, <1>6, <1>7, <1>8, <1>10, QuietTreeStep


(* What a call finds under the last element of its path, in the directory  *)
(* that it locks.                                                          *)
LEMMA EntryFound ==
  ASSUME FsInv, TreeInv, NEW p \in Procs, NEW l \in {"create", "link2", "unlink"}, Ilock(p, l)
  PROVE  LET old == Dirlookup(st[p].dp, Head(st[p].path)) IN
         /\ Loaded(st[p].dp).type = "dir" /\ dinode[st[p].dp].type = "dir"
         /\ Uses(p, st[p].dp) /\ Head(st[p].path) # ".."
         /\ old # 0 => old \in Inums /\ (old = st[p].dp \/ Named(old))
         /\ old = 0 => Head(st[p].path) \notin Dots
         /\ \A x : Uses(p, x) <=> x \in {cwd[p], st[p].ip, st[p].dp, 0}
<1> DEFINE s == st[p]
           n == Head(s.path)
           old == Dirlookup(s.dp, n)
<1>1. DirLocked(p, l)
  BY IlockDp
<1>2. CallOK(p) /\ Loaded(s.dp).type = dinode[s.dp].type
  BY <1>1, LoadedIs DEF TreeInv, DirLocked
<1>3. dinode[s.dp].type = "dir" /\ ~HasDotDot(s.path)
  BY <1>1, <1>2 DEF CallOK, TypesOf, DirLocked
<1>4. n # ".." /\ n \in Names
  BY <1>1, <1>3 DEF HasDotDot, DirLocked
<1>5. Put1In(s) = 0 /\ Put2In(s) = 0 /\ CwdIn(s, cwd[p]) = cwd[p] /\ s.cur = 0
  BY <1>1, PutsIn DEF DirLocked, CwdIn
<1>6. \A x : Uses(p, x) <=> x \in {cwd[p], s.ip, s.dp, 0}
  BY <1>5 DEF Uses, UsesIn
<1>7. (n = "." => old = s.dp) /\ (n # "." /\ old # 0 => Named(old))
  <2>1. s.dp \in Inums /\ Uses(p, s.dp) /\ s.pc # "create2"
    BY <1>1, <1>6 DEF DirLocked
  <2> QED
    BY <1>3, <1>4, <2>1, LookupIs
<1>8. old \in Numbers /\ s.dp # 0
  BY <1>1 DEF DirLocked
<1> QED
  BY <1>2, <1>3, <1>4, <1>6, <1>7, <1>8 DEF Numbers, Dots

(* sys_unlink() finds the entry, or gives up.                              *)
LEMMA UnlinkTree ==
  ASSUME FsInv, TreeInv, NEW p \in Procs, Unlink(p)
  PROVE  TreeInv'
<1> DEFINE s == st[p]
           d == s.dp
           n == Head(s.path)
           old == Dirlookup(d, n)
<1>1. Ilock(p, "unlink") /\ UNCHANGED <<dinode, dir, tables>>
  BY DEF Unlink
<1>2. DirLocked(p, "unlink")
  BY <1>1, IlockDp
<1>3. /\ s \in States /\ 0 \notin Inums /\ st \in [Procs -> States] /\ s.pc = "unlink"
      /\ s.puts = <<>> /\ d \in Inums /\ d # 0 /\ s.cur = 0 /\ s.ip = 0
      /\ s.call.op = "unlink"
  BY <1>2 DEF DirLocked
<1>4. /\ Loaded(d).type = "dir" /\ dinode[d].type = "dir"
      /\ old # 0 => old \in Inums /\ (old = d \/ Named(old))
      /\ \A x : Uses(p, x) <=> x \in {cwd[p], s.ip, d, 0}
  BY <1>1, EntryFound
<1>5. CallOK(p) /\ ~Pending(s) /\ ~HasDotDot(s.path) /\ ~HasDotDot(<<>>)
  BY <1>3 DEF TreeInv, CallOK, Pending, Linking, HasDotDot
<1>6. CASE /\ Read(d)
           /\ st' = [st EXCEPT ![p].pc = "done", ![p].dp = 0, ![p].path = <<>>, ![p].puts = <<d>>]
  <2> DEFINE e == <<>>
             q == <<d>>
             r == [s EXCEPT !.pc = "done", !.dp = 0, !.path = e, !.puts = q]
  <2>1. st' = [st EXCEPT ![p] = r] /\ ~HasDotDot(e)
    BY <1>3, <1>5, <1>6
  <2> HIDE DEF e
  <2>2. /\ r.pc = "done" /\ r.dp = 0 /\ r.path = e /\ r.puts = <<d>> /\ r.ip = 0 /\ r.cur = 0
    BY <1>3 DEF States
  <2> HIDE DEF r
  <2>3. Moves(p) /\ FilesFrom(p) /\ st'[p] = r /\ cwd'[p] = cwd[p]
    BY <1>1, <2>1, TablesMoves
  <2>4. ValidKept
    BY <1>1, <1>3, <1>4, <1>6, ReadKept DEF CacheKept
  <2>5. GainsFound(p)
    BY <1>3, <1>4, <2>2, <2>3, UsesIs, PutsIn DEF GainsFound, Uses
  <2>6. TypesOf(p)' /\ FoundOf(p)' /\ ~Pending(st'[p])
    BY <2>2, <2>3 DEF TypesOf, FoundOf, Pending, Linking
  <2> QED
    BY <1>1, <1>3, <1>5, <2>1, <2>2, <2>3, <2>4, <2>5, <2>6, QuietTreeStep
<1>7. CASE /\ ~(n \in Dots \/ old = 0)
           /\ cache' = [Slotted(old) EXCEPT ![d] = Loaded(d)]
           /\ st' = [st EXCEPT ![p].pc = "unlink2", ![p].ip = old]
  <2> DEFINE r == [s EXCEPT !.pc = "unlink2", !.ip = old]
  <2>1. st' = [st EXCEPT ![p] = r] /\ old \in Inums /\ (old = d \/ Named(old))
    BY <1>3, <1>4, <1>7
  <2>2. cache'[d].valid
    <3>1. Slotted(old) \in [Inums -> Copies] /\ Loaded(d).valid
      BY <1>3, <2>1, SlottedIs, LoadedIs
    <3> QED
      BY <1>3, <1>7, <3>1
  <2>3. dir[d][n] = old
    BY DEF Dirlookup
  <2> HIDE DEF old
  <2>4. /\ r.pc = "unlink2" /\ r.dp = d /\ r.path = s.path /\ r.puts = <<>> /\ r.ip = old
        /\ r.cur = 0 /\ r.call = s.call
    BY <1>3 DEF States
  <2> HIDE DEF r
  <2>5. Moves(p) /\ FilesFrom(p) /\ st'[p] = r /\ cwd'[p] = cwd[p]
    BY <1>1, <2>1, TablesMoves
  <2>6. ValidKept
    BY <1>1, <1>3, <1>4, <1>7, <2>1, SlottedReadKept DEF CacheKept, old
  <2>7. GainsFound(p)
    BY <1>3, <1>4, <2>1, <2>4, <2>5, UsesIs, PutsIn DEF GainsFound, Uses
  <2>8. TypesOf(p)' /\ ~Pending(st'[p])
    BY <1>1, <1>3, <1>4, <2>4, <2>5 DEF TypesOf, Pending, Linking
  <2>9. FoundOf(p)'
    BY <1>1, <1>7, <2>2, <2>3, <2>4, <2>5 DEF FoundOf
  <2> QED
    BY <1>1, <1>3, <1>5, <2>4, <2>5, <2>6, <2>7, <2>8, <2>9, QuietTreeStep
<1> QED
  BY <1>6, <1>7 DEF Unlink

(* create() of a name that it finds.                                       *)
LEMMA CreateOldTree ==
  ASSUME FsInv, TreeInv, NEW p \in Procs, Ilock(p, "create"),
         NEW old, old = Dirlookup(st[p].dp, Head(st[p].path)), old # 0,
         cache' = [Slotted(old) EXCEPT ![st[p].dp] = Loaded(st[p].dp)],
         st' = [st EXCEPT ![p].pc = "exists", ![p].ip = old, ![p].dp = 0, ![p].puts = <<st[p].dp>>],
         UNCHANGED <<dinode, dir, tables>>
  PROVE  TreeInv'
<1> DEFINE s == st[p]
           d == s.dp
           q == <<d>>
           r == [s EXCEPT !.pc = "exists", !.ip = old, !.dp = 0, !.puts = q]
<1>1. DirLocked(p, "create")
  BY IlockDp
<1>2. /\ s \in States /\ 0 \notin Inums /\ st \in [Procs -> States] /\ s.pc = "create"
      /\ s.puts = <<>> /\ d \in Inums /\ s.cur = 0 /\ s.ip = 0
  BY <1>1 DEF DirLocked
<1>3. /\ Loaded(d).type = "dir" /\ old \in Inums /\ (old = d \/ Named(old))
      /\ \A x : Uses(p, x) <=> x \in {cwd[p], s.ip, d, 0}
  BY EntryFound
<1>4. CallOK(p) /\ ~Pending(s) /\ ~HasDotDot(s.path)
  BY <1>2 DEF TreeInv, CallOK, Pending, Linking
<1>5. st' = [st EXCEPT ![p] = r]
  BY <1>2
<1>6. /\ r.pc = "exists" /\ r.dp = 0 /\ r.path = s.path /\ r.puts = <<d>> /\ r.ip = old
      /\ r.cur = 0
  BY <1>2 DEF States
<1> HIDE DEF r
<1>7. Moves(p) /\ FilesFrom(p) /\ st'[p] = r /\ cwd'[p] = cwd[p]
  BY <1>5, TablesMoves
<1>8. ValidKept
  BY <1>2, <1>3, SlottedReadKept DEF CacheKept
<1>9. GainsFound(p)
  <2>1. \A x \in Inums : UsesIn(r, cwd[p], x) => x \in {cwd[p], s.ip, d} \/ x = old
    BY <1>2, <1>6, UsesIs, PutsIn
  <2>2. \A x : Uses(p, x)' <=> UsesIn(r, cwd[p], x)
    BY <1>7, Zenon DEF Uses
  <2> QED
    BY <1>3, <2>1, <2>2 DEF GainsFound
<1>10. TypesOf(p)' /\ FoundOf(p)' /\ ~Pending(st'[p])
  BY <1>6, <1>7 DEF TypesOf, FoundOf, Pending, Linking
<1> QED
  BY <1>2, <1>4, <1>6, <1>7, <1>8, <1>9, <1>10, QuietTreeStep

(* dirlink() of a name that is taken.                                      *)
LEMMA LinkTakenTree ==
  ASSUME FsInv, TreeInv, NEW p \in Procs, Ilock(p, "link2"),
         NEW old, old = Dirlookup(st[p].dp, Head(st[p].path)), old # 0,
         cache' = [Slotted(old) EXCEPT ![st[p].dp] = Loaded(st[p].dp)],
         st' = [st EXCEPT ![p].pc = "drop", ![p].path = <<>>, ![p].puts = <<old>>],
         UNCHANGED <<dinode, dir, tables>>
  PROVE  TreeInv'
<1> DEFINE s == st[p]
           d == s.dp
           e == <<>>
           q == <<old>>
           r == [s EXCEPT !.pc = "drop", !.path = e, !.puts = q]
<1>1. DirLocked(p, "link2")
  BY IlockDp
<1>2. /\ s \in States /\ 0 \notin Inums /\ st \in [Procs -> States] /\ s.pc = "link2"
      /\ s.puts = <<>> /\ d \in Inums /\ s.cur = 0 /\ s.call.op = "link"
  BY <1>1 DEF DirLocked
<1>3. /\ Loaded(d).type = "dir" /\ old \in Inums /\ (old = d \/ Named(old))
      /\ \A x : Uses(p, x) <=> x \in {cwd[p], s.ip, d, 0}
  BY EntryFound
<1>4. CallOK(p) /\ Pending(s) /\ ~HasDotDot(e)
  BY <1>2 DEF TreeInv, CallOK, Pending, Linking, HasDotDot
<1>5. st' = [st EXCEPT ![p] = r]
  BY <1>2
<1> HIDE DEF e
<1>6. /\ r.pc = "drop" /\ r.dp = d /\ r.path = e /\ r.puts = <<old>> /\ r.ip = s.ip
      /\ r.cur = 0 /\ r.call = s.call
  BY <1>2 DEF States
<1> HIDE DEF r
<1>7. Moves(p) /\ FilesFrom(p) /\ st'[p] = r /\ cwd'[p] = cwd[p]
  BY <1>5, TablesMoves
<1>8. ValidKept
  BY <1>2, <1>3, SlottedReadKept DEF CacheKept
<1>9. GainsFound(p)
  <2>1. \A x \in Inums : UsesIn(r, cwd[p], x) => x \in {cwd[p], s.ip, d} \/ x = old
    BY <1>2, <1>6, UsesIs, PutsIn
  <2>2. \A x : Uses(p, x)' <=> UsesIn(r, cwd[p], x)
    BY <1>7, Zenon DEF Uses
  <2> QED
    BY <1>3, <2>1, <2>2 DEF GainsFound
<1>10. TypesOf(p)' /\ FoundOf(p)' /\ Pending(st'[p])
  BY <1>2, <1>4, <1>6, <1>7 DEF TypesOf, FoundOf, Pending, Linking, CallOK
<1> QED
  BY <1>2, <1>4, <1>6, <1>7, <1>8, <1>9, <1>10, QuietTreeStep


------------------------------------------------------------------------------
(* The steps that change a link count only.                                *)

(* A link count goes up when a link becomes pending, and down when it      *)
(* stops being so.                                                         *)
LEMMA OneCounted ==
  ASSUME FsInv, TreeInv, NEW p \in Procs, NEW i \in Inums, NEW t, NEW n, t = dinode[i].type,
         t # "none", dinode' = [dinode EXCEPT ![i] = [type |-> t, nlink |-> n]],
         \/ n = dinode[i].nlink + 1 /\ p \in PendingOf(i)' /\ ~Pending(st[p])
         \/ n = dinode[i].nlink - 1 /\ p \in PendingOf(i) /\ ~Pending(st'[p])
  PROVE  TypesSame /\ FreeUnlinked' /\ NlinksFollow(p)
<1>1. /\ dinode'[i].type = t /\ dinode'[i].nlink = n
      /\ \A x \in Inums : x # i => dinode'[x] = dinode[x]
  BY Before
<1>2. TypesSame /\ FreeUnlinked'
  BY <1>1 DEF TypesSame, TreeInv, FreeUnlinked
<1>3. ASSUME NEW x \in Inums
      PROVE  dinode'[x].nlink = dinode[x].nlink - One(p \in PendingOf(x)) + One(p \in PendingOf(x)')
  <2>1. dinode[x].nlink \in Int
    BY Before
  <2>2. /\ p \in PendingOf(x) => st[p].ip = x /\ Pending(st[p])
        /\ p \in PendingOf(x)' => st'[p].ip = x /\ Pending(st'[p])
        /\ p \in PendingOf(i) => st[p].ip = i /\ Pending(st[p])
        /\ p \in PendingOf(i)' => st'[p].ip = i /\ Pending(st'[p])
    BY DEF PendingOf
  <2>3. CASE x = i
    BY <1>1, <2>1, <2>2, <2>3 DEF One
  <2>4. CASE x # i
    BY <1>1, <2>1, <2>2, <2>4 DEF One
  <2> QED
    BY <2>3, <2>4
<1> QED
  BY <1>2, <1>3 DEF NlinksFollow

(* sys_link() counts the link before it looks for the new name.            *)
LEMMA LinkTree ==
  ASSUME Descends, CallsFromMenu, FsInv, TreeInv, NEW p \in Procs, Link(p)
  PROVE  TreeInv'
<1> DEFINE s == st[p]
           i == s.ip
           new == s.call.new
           start == StartOf(p, new)
           up == Loaded(i).nlink + 1
<1>1. Ilock(p, "link") /\ UNCHANGED <<dir, lock, tables>>
  BY DEF Link
<1>2. /\ i \in Inums /\ s.dp = 0 /\ s.cur = 0 /\ s.puts = <<>> /\ s.pc = "link"
      /\ Loaded(i).type # "none" /\ i # 0
  BY <1>1, IlockIp
<1>3. /\ CallOK(p) /\ ~Pending(s) /\ ~HasDotDot(s.path)
      /\ Loaded(i).type = dinode[i].type /\ Loaded(i).nlink = dinode[i].nlink
  BY <1>2, LoadedIs DEF Pending, Linking, TreeInv, CallOK
<1>4. CASE /\ Read(i) /\ UNCHANGED dinode
           /\ st' = [st EXCEPT ![p].pc = "done", ![p].ip = 0, ![p].puts = <<i>>]
  <2>1. st' = [st EXCEPT ![p] = DoneCall(s, s.path, <<i>>)] /\ FilesFrom(p) /\ cwd' = cwd
    BY <1>1, <1>4, DoneIs DEF FilesFrom, Inode, tables
  <2>2. ValidKept
    BY <1>2, <1>4, ReadKept DEF CacheKept
  <2> QED
    BY <1>1, <1>2, <1>3, <1>4, <2>1, <2>2, DoneTree
<1>5. CASE /\ Loaded(i).type # "dir"
           /\ dinode' = [dinode EXCEPT ![i] = [type |-> Loaded(i).type, nlink |-> up]]
           /\ cache' = [Slotted(start) EXCEPT ![i] = [Loaded(i) EXCEPT !.nlink = up]]
           /\ st' = [st EXCEPT ![p].pc = "walk2", ![p].path = Elements(new), ![p].cur = start]
  <2> DEFINE e == Elements(new)
             r == [s EXCEPT !.pc = "walk2", !.path = e, !.cur = start]
             k == [Loaded(i) EXCEPT !.nlink = up]
             d == [type |-> Loaded(i).type, nlink |-> up]
  <2>1. s \in States /\ Shape(s) /\ st \in [Procs -> States] /\ 0 \notin Inums
        /\ start \in Inums /\ start \in {Root, cwd[p]}
    BY Before DEF StartOf
  <2>2. s.call.op = "link" /\ ~HasDotDot(e)
    <3>1. s.call.op = "link" /\ s.call \in Calls
      BY <1>2, <2>1 DEF Shape, States
    <3>2. s.call # NoCall
      BY <3>1 DEF NoCall
    <3>3. s.call \in menu
      BY <3>2 DEF CallsFromMenu
    <3> QED
      BY <3>1, <3>3 DEF Descends
  <2>3. ValidKept
    <3>1. Loaded(i) \in Copies /\ Loaded(i).valid
      BY <1>2, LoadedIs
    <3> DEFINE l == Loaded(i)
    <3>2. up \in Int
      BY <3>1 DEF Copies
    <3> HIDE DEF l, up
    <3>3. k \in Copies /\ k.type = l.type /\ k.nlink = up
      BY <3>1, <3>2 DEF Copies, l
    <3>4. k.valid
      BY <3>1 DEF Copies, l
    <3>5. d \in [type : Types, nlink : Int] /\ d.type = l.type /\ d.nlink = up
      BY <3>1, <3>2 DEF Copies, l
    <3>6. cache' = [Slotted(start) EXCEPT ![i] = k] /\ dinode' = [dinode EXCEPT ![i] = d]
      BY <1>5
    <3> HIDE DEF k, d, start
    <3> QED
      BY <1>2, <2>1, <3>3, <3>4, <3>5, <3>6, SlottedUpdateKept DEF l, CacheKept
  <2>4. st' = [st EXCEPT ![p] = r]
    BY <1>5, <2>1
  <2>5. PICK j, n, t : j \in Inums /\ j = i /\ n = up /\ t = Loaded(i).type
    BY <1>2
  <2>6. dinode' = [dinode EXCEPT ![j] = [type |-> t, nlink |-> n]]
    BY <1>5, <2>5
  <2>7. j \in Inums /\ t = dinode[j].type /\ t # "none" /\ t # "dir" /\ n = dinode[j].nlink + 1
    BY <1>2, <1>3, <1>5, <2>5
  <2> HIDE DEF e, start, up
  <2>8. r.pc = "walk2" /\ r.cur = start /\ r.path = e /\ r.puts = <<>> /\ r.ip = j
        /\ r.dp = 0 /\ r.call = s.call
    BY <1>2, <2>1, <2>5 DEF States
  <2> HIDE DEF r
  <2>9. Moves(p) /\ FilesFrom(p) /\ st'[p] = r /\ cwd'[p] = cwd[p]
    BY <1>1, <2>4, TablesMoves
  <2>10. Pending(st'[p]) /\ p \in PendingOf(j)'
    BY <2>2, <2>8, <2>9 DEF Pending, Linking, PendingOf
  <2>11. TypesSame /\ FreeUnlinked' /\ NlinksFollow(p)
    BY <1>3, <2>6, <2>7, <2>10, OneCounted
  <2>12. LinksCounted'
    BY <1>1, <2>9, <2>11, LinksStep
  <2>13. GainsFound(p)
    <3>1. \A x \in Inums : UsesIn(r, cwd[p], x) => x \in {cwd[p], j, start}
      BY <2>1, <2>8, UsesIs, PutsIn
    <3>2. \A x : Uses(p, x)' <=> UsesIn(r, cwd[p], x)
      BY <2>9, Zenon DEF Uses
    <3>3. Uses(p, cwd[p]) /\ Uses(p, j)
      BY <1>2, <2>5 DEF Uses, UsesIn, CwdIn
    <3> QED
      BY <2>1, <3>1, <3>2, <3>3 DEF GainsFound
  <2>14. TypesOf(p)' /\ FoundOf(p)'
    <3>1. dinode'[j].type # "dir"
      BY <2>7, <2>11 DEF TypesSame
    <3> QED
      BY <2>8, <2>9, <3>1 DEF TypesOf, FoundOf
  <2> QED
    BY <1>1, <1>2, <2>2, <2>3, <2>8, <2>9, <2>11, <2>12, <2>13, <2>14, SameTreeStep
<1> QED
  BY <1>4, <1>5 DEF Link

(* A call that ends by taking back a link that has no name.                *)
LEMMA DiscountTree ==
  ASSUME FsInv, TreeInv, NEW p \in Procs, NEW i \in Inums, i = st[p].ip,
         Pending(st[p]), st[p].puts = <<>>, st[p].dp = 0, st[p].cur = 0, st[p].pc # "chdir2",
         NEW t \in Types, t = dinode[i].type, t # "none", NEW n, n = dinode[i].nlink - 1,
         Iupdate(i, t, n), dir' = dir, UNCHANGED tables,
         st' = [st EXCEPT ![p].pc = "done", ![p].ip = 0, ![p].puts = <<i>>]
  PROVE  TreeInv'
<1>1. st' = [st EXCEPT ![p] = DoneCall(st[p], st[p].path, <<i>>)] /\ FilesFrom(p) /\ cwd' = cwd
  BY DoneIs DEF FilesFrom, Inode, tables
<1>2. /\ Moves(p) /\ GainsFound(p) /\ TypesOf(p)' /\ FoundOf(p)'
      /\ st'[p].pc = "done" /\ st'[p].path = st[p].path /\ ~Pending(st'[p])
  BY <1>1, DoneUses
<1>3. n \in Int /\ dinode' = [dinode EXCEPT ![i] = [type |-> t, nlink |-> n]]
  BY Before DEF Iupdate
<1>4. ValidKept
  BY <1>3, IupdateKept DEF CacheKept
<1>5. p \in PendingOf(i)
  BY DEF PendingOf
<1>6. TypesSame /\ FreeUnlinked' /\ NlinksFollow(p)
  BY <1>2, <1>3, <1>5, OneCounted
<1>7. LinksCounted'
  BY <1>2, <1>6, LinksStep
<1>8. ~HasDotDot(st[p].path) /\ st[p].pc # "create2"
  BY DEF TreeInv, CallOK, Pending, Linking
<1> QED
  BY <1>1, <1>2, <1>4, <1>6, <1>7, <1>8, SameTreeStep

(* sys_link() takes the link back, and sys_unlink() discounts the name.    *)
LEMMA DiscountedTree ==
  ASSUME FsInv, TreeInv, NEW p \in Procs, LinkBad(p) \/ Unlinked(p)
  PROVE  TreeInv'
<1> DEFINE s == st[p]
           i == s.ip
<1>1. CASE LinkBad(p)
  <2>1. /\ Ilock(p, "linkbad") /\ Iupdate(i, Loaded(i).type, Loaded(i).nlink - 1)
        /\ UNCHANGED <<dir, tables>>
        /\ st' = [st EXCEPT ![p].pc = "done", ![p].ip = 0, ![p].puts = <<i>>]
    BY <1>1 DEF LinkBad
  <2>2. /\ i \in Inums /\ s.dp = 0 /\ s.cur = 0 /\ s.puts = <<>> /\ s.pc = "linkbad"
        /\ Loaded(i).type # "none"
    BY <2>1, IlockIp
  <2>3. PICK t, n : t = Loaded(i).type /\ n = Loaded(i).nlink - 1
    OBVIOUS
  <2>4. /\ t \in Types /\ t # "none" /\ t = dinode[i].type /\ n = dinode[i].nlink - 1
    BY <2>2, <2>3, LoadedIs DEF Copies
  <2>5. Pending(s)
    BY <2>2, Before DEF Pending, Linking, Shape
  <2>6. Iupdate(i, t, n)
    BY <2>1, <2>3
  <2> QED
    BY <2>1, <2>2, <2>4, <2>5, <2>6, DiscountTree
<1>2. CASE Unlinked(p)
  <2>1. /\ s.pc = "unlinked" /\ s.puts = <<>> /\ Iupdate(i, cache[i].type, cache[i].nlink - 1)
        /\ UNCHANGED <<dir, tables>>
        /\ st' = [st EXCEPT ![p].pc = "done", ![p].ip = 0, ![p].puts = <<i>>]
    BY <1>2 DEF Unlinked
  <2>2. s \in States /\ Shape(s) /\ cache \in [Inums -> Copies]
    BY Before
  <2>3. i \in Inums /\ s.dp = 0 /\ s.cur = 0
    BY <2>1, <2>2 DEF Shape, HasIp, HasDp, States, Numbers
  <2>4. PICK t, n : t = cache[i].type /\ n = cache[i].nlink - 1
    OBVIOUS
  <2>5. /\ t \in Types /\ t # "none" /\ t = dinode[i].type /\ n = dinode[i].nlink - 1
    <3>1. cache[i].valid /\ cache[i] \in Copies
      BY <2>1, <2>2, <2>3 DEF FsInv, UnlinkedValid
    <3> QED
      BY <2>3, <2>4, <3>1 DEF FsInv, Coherent, Copies
  <2>6. Iupdate(i, t, n) /\ Pending(s)
    BY <2>1, <2>4 DEF Pending
  <2> QED
    BY <2>1, <2>3, <2>5, <2>6, DiscountTree
<1> QED
  BY <1>1, <1>2


------------------------------------------------------------------------------
(* The steps that make, name, erase and free inodes.                       *)

(* Sets of links that grow or shrink by one.                               *)
LEMMA LinkCounts ==
  ASSUME NEW S \in SUBSET (Inums \X Names), NEW T \in SUBSET (Inums \X Names), NEW l
  PROVE  /\ Cardinality(S) \in Nat /\ Cardinality(T) \in Nat
         /\ T \subseteq S => Cardinality(T) <= Cardinality(S)
         /\ T \subseteq S \cup {l} => Cardinality(T) <= Cardinality(S) + 1
         /\ T \subseteq S \ {l} /\ l \in S => Cardinality(T) <= Cardinality(S) - 1
<1>1. IsFiniteSet(S) /\ IsFiniteSet(T)
  BY LinksFinite, FS_Subset
<1>2. Cardinality(S) \in Nat /\ Cardinality(T) \in Nat
  BY <1>1, FS_CardinalityType
<1>3. T \subseteq S => Cardinality(T) <= Cardinality(S)
  BY <1>1, FS_Subset
<1>4. ASSUME T \subseteq S \cup {l} PROVE Cardinality(T) <= Cardinality(S) + 1
  <2>1. IsFiniteSet(S \cup {l}) /\ Cardinality(S \cup {l}) <= Cardinality(S) + 1
    <3>1. CASE l \in S
      <4>1. S \cup {l} = S
        BY <3>1
      <4>2. Cardinality(S) <= Cardinality(S) + 1
        BY <1>2
      <4> QED
        BY <1>1, <4>1, <4>2, Zenon
    <3>2. CASE l \notin S
      <4> DEFINE U == S \cup {l}
      <4>1. IsFiniteSet(U) /\ Cardinality(U) = Cardinality(S) + 1
        BY <1>1, <3>2, FS_AddElement
      <4> QED
        BY <1>2, <4>1
    <3> QED
      BY <3>1, <3>2
  <2>2. Cardinality(T) <= Cardinality(S \cup {l}) /\ Cardinality(S \cup {l}) \in Nat
    BY <1>4, <2>1, FS_Subset, FS_CardinalityType
  <2> QED
    BY <1>2, <2>1, <2>2
<1>5. ASSUME T \subseteq S \ {l}, l \in S PROVE Cardinality(T) <= Cardinality(S) - 1
  <2>1. IsFiniteSet(S \ {l}) /\ Cardinality(S \ {l}) = Cardinality(S) - 1
    BY <1>1, <1>5, FS_RemoveElement
  <2>2. Cardinality(T) <= Cardinality(S \ {l})
    BY <1>5, <2>1, FS_Subset
  <2> QED
    BY <2>1, <2>2
<1> QED
  BY <1>2, <1>3, <1>4, <1>5

(* An inode without links has no names, and no call has a link to it       *)
(* pending.                                                                *)
LEMMA Unlinkedness ==
  ASSUME FsInv, TreeInv, NEW i \in Inums, dinode[i].nlink = 0
  PROVE  LinksTo(i) = {} /\ PendingOf(i) = {} /\ ~Named(i) /\ i # Root
<1>1. /\ Cardinality(LinksTo(i)) + Cardinality(PendingOf(i)) <= 0
      /\ Cardinality(LinksTo(i)) \in Nat /\ Cardinality(PendingOf(i)) \in Nat
      /\ IsFiniteSet(LinksTo(i)) /\ IsFiniteSet(PendingOf(i))
  BY LinksFinite DEF TreeInv, LinksCounted
<1>2. Cardinality(LinksTo(i)) = 0 /\ Cardinality(PendingOf(i)) = 0
  BY <1>1
<1>3. LinksTo(i) = {} /\ PendingOf(i) = {}
  BY <1>1, <1>2, FS_EmptySet
<1>4. ~Named(i)
  BY <1>3, NamedAllocated
<1>5. <<Root, "..">> \in LinksTo(Root)
  BY FileSysAssumption DEF LinksTo, IsLink, TreeInv, RootStays, Dots
<1> QED
  BY <1>3, <1>4, <1>5

(* A free inode is nobody's.                                               *)
LEMMA FreeIsNobodys ==
  ASSUME FsInv, TreeInv, NEW i \in Inums, dinode[i].type = "none"
  PROVE  /\ LinksTo(i) = {} /\ PendingOf(i) = {} /\ ~Named(i) /\ i # Root
         /\ dir[i] = Empty /\ \A q \in Procs : ~Uses(q, i)
         /\ \A f \in 1..NFILE : Inode(f) # i
<1>1. dinode[i].nlink = 0 /\ dir[i] = Empty
  BY DEF TreeInv, FreeUnlinked, OnlyDirsFilled
<1>2. \A q \in Procs : ~Uses(q, i)
  BY DEF TreeInv, CallOK, LiveOf
<1>3. 0 \notin Inums
  BY FileSysAssumption DEF Inums
<1>4. \A f \in 1..NFILE : Inode(f) # i
  BY <1>3 DEF Inode, InodeIn, FsInv, HeldAllocated
<1> QED
  BY <1>1, <1>2, <1>4, Unlinkedness

(* What ialloc() leaves behind, as the step of create() that calls it.     *)
Allocates(p, i) ==
  LET d == st[p].dp IN
  /\ Dirlookup(d, Head(st[p].path)) = 0
  /\ dinode' = [dinode EXCEPT ![i] = [type |-> TypeOf(st[p].call.op), nlink |-> 0]]
  /\ cache' = [Slotted(i) EXCEPT ![d] = Loaded(d)]
  /\ st' = [st EXCEPT ![p].pc = "create2", ![p].ip = i]
  /\ UNCHANGED <<dir, tables>>

(* create() takes an inode that nobody has a name or a pointer to.         *)
LEMMA AllocatesTree ==
  ASSUME FsInv, TreeInv, NEW p \in Procs, Ilock(p, "create"), NEW i \in Inums,
         dinode[i].type = "none", Allocates(p, i), ValidKept
  PROVE  TreeInv'
<1> DEFINE s == st[p]
           d == s.dp
           n == Head(s.path)
           r == [s EXCEPT !.pc = "create2", !.ip = i]
<1>1. /\ Dirlookup(d, n) = 0 /\ UNCHANGED <<dir, tables>>
      /\ st' = [st EXCEPT ![p].pc = "create2", ![p].ip = i]
  BY DEF Allocates
<1>2. DirLocked(p, "create")
  BY IlockDp
<1>3. /\ s \in States /\ 0 \notin Inums /\ st \in [Procs -> States] /\ s.pc = "create"
      /\ s.puts = <<>> /\ d \in Inums /\ s.cur = 0 /\ s.ip = 0
  BY <1>2 DEF DirLocked
<1>4. /\ dinode[d].type = "dir" /\ n \notin Dots /\ d # i
      /\ \A x : Uses(p, x) <=> x \in {cwd[p], s.ip, d, 0}
  BY <1>1, EntryFound
<1>5. /\ LinksTo(i) = {} /\ PendingOf(i) = {} /\ ~Named(i) /\ i # Root
      /\ dir[i] = Empty /\ \A q \in Procs : ~Uses(q, i)
      /\ \A f \in 1..NFILE : Inode(f) # i
  BY FreeIsNobodys
<1>6. /\ dinode'[i].type # "none" /\ dinode'[i].nlink = 0
      /\ \A x \in Inums : x # i => dinode'[x] = dinode[x]
  BY Before DEF Allocates, TypeOf
<1>7. dinode[i].nlink = 0
  BY DEF TreeInv, FreeUnlinked
<1>8. cache'[d].valid
  <2>1. Slotted(i) \in [Inums -> Copies] /\ Loaded(d).valid
    BY <1>3, SlottedIs, LoadedIs
  <2> QED
    BY <1>3, <2>1 DEF Allocates
<1>9. st' = [st EXCEPT ![p] = r]
  BY <1>1, <1>3
<1>10. /\ r.pc = "create2" /\ r.dp = d /\ r.path = s.path /\ r.puts = <<>> /\ r.ip = i
       /\ r.cur = 0
  BY <1>3 DEF States
<1> HIDE DEF r
<1>11. Moves(p) /\ FilesFrom(p) /\ st'[p] = r /\ cwd'[p] = cwd[p]
  BY <1>1, <1>9, TablesMoves
<1>12. \A x \in Inums : Uses(p, x)' => Uses(p, x) \/ x = i
  <2>1. \A x \in Inums : UsesIn(r, cwd[p], x) => x \in {cwd[p], i, d}
    BY <1>3, <1>10, UsesIs, PutsIn
  <2>2. \A x : Uses(p, x)' <=> UsesIn(r, cwd[p], x)
    BY <1>11, Zenon DEF Uses
  <2> QED
    BY <1>4, <2>1, <2>2
<1>13. \A x : Named(x)' <=> Named(x)
  BY <1>1 DEF Named, Entry
<1>14. CallOK(p)'
  <2>1. CallOK(p) /\ cwd[p] # i
    BY <1>4, <1>5 DEF TreeInv
  <2>2. ~HasDotDot(st'[p].path)
    BY <1>10, <1>11, <2>1 DEF CallOK
  <2>3. LiveOf(p)'
    BY <1>6, <1>12, <2>1 DEF CallOK, LiveOf
  <2>4. TypesOf(p)'
    BY <1>3, <1>4, <1>6, <1>10, <1>11 DEF TypesOf, Linking
  <2>5. FoundOf(p)'
    BY <1>1, <1>4, <1>8, <1>10, <1>11 DEF FoundOf, Dirlookup
  <2>6. FreshOf(p)'
    <3>1. \A q \in Procs : q # p => ~Uses(q, i)'
      BY <1>5, <1>11 DEF Moves, Uses
    <3>2. \A f \in 1..NFILE : Inode(f)' # i
      BY <1>1, <1>5 DEF tables, Inode
    <3>3. ~Named(i)' /\ dir'[i] = Empty /\ i # Root /\ cwd'[p] # i
      BY <1>1, <1>5, <1>11, <1>13, <2>1
    <3>4. st'[p].ip = i /\ st'[p].dp # i
      BY <1>4, <1>10, <1>11
    <3> QED
      BY <3>1, <3>2, <3>3, <3>4 DEF FreshOf, Uses, Named
  <2> QED
    BY <2>2, <2>3, <2>4, <2>5, <2>6 DEF CallOK
<1>15. OthersKept(p)
  <2> SUFFICES ASSUME NEW q \in Procs, q # p
               PROVE  /\ \A x \in Inums : Uses(q, x) => dinode'[x].type = dinode[x].type
                      /\ st[q].pc \in {"create2", "unlink2"} =>
                           dir'[st[q].dp][Head(st[q].path)] = dir[st[q].dp][Head(st[q].path)]
                      /\ st[q].pc = "create2" =>
                           /\ ~Named(st[q].ip)' /\ dir'[st[q].ip] = Empty
                           /\ ~Uses(p, st[q].ip)'
    BY DEF OthersKept
  <2>1. ASSUME st[q].pc = "create2"
        PROVE  ~Named(st[q].ip)' /\ dir'[st[q].ip] = Empty /\ ~Uses(p, st[q].ip)'
    <3>1. PICK x \in Inums : x = st[q].ip
      BY <2>1, InHand
    <3>2. CallOK(q) /\ Uses(q, x) /\ x = st'[q].ip
      BY <1>11, <2>1, <3>1, InHand DEF TreeInv, Moves
    <3>3. ~Named(x) /\ dir[x] = Empty /\ ~Uses(p, x) /\ x # i
      BY <1>5, <2>1, <3>1, <3>2 DEF CallOK, FreshOf
    <3>4. ~Named(x)' /\ ~Uses(p, x)' /\ dir'[x] = Empty
      BY <1>1, <1>12, <1>13, <3>3
    <3> QED
      BY <3>1, <3>2, <3>4 DEF Named, Uses
  <2>2. \A x \in Inums : Uses(q, x) => dinode'[x].type = dinode[x].type
    BY <1>5, <1>6
  <2> QED
    BY <1>1, <2>1, <2>2
<1>16. \A q \in Procs : CallOK(q)'
  BY <1>11, <1>14, <1>15, CallsStep
<1>17. FreeUnlinked' /\ OnlyDirsFilled'
  BY <1>1, <1>5, <1>6 DEF TreeInv, FreeUnlinked, OnlyDirsFilled
<1>18. DirsHaveDot'
  <2>1. Makes(p, i)' /\ \A q \in Procs, x \in Inums : Makes(q, x) => Makes(q, x)'
    BY <1>3, <1>10, <1>11 DEF Makes, Moves
  <2> QED
    BY <1>1, <1>6, <2>1 DEF TreeInv, DirsHaveDot
<1>19. LinksCounted'
  <2>1. ~Pending(s) /\ ~Pending(st'[p])
    BY <1>3, <1>10, <1>11 DEF Pending, Linking
  <2>2. \A x \in Inums : dinode'[x].nlink = dinode[x].nlink /\ dinode[x].nlink \in Int
    BY <1>6, <1>7, Before
  <2>3. \A x \in Inums : p \notin PendingOf(x) /\ p \notin PendingOf(x)'
    BY <2>1 DEF PendingOf
  <2>4. NlinksFollow(p)
    BY <2>2, <2>3 DEF NlinksFollow, One
  <2> QED
    BY <1>1, <1>11, <2>4, LinksStep
<1>20. RootStays'
  BY <1>1, <1>5, <1>6, <1>13, FileSysAssumption DEF TreeInv, RootStays
<1>21. DirectoryTree'
  <2>1. \A c \in Inums : Named(c) => dinode'[c] = dinode[c]
    BY <1>5, <1>6
  <2>2. \A c \in Inums : dinode[c].type = "dir" => dinode'[c].type = "dir"
    BY <1>6
  <2>3. \A c, e \in Inums, m \in Names : Entry(e, m, c)' <=> Entry(e, m, c)
    BY <1>1 DEF Entry
  <2>4. \A c, e \in Inums, m \in Names : Entry(e, m, c) => Named(c)
    BY DEF Named
  <2> QED
    BY <1>1, <2>1, <2>2, <2>3, <2>4 DEF TreeInv, DirectoryTree
<1> QED
  BY <1>16, <1>17, <1>18, <1>19, <1>20, <1>21 DEF TreeInv


(* create() locks the directory, looks the name up and allocates an inode  *)
(* if there is none.                                                       *)
LEMMA CreateTree ==
  ASSUME FsInv, TreeInv, NEW p \in Procs, Create(p)
  PROVE  TreeInv'
<1> DEFINE s == st[p]
           d == s.dp
           old == Dirlookup(d, Head(s.path))
           new == Least(FreeInums)
<1>1. Ilock(p, "create") /\ UNCHANGED <<dir, tables>>
  BY DEF Create
<1>2. CASE UNCHANGED <<dinode, cache, st>>
  BY <1>1, <1>2, StillTree DEF tables, Inode
<1>3. CASE /\ old # 0
           /\ cache' = [Slotted(old) EXCEPT ![d] = Loaded(d)]
           /\ st' = [st EXCEPT ![p].pc = "exists", ![p].ip = old, ![p].dp = 0, ![p].puts = <<d>>]
           /\ UNCHANGED dinode
  BY <1>1, <1>3, CreateOldTree
<1>4. CASE /\ old = 0 /\ FreeInums # {}
           /\ dinode' = [dinode EXCEPT ![new] = [type |-> TypeOf(s.call.op), nlink |-> 0]]
           /\ cache' = [Slotted(new) EXCEPT ![d] = Loaded(d)]
           /\ st' = [st EXCEPT ![p].pc = "create2", ![p].ip = new]
  <2>1. new \in FreeInums
    <3>1. FreeInums \in SUBSET Nat
      BY FileSysAssumption DEF FreeInums, Inums
    <3> QED
      BY <1>4, <3>1, LeastIsIn, Zenon
  <2>2. PICK i \in Inums : i = new /\ dinode[i].type = "none"
    BY <2>1 DEF FreeInums
  <2>3. Allocates(p, i)
    BY <1>1, <1>4, <2>2 DEF Allocates
  <2>4. ValidKept
    <3> DEFINE t == [type |-> TypeOf(s.call.op), nlink |-> 0]
    <3>1. t \in [type : Types, nlink : Int] /\ t.type # "none"
      BY DEF Types, TypeOf
    <3>2. d \in Inums /\ Loaded(d).type # "none"
      BY <1>1, IlockDp, EntryFound DEF DirLocked
    <3>3. cache' = [Slotted(i) EXCEPT ![d] = Loaded(d)] /\ dinode' = [dinode EXCEPT ![i] = t]
      BY <2>3 DEF Allocates
    <3> HIDE DEF t
    <3> QED
      BY <2>2, <3>1, <3>2, <3>3, IallocKept DEF CacheKept
  <2> QED
    BY <1>1, <2>2, <2>3, <2>4, AllocatesTree
<1> QED
  BY <1>2, <1>3, <1>4 DEF Create

(* A step of p that names or erases inode i in the directory d it has      *)
(* locked.                                                                 *)
Renames(p, d, i) ==
  /\ Uses(p, d) /\ Uses(p, i) /\ lock[d] \in {Nobody, p}
  /\ \A x \in Inums : Uses(p, x)' => Uses(p, x)
  /\ \A x \in Inums \ {d, i} : dir'[x] = dir[x]
  /\ dir'[i] = dir[i] \/ \A q \in Procs : q # p => ~Uses(q, i)
  /\ \A x \in Inums : Named(x)' => Named(x) \/ x = i

(* The locks keep the directories of the other calls as they are.          *)
LEMMA RenamesKept ==
  ASSUME FsInv, TreeInv, NEW p \in Procs, NEW d \in Inums, NEW i \in Inums, Renames(p, d, i),
         Moves(p), TypesSame
  PROVE  OthersKept(p)
<1> SUFFICES ASSUME NEW q \in Procs, q # p
             PROVE  /\ \A x \in Inums : Uses(q, x) => dinode'[x].type = dinode[x].type
                    /\ st[q].pc \in {"create2", "unlink2"} =>
                         dir'[st[q].dp][Head(st[q].path)] = dir[st[q].dp][Head(st[q].path)]
                    /\ st[q].pc = "create2" =>
                         /\ ~Named(st[q].ip)' /\ dir'[st[q].ip] = Empty
                         /\ ~Uses(p, st[q].ip)'
  BY DEF OthersKept
<1>1. ASSUME st[q].pc \in {"create2", "unlink2"} PROVE dir'[st[q].dp] = dir[st[q].dp]
  <2>1. lock[st[q].dp] = q /\ st[q].dp \in Inums /\ Uses(q, st[q].dp)
    BY <1>1, InHand DEF FsInv, LocksHeld
  <2>2. st[q].dp # d
    BY <2>1, FileSysAssumption DEF Renames
  <2> QED
    BY <2>1, <2>2 DEF Renames
<1>2. ASSUME st[q].pc = "create2"
      PROVE  ~Named(st[q].ip)' /\ dir'[st[q].ip] = Empty /\ ~Uses(p, st[q].ip)'
  <2>1. PICK x \in Inums : x = st[q].ip
    BY <1>2, InHand
  <2>2. CallOK(q) /\ x = st'[q].ip
    BY <2>1 DEF TreeInv, Moves
  <2>3. ~Named(x) /\ dir[x] = Empty /\ ~Uses(p, x)
    BY <1>2, <2>1, <2>2 DEF CallOK, FreshOf
  <2>4. ~Named(x)' /\ ~Uses(p, x)' /\ dir'[x] = Empty
    BY <2>3 DEF Renames
  <2> QED
    BY <2>1, <2>2, <2>4 DEF Named, Uses
<1> QED
  BY <1>1, <1>2 DEF TypesSame

(* create() names the inode it has made.                                   *)
Makes2(p, d, i, n) ==
  /\ d = st[p].dp /\ i = st[p].ip /\ n = Head(st[p].path) /\ n \notin Dots
  /\ st[p].pc = "create2" /\ d # i /\ dir[d][n] = 0 /\ dinode[d].type = "dir"
  /\ dinode[i].type # "none" /\ dir[i] = Empty /\ ~Named(i) /\ i # Root
  /\ \A q \in Procs : q # p => ~Uses(q, i)

(* What create() knows when it has both inodes locked.                     *)
LEMMA MakesIs ==
  ASSUME FsInv, TreeInv, NEW p \in Procs, Ilock(p, "create2"),
         NEW d, d = st[p].dp, NEW i, i = st[p].ip, NEW n, n = Head(st[p].path)
  PROVE  /\ Makes2(p, d, i, n) /\ cache[d].nlink = dinode[d].nlink
         /\ Loaded(i).type = dinode[i].type /\ d \in Inums /\ i \in Inums /\ n \in Names
<1>1. BothLocked(p, "create2")
  BY IlockBoth
<1>2. /\ d \in Inums /\ i \in Inums /\ n \in Names /\ d # i /\ d # 0 /\ st[p].pc = "create2"
      /\ Loaded(i).type # "none"
  BY <1>1 DEF BothLocked
<1>3. CallOK(p) /\ Loaded(i).type = dinode[i].type
  BY <1>2, LoadedIs DEF TreeInv
<1>4. cache[d].valid /\ n \notin Dots /\ dir[d][n] = 0
  BY <1>2, <1>3 DEF CallOK, FoundOf
<1>5. cache[d].nlink = dinode[d].nlink
  BY <1>2, <1>4 DEF FsInv, Coherent
<1>6. dinode[d].type = "dir"
  BY <1>2, <1>3 DEF CallOK, TypesOf
<1>7. dir[i] = Empty /\ ~Named(i) /\ i # Root /\ \A q \in Procs : q # p => ~Uses(q, i)
  BY <1>2, <1>3 DEF CallOK, FreshOf
<1> QED
  BY <1>2, <1>3, <1>4, <1>5, <1>6, <1>7 DEF Makes2


(* Directory d gets the entry n for inode i, and i the entries of a        *)
(* directory if it is one.                                                 *)
AddsEntry(d, n, i) ==
  /\ d # i /\ i # Root /\ n \notin Dots /\ dinode[d].type = "dir" /\ dir[i] = Empty /\ TypesSame
  /\ \A e, x \in Inums, m \in Names :
       Entry(e, m, x)' <=> Entry(e, m, x) \/ (e = d /\ m = n /\ x = i)
  /\ \A e \in Inums \ {i} : dir'[e]["."] = dir[e]["."] /\ dir'[e][".."] = dir[e][".."]
  /\ \A e \in Inums \ {d, i} : dir'[e] = dir[e]
  /\ \/ dinode[i].type = "dir" /\ dir'[i][".."] = d /\ dir'[i]["."] = i /\ ~Named(i)
     \/ dinode[i].type # "dir" /\ dir'[i] = Empty

(* The tree with one entry more.                                           *)
LEMMA AddedTree ==
  ASSUME FsInv, TreeInv, NEW d \in Inums, NEW i \in Inums, NEW n \in Names, AddsEntry(d, n, i)
  PROVE  /\ \A x \in Inums : Named(x)' => Named(x) \/ x = i
         /\ OnlyDirsFilled' /\ RootStays' /\ DirectoryTree'
<1>0. ".." \in Names /\ "." \in Names /\ Root \in Inums
  BY FileSysAssumption DEF Dots
<1>1. \A x \in Inums : Named(x)' => Named(x) \/ x = i
  BY DEF Named, AddsEntry
<1>2. OnlyDirsFilled'
  BY DEF AddsEntry, TreeInv, OnlyDirsFilled, TypesSame
<1>3. RootStays'
  BY <1>0, <1>1 DEF AddsEntry, TreeInv, RootStays, TypesSame
<1>4. ASSUME NEW c \in Inums, NEW e \in Inums, NEW m \in Names,
             Entry(e, m, c)', dinode'[c].type = "dir"
      PROVE  /\ dir'[c][".."] = e /\ dir'[c]["."] = c /\ dinode'[e].type = "dir"
             /\ \A f \in Inums, o \in Names : Entry(f, o, c)' => <<f, o>> = <<e, m>>
  <2>1. \A f, x \in Inums, o \in Names :
          Entry(f, o, x)' <=> Entry(f, o, x) \/ (f = d /\ o = n /\ x = i)
    BY DEF AddsEntry
  <2>2. dinode[c].type = "dir"
    BY <1>4 DEF AddsEntry, TypesSame
  <2>3. CASE c = i
    <3>1. ~Named(c) /\ dir'[c][".."] = d /\ dir'[c]["."] = c
      BY <2>2, <2>3 DEF AddsEntry
    <3>2. \A f \in Inums, o \in Names : ~Entry(f, o, c)
      BY <3>1 DEF Named
    <3>3. e = d /\ m = n /\ \A f \in Inums, o \in Names : Entry(f, o, c)' => f = d /\ o = n
      BY <1>4, <2>1, <3>2
    <3>4. dinode'[d].type = "dir"
      BY DEF AddsEntry, TypesSame
    <3> QED
      BY <3>1, <3>3, <3>4
  <2>4. CASE c # i
    <3>1. Entry(e, m, c) /\ \A f \in Inums, o \in Names : Entry(f, o, c)' => Entry(f, o, c)
      BY <1>4, <2>1, <2>4
    <3>2. /\ dir[c][".."] = e /\ dir[c]["."] = c /\ dinode[e].type = "dir"
          /\ \A f \in Inums, o \in Names : Entry(f, o, c) => <<f, o>> = <<e, m>>
      BY <2>2, <3>1 DEF TreeInv, DirectoryTree
    <3>3. dir'[c][".."] = dir[c][".."] /\ dir'[c]["."] = dir[c]["."]
      BY <2>4 DEF AddsEntry
    <3>4. dinode'[e].type = "dir"
      BY <3>2 DEF AddsEntry, TypesSame
    <3> QED
      BY <3>1, <3>2, <3>3, <3>4
  <2> QED
    BY <2>3, <2>4
<1>5. DirectoryTree'
  BY <1>4 DEF DirectoryTree
<1> QED
  BY <1>1, <1>2, <1>3, <1>5

(* The links with one entry more.                                          *)
LEMMA AddedLinks ==
  ASSUME FsInv, TreeInv, NEW d \in Inums, NEW i \in Inums, NEW n \in Names, AddsEntry(d, n, i),
         NEW x \in Inums
  PROVE  /\ x # i /\ (x # d \/ dinode[i].type # "dir") => LinksTo(x)' \subseteq LinksTo(x)
         /\ x # i => LinksTo(x)' \subseteq LinksTo(x) \cup {<<i, "..">>}
         /\ x = i => LinksTo(x)' \subseteq LinksTo(x) \cup {<<d, n>>}
<1>0. ".." \in Names /\ ".." \in Dots /\ 0 \notin Inums /\ Root \in Inums
  BY FileSysAssumption DEF Dots, Inums
<1>1. ASSUME NEW e \in Inums, NEW m \in Names, IsLink(e, m, x)'
      PROVE  \/ IsLink(e, m, x)
             \/ e = d /\ m = n /\ x = i
             \/ e = i /\ m = ".." /\ x = d /\ dinode[i].type = "dir"
  <2>1. CASE Entry(e, m, x)'
    BY <2>1 DEF AddsEntry, IsLink
  <2>2. CASE m = ".." /\ dir'[e][m] = x /\ (e = Root \/ Named(e)')
    <3>1. CASE e = i
      <4>1. CASE dinode[i].type = "dir"
        BY <2>2, <3>1, <4>1 DEF AddsEntry
      <4>2. CASE dinode[i].type # "dir"
        <5>1. dir'[e][m] = 0
          BY <3>1, <4>2 DEF AddsEntry, Empty
        <5> QED
          BY <1>0, <2>2, <5>1
      <4> QED
        BY <4>1, <4>2
    <3>2. CASE e # i
      <4>1. dir[e][m] = x /\ (e = Root \/ Named(e))
        BY <2>2, <3>2, AddedTree DEF AddsEntry
      <4> QED
        BY <2>2, <4>1 DEF IsLink, Named
    <3> QED
      BY <3>1, <3>2
  <2> QED
    BY <1>1, <2>1, <2>2 DEF IsLink, Named
<1>2. \A l \in LinksTo(x)' : l \in Inums \X Names /\ IsLink(l[1], l[2], x)'
  BY DEF LinksTo
<1>3. \A l \in Inums \X Names : IsLink(l[1], l[2], x) => l \in LinksTo(x)
  BY DEF LinksTo
<1>4. ASSUME NEW l \in LinksTo(x)'
      PROVE  \/ l \in LinksTo(x)
             \/ l = <<d, n>> /\ x = i
             \/ l = <<i, "..">> /\ x = d /\ dinode[i].type = "dir"
  <2>1. l \in Inums \X Names /\ IsLink(l[1], l[2], x)'
    BY <1>2
  <2>2. l[1] \in Inums /\ l[2] \in Names /\ l = <<l[1], l[2]>>
    BY <2>1
  <2> QED
    BY <1>1, <1>3, <2>1, <2>2
<1>5. d # i
  BY DEF AddsEntry
<1> QED
  BY <1>4, <1>5


(* create() and sys_unlink() put the directory, and keep the inode.        *)
LEMMA ParentPutUses ==
  ASSUME FsInv, NEW p \in Procs, NEW l \in {"create2", "unlink2"}, BothLocked(p, l),
         NEW a \in {"created", "unlinked"}, UNCHANGED tables,
         st' = [st EXCEPT ![p].pc = a, ![p].dp = 0, ![p].path = <<>>, ![p].puts = <<st[p].dp>>]
  PROVE  /\ Moves(p) /\ FilesFrom(p) /\ st'[p].pc = a /\ st'[p].ip = st[p].ip /\ st'[p].dp = 0
         /\ ~HasDotDot(st'[p].path) /\ \A x \in Inums : Uses(p, x)' => Uses(p, x)
<1> DEFINE s == st[p]
           d == s.dp
           e == <<>>
           q == <<d>>
           r == [s EXCEPT !.pc = a, !.dp = 0, !.path = e, !.puts = q]
<1>1. /\ s \in States /\ st \in [Procs -> States] /\ 0 \notin Inums /\ s.pc = l /\ s.cur = 0
      /\ s.puts = <<>>
  BY DEF BothLocked
<1>2. ~HasDotDot(e)
  BY DEF HasDotDot
<1>0. st' = [st EXCEPT ![p] = r]
  BY <1>1
<1> HIDE DEF e
<1>3. r.pc = a /\ r.cur = 0 /\ r.path = e /\ r.puts = <<d>> /\ r.ip = s.ip /\ r.dp = 0
  BY <1>1 DEF States
<1> HIDE DEF r
<1>4. Moves(p) /\ FilesFrom(p) /\ st'[p] = r /\ cwd'[p] = cwd[p]
  BY <1>0, TablesMoves
<1>5. \A x \in Inums : UsesIn(r, cwd[p], x) => x \in {cwd[p], s.ip, d}
  BY <1>1, <1>3, UsesIs, PutsIn
<1>6. \A x : Uses(p, x)' <=> UsesIn(r, cwd[p], x)
  BY <1>4, Zenon DEF Uses
<1>7. Uses(p, cwd[p]) /\ Uses(p, s.ip) /\ Uses(p, d)
  BY <1>1 DEF Uses, UsesIn, CwdIn
<1> QED
  BY <1>2, <1>3, <1>4, <1>5, <1>6, <1>7

(* create() names the inode it has made: the first link of the new inode,  *)
(* and one more of the directory if it is the ".." of a new one.           *)
LEMMA CreateLinkTree ==
  ASSUME FsInv, TreeInv, NEW p \in Procs, CreateLink(p)
  PROVE  TreeInv'
<1>1. PICK d, i, n, t, c : /\ d = st[p].dp /\ i = st[p].ip /\ n = Head(st[p].path)
                           /\ t = Loaded(i).type /\ c = cache[d].nlink
  OBVIOUS
<1> DEFINE dirs == [dir EXCEPT ![d][n] = i]
           linked == [dinode EXCEPT ![i] = [type |-> t, nlink |-> 1]]
<1>2. /\ Ilock(p, "create2")
      /\ \/ /\ t = "dir" /\ dinode' = [linked EXCEPT ![d].nlink = c + 1]
            /\ dir' = [dirs EXCEPT ![i]["."] = i, ![i][".."] = d]
         \/ t # "dir" /\ dinode' = linked /\ dir' = dirs
      /\ cache' = [cache EXCEPT ![d].nlink = IF t = "dir" THEN @ + 1 ELSE @,
                                ![i] = [valid |-> TRUE, type |-> t, nlink |-> 1]]
      /\ st' = [st EXCEPT ![p].pc = "created", ![p].dp = 0, ![p].path = <<>>,
                          ![p].puts = <<d>>]
      /\ UNCHANGED tables
  BY <1>1 DEF CreateLink
<1>3. /\ Makes2(p, d, i, n) /\ c = dinode[d].nlink /\ t = dinode[i].type
      /\ d \in Inums /\ i \in Inums /\ n \in Names
  BY <1>1, <1>2, MakesIs
<1>4. /\ d # i /\ n \notin Dots /\ dir[d][n] = 0 /\ dinode[d].type = "dir" /\ t # "none"
      /\ dir[i] = Empty /\ ~Named(i) /\ i # Root /\ \A q \in Procs : q # p => ~Uses(q, i)
      /\ st[p].pc = "create2"
  BY <1>3 DEF Makes2
<1>5. /\ dinode \in [Inums -> [type : Types, nlink : Int]] /\ cache \in [Inums -> Copies]
      /\ dir \in [Inums -> Entries] /\ 0 \notin Inums
  BY Before
<1>6. "." \in Names /\ ".." \in Names /\ n # "." /\ n # ".." /\ "." \in Dots /\ ".." \in Dots
  BY <1>4, FileSysAssumption DEF Dots
<1>7. /\ Moves(p) /\ FilesFrom(p) /\ st'[p].pc = "created" /\ st'[p].ip = i /\ st'[p].dp = 0
      /\ ~HasDotDot(st'[p].path) /\ \A x \in Inums : Uses(p, x)' => Uses(p, x)
  <2>1. BothLocked(p, "create2") /\ "create2" \in {"create2", "unlink2"}
        /\ "created" \in {"created", "unlinked"}
    BY <1>2, IlockBoth
  <2> QED
    BY <1>1, <1>2, <2>1, ParentPutUses
<1>8. /\ dinode'[i].type = t /\ dinode'[i].nlink = 1 /\ dinode'[d].type = dinode[d].type
      /\ t = "dir" => dinode'[d].nlink = dinode[d].nlink + 1
      /\ t # "dir" => dinode'[d].nlink = dinode[d].nlink
      /\ \A x \in Inums : x # i /\ x # d => dinode'[x] = dinode[x]
  BY <1>2, <1>3, <1>4, <1>5
<1>9. TypesSame /\ FreeUnlinked'
  BY <1>3, <1>4, <1>8 DEF TypesSame, TreeInv, FreeUnlinked
<1>10. ValidKept
  <2> DEFINE m == IF t = "dir" THEN cache[d].nlink + 1 ELSE cache[d].nlink
             v == [cache[d] EXCEPT !.nlink = m]
             k == [valid |-> TRUE, type |-> t, nlink |-> 1]
  <2>1. cache' = [cache EXCEPT ![d] = v, ![i] = k]
    BY <1>2, <1>3, <1>4, <1>5
  <2>2. (v.valid <=> cache[d].valid) /\ k.valid
    BY <1>3, <1>5 DEF Copies
  <2> HIDE DEF v, k
  <2>3. cache'[i] = k /\ cache'[d] = v /\ \A x \in Inums : x # i /\ x # d => cache'[x] = cache[x]
    BY <1>3, <1>4, <1>5, <2>1
  <2> QED
    BY <2>2, <2>3 DEF ValidKept
<1>11. /\ \A m \in Names : dir'[d][m] = IF m = n THEN i ELSE dir[d][m]
       /\ \A x \in Inums \ {d, i} : dir'[x] = dir[x]
       /\ t = "dir" => \A m \in Names : dir'[i][m] = IF m = "." THEN i ELSE IF m = ".." THEN d ELSE 0
       /\ t # "dir" => dir'[i] = Empty
  <2>1. dir[d] \in [Names -> Inums \cup {0}] /\ dir[i] \in [Names -> Inums \cup {0}]
        /\ \A m \in Names : dir[i][m] = 0
    BY <1>3, <1>4, <1>5 DEF Entries, Empty
  <2>2. CASE t = "dir" /\ dir' = [dirs EXCEPT ![i]["."] = i, ![i][".."] = d]
    BY <1>3, <1>4, <1>5, <1>6, <2>1, <2>2
  <2>3. CASE t # "dir" /\ dir' = dirs
    BY <1>3, <1>4, <1>5, <1>6, <2>1, <2>3
  <2> QED
    BY <1>2, <2>2, <2>3
<1>12. AddsEntry(d, n, i)
  <2>1. ASSUME NEW e \in Inums, NEW x \in Inums, NEW m \in Names
        PROVE  Entry(e, m, x)' <=> Entry(e, m, x) \/ (e = d /\ m = n /\ x = i)
    <3>1. CASE e = d
      BY <1>4, <1>5, <1>11, <3>1 DEF Entry
    <3>2. CASE e = i
      BY <1>4, <1>5, <1>6, <1>11, <3>2 DEF Entry, Empty, Dots
    <3>3. CASE e # d /\ e # i
      BY <1>11, <3>3 DEF Entry
    <3> QED
      BY <3>1, <3>2, <3>3
  <2>2. \A e \in Inums \ {i} : dir'[e]["."] = dir[e]["."] /\ dir'[e][".."] = dir[e][".."]
    BY <1>6, <1>11
  <2>3. \/ dinode[i].type = "dir" /\ dir'[i][".."] = d /\ dir'[i]["."] = i /\ ~Named(i)
        \/ dinode[i].type # "dir" /\ dir'[i] = Empty
    BY <1>3, <1>4, <1>6, <1>11
  <2> QED
    BY <1>4, <1>9, <1>11, <2>1, <2>2, <2>3 DEF AddsEntry
<1>13. /\ \A x \in Inums : Named(x)' => Named(x) \/ x = i
       /\ OnlyDirsFilled' /\ RootStays' /\ DirectoryTree'
  BY <1>3, <1>12, AddedTree
<1>14. Renames(p, d, i)
  <2>1. Uses(p, d) /\ Uses(p, i)
    BY <1>1 DEF Uses, UsesIn
  <2>2. lock[d] = p
    BY <1>1, <1>4 DEF FsInv, LocksHeld
  <2> QED
    BY <1>4, <1>7, <1>11, <1>13, <2>1, <2>2 DEF Renames
<1>15. \A q \in Procs : CallOK(q)'
  <2>1. LiveOf(p)'
    BY <1>7, <1>9 DEF TreeInv, CallOK, LiveOf, TypesSame
  <2>2. CallOK(p)'
    BY <1>7, <2>1 DEF CallOK, TypesOf, FreshOf, FoundOf, Linking
  <2> QED
    BY <1>3, <1>7, <1>9, <1>10, <1>14, <2>2, RenamesKept, CallsStep
<1>16. DirsHaveDot'
  <2>1. \A q \in Procs, x \in Inums : x # i => (Makes(q, x)' <=> Makes(q, x))
    BY <1>1, <1>4, <1>7 DEF Makes, Moves
  <2> QED
    BY <1>3, <1>6, <1>9, <1>11, <2>1 DEF TreeInv, DirsHaveDot, TypesSame
<1>17. LinksCounted'
  <2> SUFFICES ASSUME NEW x \in Inums
               PROVE  Cardinality(LinksTo(x)') + Cardinality(PendingOf(x)') <= dinode'[x].nlink
    BY DEF LinksCounted
  <2>1. PendingOf(x)' = PendingOf(x)
    <3>1. ~Pending(st[p]) /\ ~Pending(st'[p])
      BY <1>4, <1>7 DEF Pending, Linking
    <3> QED
      BY <1>7, <3>1 DEF PendingOf, Moves
  <2>2. /\ Cardinality(LinksTo(x)) + Cardinality(PendingOf(x)) <= dinode[x].nlink
        /\ Cardinality(LinksTo(x)) \in Nat /\ Cardinality(PendingOf(x)) \in Nat
        /\ LinksTo(x) \in SUBSET (Inums \X Names) /\ dinode[x].nlink \in Int
    BY <1>5, LinksFinite DEF TreeInv, LinksCounted
  <2>3. LinksTo(x)' \in SUBSET (Inums \X Names) /\ Cardinality(LinksTo(x)') \in Nat
    <3>1. LinksTo(x)' \in SUBSET (Inums \X Names)
      BY DEF LinksTo
    <3> QED
      BY <2>2, <3>1, LinkCounts
  <2>4. CASE x # i /\ (x # d \/ t # "dir")
    <3>1. LinksTo(x)' \subseteq LinksTo(x)
      BY <1>3, <1>12, <2>4, AddedLinks
    <3>2. Cardinality(LinksTo(x)') <= Cardinality(LinksTo(x)) /\ dinode'[x].nlink = dinode[x].nlink
      BY <1>8, <2>2, <2>3, <2>4, <3>1, LinkCounts
    <3> QED
      BY <2>1, <2>2, <2>3, <3>2
  <2>5. CASE x = d /\ t = "dir"
    <3>1. LinksTo(x)' \subseteq LinksTo(x) \cup {<<i, "..">>}
      BY <1>3, <1>4, <1>12, <2>5, AddedLinks
    <3>2. /\ Cardinality(LinksTo(x)') <= Cardinality(LinksTo(x)) + 1
          /\ dinode'[x].nlink = dinode[x].nlink + 1
      BY <1>8, <2>2, <2>3, <2>5, <3>1, LinkCounts
    <3> QED
      BY <2>1, <2>2, <2>3, <3>2
  <2>6. CASE x = i
    <3>1. LinksTo(x) = {}
      <4> SUFFICES ASSUME NEW e \in Inums, NEW m \in Names, IsLink(e, m, i) PROVE FALSE
        BY <2>6 DEF LinksTo
      <4>1. ~Entry(e, m, i)
        BY <1>4 DEF Named
      <4>2. dir[e][".."] = i /\ (e = Root \/ Named(e))
        BY <4>1 DEF IsLink, Named
      <4>3. e # Root
        BY <1>4, <4>2 DEF TreeInv, RootStays
      <4>4. dinode[e].type = "dir"
        BY <1>3, <1>5, <1>6, <4>2 DEF TreeInv, OnlyDirsFilled, Empty
      <4>5. PICK f \in Inums, o \in Names : Entry(f, o, e)
        BY <4>2, <4>3 DEF Named
      <4>6. f = i
        BY <4>2, <4>4, <4>5 DEF TreeInv, DirectoryTree
      <4> QED
        BY <1>4, <1>5, <4>5, <4>6 DEF Entry, Empty
    <3>2. PendingOf(x) = {}
      <4>1. ~Pending(st[p])
        BY <1>4 DEF Pending, Linking
      <4>2. ASSUME NEW q \in Procs, q # p PROVE st[q].ip # i
        BY <1>4, <4>2 DEF Uses, UsesIn
      <4> QED
        BY <2>6, <4>1, <4>2 DEF PendingOf
    <3>3. LinksTo(x)' \subseteq LinksTo(x) \cup {<<d, n>>}
      BY <1>3, <1>12, <2>6, AddedLinks
    <3>4. /\ Cardinality(LinksTo(x)') <= Cardinality(LinksTo(x)) + 1 /\ dinode'[x].nlink = 1
      BY <1>8, <2>2, <2>3, <2>6, <3>3, LinkCounts
    <3>5. Cardinality(LinksTo(x)) = 0 /\ Cardinality(PendingOf(x)) = 0
      BY <3>1, <3>2, FS_EmptySet
    <3> QED
      BY <2>1, <2>3, <3>4, <3>5
  <2> QED
    BY <2>4, <2>5, <2>6
<1> QED
  BY <1>9, <1>13, <1>15, <1>16, <1>17 DEF TreeInv


(* sys_link() names the inode: the pending link becomes one with a name.   *)
LEMMA LinkNamedTree ==
  ASSUME FsInv, TreeInv, NEW p \in Procs, Ilock(p, "link2"),
         NEW d, d = st[p].dp, NEW i, i = st[p].ip, NEW n, n = Head(st[p].path),
         Dirlookup(d, n) = 0, dir' = [dir EXCEPT ![d][n] = i], Read(d),
         st' = [st EXCEPT ![p].pc = "done", ![p].ip = 0, ![p].dp = 0,
                          ![p].path = <<>>, ![p].puts = <<d, i>>],
         UNCHANGED <<dinode, tables>>
  PROVE  TreeInv'
<1> DEFINE s == st[p]
           e == <<>>
           q == <<d, i>>
           r == [s EXCEPT !.pc = "done", !.ip = 0, !.dp = 0, !.path = e, !.puts = q]
<1>1. DirLocked(p, "link2")
  BY IlockDp
<1>2. /\ s \in States /\ 0 \notin Inums /\ st \in [Procs -> States] /\ s.pc = "link2"
      /\ s.puts = <<>> /\ d \in Inums /\ i \in Inums /\ s.cur = 0 /\ s.call.op = "link"
      /\ n \in Names /\ lock[d] = Nobody
  BY <1>1, IlockIs DEF DirLocked
<1>3. /\ Loaded(d).type = "dir" /\ dinode[d].type = "dir" /\ n \notin Dots
      /\ \A x : Uses(p, x) <=> x \in {cwd[p], i, d, 0}
  BY EntryFound
<1>4. CallOK(p) /\ Linking(s) /\ dinode[i].type # "dir" /\ dir[d][n] = 0
  BY <1>2 DEF TreeInv, CallOK, TypesOf, Linking, Dirlookup
<1>5. dir[i] = Empty /\ d # i /\ i # Root
  BY <1>2, <1>3, <1>4 DEF TreeInv, OnlyDirsFilled, RootStays
<1>6. ~HasDotDot(e)
  BY DEF HasDotDot
<1>7. st' = [st EXCEPT ![p] = r]
  BY <1>2
<1> HIDE DEF e
<1>8. r.pc = "done" /\ r.cur = 0 /\ r.path = e /\ r.puts = <<d, i>> /\ r.ip = 0 /\ r.dp = 0
  BY <1>2 DEF States
<1> HIDE DEF r
<1>9. Moves(p) /\ FilesFrom(p) /\ st'[p] = r /\ cwd'[p] = cwd[p]
  BY <1>7, TablesMoves
<1>10. \A x \in Inums : Uses(p, x)' => Uses(p, x)
  <2>1. \A x \in Inums : UsesIn(r, cwd[p], x) => x \in {cwd[p], i, d}
    BY <1>2, <1>8, UsesIs, PutsIn
  <2>2. \A x : Uses(p, x)' <=> UsesIn(r, cwd[p], x)
    BY <1>9, Zenon DEF Uses
  <2> QED
    BY <1>3, <2>1, <2>2
<1>11. TypesSame /\ FreeUnlinked' /\ ValidKept
  BY <1>2, <1>3, ReadKept DEF TypesSame, TreeInv, FreeUnlinked, CacheKept
<1>12. /\ \A m \in Names : dir'[d][m] = IF m = n THEN i ELSE dir[d][m]
       /\ \A x \in Inums \ {d} : dir'[x] = dir[x]
  BY <1>2, Before DEF Entries
<1>13. "." \in Names /\ ".." \in Names /\ n # "." /\ n # ".." /\ "." \in Dots /\ ".." \in Dots
  BY <1>3, FileSysAssumption DEF Dots
<1>14. AddsEntry(d, n, i)
  <2>1. ASSUME NEW f \in Inums, NEW x \in Inums, NEW m \in Names
        PROVE  Entry(f, m, x)' <=> Entry(f, m, x) \/ (f = d /\ m = n /\ x = i)
    <3>1. CASE f = d
      BY <1>2, <1>3, <1>4, <1>12, <3>1 DEF Entry
    <3>2. CASE f # d
      BY <1>12, <3>2 DEF Entry
    <3> QED
      BY <3>1, <3>2
  <2>2. \A f \in Inums \ {i} : dir'[f]["."] = dir[f]["."] /\ dir'[f][".."] = dir[f][".."]
    BY <1>12, <1>13
  <2>3. dir'[i] = Empty
    BY <1>2, <1>5, <1>12
  <2> QED
    BY <1>3, <1>4, <1>5, <1>11, <1>12, <2>1, <2>2, <2>3 DEF AddsEntry
<1>15. /\ \A x \in Inums : Named(x)' => Named(x) \/ x = i
       /\ OnlyDirsFilled' /\ RootStays' /\ DirectoryTree'
  BY <1>2, <1>14, AddedTree
<1>16. Renames(p, d, i)
  BY <1>2, <1>3, <1>5, <1>10, <1>12, <1>15 DEF Renames
<1>17. \A o \in Procs : CallOK(o)'
  <2>1. LiveOf(p)'
    BY <1>4, <1>10, <1>11 DEF CallOK, LiveOf, TypesSame
  <2>2. CallOK(p)'
    BY <1>6, <1>8, <1>9, <2>1 DEF CallOK, TypesOf, FreshOf, FoundOf, Linking
  <2> QED
    BY <1>2, <1>9, <1>11, <1>16, <2>2, RenamesKept, CallsStep
<1>18. DirsHaveDot'
  <2>1. \A o \in Procs, x \in Inums : Makes(o, x)' <=> Makes(o, x)
    BY <1>2, <1>8, <1>9 DEF Makes, Moves
  <2> QED
    BY <1>11, <1>12, <1>13, <2>1 DEF TreeInv, DirsHaveDot, TypesSame
<1>19. LinksCounted'
  <2> SUFFICES ASSUME NEW x \in Inums
               PROVE  Cardinality(LinksTo(x)') + Cardinality(PendingOf(x)') <= dinode'[x].nlink
    BY DEF LinksCounted
  <2>1. /\ Cardinality(PendingOf(x)')
             = Cardinality(PendingOf(x)) - One(p \in PendingOf(x)) + One(p \in PendingOf(x)')
    BY <1>9, PendingStep
  <2>2. p \notin PendingOf(x)' /\ (p \in PendingOf(x) <=> x = i)
    BY <1>4, <1>8, <1>9 DEF PendingOf, Pending, Linking
  <2>3. /\ Cardinality(LinksTo(x)) + Cardinality(PendingOf(x)) <= dinode[x].nlink
        /\ Cardinality(LinksTo(x)) \in Nat /\ Cardinality(PendingOf(x)) \in Nat
        /\ LinksTo(x) \in SUBSET (Inums \X Names) /\ dinode[x].nlink \in Int
    BY Before, LinksFinite DEF TreeInv, LinksCounted
  <2>4. LinksTo(x)' \in SUBSET (Inums \X Names) /\ Cardinality(LinksTo(x)') \in Nat
    <3>1. LinksTo(x)' \in SUBSET (Inums \X Names)
      BY DEF LinksTo
    <3> QED
      BY <2>3, <3>1, LinkCounts
  <2>5. Cardinality(LinksTo(x)') <= Cardinality(LinksTo(x)) + One(x = i)
    <3>1. CASE x # i
      <4>1. LinksTo(x)' \subseteq LinksTo(x)
        BY <1>2, <1>4, <1>14, <3>1, AddedLinks
      <4>2. Cardinality(LinksTo(x)') <= Cardinality(LinksTo(x))
        BY <2>3, <2>4, <4>1, LinkCounts
      <4> QED
        BY <2>3, <2>4, <3>1, <4>2 DEF One
    <3>2. CASE x = i
      <4>1. LinksTo(x)' \subseteq LinksTo(x) \cup {<<d, n>>}
        BY <1>2, <1>14, <3>2, AddedLinks
      <4>2. Cardinality(LinksTo(x)') <= Cardinality(LinksTo(x)) + 1
        BY <2>3, <2>4, <4>1, LinkCounts
      <4> QED
        BY <3>2, <4>2 DEF One
    <3> QED
      BY <3>1, <3>2
  <2>6. One(p \in PendingOf(x)) = One(x = i) /\ One(p \in PendingOf(x)') = 0 /\ One(x = i) \in Nat
    BY <2>2 DEF One
  <2>7. dinode'[x].nlink = dinode[x].nlink
    OBVIOUS
  <2> QED
    BY <2>1, <2>3, <2>4, <2>5, <2>6, <2>7
<1> QED
  BY <1>11, <1>15, <1>17, <1>18, <1>19 DEF TreeInv

(* sys_link() looks the new name up.                                       *)
LEMMA LinkEntryTree ==
  ASSUME FsInv, TreeInv, NEW p \in Procs, LinkEntry(p)
  PROVE  TreeInv'
<1>1. PICK d, i, n : d = st[p].dp /\ i = st[p].ip /\ n = Head(st[p].path)
  OBVIOUS
<1>2. Ilock(p, "link2") /\ UNCHANGED <<dinode, tables>>
  BY DEF LinkEntry
<1>3. CASE Dirlookup(d, n) = 0
  <2>1. /\ dir' = [dir EXCEPT ![d][n] = i] /\ Read(d)
        /\ st' = [st EXCEPT ![p].pc = "done", ![p].ip = 0, ![p].dp = 0,
                            ![p].path = <<>>, ![p].puts = <<d, i>>]
    BY <1>1, <1>3 DEF LinkEntry
  <2> QED
    BY <1>1, <1>2, <1>3, <2>1, LinkNamedTree
<1>4. CASE Dirlookup(d, n) # 0
  <2>1. PICK old : old = Dirlookup(st[p].dp, Head(st[p].path)) /\ old # 0
    BY <1>1, <1>4
  <2>2. /\ cache' = [Slotted(old) EXCEPT ![st[p].dp] = Loaded(st[p].dp)]
        /\ st' = [st EXCEPT ![p].pc = "drop", ![p].path = <<>>, ![p].puts = <<old>>]
        /\ dir' = dir
    BY <2>1 DEF LinkEntry
  <2> QED
    BY <1>2, <2>1, <2>2, LinkTakenTree
<1> QED
  BY <1>3, <1>4


(* What sys_unlink() knows when it has both inodes locked.                 *)
LEMMA ErasesIs ==
  ASSUME FsInv, TreeInv, NEW p \in Procs, Ilock(p, "unlink2"),
         NEW d, d = st[p].dp, NEW i, i = st[p].ip, NEW n, n = Head(st[p].path)
  PROVE  /\ d \in Inums /\ i \in Inums /\ n \in Names /\ d # i /\ n \notin Dots
         /\ dir[d][n] = i /\ Entry(d, n, i) /\ Named(i) /\ i # Root /\ dinode[d].type = "dir"
         /\ cache[d].nlink = dinode[d].nlink /\ Loaded(i).type = dinode[i].type
         /\ st[p].pc = "unlink2" /\ st[p].call.op = "unlink" /\ lock[d] = p
         /\ Loaded(i).type # "none" /\ Uses(p, d) /\ Uses(p, i)
<1>1. BothLocked(p, "unlink2")
  BY IlockBoth
<1>2. /\ d \in Inums /\ i \in Inums /\ n \in Names /\ d # i /\ d # 0 /\ st[p].pc = "unlink2"
      /\ Loaded(i).type # "none" /\ st[p].call.op = "unlink" /\ lock[d] = p
  BY <1>1 DEF BothLocked
<1>3. CallOK(p) /\ Loaded(i).type = dinode[i].type
  BY <1>2, LoadedIs DEF TreeInv
<1>4. cache[d].valid /\ n \notin Dots /\ dir[d][n] = i
  BY <1>2, <1>3 DEF CallOK, FoundOf
<1>5. cache[d].nlink = dinode[d].nlink
  BY <1>2, <1>4 DEF FsInv, Coherent
<1>6. dinode[d].type = "dir"
  BY <1>2, <1>3 DEF CallOK, TypesOf
<1>7. Entry(d, n, i) /\ Named(i)
  BY <1>2, <1>4 DEF Entry, Named
<1>8. i # Root
  BY <1>7 DEF TreeInv, RootStays
<1>9. Uses(p, d) /\ Uses(p, i)
  BY DEF Uses, UsesIn
<1> QED
  BY <1>2, <1>3, <1>4, <1>5, <1>6, <1>7, <1>8, <1>9

(* A directory in use is not erased.                                       *)
LEMMA UnlinkInUseTree ==
  ASSUME FsInv, TreeInv, NEW p \in Procs, Ilock(p, "unlink2"),
         NEW i, i = st[p].ip, Read(i), UNCHANGED <<dinode, dir, tables>>,
         st' = [st EXCEPT ![p].pc = "drop", ![p].ip = 0, ![p].path = <<>>, ![p].puts = <<i>>]
  PROVE  TreeInv'
<1> DEFINE s == st[p]
           d == s.dp
           e == <<>>
           q == <<i>>
           r == [s EXCEPT !.pc = "drop", !.ip = 0, !.path = e, !.puts = q]
<1>1. BothLocked(p, "unlink2")
  BY IlockBoth
<1>2. /\ s \in States /\ 0 \notin Inums /\ st \in [Procs -> States] /\ s.pc = "unlink2"
      /\ s.puts = <<>> /\ d \in Inums /\ i \in Inums /\ s.cur = 0 /\ s.call.op = "unlink"
      /\ Loaded(i).type # "none" /\ dinode[d].type = "dir"
  BY <1>1, ErasesIs DEF BothLocked
<1>3. ~HasDotDot(e)
  BY DEF HasDotDot
<1>4. st' = [st EXCEPT ![p] = r]
  BY <1>2
<1> HIDE DEF e
<1>5. r.pc = "drop" /\ r.cur = 0 /\ r.path = e /\ r.puts = <<i>> /\ r.ip = 0 /\ r.dp = d
      /\ r.call = s.call
  BY <1>2 DEF States
<1> HIDE DEF r
<1>6. Moves(p) /\ FilesFrom(p) /\ st'[p] = r /\ cwd'[p] = cwd[p]
  BY <1>4, TablesMoves
<1>7. GainsFound(p)
  <2>1. \A x \in Inums : UsesIn(r, cwd[p], x) => x \in {cwd[p], i, d}
    BY <1>2, <1>5, UsesIs, PutsIn
  <2>2. \A x : Uses(p, x)' <=> UsesIn(r, cwd[p], x)
    BY <1>6, Zenon DEF Uses
  <2>3. Uses(p, cwd[p]) /\ Uses(p, i) /\ Uses(p, d)
    BY <1>2 DEF Uses, UsesIn, CwdIn
  <2> QED
    BY <2>1, <2>2, <2>3 DEF GainsFound
<1>8. ValidKept
  BY <1>2, ReadKept DEF CacheKept
<1>9. TypesOf(p)' /\ FoundOf(p)' /\ ~Pending(st'[p]) /\ ~Pending(s)
  BY <1>2, <1>5, <1>6 DEF TypesOf, FoundOf, Pending, Linking
<1> QED
  BY <1>2, <1>3, <1>5, <1>6, <1>7, <1>8, <1>9, QuietTreeStep

(* The entry n of directory d, for inode i, is erased.                     *)
Erases(p, d, i, n) ==
  /\ d = st[p].dp /\ i = st[p].ip /\ n = Head(st[p].path)
  /\ Ilock(p, "unlink2") /\ dir' = [dir EXCEPT ![d][n] = 0]
  /\ dinode' = [dinode EXCEPT ![d].nlink =
                  cache[d].nlink - (IF Loaded(i).type = "dir" THEN 1 ELSE 0)]
  /\ cache' = [cache EXCEPT ![i] = Loaded(i), ![d].nlink =
                  cache[d].nlink - (IF Loaded(i).type = "dir" THEN 1 ELSE 0)]
  /\ st' = [st EXCEPT ![p].pc = "unlinked", ![p].dp = 0, ![p].path = <<>>, ![p].puts = <<d>>]
  /\ UNCHANGED tables

(* The name is gone and its link pending; the ".." of a directory that is  *)
(* erased no longer counts for its parent.                                 *)
LEMMA ErasesTree ==
  ASSUME FsInv, TreeInv, NEW p \in Procs, NEW d, NEW i, NEW n, Erases(p, d, i, n)
  PROVE  TreeInv'
<1>1. /\ d = st[p].dp /\ i = st[p].ip /\ n = Head(st[p].path) /\ Ilock(p, "unlink2")
      /\ dir' = [dir EXCEPT ![d][n] = 0] /\ UNCHANGED tables
      /\ st' = [st EXCEPT ![p].pc = "unlinked", ![p].dp = 0, ![p].path = <<>>, ![p].puts = <<d>>]
  BY DEF Erases
<1>2. /\ d \in Inums /\ i \in Inums /\ n \in Names /\ d # i /\ n \notin Dots
      /\ dir[d][n] = i /\ Entry(d, n, i) /\ Named(i) /\ i # Root /\ dinode[d].type = "dir"
      /\ cache[d].nlink = dinode[d].nlink /\ Loaded(i).type = dinode[i].type
      /\ st[p].pc = "unlink2" /\ st[p].call.op = "unlink" /\ lock[d] = p
      /\ Uses(p, d) /\ Uses(p, i)
  BY <1>1, ErasesIs
<1>3. /\ dinode \in [Inums -> [type : Types, nlink : Int]] /\ cache \in [Inums -> Copies]
      /\ dir \in [Inums -> Entries] /\ 0 \notin Inums
  BY Before
<1>4. "." \in Names /\ ".." \in Names /\ n # "." /\ n # ".." /\ "." \in Dots /\ ".." \in Dots
  BY <1>2, FileSysAssumption DEF Dots
<1>5. /\ Moves(p) /\ FilesFrom(p) /\ st'[p].pc = "unlinked" /\ st'[p].ip = i /\ st'[p].dp = 0
      /\ ~HasDotDot(st'[p].path) /\ \A x \in Inums : Uses(p, x)' => Uses(p, x)
  <2>1. BothLocked(p, "unlink2") /\ "unlink2" \in {"create2", "unlink2"}
        /\ "unlinked" \in {"created", "unlinked"}
    BY <1>1, IlockBoth
  <2> QED
    BY <1>1, <2>1, ParentPutUses
<1>6. PICK k : k = cache[d].nlink - (IF Loaded(i).type = "dir" THEN 1 ELSE 0)
  OBVIOUS
<1>7. /\ dinode' = [dinode EXCEPT ![d].nlink = k]
      /\ cache' = [cache EXCEPT ![i] = Loaded(i), ![d].nlink = k]
  BY <1>6 DEF Erases
<1>8. k = dinode[d].nlink - One(dinode[i].type = "dir")
  BY <1>2, <1>6 DEF One
<1>9. /\ dinode'[d].type = dinode[d].type /\ dinode'[d].nlink = k
      /\ \A x \in Inums : x # d => dinode'[x] = dinode[x]
  BY <1>2, <1>3, <1>7
<1>10. TypesSame /\ FreeUnlinked'
  BY <1>2, <1>9 DEF TypesSame, TreeInv, FreeUnlinked
<1>11. ValidKept
  <2> DEFINE v == [cache[d] EXCEPT !.nlink = k]
             l == Loaded(i)
  <2>1. cache' = [cache EXCEPT ![i] = l, ![d] = v]
    BY <1>2, <1>3, <1>7
  <2>2. v.valid <=> cache[d].valid
    BY <1>2, <1>3 DEF Copies
  <2>3. l.valid
    BY <1>2, LoadedIs
  <2> HIDE DEF v, l
  <2>4. cache'[i] = l /\ cache'[d] = v /\ \A x \in Inums : x # i /\ x # d => cache'[x] = cache[x]
    BY <1>2, <1>3, <2>1
  <2> QED
    BY <2>2, <2>3, <2>4 DEF ValidKept
<1>12. /\ \A m \in Names : dir'[d][m] = IF m = n THEN 0 ELSE dir[d][m]
       /\ \A x \in Inums \ {d} : dir'[x] = dir[x]
  BY <1>1, <1>2, <1>3 DEF Entries
<1>13. \A e, x \in Inums, m \in Names :
         Entry(e, m, x)' <=> Entry(e, m, x) /\ ~(e = d /\ m = n)
  <2> SUFFICES ASSUME NEW e \in Inums, NEW x \in Inums, NEW m \in Names
               PROVE  Entry(e, m, x)' <=> Entry(e, m, x) /\ ~(e = d /\ m = n)
    OBVIOUS
  <2>1. CASE e = d
    BY <1>3, <1>12, <2>1 DEF Entry
  <2>2. CASE e # d
    BY <1>12, <2>2 DEF Entry
  <2> QED
    BY <2>1, <2>2
<1>14. \A e \in Inums : dir'[e]["."] = dir[e]["."] /\ dir'[e][".."] = dir[e][".."]
  BY <1>4, <1>12
<1>15. \A x \in Inums : Named(x)' => Named(x)
  BY <1>13 DEF Named
<1>16. Renames(p, d, i)
  BY <1>2, <1>5, <1>12, <1>15 DEF Renames
<1>17. \A q \in Procs : CallOK(q)'
  <2>1. LiveOf(p)'
    BY <1>5, <1>10 DEF TreeInv, CallOK, LiveOf, TypesSame
  <2>2. CallOK(p)'
    BY <1>5, <2>1 DEF CallOK, TypesOf, FreshOf, FoundOf, Linking
  <2> QED
    BY <1>2, <1>5, <1>10, <1>11, <1>16, <2>2, RenamesKept, CallsStep
<1>18. DirsHaveDot'
  <2>1. \A q \in Procs, x \in Inums : Makes(q, x)' <=> Makes(q, x)
    BY <1>2, <1>5 DEF Makes, Moves
  <2> QED
    BY <1>10, <1>14, <2>1 DEF TreeInv, DirsHaveDot, TypesSame
<1>19. OnlyDirsFilled' /\ RootStays'
  BY <1>2, <1>10, <1>12, <1>14, <1>15, FileSysAssumption
     DEF TreeInv, OnlyDirsFilled, RootStays, TypesSame
<1>20. DirectoryTree'
  BY <1>10, <1>13, <1>14 DEF TreeInv, DirectoryTree, TypesSame
<1>21. LinksCounted'
  <2> SUFFICES ASSUME NEW x \in Inums
               PROVE  Cardinality(LinksTo(x)') + Cardinality(PendingOf(x)') <= dinode'[x].nlink
    BY DEF LinksCounted
  <2>1. /\ Cardinality(PendingOf(x)')
             = Cardinality(PendingOf(x)) - One(p \in PendingOf(x)) + One(p \in PendingOf(x)')
    BY <1>5, PendingStep
  <2>2. p \notin PendingOf(x) /\ (p \in PendingOf(x)' <=> x = i)
    BY <1>2, <1>5 DEF PendingOf, Pending, Linking
  <2>3. /\ Cardinality(LinksTo(x)) + Cardinality(PendingOf(x)) <= dinode[x].nlink
        /\ Cardinality(LinksTo(x)) \in Nat /\ Cardinality(PendingOf(x)) \in Nat
        /\ LinksTo(x) \in SUBSET (Inums \X Names) /\ dinode[x].nlink \in Int
    BY <1>3, LinksFinite DEF TreeInv, LinksCounted
  <2>4. LinksTo(x)' \in SUBSET (Inums \X Names)
    BY DEF LinksTo
  <2>5. One(p \in PendingOf(x)) = 0 /\ One(p \in PendingOf(x)') = One(x = i)
    BY <2>2 DEF One
  <2>6. LinksTo(x)' \subseteq LinksTo(x)
    <3> SUFFICES ASSUME NEW e \in Inums, NEW m \in Names, IsLink(e, m, x)' PROVE IsLink(e, m, x)
      BY DEF LinksTo
    <3>1. CASE Entry(e, m, x)'
      BY <1>13, <3>1 DEF IsLink
    <3>2. CASE m = ".." /\ dir'[e][m] = x /\ (e = Root \/ Named(e)')
      BY <1>14, <1>15, <3>2 DEF IsLink, Named
    <3> QED
      BY <3>1, <3>2 DEF IsLink, Named
  <2>7. CASE x = i
    <3>1. <<d, n>> \in LinksTo(x)
      BY <1>2, <2>7 DEF LinksTo, IsLink
    <3>2. <<d, n>> \notin LinksTo(x)'
      BY <1>2, <1>4, <1>13, <2>7 DEF LinksTo, IsLink
    <3>3. LinksTo(x)' \subseteq LinksTo(x) \ {<<d, n>>}
      BY <2>6, <3>2
    <3>4. Cardinality(LinksTo(x)') <= Cardinality(LinksTo(x)) - 1 /\ Cardinality(LinksTo(x)') \in Nat
      BY <2>3, <2>4, <3>1, <3>3, LinkCounts
    <3>5. dinode'[x].nlink = dinode[x].nlink
      BY <1>2, <1>9, <2>7
    <3> QED
      BY <2>1, <2>3, <2>5, <2>7, <3>4, <3>5 DEF One
  <2>8. CASE x = d /\ dinode[i].type = "dir"
    <3>1. dir[i][".."] = d /\ \A e \in Inums, m \in Names : Entry(e, m, i) => e = d /\ m = n
      BY <1>2, <2>8 DEF TreeInv, DirectoryTree
    <3>2. <<i, "..">> \in LinksTo(x)
      BY <1>2, <1>4, <2>8, <3>1 DEF LinksTo, IsLink, Named
    <3>3. ~Named(i)'
      BY <1>2, <1>13, <3>1 DEF Named
    <3>4. <<i, "..">> \notin LinksTo(x)'
      BY <1>2, <1>4, <3>3 DEF LinksTo, IsLink, Entry, Named
    <3>5. LinksTo(x)' \subseteq LinksTo(x) \ {<<i, "..">>}
      BY <2>6, <3>4
    <3>6. Cardinality(LinksTo(x)') <= Cardinality(LinksTo(x)) - 1 /\ Cardinality(LinksTo(x)') \in Nat
      BY <2>3, <2>4, <3>2, <3>5, LinkCounts
    <3>7. dinode'[x].nlink = dinode[x].nlink - 1 /\ x # i
      BY <1>2, <1>8, <1>9, <2>8 DEF One
    <3> QED
      BY <2>1, <2>3, <2>5, <3>6, <3>7 DEF One
  <2>9. CASE x # i /\ ~(x = d /\ dinode[i].type = "dir")
    <3>1. Cardinality(LinksTo(x)') <= Cardinality(LinksTo(x)) /\ Cardinality(LinksTo(x)') \in Nat
      BY <2>3, <2>4, <2>6, LinkCounts
    <3>2. dinode'[x].nlink = dinode[x].nlink
      BY <1>8, <1>9, <2>3, <2>9 DEF One
    <3> QED
      BY <2>1, <2>3, <2>5, <2>9, <3>1, <3>2 DEF One
  <2> QED
    BY <2>7, <2>8, <2>9
<1> QED
  BY <1>10, <1>17, <1>18, <1>19, <1>20, <1>21 DEF TreeInv

(* sys_unlink() with both inodes locked.                                   *)
LEMMA UnlinkEntryTree ==
  ASSUME FsInv, TreeInv, NEW p \in Procs, UnlinkEntry(p)
  PROVE  TreeInv'
<1>1. PICK d, i, n : d = st[p].dp /\ i = st[p].ip /\ n = Head(st[p].path)
  OBVIOUS
<1>2. Ilock(p, "unlink2") /\ UNCHANGED tables
  BY DEF UnlinkEntry
<1>3. CASE UNCHANGED <<dinode, dir, cache, st>>
  BY <1>2, <1>3, StillTree DEF tables, Inode
<1>4. CASE /\ Read(i) /\ UNCHANGED <<dinode, dir>>
           /\ st' = [st EXCEPT ![p].pc = "drop", ![p].ip = 0, ![p].path = <<>>, ![p].puts = <<i>>]
  BY <1>1, <1>2, <1>4, UnlinkInUseTree
<1>5. CASE Erases(p, d, i, n)
  BY <1>5, ErasesTree
<1> QED
  BY <1>1, <1>2, <1>3, <1>4, <1>5 DEF UnlinkEntry, Erases

(* The pointer that iput() is about to drop is the last: no other call     *)
(* waits to drop one.                                                      *)
LEMMA LastPut ==
  ASSUME NEW i, Total(i) = 1, NEW p \in Procs, Put1(p) = i
  PROVE  \A q \in Procs : Put2(q) # i /\ (q # p => Put1(q) # i)
<1> DEFINE c1 == Cardinality(CwdOf(i))
           c2 == Cardinality(CurOf(i))
           c3 == Cardinality(IpOf(i))
           c4 == Cardinality(DpOf(i))
           c5 == Cardinality(Put1Of(i))
           c6 == Cardinality(Put2Of(i))
           c7 == Cardinality(FilesOf(i))
<1>1. c1 \in Nat /\ c2 \in Nat /\ c3 \in Nat /\ c4 \in Nat /\ c5 \in Nat /\ c6 \in Nat /\ c7 \in Nat
  BY Finite
<1>2. c1 + c2 + c3 + c4 + c5 + c6 + c7 = 1 /\ c5 >= 1
  BY Pointed DEF Total
<1> HIDE DEF c1, c2, c3, c4, c5, c6, c7
<1>3. c5 = 1 /\ c6 = 0
  BY <1>1, <1>2
<1>4. IsFiniteSet(Put1Of(i)) /\ IsFiniteSet(Put2Of(i))
  <2>1. Put1Of(i) \in SUBSET Procs /\ Put2Of(i) \in SUBSET Procs
    BY DEF Put1Of, Put2Of
  <2> QED
    BY <2>1, Finite, FS_Subset
<1>5. Put2Of(i) = {}
  BY <1>3, <1>4, FS_EmptySet DEF c6
<1>6. PICK x : Put1Of(i) = {x}
  BY <1>3, <1>4, FS_Singleton DEF c5
<1> QED
  BY <1>5, <1>6 DEF Put1Of, Put2Of

(* The last reference to an inode without links is dropped: it has no      *)
(* name, and nobody can get at it, so that it can be emptied and freed.    *)
Frees(p, i) ==
  /\ i \in Inums /\ st[p].puts # <<>> /\ i = Head(st[p].puts)
  /\ cache[i].valid /\ cache[i].nlink = 0 /\ ref[i] = 1
  /\ dir' = [dir EXCEPT ![i] = Empty]
  /\ dinode' = [dinode EXCEPT ![i] = [type |-> "none", nlink |-> 0]]
  /\ cache' = [cache EXCEPT ![i] = [valid |-> FALSE, type |-> "none", nlink |-> 0]]
  /\ st' = [st EXCEPT ![p].half = TRUE]
  /\ UNCHANGED tables

(* What the call and the others have in hand when it is freed.             *)
LEMMA FreesUses ==
  ASSUME FsInv, TreeInv, NEW p \in Procs, NEW i, Frees(p, i)
  PROVE  /\ Moves(p) /\ FilesFrom(p) /\ Unheld(i)
         /\ \A q \in Procs : q # p => ~Uses(q, i)
         /\ ~Uses(p, i)' /\ \A x : Uses(p, x)' => Uses(p, x)
         /\ st'[p].pc = st[p].pc /\ st'[p].path = st[p].path /\ st'[p].ip = st[p].ip
         /\ st'[p].dp = st[p].dp /\ st'[p].call = st[p].call
<1> DEFINE s == st[p]
           r == [s EXCEPT !.half = TRUE]
<1>1. /\ i \in Inums /\ s.puts # <<>> /\ i = Head(s.puts) /\ ref[i] = 1
      /\ st' = [st EXCEPT ![p].half = TRUE] /\ UNCHANGED tables
  BY DEF Frees
<1>2. s \in States /\ 0 \notin Inums /\ st \in [Procs -> States]
  BY Before
<1>3. Put1(p) = i /\ Put1In(s) = i
  <2>1. s.puts \in Seq(Inums) /\ Len(s.puts) >= 1 /\ i = s.puts[1]
    BY <1>1, <1>2 DEF States
  <2> QED
    BY <2>1 DEF Put1, Put1In
<1>4. st' = [st EXCEPT ![p] = r]
  BY <1>1, <1>2
<1>5. r.pc = s.pc /\ r.cur = s.cur /\ r.path = s.path /\ r.puts = s.puts /\ r.ip = s.ip
      /\ r.dp = s.dp /\ r.call = s.call
  BY <1>2 DEF States
<1>6. r.half
  BY <1>2 DEF States
<1> HIDE DEF r
<1>7. Moves(p) /\ FilesFrom(p) /\ st'[p] = r /\ cwd'[p] = cwd[p]
  BY <1>1, <1>4, TablesMoves
<1>8. Total(i) = 1
  BY <1>1 DEF FsInv, RefCounted
<1>9. Unheld(i)
  BY <1>3, <1>8, LastPointer
<1>10. \A q \in Procs : Put2(q) # i /\ (q # p => Put1(q) # i)
  BY <1>3, <1>8, LastPut
<1>11. \A q \in Procs : q # p => ~Uses(q, i)
  BY <1>9, <1>10 DEF Unheld, Uses, UsesIn, Cwd, Put1, Put2
<1>12. \A x : Uses(p, x)' => Uses(p, x)
  BY <1>5, <1>6, <1>7 DEF Uses, UsesIn, CwdIn, Put1In, Put2In
<1>13. Uses(p, i)' <=> UsesIn(r, cwd[p], i)
  BY <1>7, Zenon DEF Uses
<1>14. ~UsesIn(r, cwd[p], i)
  <2>1. CwdIn(r, cwd[p]) = Cwd(p) /\ Put2In(r) = Put2(p)
    BY <1>5 DEF CwdIn, Cwd, Put2In, Put2
  <2> QED
    BY <1>5, <1>6, <1>9, <1>10, <2>1 DEF UsesIn, Unheld
<1> QED
  BY <1>5, <1>7, <1>9, <1>11, <1>12, <1>13, <1>14

LEMMA FreesTree ==
  ASSUME FsInv, TreeInv, NEW p \in Procs, NEW i, Frees(p, i)
  PROVE  TreeInv'
<1>1. /\ i \in Inums /\ st[p].puts # <<>> /\ cache[i].valid /\ cache[i].nlink = 0
      /\ dir' = [dir EXCEPT ![i] = Empty]
      /\ dinode' = [dinode EXCEPT ![i] = [type |-> "none", nlink |-> 0]]
      /\ cache' = [cache EXCEPT ![i] = [valid |-> FALSE, type |-> "none", nlink |-> 0]]
  BY DEF Frees
<1>2. /\ dinode \in [Inums -> [type : Types, nlink : Int]] /\ cache \in [Inums -> Copies]
      /\ dir \in [Inums -> Entries] /\ 0 \notin Inums /\ st[p] \in States
  BY Before
<1>3. /\ Moves(p) /\ FilesFrom(p) /\ Unheld(i)
      /\ \A q \in Procs : q # p => ~Uses(q, i)
      /\ ~Uses(p, i)' /\ \A x : Uses(p, x)' => Uses(p, x)
      /\ st'[p].pc = st[p].pc /\ st'[p].path = st[p].path /\ st'[p].ip = st[p].ip
      /\ st'[p].dp = st[p].dp /\ st'[p].call = st[p].call
  BY FreesUses
<1>4. dinode[i].nlink = 0 /\ ~Named(i) /\ i # Root
  BY <1>1, Unlinkedness DEF FsInv, Coherent
<1>5. /\ dinode'[i].type = "none" /\ dinode'[i].nlink = 0 /\ dir'[i] = Empty
      /\ \A x \in Inums : x # i => dinode'[x] = dinode[x] /\ dir'[x] = dir[x]
  BY <1>1, <1>2
<1>6. ValidKept
  <2>1. \A x \in Inums : x # i => cache'[x] = cache[x]
    BY <1>1, <1>2
  <2> QED
    BY <1>3, <2>1 DEF ValidKept
<1>7. "." \in Names /\ ".." \in Names
  BY FileSysAssumption DEF Dots
<1>8. \A n \in Names, x \in Inums : dir'[i][n] # x
  BY <1>2, <1>5 DEF Empty
<1>9. \A e, x \in Inums, n \in Names : Entry(e, n, x)' => Entry(e, n, x) /\ e # i /\ x # i
  <2> SUFFICES ASSUME NEW e \in Inums, NEW x \in Inums, NEW n \in Names, Entry(e, n, x)'
               PROVE  Entry(e, n, x) /\ e # i /\ x # i
    OBVIOUS
  <2>1. e # i
    BY <1>8 DEF Entry
  <2>2. Entry(e, n, x)
    BY <1>5, <2>1 DEF Entry
  <2> QED
    BY <1>4, <2>1, <2>2 DEF Named
<1>10. \A x \in Inums : Named(x)' => Named(x)
  BY <1>9 DEF Named
<1>11. st[p].pc \notin {"create2", "unlink2"} /\ CallOK(p)
  BY <1>1 DEF TreeInv, CallOK, FoundOf
<1>12. CallOK(p)'
  <2>1. LiveOf(p)'
    BY <1>3, <1>5, <1>11 DEF CallOK, LiveOf
  <2>2. TypesOf(p)'
    <3>1. st[p].ip # i /\ st[p].dp # i
      BY <1>3 DEF Unheld
    <3> QED
      BY <1>3, <1>5, <1>11, <3>1, InHand DEF CallOK, TypesOf, Linking
  <2> QED
    BY <1>3, <1>11, <2>1, <2>2 DEF CallOK, FreshOf, FoundOf
<1>13. OthersKept(p)
  <2> SUFFICES ASSUME NEW q \in Procs, q # p
               PROVE  /\ \A x \in Inums : Uses(q, x) => dinode'[x].type = dinode[x].type
                      /\ st[q].pc \in {"create2", "unlink2"} =>
                           dir'[st[q].dp][Head(st[q].path)] = dir[st[q].dp][Head(st[q].path)]
                      /\ st[q].pc = "create2" =>
                           /\ ~Named(st[q].ip)' /\ dir'[st[q].ip] = Empty
                           /\ ~Uses(p, st[q].ip)'
    BY DEF OthersKept
  <2>1. st[q].ip # i /\ st[q].dp # i /\ CallOK(q) /\ st'[q].ip = st[q].ip
    BY <1>3 DEF Unheld, TreeInv, Moves
  <2>2. ASSUME st[q].pc = "create2"
        PROVE  ~Named(st[q].ip)' /\ dir'[st[q].ip] = Empty /\ ~Uses(p, st[q].ip)'
    <3>1. PICK j \in Inums : j = st[q].ip
      BY <2>2, InHand
    <3>2. ~Named(j) /\ dir[j] = Empty /\ ~Uses(p, j) /\ j # i
      BY <2>1, <2>2, <3>1 DEF CallOK, FreshOf
    <3>3. ~Named(j)' /\ dir'[j] = Empty /\ ~Uses(p, j)'
      BY <1>3, <1>5, <1>10, <3>2
    <3>4. j = st'[q].ip
      BY <2>1, <3>1
    <3> QED
      BY <3>1, <3>3, <3>4 DEF Named, Uses
  <2> QED
    BY <1>3, <1>5, <2>1, <2>2, InHand
<1>14. \A q \in Procs : CallOK(q)'
  BY <1>3, <1>6, <1>12, <1>13, CallsStep
<1>15. FreeUnlinked' /\ OnlyDirsFilled' /\ RootStays'
  BY <1>4, <1>5, <1>10, FileSysAssumption DEF TreeInv, FreeUnlinked, OnlyDirsFilled, RootStays
<1>16. DirsHaveDot'
  <2>1. \A q \in Procs, x \in Inums : Makes(q, x)' <=> Makes(q, x)
    BY <1>3 DEF Makes, Moves
  <2> QED
    BY <1>5, <2>1 DEF TreeInv, DirsHaveDot
<1>17. DirectoryTree'
  <2> SUFFICES ASSUME NEW c \in Inums, NEW d \in Inums, NEW n \in Names,
                      Entry(d, n, c)', dinode'[c].type = "dir"
               PROVE  /\ dir'[c][".."] = d /\ dir'[c]["."] = c
                      /\ dinode'[d].type = "dir"
                      /\ \A e \in Inums, m \in Names : Entry(e, m, c)' => <<e, m>> = <<d, n>>
    BY DEF DirectoryTree
  <2>1. Entry(d, n, c) /\ d # i /\ c # i
    BY <1>9
  <2>2. dinode[c].type = "dir" /\ dir'[c] = dir[c] /\ dinode'[d] = dinode[d]
    BY <1>5, <2>1
  <2>3. /\ dir[c][".."] = d /\ dir[c]["."] = c /\ dinode[d].type = "dir"
        /\ \A e \in Inums, m \in Names : Entry(e, m, c) => <<e, m>> = <<d, n>>
    BY <2>1, <2>2 DEF TreeInv, DirectoryTree
  <2> QED
    BY <1>9, <2>2, <2>3
<1>18. LinksCounted'
  <2> SUFFICES ASSUME NEW x \in Inums
               PROVE  Cardinality(LinksTo(x)') + Cardinality(PendingOf(x)') <= dinode'[x].nlink
    BY DEF LinksCounted
  <2>1. PendingOf(x)' = PendingOf(x)
    BY <1>3 DEF PendingOf, Pending, Linking, Moves
  <2>2. /\ Cardinality(LinksTo(x)) + Cardinality(PendingOf(x)) <= dinode[x].nlink
        /\ Cardinality(LinksTo(x)) \in Nat /\ Cardinality(PendingOf(x)) \in Nat
        /\ LinksTo(x) \in SUBSET (Inums \X Names) /\ dinode[x].nlink \in Int
    BY <1>2, LinksFinite DEF TreeInv, LinksCounted
  <2>3. LinksTo(x)' \in SUBSET (Inums \X Names)
    BY DEF LinksTo
  <2>4. LinksTo(x)' \subseteq LinksTo(x)
    <3> SUFFICES ASSUME NEW e \in Inums, NEW m \in Names, IsLink(e, m, x)' PROVE IsLink(e, m, x)
      BY DEF LinksTo
    <3>1. CASE Entry(e, m, x)'
      BY <1>9, <3>1 DEF IsLink
    <3>2. CASE m = ".." /\ dir'[e][m] = x /\ (e = Root \/ Named(e)')
      <4>1. e # i
        BY <1>8, <3>2
      <4> QED
        BY <1>5, <1>10, <3>2, <4>1 DEF IsLink, Named
    <3> QED
      BY <3>1, <3>2 DEF IsLink, Named
  <2>5. Cardinality(LinksTo(x)') <= Cardinality(LinksTo(x)) /\ Cardinality(LinksTo(x)') \in Nat
    BY <2>2, <2>3, <2>4, LinkCounts
  <2>6. dinode'[x].nlink = dinode[x].nlink
    BY <1>4, <1>5
  <2> QED
    BY <2>1, <2>2, <2>5, <2>6
<1> QED
  BY <1>14, <1>15, <1>16, <1>17, <1>18 DEF TreeInv

(* The locked part of iput(), with or without an inode to free.            *)
LEMMA IputLockedTree ==
  ASSUME FsInv, TreeInv, NEW p \in Procs, IputLocked(p)
  PROVE  TreeInv'
<1>1. PICK i : i = Head(st[p].puts)
  OBVIOUS
<1>2. st[p].puts # <<>> /\ st' = [st EXCEPT ![p].half = TRUE] /\ UNCHANGED tables
  BY DEF IputLocked
<1>3. i \in Inums
  BY <1>1, <1>2, Before DEF States
<1>4. CASE UNCHANGED <<dinode, dir, cache>>
  BY <1>4, IputHalfTree
<1>5. CASE Frees(p, i)
  BY <1>5, FreesTree
<1> QED
  BY <1>1, <1>2, <1>3, <1>4, <1>5 DEF IputLocked, Frees

(* The image that mkfs leaves is a tree, of the root alone.                *)
LEMMA TreeInit ==
  ASSUME Init
  PROVE  TreeInv
<1>1. 0 \notin Inums /\ Root \in Inums /\ "." \in Names /\ ".." \in Names /\ "." # ".."
  BY FileSysAssumption DEF Inums, Dots
<1>2. /\ \A p \in Procs : st[p] = Idle /\ cwd[p] = Root
      /\ \A f \in 1..NFILE : Inode(f) = 0
  BY DEF Init, Inode, InodeIn
<1>3. /\ dinode[Root].type = "dir" /\ dinode[Root].nlink = 1
      /\ \A i \in Inums : i # Root => dinode[i].type = "none" /\ dinode[i].nlink = 0
  BY <1>1 DEF Init, MkfsIalloc
<1>4. /\ dir[Root]["."] = Root /\ dir[Root][".."] = Root
      /\ \A n \in Names : n \notin Dots => dir[Root][n] = 0
      /\ \A i \in Inums : i # Root => dir[i] = Empty
  BY <1>1 DEF Init, MkfsRoot, Empty, Dots
<1>5. \A d, i \in Inums, n \in Names : ~Entry(d, n, i)
  BY <1>1, <1>4 DEF Entry, Empty
<1>6. \A i \in Inums : ~Named(i)
  BY <1>5 DEF Named
<1>7. ASSUME NEW p \in Procs PROVE CallOK(p) /\ ~Pending(st[p])
  <2>1. /\ st[p].pc = "idle" /\ st[p].cur = 0 /\ st[p].ip = 0 /\ st[p].dp = 0 /\ st[p].path = <<>>
        /\ Put1In(st[p]) = 0 /\ Put2In(st[p]) = 0
    <3>1. Put1In(Idle) = 0 /\ Put2In(Idle) = 0
      BY IdleIs, PutsIn
    <3>2. Idle.path = <<>>
      BY DEF Idle
    <3> QED
      BY <1>2, <3>1, <3>2, IdleIs
  <2>2. ~HasDotDot(st[p].path)
    BY <2>1 DEF HasDotDot
  <2>3. LiveOf(p)
    BY <1>1, <1>2, <1>3, <2>1 DEF LiveOf, Uses, UsesIn, CwdIn
  <2>4. ~Pending(st[p])
    BY <2>1 DEF Pending, Linking
  <2> QED
    BY <2>1, <2>2, <2>3, <2>4 DEF CallOK, TypesOf, FreshOf, FoundOf, Linking
<1>8. FreeUnlinked /\ OnlyDirsFilled /\ DirsHaveDot /\ RootStays
  BY <1>1, <1>3, <1>4, <1>6 DEF FreeUnlinked, OnlyDirsFilled, DirsHaveDot, RootStays
<1>9. DirectoryTree
  BY <1>5 DEF DirectoryTree
<1>10. ASSUME NEW i \in Inums
       PROVE  Cardinality(LinksTo(i)) + Cardinality(PendingOf(i)) <= dinode[i].nlink
  <2>1. PendingOf(i) = {}
    BY <1>7 DEF PendingOf
  <2>2. \A d \in Inums, n \in Names : IsLink(d, n, i) => d = Root /\ n = ".." /\ i = Root
    BY <1>4, <1>5 DEF IsLink
  <2>3. LinksTo(i) \subseteq (IF i = Root THEN {<<Root, "..">>} ELSE {})
    BY <2>2 DEF LinksTo
  <2>4. CASE i = Root
    <3>1. LinksTo(i) \in SUBSET {<<Root, "..">>}
      BY <2>3, <2>4
    <3>2. Cardinality(LinksTo(i)) <= Cardinality({<<Root, "..">>})
      BY <3>1, FS_Subset, FS_Singleton
    <3>3. Cardinality({<<Root, "..">>}) = 1 /\ Cardinality(PendingOf(i)) = 0
      BY <2>1, FS_Singleton, FS_EmptySet
    <3>4. Cardinality(LinksTo(i)) \in Nat
      BY LinksFinite
    <3> QED
      BY <1>3, <2>4, <3>2, <3>3, <3>4
  <2>5. CASE i # Root
    <3>1. LinksTo(i) = {}
      BY <2>3, <2>5
    <3> QED
      BY <1>3, <2>1, <2>5, <3>1, FS_EmptySet
  <2> QED
    BY <2>4, <2>5
<1> QED
  BY <1>7, <1>8, <1>9, <1>10 DEF TreeInv, LinksCounted

(* A step that starts no call: the processes stay in theirs or return.     *)
SameCalls ==
  menu' = menu /\ \A q \in Procs : st'[q].call \in {st[q].call, NoCall}

LEMMA SameCallsSteps ==
  ASSUME st \in [Procs -> States], NEW p \in Procs
  PROVE  /\ \A d \in FDs : Dup(p, d) \/ Close(p, d) => SameCalls
         /\ WalkStep(p) => SameCalls
         /\ WalkEnd(p) => SameCalls
         /\ IlockNoType(p) => SameCalls
         /\ IputLocked(p) => SameCalls
         /\ IputUnref(p) => SameCalls
         /\ Open(p) => SameCalls
         /\ Create(p) => SameCalls
         /\ CreateExists(p) => SameCalls
         /\ CreateLink(p) => SameCalls
         /\ Created(p) => SameCalls
         /\ Link(p) => SameCalls
         /\ LinkEntry(p) => SameCalls
         /\ DropParent(p) => SameCalls
         /\ LinkBad(p) => SameCalls
         /\ Unlink(p) => SameCalls
         /\ UnlinkEntry(p) => SameCalls
         /\ Unlinked(p) => SameCalls
         /\ Chdir(p) => SameCalls
         /\ ChdirSet(p) => SameCalls
         /\ Return(p) => SameCalls
<1> USE DEF SameCalls
<1>1. \A q \in Procs : st[q] \in States
  OBVIOUS
<1>2. ASSUME NEW d \in FDs, Dup(p, d) \/ Close(p, d) PROVE SameCalls
  <2>1. menu' = menu
    BY <1>2 DEF Dup, Close
  <2>2. \/ st' = st
        \/ st' = [st EXCEPT ![p].pc = "done", ![p].puts = <<file[Argfd(p, d)].ip>>]
    BY <1>2 DEF Dup, Close, Fileclose
  <2>3. CASE st' = st
    BY <1>1, <2>1, <2>3 DEF States
  <2>4. CASE st' = [st EXCEPT ![p].pc = "done", ![p].puts = <<file[Argfd(p, d)].ip>>]
    BY <1>1, <2>1, <2>4 DEF States
  <2> QED
    BY <2>2, <2>3, <2>4
<1>3. ASSUME WalkStep(p) PROVE SameCalls
  <2>1. menu' = menu
    BY <1>3 DEF WalkStep, tables
  <2>2. \/ st' = [st EXCEPT ![p].pc = Failed(st[p]), ![p].cur = 0, ![p].path = <<>>, ![p].puts = <<st[p].cur>>]
        \/ st' = [st EXCEPT ![p].pc = Found(st[p]), ![p].cur = 0, ![p].dp = st[p].cur]
        \/ st' = [st EXCEPT ![p].path = Tail(@), ![p].cur = Dirlookup(st[p].cur, Head(st[p].path)),
                         ![p].puts = <<st[p].cur>>]
    BY <1>3 DEF WalkStep
  <2>3. CASE st' = [st EXCEPT ![p].pc = Failed(st[p]), ![p].cur = 0, ![p].path = <<>>, ![p].puts = <<st[p].cur>>]
    BY <1>1, <2>1, <2>3 DEF States
  <2>4. CASE st' = [st EXCEPT ![p].pc = Found(st[p]), ![p].cur = 0, ![p].dp = st[p].cur]
    BY <1>1, <2>1, <2>4 DEF States
  <2>5. CASE st' = [st EXCEPT ![p].path = Tail(@), ![p].cur = Dirlookup(st[p].cur, Head(st[p].path)),
             ![p].puts = <<st[p].cur>>]
    BY <1>1, <2>1, <2>5 DEF States
  <2> QED
    BY <2>2, <2>3, <2>4, <2>5
<1>4. WalkEnd(p) => SameCalls
  BY <1>1 DEF WalkEnd, tables, States
<1>5. IlockNoType(p) => SameCalls
  BY <1>1 DEF IlockNoType, tables, States
<1>6. IputLocked(p) => SameCalls
  BY <1>1 DEF IputLocked, tables, States
<1>7. IputUnref(p) => SameCalls
  BY <1>1 DEF IputUnref, tables, States
<1>8. ASSUME Open(p) PROVE SameCalls
  <2>1. menu' = menu
    BY <1>8 DEF Open
  <2>2. \/ st' = [st EXCEPT ![p].pc = "done", ![p].ip = 0, ![p].puts = <<st[p].ip>>]
        \/ st' = [st EXCEPT ![p].pc = "done", ![p].ip = 0, ![p].path = <<>>]
        \/ st' = [st EXCEPT ![p].pc = "done", ![p].ip = 0, ![p].path = <<>>, ![p].puts = <<st[p].ip>>]
    BY <1>8 DEF Open, OpenFile
  <2>3. CASE st' = [st EXCEPT ![p].pc = "done", ![p].ip = 0, ![p].puts = <<st[p].ip>>]
    BY <1>1, <2>1, <2>3 DEF States
  <2>4. CASE st' = [st EXCEPT ![p].pc = "done", ![p].ip = 0, ![p].path = <<>>]
    BY <1>1, <2>1, <2>4 DEF States
  <2>5. CASE st' = [st EXCEPT ![p].pc = "done", ![p].ip = 0, ![p].path = <<>>, ![p].puts = <<st[p].ip>>]
    BY <1>1, <2>1, <2>5 DEF States
  <2> QED
    BY <2>2, <2>3, <2>4, <2>5
<1>9. ASSUME Create(p) PROVE SameCalls
  <2>1. menu' = menu
    BY <1>9 DEF Create, tables
  <2>2. \/ st' = [st EXCEPT ![p].pc = "exists", ![p].ip = Dirlookup(st[p].dp, Head(st[p].path)),
                         ![p].dp = 0, ![p].puts = <<st[p].dp>>]
        \/ st' = st
        \/ st' = [st EXCEPT ![p].pc = "create2", ![p].ip = Least(FreeInums)]
    BY <1>9 DEF Create
  <2>3. CASE st' = [st EXCEPT ![p].pc = "exists", ![p].ip = Dirlookup(st[p].dp, Head(st[p].path)),
             ![p].dp = 0, ![p].puts = <<st[p].dp>>]
    BY <1>1, <2>1, <2>3 DEF States
  <2>4. CASE st' = st
    BY <1>1, <2>1, <2>4 DEF States
  <2>5. CASE st' = [st EXCEPT ![p].pc = "create2", ![p].ip = Least(FreeInums)]
    BY <1>1, <2>1, <2>5 DEF States
  <2> QED
    BY <2>2, <2>3, <2>4, <2>5
<1>10. ASSUME CreateExists(p) PROVE SameCalls
  <2>1. menu' = menu
    BY <1>10 DEF CreateExists
  <2>2. \/ st' = [st EXCEPT ![p].pc = "done", ![p].ip = 0, ![p].path = <<>>]
        \/ st' = [st EXCEPT ![p].pc = "done", ![p].ip = 0, ![p].path = <<>>, ![p].puts = <<st[p].ip>>]
    BY <1>10 DEF CreateExists, OpenFile
  <2>3. CASE st' = [st EXCEPT ![p].pc = "done", ![p].ip = 0, ![p].path = <<>>]
    BY <1>1, <2>1, <2>3 DEF States
  <2>4. CASE st' = [st EXCEPT ![p].pc = "done", ![p].ip = 0, ![p].path = <<>>, ![p].puts = <<st[p].ip>>]
    BY <1>1, <2>1, <2>4 DEF States
  <2> QED
    BY <2>2, <2>3, <2>4
<1>11. CreateLink(p) => SameCalls
  BY <1>1 DEF CreateLink, tables, States
<1>12. ASSUME Created(p) PROVE SameCalls
  <2>1. menu' = menu
    BY <1>12 DEF Created
  <2>2. \/ st' = [st EXCEPT ![p].pc = "done", ![p].ip = 0, ![p].puts = <<st[p].ip>>]
        \/ st' = [st EXCEPT ![p].pc = "done", ![p].ip = 0, ![p].path = <<>>]
        \/ st' = [st EXCEPT ![p].pc = "done", ![p].ip = 0, ![p].path = <<>>, ![p].puts = <<st[p].ip>>]
    BY <1>12 DEF Created, OpenFile
  <2>3. CASE st' = [st EXCEPT ![p].pc = "done", ![p].ip = 0, ![p].puts = <<st[p].ip>>]
    BY <1>1, <2>1, <2>3 DEF States
  <2>4. CASE st' = [st EXCEPT ![p].pc = "done", ![p].ip = 0, ![p].path = <<>>]
    BY <1>1, <2>1, <2>4 DEF States
  <2>5. CASE st' = [st EXCEPT ![p].pc = "done", ![p].ip = 0, ![p].path = <<>>, ![p].puts = <<st[p].ip>>]
    BY <1>1, <2>1, <2>5 DEF States
  <2> QED
    BY <2>2, <2>3, <2>4, <2>5
<1>13. ASSUME Link(p) PROVE SameCalls
  <2>1. menu' = menu
    BY <1>13 DEF Link, tables
  <2>2. \/ st' = [st EXCEPT ![p].pc = "done", ![p].ip = 0, ![p].puts = <<st[p].ip>>]
        \/ st' = [st EXCEPT ![p].pc = "walk2", ![p].path = Elements(st[p].call.new),
                         ![p].cur = StartOf(p, st[p].call.new)]
    BY <1>13 DEF Link
  <2>3. CASE st' = [st EXCEPT ![p].pc = "done", ![p].ip = 0, ![p].puts = <<st[p].ip>>]
    BY <1>1, <2>1, <2>3 DEF States
  <2>4. CASE st' = [st EXCEPT ![p].pc = "walk2", ![p].path = Elements(st[p].call.new),
             ![p].cur = StartOf(p, st[p].call.new)]
    BY <1>1, <2>1, <2>4 DEF States
  <2> QED
    BY <2>2, <2>3, <2>4
<1>14. ASSUME LinkEntry(p) PROVE SameCalls
  <2>1. menu' = menu
    BY <1>14 DEF LinkEntry, tables
  <2>2. \/ st' = [st EXCEPT ![p].pc = "done", ![p].ip = 0, ![p].dp = 0, ![p].path = <<>>,
                         ![p].puts = <<st[p].dp, st[p].ip>>]
        \/ st' = [st EXCEPT ![p].pc = "drop", ![p].path = <<>>,
                         ![p].puts = <<Dirlookup(st[p].dp, Head(st[p].path))>>]
    BY <1>14 DEF LinkEntry
  <2>3. CASE st' = [st EXCEPT ![p].pc = "done", ![p].ip = 0, ![p].dp = 0, ![p].path = <<>>,
             ![p].puts = <<st[p].dp, st[p].ip>>]
    BY <1>1, <2>1, <2>3 DEF States
  <2>4. CASE st' = [st EXCEPT ![p].pc = "drop", ![p].path = <<>>,
             ![p].puts = <<Dirlookup(st[p].dp, Head(st[p].path))>>]
    BY <1>1, <2>1, <2>4 DEF States
  <2> QED
    BY <2>2, <2>3, <2>4
<1>15. DropParent(p) => SameCalls
  BY <1>1 DEF DropParent, tables, States
<1>16. LinkBad(p) => SameCalls
  BY <1>1 DEF LinkBad, tables, States
<1>17. ASSUME Unlink(p) PROVE SameCalls
  <2>1. menu' = menu
    BY <1>17 DEF Unlink, tables
  <2>2. \/ st' = [st EXCEPT ![p].pc = "done", ![p].dp = 0, ![p].path = <<>>, ![p].puts = <<st[p].dp>>]
        \/ st' = [st EXCEPT ![p].pc = "unlink2", ![p].ip = Dirlookup(st[p].dp, Head(st[p].path))]
    BY <1>17 DEF Unlink
  <2>3. CASE st' = [st EXCEPT ![p].pc = "done", ![p].dp = 0, ![p].path = <<>>, ![p].puts = <<st[p].dp>>]
    BY <1>1, <2>1, <2>3 DEF States
  <2>4. CASE st' = [st EXCEPT ![p].pc = "unlink2", ![p].ip = Dirlookup(st[p].dp, Head(st[p].path))]
    BY <1>1, <2>1, <2>4 DEF States
  <2> QED
    BY <2>2, <2>3, <2>4
<1>18. ASSUME UnlinkEntry(p) PROVE SameCalls
  <2>1. menu' = menu
    BY <1>18 DEF UnlinkEntry, tables
  <2>2. \/ st' = st
        \/ st' = [st EXCEPT ![p].pc = "drop", ![p].ip = 0, ![p].path = <<>>, ![p].puts = <<st[p].ip>>]
        \/ st' = [st EXCEPT ![p].pc = "unlinked", ![p].dp = 0, ![p].path = <<>>, ![p].puts = <<st[p].dp>>]
    BY <1>18 DEF UnlinkEntry
  <2>3. CASE st' = st
    BY <1>1, <2>1, <2>3 DEF States
  <2>4. CASE st' = [st EXCEPT ![p].pc = "drop", ![p].ip = 0, ![p].path = <<>>, ![p].puts = <<st[p].ip>>]
    BY <1>1, <2>1, <2>4 DEF States
  <2>5. CASE st' = [st EXCEPT ![p].pc = "unlinked", ![p].dp = 0, ![p].path = <<>>, ![p].puts = <<st[p].dp>>]
    BY <1>1, <2>1, <2>5 DEF States
  <2> QED
    BY <2>2, <2>3, <2>4, <2>5
<1>19. Unlinked(p) => SameCalls
  BY <1>1 DEF Unlinked, tables, States
<1>20. Chdir(p) => SameCalls
  BY <1>1 DEF Chdir, tables, States
<1>21. ChdirSet(p) => SameCalls
  BY <1>1 DEF ChdirSet, Idle, NoCall, States
<1>22. Return(p) => SameCalls
  BY <1>1 DEF Return, Idle, NoCall, tables, States
<1> HIDE DEF SameCalls
<1> QED
  BY <1>2, <1>3, <1>4, <1>5, <1>6, <1>7, <1>8, <1>9, <1>10, <1>11, <1>12,
     <1>13, <1>14, <1>15, <1>16, <1>17, <1>18, <1>19, <1>20, <1>21, <1>22

(* A call is in the menu from its start to its return.                     *)
LEMMA CallsKept ==
  ASSUME FsInv, CallsFromMenu, [Next]_vars
  PROVE  CallsFromMenu' /\ menu' = menu
<1>1. st \in [Procs -> States]
  BY DEF FsInv, TypeOK
<1>2. CASE UNCHANGED vars
  BY <1>2 DEF vars, CallsFromMenu
<1>3. CASE SameCalls
  BY <1>3 DEF SameCalls, CallsFromMenu
<1>4. ASSUME NEW p \in Procs, Start(p) PROVE CallsFromMenu' /\ menu' = menu
  <2>1. PICK c \in menu :
          st' = [st EXCEPT ![p] = [Idle EXCEPT !.pc = "walk", !.call = c,
                             !.path = Elements(c.path), !.cur = StartOf(p, c.path)]]
    BY <1>4 DEF Start
  <2>2. menu' = menu
    BY <1>4 DEF Start, tables
  <2>3. st'[p].call = c /\ \A q \in Procs : q # p => st'[q] = st[q]
    BY <1>1, <2>1 DEF Idle
  <2> QED
    BY <2>2, <2>3 DEF CallsFromMenu
<1> QED
  BY <1>1, <1>2, <1>3, <1>4, SameCallsSteps DEF Next

(* Every step keeps the tree, as long as no path goes through "..".        *)
LEMMA TreeNext ==
  ASSUME Descends, CallsFromMenu, FsInv, TreeInv, [Next]_vars
  PROVE  TreeInv'
<1>1. CASE UNCHANGED vars
  <2>1. \A f \in 1..NFILE : Inode(f)' = Inode(f)
    BY <1>1 DEF vars, Inode
  <2> QED
    BY <1>1, <2>1, StillTree DEF vars
<1>2. ASSUME NEW p \in Procs, Start(p) PROVE TreeInv'
  BY <1>2, StartTree
<1>3. ASSUME NEW p \in Procs, WalkStep(p) \/ WalkEnd(p) PROVE TreeInv'
  BY <1>3, WalkStepTree, WalkEndTree
<1>4. ASSUME NEW p \in Procs, IlockNoType(p) PROVE TreeInv'
  <2>1. UNCHANGED <<dinode, dir, st, cwd>> /\ cache' = cache /\ file' = file
    BY <1>4 DEF IlockNoType, tables
  <2>2. \A f \in 1..NFILE : Inode(f)' = Inode(f)
    BY <2>1 DEF Inode
  <2> QED
    BY <2>1, <2>2, StillTree
<1>5. ASSUME NEW p \in Procs, IputLocked(p) \/ IputUnref(p) PROVE TreeInv'
  BY <1>5, IputLockedTree, IputUnrefTree
<1>6. ASSUME NEW p \in Procs, Open(p) PROVE TreeInv'
  BY <1>6, OpenTree
<1>7. ASSUME NEW p \in Procs, NEW d \in FDs, Dup(p, d) \/ Close(p, d) PROVE TreeInv'
  BY <1>7, DupTree, CloseTree
<1>8. ASSUME NEW p \in Procs, Create(p) \/ CreateExists(p) \/ CreateLink(p) \/ Created(p)
      PROVE  TreeInv'
  BY <1>8, CreateTree, CreateExistsTree, CreateLinkTree, CreatedTree
<1>9. ASSUME NEW p \in Procs, Link(p) \/ LinkEntry(p) \/ DropParent(p) \/ LinkBad(p)
      PROVE  TreeInv'
  BY <1>9, LinkTree, LinkEntryTree, DropParentTree, DiscountedTree
<1>10. ASSUME NEW p \in Procs, Unlink(p) \/ UnlinkEntry(p) \/ Unlinked(p) PROVE TreeInv'
  BY <1>10, UnlinkTree, UnlinkEntryTree, DiscountedTree
<1>11. ASSUME NEW p \in Procs, Chdir(p) \/ ChdirSet(p) \/ Return(p) PROVE TreeInv'
  BY <1>11, ChdirTree, ReturnTree
<1> QED
  BY <1>1, <1>2, <1>3, <1>4, <1>5, <1>6, <1>7, <1>8, <1>9, <1>10, <1>11 DEF Next

(* The directories and the link counts of every reachable state.           *)
LEMMA TreeAlways == Spec => [](Descends => TreeInv)
<1>1. Init => CallsFromMenu /\ TreeInv
  BY TreeInit DEF Init, CallsFromMenu, Idle, NoCall
<1>2. /\ FsInv /\ CallsFromMenu /\ (Descends => TreeInv) /\ [Next]_vars
      => CallsFromMenu' /\ (Descends' => TreeInv')
  BY TreeNext, CallsKept DEF Descends
<1> QED
  BY <1>1, <1>2, FsAlways, PTL DEF Spec

(* What the tree says of the names of an inode.                            *)
LEMMA TreeInvImplies ==
  ASSUME FsInv, TreeInv
  PROVE  NamesAreLinks /\ DirectoryTree
<1>1. ASSUME NEW i \in Inums
      PROVE  /\ Cardinality(LinksTo(i)) <= dinode[i].nlink
             /\ LinksTo(i) # {} => dinode[i].type # "none"
  <2>1. /\ Cardinality(LinksTo(i)) + Cardinality(PendingOf(i)) <= dinode[i].nlink
        /\ Cardinality(LinksTo(i)) \in Nat /\ Cardinality(PendingOf(i)) \in Nat
    BY LinksFinite DEF TreeInv, LinksCounted
  <2>2. dinode[i].nlink \in Int
    BY DEF FsInv, TypeOK, InodesTypeOK
  <2> QED
    BY <2>1, <2>2, NamedAllocated
<1> QED
  BY <1>1 DEF NamesAreLinks, TreeInv

(* As long as no system call names "..", each inode has at every moment    *)
(* at least as many links as names, and a name is that of an allocated     *)
(* inode: whatever create(), sys_link(), sys_unlink() and iput() of        *)
(* different processes do in between each other's steps.                   *)
THEOREM NamesAlwaysLinks == Spec => []NamesCounted
<1>1. FsInv /\ (Descends => TreeInv) => NamesCounted
  BY TreeInvImplies DEF NamesCounted
<1> QED
  BY <1>1, FsAlways, TreeAlways, PTL

(* As long as no system call names "..", a directory has at most one name, *)
(* and its ".." is the allocated directory with this name, from the mkdir  *)
(* that makes it to the iput() that frees it.                              *)
THEOREM DirectoriesFormTree == Spec => []TreeKept
<1>1. FsInv /\ (Descends => TreeInv) => TreeKept
  BY TreeInvImplies DEF TreeKept
<1> QED
  BY <1>1, FsAlways, TreeAlways, PTL
=============================================================================
