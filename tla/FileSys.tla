------------------------------ MODULE FileSys ------------------------------
(***************************************************************************)
(* The names layer of the xv6 file system: inodes with their link and      *)
(* reference counts, directories, path walks, the file table, and the      *)
(* system calls on them (fs.c, file.c, sysfile.c), run by several          *)
(* processes at once.                                                      *)
(*                                                                         *)
(* A step runs from one acquisition of an inode lock to the next: what it  *)
(* touches meanwhile is protected by the locks it holds.  iput() takes two *)
(* steps, because icache.lock is dropped between reading ref and           *)
(* decrementing it.  A directory is a function from names to inode         *)
(* numbers, 0 standing for an empty entry; the position of an entry, the   *)
(* slot of a cached inode and the data of files are abstracted.  The log   *)
(* lets several operations run, so begin_op() and end_op() guard nothing.  *)
(***************************************************************************)
EXTENDS Integers, Sequences, FiniteSets

CONSTANTS
  Procs, Nobody,
  NInodes,           \* sb.ninodes - 1
  Names,             \* entry names; "." and ".." are always among them
  NINODE,            \* slots of the inode cache
  NFILE, NOFILE,
  Menus              \* bound: sets of system calls the processes may make

Root == 1            \* ROOTINO
Inums == 1..NInodes
Dots == {".", ".."}
FDs == 1..NOFILE

ASSUME FileSysAssumption ==
  /\ Nobody \notin Procs /\ IsFiniteSet(Procs)
  /\ NInodes \in Nat /\ Root \in Inums
  /\ Dots \subseteq Names /\ IsFiniteSet(Names)    \* of DIRSIZ characters
  /\ {NINODE, NFILE, NOFILE} \subseteq Nat
  /\ \A c \in UNION Menus : c.op \in {"open", "create", "mkdir", "mknod", "link",
                                "unlink", "chdir", "close", "dup"}

VARIABLES
  dinode,     \* type and nlink of each inode on disk
  dir,        \* contents of each inode that is a directory
  cache,      \* the cached copy of each inode: valid, type, nlink
  ref,        \* ip->ref; an inode with ref = 0 has no slot
  lock,       \* holder of ip->lock
  file,       \* ftable
  ofile,      \* open descriptors of each process: 0 or an index of file
  cwd,
  st,         \* the system call each process is in, and its locals
  panic,      \* what panic() said, or "no"
  menu        \* the system calls made in this behaviour

tables == <<file, ofile, cwd, menu>>
vars == <<dinode, dir, cache, ref, lock, file, ofile, cwd, st, panic,
          menu>>

Entries == [Names -> Inums \cup {0}]
Empty == [n \in Names |-> 0]

(* A process outside any system call.  path and cur belong to namex(), ip  *)
(* and dp to the system call (0 when unused), puts are the inodes that     *)
(* must be iput() before the call goes on at pc, and half says that the    *)
(* first of them has only its reference left to drop.                      *)
Idle == [pc |-> "idle", call |-> [op |-> "none"], path |-> <<>>, cur |-> 0,
         ip |-> 0, dp |-> 0, puts |-> <<>>, half |-> FALSE]

(* An image made by mkfs: a root directory with "." and "..", and nothing  *)
(* else.                                                                   *)
MkfsIalloc == [i \in Inums |-> IF i = Root THEN [type |-> "dir", nlink |-> 1]
                               ELSE [type |-> "none", nlink |-> 0]]

MkfsRoot == [i \in Inums |-> IF i = Root
              THEN [Empty EXCEPT !["."] = Root, ![".."] = Root] ELSE Empty]

(* Every process starts in the root.                                       *)
Init ==
  /\ dinode = MkfsIalloc
  /\ dir = MkfsRoot
  /\ cache = [i \in Inums |-> [valid |-> FALSE, type |-> "none", nlink |-> 0]]
  /\ ref = [i \in Inums |-> IF i = Root THEN Cardinality(Procs) ELSE 0]
  /\ lock = [i \in Inums |-> Nobody]
  /\ file = [f \in 1..NFILE |-> [ref |-> 0, ip |-> 0]]
  /\ ofile = [p \in Procs |-> [d \in FDs |-> 0]]
  /\ cwd = [p \in Procs |-> Root]
  /\ st = [p \in Procs |-> Idle]
  /\ panic = "no"
  /\ menu \in Menus

------------------------------------------------------------------------------
(* Inode cache.                                                            *)

(* The inode that the next step of p locks, or 0.                          *)
Target(p) ==
  LET s == st[p] IN
  CASE s.puts # <<>> -> IF s.half THEN 0 ELSE Head(s.puts)
    [] s.puts = <<>> /\ s.pc \in {"walk", "walk2"} ->
         IF s.path = <<>> THEN 0 ELSE s.cur
    [] s.puts = <<>> /\ s.pc \in {"open", "exists", "create2", "link",
         "linkbad", "unlink2", "chdir"} -> s.ip
    [] s.puts = <<>> /\ s.pc \in {"create", "link2", "unlink"} -> s.dp
    [] OTHER -> 0

(* The cached copy of inode i as ilock() leaves it.                        *)
Loaded(i) ==
  IF cache[i].valid THEN cache[i]
  ELSE [valid |-> TRUE, type |-> dinode[i].type, nlink |-> dinode[i].nlink]

(* p is at label and can lock its target, which is an allocated inode.     *)
Ilock(p, label) ==
  /\ st[p].pc = label /\ st[p].puts = <<>>
  /\ lock[Target(p)] = Nobody
  /\ Loaded(Target(p)).type # "none"

(* The last check of ilock(): the inode reached is free on disk.           *)
IlockNoType(p) ==
  /\ Target(p) # 0 /\ st[p].puts = <<>>
  /\ lock[Target(p)] = Nobody
  /\ Loaded(Target(p)).type = "none"
  /\ panic' = "ilock: no type"
  /\ UNCHANGED <<dinode, dir, cache, ref, lock, tables, st>>

(* iget() and idup(): the reference counts once i has one more, the cache  *)
(* entry it leaves, and what happens when no slot is free.                 *)
Referenced(i) == [ref EXCEPT ![i] = @ + 1]

Slotted(i) == [cache EXCEPT ![i].valid = @ /\ ref[i] > 0]

SlotPanic(i) ==
  IF ref[i] = 0 /\ Cardinality({j \in Inums : ref[j] > 0}) >= NINODE
  THEN "iget: no inodes" ELSE panic

(* ilock() of i when nothing of it changes: only the cached copy is filled *)
Read(i) == cache' = [cache EXCEPT ![i] = Loaded(i)]

(* iupdate() after setting the type and link count of inode i.             *)
Iupdate(i, t, n) ==
  /\ cache' = [cache EXCEPT ![i] = [valid |-> TRUE, type |-> t, nlink |-> n]]
  /\ dinode' = [dinode EXCEPT ![i] = [type |-> t, nlink |-> n]]

(* Mutant: itrunc() whoever else refers to the inode.                      *)
IputLockedAnyRef(p) ==
  LET i == Head(st[p].puts) IN
  /\ st[p].puts # <<>> /\ ~st[p].half
  /\ lock[i] = Nobody
  /\ IF cache[i].valid /\ cache[i].nlink = 0
     THEN /\ dir' = [dir EXCEPT ![i] = Empty]
          /\ dinode' = [dinode EXCEPT ![i] = [type |-> "none", nlink |-> 0]]
          /\ cache' = [cache EXCEPT ![i] =
                         [valid |-> FALSE, type |-> "none", nlink |-> 0]]
     ELSE UNCHANGED <<dir, dinode, cache>>
  /\ st' = [st EXCEPT ![p].half = TRUE]
  /\ UNCHANGED <<ref, lock, tables, panic>>

(* Mutant: the freed inode stays valid in the cache.                       *)
IputLockedKeepsValid(p) ==
  LET i == Head(st[p].puts) IN
  /\ st[p].puts # <<>> /\ ~st[p].half
  /\ lock[i] = Nobody
  /\ IF cache[i].valid /\ cache[i].nlink = 0 /\ ref[i] = 1
     THEN /\ dir' = [dir EXCEPT ![i] = Empty]
          /\ Iupdate(i, "none", 0)
     ELSE UNCHANGED <<dir, dinode, cache>>
  /\ st' = [st EXCEPT ![p].half = TRUE]
  /\ UNCHANGED <<ref, lock, tables, panic>>

(* The locked part of iput(): the last reference to an inode without links *)
(* truncates and frees it.                                                 *)
IputLocked(p) ==
  LET i == Head(st[p].puts) IN
  /\ st[p].puts # <<>> /\ ~st[p].half
  /\ lock[i] = Nobody
  /\ IF cache[i].valid /\ cache[i].nlink = 0 /\ ref[i] = 1
     THEN /\ dir' = [dir EXCEPT ![i] = Empty]
          /\ dinode' = [dinode EXCEPT ![i] = [type |-> "none", nlink |-> 0]]
          /\ cache' = [cache EXCEPT ![i] =
                         [valid |-> FALSE, type |-> "none", nlink |-> 0]]
     ELSE UNCHANGED <<dir, dinode, cache>>
  /\ st' = [st EXCEPT ![p].half = TRUE]
  /\ UNCHANGED <<ref, lock, tables, panic>>

(* The rest of iput(): ip->ref--.                                          *)
IputUnref(p) ==
  /\ st[p].half
  /\ ref' = [ref EXCEPT ![Head(st[p].puts)] = @ - 1]
  /\ st' = [st EXCEPT ![p].half = FALSE, ![p].puts = Tail(@)]
  /\ UNCHANGED <<dinode, dir, cache, lock, tables, panic>>

------------------------------------------------------------------------------
(* Path walks.                                                             *)

(* namex() starts at the root or at the current directory.                 *)
StartOf(p, pth) == IF pth # <<>> /\ Head(pth) = "/" THEN Root ELSE cwd[p]

Elements(pth) == IF pth # <<>> /\ Head(pth) = "/" THEN Tail(pth) ELSE pth

ASSUME PathsAssumption ==
  \A c \in UNION Menus : c.op \notin {"close", "dup"} =>
    /\ Elements(c.path) \in Seq(Names)
    /\ c.op = "link" => Elements(c.new) \in Seq(Names)

Creates == {"create", "mkdir", "mknod"}

(* The walk is nameiparent() rather than namei().                          *)
ForParent(s) == s.pc = "walk2" \/ s.call.op \in Creates \cup {"unlink"}

(* Where a walk that succeeds, and one that fails, continues.              *)
Found(s) == CASE s.pc = "walk2" -> "link2"
              [] s.pc # "walk2" /\ s.call.op \in Creates -> "create"
              [] OTHER -> s.call.op

Failed(s) == IF s.pc = "walk2" THEN "linkbad" ELSE "done"

(* Every system call with a path: begin_op() and the start of namex().     *)
Start(p) ==
  /\ st[p].pc = "idle"
  /\ \E c \in menu :
       /\ c.op \notin {"close", "dup"}
       /\ LET i == StartOf(p, c.path) IN
          /\ ref' = Referenced(i) /\ cache' = Slotted(i)
          /\ panic' = SlotPanic(i)
          /\ st' = [st EXCEPT ![p] = [Idle EXCEPT !.pc = "walk", !.call = c,
                                       !.path = Elements(c.path), !.cur = i]]
  /\ UNCHANGED <<dinode, dir, lock, tables>>

(* dirlookup(): the inode number under name n in directory d, 0 if none.   *)
Dirlookup(d, n) == dir[d][n]

(* One round of the loop of namex(), from ilock(ip) to iunlock(ip).        *)
WalkStep(p) ==
  LET s == st[p]
      i == s.cur
      next == Dirlookup(i, Head(s.path))
  IN
  /\ s.pc \in {"walk", "walk2"} /\ s.path # <<>>
  /\ Ilock(p, s.pc)
  /\ \/ /\ Loaded(i).type # "dir"
        /\ st' = [st EXCEPT ![p].pc = Failed(s), ![p].cur = 0,
                            ![p].path = <<>>, ![p].puts = <<i>>]
        /\ Read(i)
        /\ UNCHANGED <<ref, panic>>
     \/ /\ Loaded(i).type = "dir" /\ ForParent(s) /\ Len(s.path) = 1
        /\ st' = [st EXCEPT ![p].pc = Found(s), ![p].cur = 0, ![p].dp = i]
        /\ Read(i)
        /\ UNCHANGED <<ref, panic>>
     \/ /\ Loaded(i).type = "dir" /\ ~(ForParent(s) /\ Len(s.path) = 1)
        /\ next = 0
        /\ st' = [st EXCEPT ![p].pc = Failed(s), ![p].cur = 0,
                            ![p].path = <<>>, ![p].puts = <<i>>]
        /\ Read(i)
        /\ UNCHANGED <<ref, panic>>
     \/ /\ Loaded(i).type = "dir" /\ ~(ForParent(s) /\ Len(s.path) = 1)
        /\ next # 0
        /\ ref' = Referenced(next)
        /\ cache' = [Slotted(next) EXCEPT ![i] = Loaded(i)]
        /\ panic' = SlotPanic(next)
        /\ st' = [st EXCEPT ![p].path = Tail(@), ![p].cur = next,
                            ![p].puts = <<i>>]
  /\ UNCHANGED <<dinode, dir, lock, tables>>

(* skipelem() finds no further element: namei() is done, nameiparent() of  *)
(* a path without elements fails.                                          *)
WalkEnd(p) ==
  LET s == st[p] IN
  /\ s.pc \in {"walk", "walk2"} /\ s.path = <<>> /\ s.puts = <<>>
  /\ st' = IF ForParent(s)
           THEN [st EXCEPT ![p].pc = Failed(s), ![p].cur = 0,
                           ![p].puts = <<s.cur>>]
           ELSE [st EXCEPT ![p].pc = Found(s), ![p].cur = 0, ![p].ip = s.cur]
  /\ UNCHANGED <<dinode, dir, cache, ref, lock, tables, panic>>

------------------------------------------------------------------------------
(* File table and descriptors.                                             *)

FreeFiles == {f \in 1..NFILE : file[f].ref = 0}
FreeFDs(p) == {d \in FDs : ofile[p][d] = 0}

Least(S) == CHOOSE x \in S : \A y \in S : x <= y

(* The end of sys_open() with ip locked: filealloc() and fdalloc(), or     *)
(* iunlockput() when either table is full.                                 *)
OpenFile(p, i) ==
  IF FreeFiles # {} /\ FreeFDs(p) # {}
  THEN /\ file' = [file EXCEPT ![Least(FreeFiles)] = [ref |-> 1, ip |-> i]]
       /\ ofile' = [ofile EXCEPT ![p][Least(FreeFDs(p))] = Least(FreeFiles)]
       /\ st' = [st EXCEPT ![p].pc = "done", ![p].ip = 0, ![p].path = <<>>]
  ELSE /\ st' = [st EXCEPT ![p].pc = "done", ![p].ip = 0, ![p].path = <<>>,
                           ![p].puts = <<i>>]
       /\ UNCHANGED <<file, ofile>>

(* sys_open() without O_CREATE: a directory can only be read.              *)
Open(p) ==
  LET i == st[p].ip IN
  /\ Ilock(p, "open")
  /\ Read(i)
  /\ IF Loaded(i).type = "dir" /\ st[p].call.write
     THEN /\ st' = [st EXCEPT ![p].pc = "done", ![p].ip = 0,
                              ![p].puts = <<i>>]
          /\ UNCHANGED <<file, ofile>>
     ELSE OpenFile(p, i)
  /\ UNCHANGED <<dinode, dir, ref, lock, cwd, panic, menu>>

Argfd(p, d) == ofile[p][d]

Filedup(f) == [file EXCEPT ![f].ref = @ + 1]

(* sys_dup(): fdalloc() and filedup().                                     *)
Dup(p, d) ==
  LET f == Argfd(p, d) IN
  /\ st[p].pc = "idle" /\ \E c \in menu : c.op = "dup"
  /\ f # 0 /\ FreeFDs(p) # {}
  /\ ofile' = [ofile EXCEPT ![p][Least(FreeFDs(p))] = f]
  /\ file' = Filedup(f)
  /\ UNCHANGED <<dinode, dir, cache, ref, lock, cwd, st, panic, menu>>

(* fileclose(): the last reference puts the inode.                         *)
Fileclose(p, f) ==
  IF file[f].ref > 1
  THEN /\ file' = [file EXCEPT ![f].ref = @ - 1]
       /\ UNCHANGED st
  ELSE /\ file' = [file EXCEPT ![f] = [ref |-> 0, ip |-> 0]]
       /\ st' = [st EXCEPT ![p].pc = "done", ![p].puts = <<file[f].ip>>]

Close(p, d) ==
  LET f == Argfd(p, d) IN
  /\ st[p].pc = "idle" /\ \E c \in menu : c.op = "close"
  /\ f # 0
  /\ ofile' = [ofile EXCEPT ![p][d] = 0]
  /\ Fileclose(p, f)
  /\ UNCHANGED <<dinode, dir, cache, ref, lock, cwd, panic, menu>>

------------------------------------------------------------------------------
(* create(), and the system calls around it.                               *)

TypeOf(op) == CASE op = "mkdir" -> "dir" [] op = "mknod" -> "dev"
                [] OTHER -> "file"

FreeInums == {i \in Inums : dinode[i].type = "none"}

(* create() holding the parent: the name exists, or ialloc() takes the     *)
(* first free inode.  The parent stays locked in the second case.          *)
Create(p) ==
  LET s == st[p]
      old == Dirlookup(s.dp, Head(s.path))
      new == Least(FreeInums)
  IN
  /\ Ilock(p, "create")
  /\ \/ /\ old # 0
        /\ ref' = Referenced(old)
        /\ cache' = [Slotted(old) EXCEPT ![s.dp] = Loaded(s.dp)]
        /\ panic' = SlotPanic(old)
        /\ st' = [st EXCEPT ![p].pc = "exists", ![p].ip = old, ![p].dp = 0,
                            ![p].puts = <<s.dp>>]
        /\ UNCHANGED <<dinode, lock>>
     \/ /\ old = 0 /\ FreeInums = {}
        /\ panic' = "ialloc: no inodes"
        /\ UNCHANGED <<dinode, cache, ref, lock, st>>
     \/ /\ old = 0 /\ FreeInums # {}
        /\ dinode' = [dinode EXCEPT ![new] =
                        [type |-> TypeOf(s.call.op), nlink |-> 0]]
        /\ ref' = Referenced(new)
        /\ cache' = [Slotted(new) EXCEPT ![s.dp] = Loaded(s.dp)]
        /\ panic' = SlotPanic(new)
        /\ lock' = [lock EXCEPT ![s.dp] = p]
        /\ st' = [st EXCEPT ![p].pc = "create2", ![p].ip = new]
  /\ UNCHANGED <<dir, tables>>

(* The name exists: only open() of a plain file accepts it.                *)
CreateExists(p) ==
  LET i == st[p].ip IN
  /\ Ilock(p, "exists")
  /\ Read(i)
  /\ IF st[p].call.op = "create" /\ Loaded(i).type = "file"
     THEN OpenFile(p, i)
     ELSE /\ st' = [st EXCEPT ![p].pc = "done", ![p].ip = 0,
                              ![p].path = <<>>, ![p].puts = <<i>>]
          /\ UNCHANGED <<file, ofile>>
  /\ UNCHANGED <<dinode, dir, ref, lock, cwd, panic, menu>>

(* The rest of create(): the new inode gets its link and its entries, and  *)
(* is returned locked while the parent is put.                             *)
CreateLink(p) ==
  LET s == st[p]
      t == Loaded(s.ip).type
      dirs == [dir EXCEPT ![s.dp][Head(s.path)] = s.ip]
      linked == [dinode EXCEPT ![s.ip] = [type |-> t, nlink |-> 1]]
  IN
  /\ Ilock(p, "create2")
  /\ IF t = "dir"
     THEN /\ dinode' = [linked EXCEPT ![s.dp].nlink = cache[s.dp].nlink + 1]
          /\ dir' = [dirs EXCEPT ![s.ip]["."] = s.ip, ![s.ip][".."] = s.dp]
     ELSE /\ dinode' = linked
          /\ dir' = dirs
  /\ cache' = [cache EXCEPT
                 ![s.dp].nlink = IF t = "dir" THEN @ + 1 ELSE @,
                 ![s.ip] = [valid |-> TRUE, type |-> t, nlink |-> 1]]
  /\ lock' = [lock EXCEPT ![s.dp] = Nobody, ![s.ip] = p]
  /\ st' = [st EXCEPT ![p].pc = "created", ![p].dp = 0, ![p].path = <<>>,
                      ![p].puts = <<s.dp>>]
  /\ UNCHANGED <<ref, tables, panic>>

(* What sys_open(), sys_mkdir() and sys_mknod() do with the new inode.     *)
Created(p) ==
  LET i == st[p].ip IN
  /\ st[p].pc = "created" /\ st[p].puts = <<>>
  /\ lock' = [lock EXCEPT ![i] = Nobody]
  /\ IF st[p].call.op = "create"
     THEN OpenFile(p, i)
     ELSE /\ st' = [st EXCEPT ![p].pc = "done", ![p].ip = 0,
                              ![p].puts = <<i>>]
          /\ UNCHANGED <<file, ofile>>
  /\ UNCHANGED <<dinode, dir, cache, ref, cwd, panic, menu>>

------------------------------------------------------------------------------
(* sys_link().                                                             *)

(* Mutant: the new link is not counted.                                    *)
LinkUncounted(p) ==
  LET i == st[p].ip
      new == st[p].call.new
  IN
  /\ Ilock(p, "link")
  /\ IF Loaded(i).type = "dir"
     THEN /\ st' = [st EXCEPT ![p].pc = "done", ![p].ip = 0,
                              ![p].puts = <<i>>]
          /\ UNCHANGED ref
     ELSE /\ ref' = Referenced(StartOf(p, new))
          /\ st' = [st EXCEPT ![p].pc = "walk2", ![p].path = Elements(new),
                              ![p].cur = StartOf(p, new)]
  /\ Read(i)
  /\ UNCHANGED <<dinode, dir, lock, tables, panic>>

(* Mutant: a directory gets a second name.                                 *)
LinkDirs(p) ==
  LET i == st[p].ip
      new == st[p].call.new
  IN
  /\ Ilock(p, "link")
  /\ Iupdate(i, Loaded(i).type, Loaded(i).nlink + 1)
  /\ ref' = Referenced(StartOf(p, new))
  /\ st' = [st EXCEPT ![p].pc = "walk2", ![p].path = Elements(new),
                      ![p].cur = StartOf(p, new)]
  /\ UNCHANGED <<dir, lock, tables, panic>>

(* The old name: one link more, before the new name is looked up.          *)
Link(p) ==
  LET i == st[p].ip
      new == st[p].call.new
      start == StartOf(p, new)
      up == Loaded(i).nlink + 1
  IN
  /\ Ilock(p, "link")
  /\ IF Loaded(i).type = "dir"
     THEN /\ Read(i)
          /\ st' = [st EXCEPT ![p].pc = "done", ![p].ip = 0,
                              ![p].puts = <<i>>]
          /\ UNCHANGED <<dinode, ref, panic>>
     ELSE /\ dinode' = [dinode EXCEPT ![i] = [type |-> Loaded(i).type, nlink |-> up]]
          /\ ref' = Referenced(start)
          /\ cache' = [Slotted(start) EXCEPT ![i] = [Loaded(i) EXCEPT !.nlink = up]]
          /\ panic' = SlotPanic(start)
          /\ st' = [st EXCEPT ![p].pc = "walk2", ![p].path = Elements(new),
                              ![p].cur = start]
  /\ UNCHANGED <<dir, lock, tables>>

(* dirlink() of the new name; when the name is taken, its inode is put     *)
(* with the directory locked.                                              *)
LinkEntry(p) ==
  LET s == st[p]
      old == Dirlookup(s.dp, Head(s.path))
  IN
  /\ Ilock(p, "link2")
  /\ IF old = 0
     THEN /\ dir' = [dir EXCEPT ![s.dp][Head(s.path)] = s.ip]
          /\ Read(s.dp)
          /\ st' = [st EXCEPT ![p].pc = "done", ![p].ip = 0, ![p].dp = 0,
                              ![p].path = <<>>, ![p].puts = <<s.dp, s.ip>>]
          /\ UNCHANGED <<ref, lock, panic>>
     ELSE /\ ref' = Referenced(old)
          /\ cache' = [Slotted(old) EXCEPT ![s.dp] = Loaded(s.dp)]
          /\ panic' = SlotPanic(old)
          /\ lock' = [lock EXCEPT ![s.dp] = p]
          /\ st' = [st EXCEPT ![p].pc = "drop", ![p].path = <<>>,
                              ![p].puts = <<old>>]
          /\ UNCHANGED dir
  /\ UNCHANGED <<dinode, tables>>

(* iunlockput(dp) on the error paths of sys_link() and sys_unlink().       *)
DropParent(p) ==
  LET s == st[p] IN
  /\ s.pc = "drop" /\ s.puts = <<>>
  /\ lock' = [lock EXCEPT ![s.dp] = Nobody]
  /\ st' = [st EXCEPT ![p].pc = IF s.call.op = "link" THEN "linkbad"
                                ELSE "done",
                      ![p].dp = 0, ![p].puts = <<s.dp>>]
  /\ UNCHANGED <<dinode, dir, cache, ref, tables, panic>>

(* The label bad of sys_link(): take the link back.                        *)
LinkBad(p) ==
  LET i == st[p].ip IN
  /\ Ilock(p, "linkbad")
  /\ Iupdate(i, Loaded(i).type, Loaded(i).nlink - 1)
  /\ st' = [st EXCEPT ![p].pc = "done", ![p].ip = 0, ![p].puts = <<i>>]
  /\ UNCHANGED <<dir, ref, lock, tables, panic>>

------------------------------------------------------------------------------
(* sys_unlink() and sys_chdir().                                           *)

(* With the directory locked: find the entry, keep the lock if it is there *)
Unlink(p) ==
  LET s == st[p]
      name == Head(s.path)
      old == Dirlookup(s.dp, name)
  IN
  /\ Ilock(p, "unlink")
  /\ IF name \in Dots \/ old = 0
     THEN /\ Read(s.dp)
          /\ st' = [st EXCEPT ![p].pc = "done", ![p].dp = 0,
                              ![p].path = <<>>, ![p].puts = <<s.dp>>]
          /\ UNCHANGED <<ref, lock, panic>>
     ELSE /\ ref' = Referenced(old)
          /\ cache' = [Slotted(old) EXCEPT ![s.dp] = Loaded(s.dp)]
          /\ panic' = SlotPanic(old)
          /\ lock' = [lock EXCEPT ![s.dp] = p]
          /\ st' = [st EXCEPT ![p].pc = "unlink2", ![p].ip = old]
  /\ UNCHANGED <<dinode, dir, tables>>

(* isdirempty() skips the first two entries, which are those that create()*)
(* put there: "." and "..".                                               *)
IsDirEmpty(i) == \A n \in Names \ Dots : dir[i][n] = 0

(* With both locked: erase the entry unless it is a directory in use, and  *)
(* put the directory while the inode stays locked.                         *)
UnlinkEntry(p) ==
  LET s == st[p]
      dp == s.dp
      i == s.ip
      isdir == Loaded(i).type = "dir"
      down == cache[dp].nlink - (IF isdir THEN 1 ELSE 0)
  IN
  /\ Ilock(p, "unlink2")
  /\ \/ /\ Loaded(i).nlink < 1
        /\ panic' = "unlink: nlink < 1"
        /\ UNCHANGED <<dinode, dir, cache, lock, st>>
     \/ /\ Loaded(i).nlink >= 1 /\ isdir /\ ~IsDirEmpty(i)
        /\ Read(i)
        /\ st' = [st EXCEPT ![p].pc = "drop", ![p].ip = 0, ![p].path = <<>>,
                            ![p].puts = <<i>>]
        /\ UNCHANGED <<dinode, dir, lock, panic>>
     \/ /\ Loaded(i).nlink >= 1 /\ ~(isdir /\ ~IsDirEmpty(i))
        /\ dir' = [dir EXCEPT ![dp][Head(s.path)] = 0]
        /\ dinode' = [dinode EXCEPT ![dp].nlink = down]
        /\ cache' = [cache EXCEPT ![i] = Loaded(i), ![dp].nlink = down]
        /\ lock' = [lock EXCEPT ![dp] = Nobody, ![i] = p]
        /\ st' = [st EXCEPT ![p].pc = "unlinked", ![p].dp = 0,
                            ![p].path = <<>>, ![p].puts = <<dp>>]
        /\ UNCHANGED panic
  /\ UNCHANGED <<ref, tables>>

(* The end of sys_unlink(): ip->nlink-- and iunlockput(ip).                *)
Unlinked(p) ==
  LET i == st[p].ip IN
  /\ st[p].pc = "unlinked" /\ st[p].puts = <<>>
  /\ Iupdate(i, cache[i].type, cache[i].nlink - 1)
  /\ lock' = [lock EXCEPT ![i] = Nobody]
  /\ st' = [st EXCEPT ![p].pc = "done", ![p].ip = 0, ![p].puts = <<i>>]
  /\ UNCHANGED <<dir, ref, tables, panic>>

(* sys_chdir(): the old directory is put before cwd is set.                *)
Chdir(p) ==
  LET i == st[p].ip IN
  /\ Ilock(p, "chdir")
  /\ Read(i)
  /\ st' = IF Loaded(i).type = "dir"
           THEN [st EXCEPT ![p].pc = "chdir2", ![p].puts = <<cwd[p]>>]
           ELSE [st EXCEPT ![p].pc = "done", ![p].ip = 0, ![p].puts = <<i>>]
  /\ UNCHANGED <<dinode, dir, ref, lock, tables, panic>>

ChdirSet(p) ==
  /\ st[p].pc = "chdir2" /\ st[p].puts = <<>>
  /\ cwd' = [cwd EXCEPT ![p] = st[p].ip]
  /\ st' = [st EXCEPT ![p] = Idle]
  /\ UNCHANGED <<dinode, dir, cache, ref, lock, file, ofile, panic, menu>>

(* end_op() and the return to user space.                                  *)
Return(p) ==
  /\ st[p].pc = "done" /\ st[p].puts = <<>>
  /\ st' = [st EXCEPT ![p] = Idle]
  /\ UNCHANGED <<dinode, dir, cache, ref, lock, tables, panic>>

Next ==
  /\ panic = "no"
  /\ \E p \in Procs :
       \/ Start(p) \/ WalkStep(p) \/ WalkEnd(p) \/ IlockNoType(p)
       \/ IputLocked(p) \/ IputUnref(p)
       \/ Open(p) \/ \E d \in FDs : Dup(p, d) \/ Close(p, d)
       \/ Create(p) \/ CreateExists(p) \/ CreateLink(p) \/ Created(p)
       \/ Link(p) \/ LinkEntry(p) \/ DropParent(p) \/ LinkBad(p)
       \/ Unlink(p) \/ UnlinkEntry(p) \/ Unlinked(p)
       \/ Chdir(p) \/ ChdirSet(p) \/ Return(p)

Spec == Init /\ [][Next]_vars

------------------------------------------------------------------------------
(* Properties.                                                             *)

(* The pointers to inode i that the kernel holds.                          *)
Pointers(i) ==
  {<<"cwd", p>> : p \in {q \in Procs : cwd[q] = i /\ st[q].pc # "chdir2"}}
  \cup {<<"file", f>> : f \in {g \in 1..NFILE : file[g].ref > 0
                                              /\ file[g].ip = i}}
  \cup {<<"cur", p>> : p \in {q \in Procs : st[q].cur = i}}
  \cup {<<"ip", p>> : p \in {q \in Procs : st[q].ip = i}}
  \cup {<<"dp", p>> : p \in {q \in Procs : st[q].dp = i}}
  \cup UNION {{<<"put", p, k>> : k \in {m \in DOMAIN st[p].puts :
                                     st[p].puts[m] = i}} : p \in Procs}

(* ip->ref tracks the number of in-memory pointers to the inode, and what  *)
(* is an open file or a current directory stays allocated, whatever is     *)
(* unlinked meanwhile (the comment on referencing in fs.c).                *)
ReferencesExact ==
  \A i \in Inums :
    /\ ref[i] = Cardinality(Pointers(i))
    /\ (\E p \in Procs : cwd[p] = i /\ st[p].pc # "chdir2")
         \/ (\E f \in 1..NFILE : file[f].ref > 0 /\ file[f].ip = i)
       => dinode[i].type # "none"

(* The inode cache is write-through: an unlocked valid entry agrees with   *)
(* the disk, across freeing and reallocation of the inode number.          *)
CacheCoherent ==
  \A i \in Inums : cache[i].valid /\ lock[i] = Nobody /\ ref[i] > 0 =>
    cache[i].type = dinode[i].type /\ cache[i].nlink = dinode[i].nlink

(* Names of inode i: entries other than "." and "..", and the ".." of the  *)
(* directories with such a name.  The root has one link of its own.        *)
Entry(d, n, i) == n \notin Dots /\ dir[d][n] = i

IsLink(d, n, i) ==
  \/ Entry(d, n, i)
  \/ /\ n = ".." /\ dir[d][n] = i
     /\ d = Root \/ \E e \in Inums, m \in Names : Entry(e, m, d)

LinksTo(i) == {l \in Inums \X Names : IsLink(l[1], l[2], i)}

(* nlink is the "Number of links to inode in file system" (fs.h): at every *)
(* moment each inode has at least as many links as names, and a name is    *)
(* that of an allocated inode.                                             *)
NamesAreLinks ==
  \A i \in Inums : /\ Cardinality(LinksTo(i)) <= dinode[i].nlink
                   /\ LinksTo(i) # {} => dinode[i].type # "none"

(* The calls of this behaviour only descend: none has ".." in its paths.   *)
(* namex() lets ".." lead out of a directory that has been removed into an *)
(* inode that has been freed and taken again (run fs_links).               *)
HasDotDot(path) == \E k \in DOMAIN path : path[k] = ".."

Descends ==
  \A c \in menu : c.op \notin {"close", "dup"} =>
    /\ ~HasDotDot(Elements(c.path))
    /\ c.op = "link" => ~HasDotDot(Elements(c.new))

(* As long as nobody walks through "..", no name outlives its link:        *)
(* create() and link() count first and name later, unlink() the other way  *)
(* round, so that no interleaving with iput() frees an inode that can      *)
(* still be reached.                                                       *)
NamesCounted == Descends => NamesAreLinks

DirectoryTree ==
  \A c, d \in Inums, n \in Names :
    Entry(d, n, c) /\ dinode[c].type = "dir" =>
      /\ dir[c][".."] = d /\ dir[c]["."] = c
      /\ dinode[d].type = "dir"
      /\ \A e \in Inums, m \in Names : Entry(e, m, c) => <<e, m>> = <<d, n>>

(* As long as nobody walks through "..", the directories form a forest: a  *)
(* directory has at most one name, its ".." is the allocated directory     *)
(* that holds this name, and none is freed while create() fills it.        *)
TreeKept == Descends => DirectoryTree

(* "linkunlink ok": processes that create, link and unlink the same name   *)
(* never wait for each other's inode locks in a circle (usertests.c).      *)
NoLockCycle ==
  /\ \A p \in Procs : Target(p) # 0 => lock[Target(p)] # p
  /\ \A p, q \in Procs : ~( /\ Target(p) # 0 /\ lock[Target(p)] = q
                            /\ Target(q) # 0 /\ lock[Target(q)] = p)
=============================================================================
