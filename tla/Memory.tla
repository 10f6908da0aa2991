------------------------------- MODULE Memory -------------------------------
(***************************************************************************)
(* Physical pages and user address spaces (kalloc.c, vm.c, exec.c,         *)
(* growproc() and the page work of fork() and exit()), and the checks of   *)
(* system call arguments against the size of the process (syscall.c).      *)
(*                                                                         *)
(* Processes build address spaces side by side, one kalloc() per step, so  *)
(* that any of them can run out of memory halfway.  Giving pages back is   *)
(* one step.  Which free page kalloc() returns is immaterial: it is the    *)
(* lowest.  Addresses count units of 1/PGSIZE page; the kernel's part of a *)
(* page table stands as one page.                                          *)
(***************************************************************************)
EXTENDS Integers, FiniteSets

CONSTANTS
  NProcs,             \* the process slots 1 to NProcs; slot 1 starts alive
  NPages,             \* physical pages
  PGSIZE,             \* units in a page
  NPTE,               \* pages that one page table page maps
  UserPages,          \* KERNBASE, in pages
  MaxStep,            \* bound: units that one sbrk() adds or takes
  ImagePages          \* bound: pages of a program's segments

Slots == 1..NProcs
Pages == 1..NPages
VPages == 0..(UserPages - 1)
Tabs == 0..((UserPages - 1) \div NPTE)

ASSUME MemAssumption ==
  /\ {NProcs, NPages, PGSIZE, NPTE, UserPages, ImagePages} \subseteq Nat \ {0}
  /\ MaxStep \in Nat
  /\ NPages >= 5                          \* userinit() succeeds

VARIABLES
  freelist,    \* kmem.freelist
  kstack,      \* kernel stack of each process, 0 when the slot is unused
  pgdir,       \* address space of each process
  sz,          \* p->sz
  build        \* the fork(), exec() or sbrk() that a process has under way

memVars == <<freelist, kstack, pgdir, sz, build>>

(* An address space: the page directory, the kernel's page table, the page *)
(* tables of the user part and the pages they map, 0 where there is none;  *)
(* guard is the page without PTE_U that exec() puts below the stack, or -1.*)
NoSpace == [dir |-> 0, kpt |-> 0, tab |-> [t \in Tabs |-> 0],
            user |-> [v \in VPages |-> 0], guard |-> -1]

(* kind of call, slot it builds for, size to reach, a page in hand.        *)
NoBuild == [kind |-> "none", for |-> 0, upto |-> 0, mem |-> 0, old |-> NoSpace]

(* Mutant: PGROUNDDOWN.                                                    *)
RoundDown(n) == n \div PGSIZE

RoundUp(n) == (n + PGSIZE - 1) \div PGSIZE     \* PGROUNDUP, as a page number

Used(f) == {f[x] : x \in DOMAIN f} \ {0}

(* Mutant: freevm() forgets the page tables.                               *)
PagesOfWithoutTables(as) == ({as.dir, as.kpt} \cup Used(as.user)) \ {0}

PagesOf(as) == ({as.dir, as.kpt} \cup Used(as.tab) \cup Used(as.user)) \ {0}

LeastOf(S) == CHOOSE x \in S : \A y \in S : x <= y

(* kinit1() and kinit2(): what userinit() leaves of the pages.             *)
Freerange == 6..NPages

(* userinit(): one process of one page.                                    *)
MemInit ==
  /\ kstack = [p \in Slots |-> IF p = 1 THEN 1 ELSE 0]
  /\ pgdir = [p \in Slots |-> IF p = 1
       THEN [dir |-> 2, kpt |-> 3, tab |-> [t \in Tabs |-> IF t = 0 THEN 4 ELSE 0],
             user |-> [v \in VPages |-> IF v = 0 THEN 5 ELSE 0], guard |-> -1]
       ELSE NoSpace]
  /\ freelist = Freerange
  /\ sz = [p \in Slots |-> IF p = 1 THEN PGSIZE ELSE 0]
  /\ build = [p \in Slots |-> NoBuild]

(* A process that can execute: its code is mapped and it is in no call.    *)
Runs(p) == kstack[p] # 0 /\ pgdir[p].user[0] # 0 /\ build[p].kind = "none"
           /\ \A q \in Slots : build[q].for = p => q = p

(* deallocuvm() of as from size from down to size to.                      *)
Dealloc(as, from, to) ==
  LET Gone(v) == v >= RoundUp(to) /\ v * PGSIZE < from IN
  [as EXCEPT !.user = [v \in VPages |-> IF Gone(v) THEN 0 ELSE as.user[v]],
             !.guard = IF Gone(@) THEN -1 ELSE @]

(* sys_sbrk() of n > 0: growproc() and the entry checks of allocuvm().     *)
Grow(p, n) ==
  /\ Runs(p) /\ sz[p] + n < UserPages * PGSIZE
  /\ build' = [build EXCEPT ![p] = [NoBuild EXCEPT !.kind = "sbrk", !.for = p,
                                    !.upto = sz[p] + n, !.old = pgdir[p]]]
  /\ UNCHANGED <<freelist, kstack, pgdir, sz>>

(* sys_sbrk() of -n: deallocuvm().  A size below 0 wraps around and frees  *)
(* nothing; a size of 0 frees everything, and growproc() returns -1        *)
(* without setting sz.                                                     *)
Shrink(p, n) ==
  LET new == sz[p] - n
      left == Dealloc(pgdir[p], sz[p], new)
  IN
  /\ Runs(p) /\ new >= 0
  /\ freelist' = freelist \cup (PagesOf(pgdir[p]) \ PagesOf(left))
  /\ pgdir' = [pgdir EXCEPT ![p] = left]
  /\ sz' = [sz EXCEPT ![p] = IF new = 0 THEN @ ELSE new]
  /\ UNCHANGED <<kstack, build>>

(* fork(): allocproc() claims a slot, then copyuvm() builds its space.     *)
Fork(p, c) ==
  /\ Runs(p)
  /\ kstack[c] = 0 /\ \A q \in Slots : build[q].for # c
  /\ build' = [build EXCEPT ![p] = [NoBuild EXCEPT !.kind = "fork", !.for = c,
                                                   !.upto = sz[p]]]
  /\ UNCHANGED <<freelist, kstack, pgdir, sz>>

(* exec() of a program of n pages: its segments, a guard page and a stack  *)
(* page in a new address space, while the old one is kept.                 *)
Exec(p, n) ==
  /\ Runs(p) /\ n + 2 < UserPages
  /\ build' = [build EXCEPT ![p] = [NoBuild EXCEPT !.kind = "exec", !.for = p,
                             !.upto = (n + 2) * PGSIZE, !.old = pgdir[p]]]
  /\ pgdir' = [pgdir EXCEPT ![p] = NoSpace]
  /\ UNCHANGED <<freelist, kstack, sz>>

(* The pages that the build still has to map, and what it allocates next:  *)
(* allocproc(), setupkvm(), then for each page kalloc() and the page table *)
(* that walkpgdir() needs for it.                                          *)
Missing(p) == {v \in VPages : /\ v * PGSIZE < build[p].upto
                              /\ pgdir[build[p].for].user[v] = 0}

NextNeed(p) ==
  LET c == build[p].for IN
  CASE kstack[c] = 0 -> "kstack"
    [] kstack[c] # 0 /\ pgdir[c].dir = 0 -> "dir"
    [] kstack[c] # 0 /\ pgdir[c].dir # 0 /\ pgdir[c].kpt = 0 -> "kpt"
    [] OTHER ->
         IF Missing(p) = {} THEN "done"
         ELSE IF build[p].mem = 0 THEN "mem"
         ELSE IF pgdir[c].tab[LeastOf(Missing(p)) \div NPTE] = 0 THEN "tab"
         ELSE "map"

(* walkpgdir() adds page table pg for page v, mappages() maps v to pg.     *)
Walkpgdir(as, v, pg) == [as EXCEPT !.tab[v \div NPTE] = pg]
Mappages(as, v, pg) == [as EXCEPT !.user[v] = pg]

(* One successful kalloc(), or mappages() of the page in hand.             *)
BuildStep(p) ==
  LET c == build[p].for
      need == NextNeed(p)
      pg == LeastOf(freelist)
      v == LeastOf(Missing(p))
  IN
  /\ build[p].kind # "none" /\ need # "done"
  /\ need = "map" \/ freelist # {}
  /\ freelist' = IF need = "map" THEN freelist ELSE freelist \ {pg}
  /\ kstack' = IF need = "kstack" THEN [kstack EXCEPT ![c] = pg] ELSE kstack
  /\ pgdir' = CASE need = "dir" -> [pgdir EXCEPT ![c].dir = pg]
                [] need = "kpt" -> [pgdir EXCEPT ![c].kpt = pg]
                [] need = "tab" -> [pgdir EXCEPT ![c] = Walkpgdir(@, v, pg)]
                [] need = "map" -> [pgdir EXCEPT ![c] = Mappages(@, v, build[p].mem)]
                [] OTHER -> pgdir
  /\ build' = CASE need = "mem" -> [build EXCEPT ![p].mem = pg]
                [] need = "map" -> [build EXCEPT ![p].mem = 0]
                [] OTHER -> build
  /\ UNCHANGED sz

(* kalloc() returns 0.                                                     *)
OutOfMemory(p) == NextNeed(p) \notin {"done", "map"} /\ freelist = {}

(* The other ways in which exec() goes to bad: a header, a segment, a read *)
(* or an argument that is no good, before, between or after the pages.     *)
ExecBad(p) == build[p].kind = "exec" /\ NextNeed(p) \in {"dir", "mem", "done"}

(* The error paths of allocuvm(), copyuvm(), setupkvm() and exec() give    *)
(* back what was built.  The page tables that sbrk() added stay.           *)
BuildFail(p) ==
  LET b == build[p]
      kept == IF b.kind = "sbrk" THEN Dealloc(pgdir[p], b.upto, sz[p])
              ELSE b.old
      back == (PagesOf(pgdir[b.for]) \ PagesOf(kept)) \cup ({b.mem} \ {0})
  IN
  /\ b.kind # "none" /\ (OutOfMemory(p) \/ ExecBad(p))
  /\ pgdir' = [pgdir EXCEPT ![b.for] = kept]
  /\ IF b.kind = "fork"
     THEN /\ freelist' = freelist \cup back \cup ({kstack[b.for]} \ {0})
          /\ kstack' = [kstack EXCEPT ![b.for] = 0]
     ELSE /\ freelist' = freelist \cup back
          /\ UNCHANGED kstack
  /\ build' = [build EXCEPT ![p] = NoBuild]
  /\ UNCHANGED sz

(* The page that clearpteu() or copyuvm() leaves to the kernel.            *)
Clearpteu(p) ==
  IF build[p].kind = "exec" THEN build[p].upto \div PGSIZE - 2
  ELSE pgdir[p].guard

(* The call succeeds; exec() frees the old address space.                  *)
BuildDone(p) ==
  LET b == build[p] IN
  /\ b.kind # "none" /\ NextNeed(p) = "done"
  /\ freelist' = IF b.kind = "exec" THEN freelist \cup PagesOf(b.old) ELSE freelist
  /\ sz' = [sz EXCEPT ![b.for] = b.upto]
  /\ pgdir' = [pgdir EXCEPT ![b.for].guard = Clearpteu(p)]
  /\ build' = [build EXCEPT ![p] = NoBuild]
  /\ UNCHANGED kstack

(* exit(), also after a page fault, and the wait() of the parent, which    *)
(* frees the kernel stack and the address space.                           *)
Exit(p) ==
  /\ p # 1 /\ kstack[p] # 0 /\ build[p].kind = "none"
  /\ \A q \in Slots : build[q].for # p
  /\ freelist' = freelist \cup PagesOf(pgdir[p]) \cup {kstack[p]}
  /\ kstack' = [kstack EXCEPT ![p] = 0]
  /\ pgdir' = [pgdir EXCEPT ![p] = NoSpace]
  /\ sz' = [sz EXCEPT ![p] = 0]
  /\ UNCHANGED build

MemNext ==
  \E p \in Slots :
    \/ \E n \in 1..MaxStep : Grow(p, n) \/ Shrink(p, n)
    \/ \E c \in Slots : Fork(p, c)
    \/ \E n \in 1..ImagePages : Exec(p, n)
    \/ BuildStep(p) \/ BuildFail(p) \/ BuildDone(p) \/ Exit(p)

MemSpec == MemInit /\ [][MemNext]_memVars

------------------------------------------------------------------------------
(* argptr() and fetchint() accept the n units at address a of process p.   *)
ArgOK(p, a, n) == a < sz[p] /\ a + n <= sz[p]

(* sys_pgcnt(): the pages with PTE_P and PTE_U.                            *)
Pgcnt(p) == Cardinality({v \in VPages \ {pgdir[p].guard} : pgdir[p].user[v] # 0})

(* Every place that holds a page, with the page.                           *)
PlacesOf(p, k, as) ==
  {<<p, k, "dir", 0, as.dir>>, <<p, k, "kpt", 0, as.kpt>>}
    \cup {<<p, k, "tab", t, as.tab[t]>> : t \in Tabs}
    \cup {<<p, k, "user", v, as.user[v]>> : v \in VPages}

HeldBy(p) ==
  {<<p, "kstack", "one", 0, kstack[p]>>, <<p, "hand", "one", 0, build[p].mem>>}
    \cup PlacesOf(p, "pgdir", pgdir[p])
    \cup (IF build[p].kind = "exec" THEN PlacesOf(p, "old", build[p].old) ELSE {})

Held == {h \in UNION {HeldBy(p) : p \in Slots} : h[5] # 0}

(* Every page is free or held in one place: whatever runs out of memory in *)
(* the middle of a fork(), exec() or sbrk(), no page is lost, and none     *)
(* belongs to two owners.                                                  *)
PagesConserved ==
  /\ freelist \cup {h[5] : h \in Held} = Pages
  /\ Cardinality(freelist) + Cardinality(Held) = NPages

(* A process that can make system calls has mapped exactly the pages below *)
(* sz, so every argument that the kernel accepts lies in mapped memory,    *)
(* copyuvm() finds every page it copies and pgcnt() counts all of them but *)
(* the guard page, after any mix of failed and successful calls with sizes *)
(* that are no multiple of a page.                                         *)
KernelAccessMapped ==
  \A p \in Slots : Runs(p) =>
    /\ \A v \in VPages : pgdir[p].user[v] # 0 <=> v < RoundUp(sz[p])
    /\ Pgcnt(p) = RoundUp(sz[p]) - (IF pgdir[p].guard = -1 THEN 0 ELSE 1)
    /\ \A a \in 0..(UserPages * PGSIZE), n \in 1..PGSIZE : ArgOK(p, a, n) =>
         \A x \in a..(a + n - 1) : pgdir[p].user[x \div PGSIZE] # 0
=============================================================================
