------------------------------ MODULE Umalloc ------------------------------
(***************************************************************************)
(* The user-level allocator (umalloc.c): a circular list of free blocks in *)
(* address order, searched first-fit from where the last search ended.     *)
(*                                                                         *)
(* Addresses count units of one Header.  Address 0 is the static base,     *)
(* which comes before the heap; the heap starts at 1 and sbrk() extends it.*)
(* The fields of what is no header any more are set to 0.                  *)
(***************************************************************************)
EXTENDS Integers, FiniteSets

CONSTANTS
  MaxHeap,         \* bound: units that sbrk() will give in all
  MinCore,         \* units that morecore() asks for at least (4096)
  MaxUnits         \* bound: the largest request, header included

ASSUME UmallocAssumption == {MaxHeap, MinCore, MaxUnits} \subseteq Nat \ {0}

VARIABLES
  ptr, size,       \* s.ptr and s.size of the block at each address
  freep,
  brk,             \* the heap is 1..brk
  held,            \* addresses of the blocks the program has
  req              \* units malloc() is looking for, 0 outside malloc()

heapVars == <<ptr, size, freep, brk, held, req>>

(* The first malloc() makes base a list of one block of no units.          *)
HeapInit ==
  /\ ptr = [a \in 0..MaxHeap |-> 0]
  /\ size = [a \in 0..MaxHeap |-> 0]
  /\ freep = 0 /\ brk = 0 /\ held = {} /\ req = 0

(* The blocks met by following s.ptr from freep, and how many there are    *)
(* before freep comes round again.                                         *)
WalkFrom(k) ==
  LET w[i \in 0..(MaxHeap + 1)] == IF i = 0 THEN freep ELSE ptr[w[i - 1]]
  IN  w[k]

Rounds == CHOOSE n \in 1..(MaxHeap + 1) :
            /\ WalkFrom(n) = freep
            /\ \A i \in 1..(n - 1) : WalkFrom(i) # freep

(* The loop of free(): the block of the list that comes before bp.         *)
Before(bp, p) ==
  \/ bp > p /\ bp < ptr[p]
  \/ p >= ptr[p] /\ (bp > p \/ bp < ptr[p])

Pred(bp) ==
  WalkFrom(CHOOSE k \in 0..(Rounds - 1) :
             /\ Before(bp, WalkFrom(k))
             /\ \A i \in 0..(k - 1) : ~Before(bp, WalkFrom(i)))

(* Mutant: the block below is not joined when the one above is.            *)
FreeBlockOneSide(bp, n) ==
  LET p == Pred(bp)
      up == ptr[p]
      joinUp == bp + n = up
      joinDown == ~joinUp /\ p + size[p] = bp
  IN
  /\ size' = IF joinUp THEN [size EXCEPT ![bp] = n + size[up], ![up] = 0]
             ELSE IF joinDown THEN [size EXCEPT ![p] = @ + n, ![bp] = 0]
             ELSE [size EXCEPT ![bp] = n]
  /\ ptr' = IF joinUp THEN [ptr EXCEPT ![p] = bp, ![bp] = ptr[up], ![up] = 0]
            ELSE IF joinDown THEN [ptr EXCEPT ![bp] = 0]
            ELSE [ptr EXCEPT ![bp] = up, ![p] = bp]
  /\ freep' = p

(* free() of the block of n units at bp, joined with the block above and   *)
(* the block below when they touch.                                        *)
FreeBlock(bp, n) ==
  LET p == Pred(bp)
      up == ptr[p]
      joinUp == bp + n = up
      s1 == IF joinUp THEN n + size[up] ELSE n
      t1 == IF joinUp THEN ptr[up] ELSE up
      joinDown == p + size[p] = bp
      dead == IF joinUp THEN up ELSE -1
      size1 == [a \in DOMAIN size |-> IF a = dead THEN 0 ELSE size[a]]
      ptr1 == [a \in DOMAIN ptr |-> IF a = dead THEN 0 ELSE ptr[a]]
  IN
  /\ size' = IF joinDown THEN [size1 EXCEPT ![p] = @ + s1, ![bp] = 0]
                         ELSE [size1 EXCEPT ![bp] = s1]
  /\ ptr' = IF joinDown THEN [ptr1 EXCEPT ![p] = t1, ![bp] = 0]
                        ELSE [ptr1 EXCEPT ![bp] = t1, ![p] = bp]
  /\ freep' = p

Free(b) ==
  /\ req = 0 /\ b \in held
  /\ FreeBlock(b, size[b])
  /\ held' = held \ {b}
  /\ UNCHANGED <<brk, req>>

(* malloc() of what takes n units with its header; malloc(0) takes 1.      *)
(* Sizes at which nunits or nu * sizeof(Header) overflow are left out.     *)
Malloc(n) ==
  /\ req = 0 /\ req' = n
  /\ UNCHANGED <<ptr, size, freep, brk, held>>

(* The steps of the search at which the block is large enough.             *)
Fits(n) == {k \in 1..Rounds : size[WalkFrom(k)] >= n}

(* malloc() returns the first block that fits, or its tail.                *)
Take ==
  LET k == CHOOSE i \in Fits(req) : \A j \in Fits(req) : i <= j
      p == WalkFrom(k)
      prev == WalkFrom(k - 1)
      rest == size[p] - req
  IN
  /\ req # 0 /\ Fits(req) # {}
  /\ IF rest = 0
     THEN /\ ptr' = [ptr EXCEPT ![prev] = ptr[p], ![p] = 0]
          /\ held' = held \cup {p}
          /\ UNCHANGED size
     ELSE /\ size' = [size EXCEPT ![p] = rest, ![p + rest] = req]
          /\ held' = held \cup {p + rest}
          /\ UNCHANGED ptr
  /\ freep' = prev
  /\ req' = 0
  /\ UNCHANGED brk

(* morecore(): free() of a new piece of heap, or malloc() returns 0.       *)
MoreCore ==
  LET nu == IF req < MinCore THEN MinCore ELSE req IN
  /\ req # 0 /\ Fits(req) = {}
  /\ IF brk + nu <= MaxHeap
     THEN /\ FreeBlock(brk + 1, nu)
          /\ brk' = brk + nu
          /\ UNCHANGED <<held, req>>
     ELSE /\ req' = 0
          /\ UNCHANGED <<ptr, size, freep, brk, held>>

HeapNext ==
  \/ \E n \in 1..MaxUnits : Malloc(n)
  \/ \E b \in held : Free(b)
  \/ Take \/ MoreCore

------------------------------------------------------------------------------
FreeBlocks == {WalkFrom(k) : k \in 1..Rounds} \ {0}

(* The blocks in use and the free ones tile the heap without overlap, the  *)
(* base stays on the list, and no two free blocks touch: free() has joined *)
(* them, whatever the order in which blocks were taken and given back.     *)
HeapTiled ==
  /\ 0 \in {WalkFrom(k) : k \in 1..Rounds}
  /\ held \cap FreeBlocks = {}
  /\ \A a \in 1..brk :
       Cardinality({b \in held \cup FreeBlocks : b <= a /\ a < b + size[b]}) = 1
  /\ \A b \in held \cup FreeBlocks : b + size[b] - 1 <= brk
  /\ \A b, c \in FreeBlocks : b + size[b] # c
=============================================================================
