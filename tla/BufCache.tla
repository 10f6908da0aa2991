------------------------------ MODULE BufCache ------------------------------
(***************************************************************************)
(* The buffer cache (bio.c), its sleep locks (sleeplock.c) and the queue   *)
(* of the disk driver (ide.c): processes that read, change, write back or  *)
(* pin blocks, and the interrupts that complete their requests.            *)
(*                                                                         *)
(* A step is one critical section of bcache.lock, of the spin lock inside  *)
(* a sleep lock, or of idelock.                                            *)
(*                                                                         *)
(* What acts is a use of a buffer, from its bget() to the end of its       *)
(* brelse().  A process that holds two buffers at once, as in bmap() and   *)
(* itrunc() (fs.c) and write_log() (log.c), makes two uses; the order in   *)
(* which one process goes on with its uses is left open, so the behaviours *)
(* here include those of any number of processes with any number of        *)
(* buffers each.  The disk reports no errors: ideintr() always transfers   *)
(* the data of a read, where the code skips insl() and still marks the     *)
(* buffer valid when idewait(1) fails.                                     *)
(***************************************************************************)
EXTENDS Integers, Sequences, FiniteSets

CONSTANTS
  BufUses, NoUse,     \* the uses of buffers that may be in progress at once
  Blocks, NoBlock,    \* NoBlock: what a fresh buffer holds
  NBUF,
  Data,               \* contents of a block
  MaxPinned           \* bound: log.lh.n, the blocks the log may pin

Bufs == 1..NBUF

ASSUME BufAssumption ==
  /\ NoUse \notin BufUses /\ NoBlock \notin Blocks
  /\ IsFiniteSet(BufUses)
  /\ NBUF \in Nat \ {0} /\ MaxPinned \in Nat /\ Data # {}

VARIABLES
  buf,        \* the buffers: block, refcnt, valid, dirty, owner of the lock, data
  lru,        \* bcache.head's list, most recently used first
  disk,
  idequeue,
  active,     \* the buffer idestart() gave to the disk, 0 when it is idle
  bpc,        \* where each use is
  bufOf,      \* the buffer of each use, 0 when none
  nobufs,     \* bget() has called panic("bget: no buffers")
  latest      \* what was last put into each block, whoever asks for it

bufVars == <<buf, lru, disk, idequeue, active, bpc, bufOf, nobufs, latest>>

BufInit ==
  /\ buf = [b \in Bufs |-> [block |-> NoBlock, refcnt |-> 0, valid |-> FALSE,
                            dirty |-> FALSE, owner |-> NoUse,
                            data |-> CHOOSE d \in Data : TRUE]]
  /\ lru = [k \in Bufs |-> NBUF + 1 - k]
  /\ disk = [k \in Blocks |-> CHOOSE d \in Data : TRUE]
  /\ latest = disk
  /\ idequeue = <<>> /\ active = 0
  /\ bpc = [p \in BufUses |-> "idle"]
  /\ bufOf = [p \in BufUses |-> 0]
  /\ nobufs = FALSE

Cached(k) == {b \in Bufs : buf[b].block = k}

(* Mutant: a pinned buffer is recycled.                                    *)
RecyclablePinned == {b \in Bufs : buf[b].refcnt = 0}

Recyclable == {b \in Bufs : buf[b].refcnt = 0 /\ ~buf[b].dirty}

Age(b) == CHOOSE n \in Bufs : lru[n] = b
Oldest(S) == CHOOSE b \in S : \A c \in S : Age(c) <= Age(b)

(* The list with b unlinked and put at its head.                           *)
ToFront(b) ==
  [n \in Bufs |-> IF n = 1 THEN b
                  ELSE IF n <= Age(b) THEN lru[n - 1] ELSE lru[n]]

At(p, l) == bpc' = [bpc EXCEPT ![p] = l]

(* bget() up to acquiresleep(): a cached buffer, or the least recently     *)
(* used one that nobody holds and the log has not pinned.                  *)
Bget(p, k) ==
  /\ bpc[p] = "idle" /\ ~nobufs
  /\ \/ \E b \in Cached(k) :
          /\ buf' = [buf EXCEPT ![b].refcnt = @ + 1]
          /\ bufOf' = [bufOf EXCEPT ![p] = b]
          /\ At(p, "lock")
          /\ UNCHANGED nobufs
     \/ /\ Cached(k) = {} /\ Recyclable # {}
        /\ buf' = [buf EXCEPT ![Oldest(Recyclable)] =
                    [@ EXCEPT !.block = k, !.refcnt = 1, !.valid = FALSE]]
        /\ bufOf' = [bufOf EXCEPT ![p] = Oldest(Recyclable)]
        /\ At(p, "lock")
        /\ UNCHANGED nobufs
     \/ /\ Cached(k) = {} /\ Recyclable = {}
        /\ nobufs' = TRUE
        /\ UNCHANGED <<buf, bufOf, bpc>>
  /\ UNCHANGED <<lru, disk, idequeue, active, latest>>

(* bread(): the disk is needed unless the buffer is valid.                 *)
Bread(b) == IF buf[b].valid THEN "have" ELSE "iderw"

(* acquiresleep(), to the point where the lock is held or sleep() is       *)
(* entered; then bread() goes on.                                          *)
AcquireSleep(p) ==
  LET b == bufOf[p] IN
  /\ bpc[p] = "lock" /\ ~nobufs
  /\ IF buf[b].owner # NoUse
     THEN At(p, "asleep") /\ UNCHANGED buf
     ELSE /\ buf' = [buf EXCEPT ![b].owner = p]
          /\ At(p, Bread(b))
  /\ UNCHANGED <<lru, disk, idequeue, active, bufOf, nobufs, latest>>

(* idestart() of the first buffer of queue q; 0 leaves the disk idle.      *)
Idestart(q) == IF q = <<>> THEN 0 ELSE Head(q)

(* iderw() up to sleep(): append the buffer, start an idle disk.           *)
Iderw(p) ==
  /\ bpc[p] = "iderw" /\ ~nobufs
  /\ idequeue' = Append(idequeue, bufOf[p])
  /\ active' = IF idequeue = <<>> THEN Idestart(idequeue') ELSE active
  /\ At(p, "waitdisk")
  /\ UNCHANGED <<buf, lru, disk, bufOf, nobufs, latest>>

(* Mutant: the disk is not started on the next request.                    *)
IdeintrStops ==
  LET b == Head(idequeue) IN
  /\ active # 0 /\ idequeue # <<>> /\ ~nobufs
  /\ disk' = IF buf[b].dirty THEN [disk EXCEPT ![buf[b].block] = buf[b].data]
             ELSE disk
  /\ buf' = [buf EXCEPT ![b] = [@ EXCEPT
               !.valid = TRUE, !.dirty = FALSE,
               !.data = IF buf[b].dirty THEN buf[b].data ELSE disk[buf[b].block]]]
  /\ bpc' = [p \in BufUses |-> IF bpc[p] = "waitdisk" /\ bufOf[p] = b
                                THEN "have" ELSE bpc[p]]
  /\ idequeue' = Tail(idequeue)
  /\ active' = 0
  /\ UNCHANGED <<lru, bufOf, nobufs, latest>>

(* ideintr(): the active request is done; wake its process and start the   *)
(* next one.                                                               *)
Ideintr ==
  LET b == Head(idequeue)
      rest == Tail(idequeue)
  IN
  /\ active # 0 /\ idequeue # <<>> /\ ~nobufs
  /\ disk' = IF buf[b].dirty THEN [disk EXCEPT ![buf[b].block] = buf[b].data]
             ELSE disk
  /\ buf' = [buf EXCEPT ![b] = [@ EXCEPT
               !.valid = TRUE, !.dirty = FALSE,
               !.data = IF buf[b].dirty THEN buf[b].data ELSE disk[buf[b].block]]]
  /\ bpc' = [p \in BufUses |-> IF bpc[p] = "waitdisk" /\ bufOf[p] = b
                                THEN "have" ELSE bpc[p]]
  /\ idequeue' = rest
  /\ active' = Idestart(rest)
  /\ UNCHANGED <<lru, bufOf, nobufs, latest>>

(* The holder of a buffer changes it and calls bwrite().                   *)
Bwrite(p, d) ==
  /\ bpc[p] = "have" /\ ~nobufs
  /\ buf' = [buf EXCEPT ![bufOf[p]].data = d, ![bufOf[p]].dirty = TRUE]
  /\ latest' = [latest EXCEPT ![buf[bufOf[p]].block] = d]
  /\ At(p, "iderw")
  /\ UNCHANGED <<lru, disk, idequeue, active, bufOf, nobufs>>

(* The holder changes it and calls log_write(), which only pins it.        *)
LogWrite(p, d) ==
  /\ bpc[p] = "have" /\ ~nobufs
  /\ Cardinality({b \in Bufs : buf[b].dirty} \cup {bufOf[p]}) <= MaxPinned
  /\ buf' = [buf EXCEPT ![bufOf[p]].data = d, ![bufOf[p]].dirty = TRUE]
  /\ latest' = [latest EXCEPT ![buf[bufOf[p]].block] = d]
  /\ At(p, "release")
  /\ UNCHANGED <<lru, disk, idequeue, active, bufOf, nobufs>>

(* brelse(): releasesleep() with its wakeup().                             *)
ReleaseSleep(p) ==
  LET b == bufOf[p] IN
  /\ bpc[p] \in {"have", "release"} /\ ~nobufs
  /\ buf' = [buf EXCEPT ![b].owner = NoUse]
  /\ bpc' = [q \in BufUses |-> IF q = p THEN "unref"
               ELSE IF bpc[q] = "asleep" /\ bufOf[q] = b THEN "lock" ELSE bpc[q]]
  /\ UNCHANGED <<lru, disk, idequeue, active, bufOf, nobufs, latest>>

(* Mutant: only the last user drops its reference.                         *)
BrelseLastOnly(p) ==
  LET b == bufOf[p] IN
  /\ bpc[p] = "unref" /\ ~nobufs
  /\ IF buf[b].refcnt = 1
     THEN /\ buf' = [buf EXCEPT ![b].refcnt = 0]
          /\ lru' = ToFront(b)
     ELSE UNCHANGED <<buf, lru>>
  /\ bufOf' = [bufOf EXCEPT ![p] = 0]
  /\ At(p, "idle")
  /\ UNCHANGED <<disk, idequeue, active, nobufs, latest>>

(* brelse(), the part under bcache.lock: the last user moves the buffer to *)
(* the front of the list.                                                  *)
Brelse(p) ==
  LET b == bufOf[p] IN
  /\ bpc[p] = "unref" /\ ~nobufs
  /\ buf' = [buf EXCEPT ![b].refcnt = @ - 1]
  /\ lru' = IF buf[b].refcnt = 1 THEN ToFront(b) ELSE lru
  /\ bufOf' = [bufOf EXCEPT ![p] = 0]
  /\ At(p, "idle")
  /\ UNCHANGED <<disk, idequeue, active, nobufs, latest>>

BufNext ==
  \/ \E p \in BufUses :
       \/ \E k \in Blocks : Bget(p, k)
       \/ AcquireSleep(p) \/ Iderw(p) \/ ReleaseSleep(p) \/ Brelse(p)
       \/ \E d \in Data : Bwrite(p, d) \/ LogWrite(p, d)
  \/ Ideintr

BufSpec == BufInit /\ [][BufNext]_bufVars

------------------------------------------------------------------------------
(* Whoever has a block locked sees what was last put into it, by whichever *)
(* process and through whichever buffer: a block has one buffer at most,   *)
(* bget() never recycles a pinned or referenced one, and a request is      *)
(* served with the contents it was queued with.                            *)
ReadsLatest ==
  \A p \in BufUses : bpc[p] = "have" =>
    /\ buf[bufOf[p]].owner = p
    /\ buf[bufOf[p]].data = latest[buf[bufOf[p]].block]

(* A process asleep on a buffer sleeps for a reason: for its lock only     *)
(* while another process holds it, for the disk only while its request is  *)
(* queued and the disk works on the first request of the queue.            *)
BufSleepersWait ==
  /\ \A p \in BufUses : bpc[p] = "asleep" =>
       buf[bufOf[p]].owner \notin {NoUse, p}
  /\ \A p \in BufUses : bpc[p] = "waitdisk" =>
       \E n \in DOMAIN idequeue : idequeue[n] = bufOf[p]
  /\ idequeue # <<>> => active = Head(idequeue)

Users(b) == {p \in BufUses : bufOf[p] = b}

(* b->refcnt is the number of uses of b between bget() and brelse(), those *)
(* that still wait for its sleep lock included: brelse() gives back what   *)
(* bget() took, whoever comes first, so that no buffer is lost to the      *)
(* cache and none is recycled under a sleeper.                             *)
UsersCounted == \A b \in Bufs : buf[b].refcnt = Cardinality(Users(b))
=============================================================================
