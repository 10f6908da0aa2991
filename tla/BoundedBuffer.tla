--------------------------- MODULE BoundedBuffer ---------------------------
(***************************************************************************)
(* buf.c (lab-05): a producer and a consumer thread share a ring of size   *)
(* integers, with the semaphores vacio and lleno and a mutex.  main()      *)
(* destroys the three right after it has created the threads, while they   *)
(* are in use.                                                             *)
(*                                                                         *)
(* Undefined by POSIX; what the C library of the build (glibc) does:       *)
(* pthread_mutex_destroy() returns EBUSY for a mutex in use and otherwise  *)
(* makes it one whose lock and unlock return EINVAL, which buf.c does not  *)
(* look at; sem_destroy() does nothing.                                    *)
(***************************************************************************)
EXTENDS Integers, Sequences

CONSTANTS
  BufSizes,        \* bound: the sizes tried
  MaxItems         \* bound: the largest number of items

ASSUME BoundedBufferAssumption ==
  BufSizes \subseteq Nat \ {0} /\ MaxItems \in Nat \ {0}

VARIABLES
  bsize, bitems,   \* the arguments size and items
  ring,
  vacio, lleno,    \* values of the semaphores
  bmutex,          \* "free", the thread that holds it, or "destroyed"
  bpc,             \* what each thread does next
  bi,              \* its loop variable
  reader_results

boundedVars == <<bsize, bitems, ring, vacio, lleno, bmutex, bpc, bi, reader_results>>

BThreads == {"producer", "consumer"}

(* main() after the checks of its arguments.                               *)
BoundedInit ==
  /\ bsize \in BufSizes
  /\ bitems \in 1..MaxItems
  /\ ring = [k \in 0..(bsize - 1) |-> -1]
  /\ vacio = bsize /\ lleno = 0
  /\ bmutex = "free"
  /\ bpc = [t \in BThreads |-> "wait"]
  /\ bi = [t \in BThreads |-> 0]
  /\ reader_results = << >>

(* Mutant: the consumer waits for vacio and the producer for lleno.        *)
SemWaitSwapped(t) ==
  /\ bpc[t] = "wait" /\ bi[t] < bitems
  /\ IF t = "consumer" THEN vacio > 0 /\ vacio' = vacio - 1 /\ UNCHANGED lleno
                       ELSE lleno > 0 /\ lleno' = lleno - 1 /\ UNCHANGED vacio
  /\ bpc' = [bpc EXCEPT ![t] = "lock"]
  /\ UNCHANGED <<bsize, bitems, ring, bmutex, bi, reader_results>>

SemWait(t) ==
  /\ bpc[t] = "wait" /\ bi[t] < bitems
  /\ IF t = "producer" THEN vacio > 0 /\ vacio' = vacio - 1 /\ UNCHANGED lleno
                       ELSE lleno > 0 /\ lleno' = lleno - 1 /\ UNCHANGED vacio
  /\ bpc' = [bpc EXCEPT ![t] = "lock"]
  /\ UNCHANGED <<bsize, bitems, ring, bmutex, bi, reader_results>>

MutexLock(t) ==
  /\ bpc[t] = "lock"
  /\ bmutex \in {"free", "destroyed"}
  /\ bmutex' = IF bmutex = "free" THEN t ELSE bmutex
  /\ bpc' = [bpc EXCEPT ![t] = "access"]
  /\ UNCHANGED <<bsize, bitems, ring, vacio, lleno, bi, reader_results>>

(* The access to the ring and the unlock.                                  *)
AccessBuf(t) ==
  /\ bpc[t] = "access"
  /\ LET slot == bi[t] % bsize
     IN  IF t = "producer"
         THEN ring' = [ring EXCEPT ![slot] = bi[t]] /\ UNCHANGED reader_results
         ELSE reader_results' = Append(reader_results, ring[slot]) /\ UNCHANGED ring
  /\ bmutex' = IF bmutex = t THEN "free" ELSE bmutex
  /\ bpc' = [bpc EXCEPT ![t] = "post"]
  /\ UNCHANGED <<bsize, bitems, vacio, lleno, bi>>

SemPost(t) ==
  /\ bpc[t] = "post"
  /\ IF t = "producer" THEN lleno' = lleno + 1 /\ UNCHANGED vacio
                       ELSE vacio' = vacio + 1 /\ UNCHANGED lleno
  /\ bi' = [bi EXCEPT ![t] = @ + 1]
  /\ bpc' = [bpc EXCEPT ![t] = "wait"]
  /\ UNCHANGED <<bsize, bitems, ring, bmutex, reader_results>>

MutexDestroy ==
  /\ bmutex = "free"
  /\ bmutex' = "destroyed"
  /\ UNCHANGED <<bsize, bitems, ring, vacio, lleno, bpc, bi, reader_results>>

BoundedNext ==
  \/ \E t \in BThreads : SemWait(t) \/ MutexLock(t) \/ AccessBuf(t) \/ SemPost(t)
  \/ MutexDestroy

BoundedSpec == BoundedInit /\ [][BoundedNext]_boundedVars

(* The consumer reads 0, 1, 2... in this order even after main() has       *)
(* destroyed the mutex, and one of the two threads can go on until it has  *)
(* read all of them.                                                       *)
ConsumerReadsAll ==
  /\ \A k \in DOMAIN reader_results : reader_results[k] = k - 1
  /\ Len(reader_results) < bitems =>
       \E t \in BThreads :
         CASE bpc[t] = "wait" -> bi[t] < bitems
                                 /\ (IF t = "producer" THEN vacio ELSE lleno) > 0
           [] bpc[t] = "lock" -> bmutex \in {"free", "destroyed"}
           [] OTHER -> TRUE
=============================================================================
