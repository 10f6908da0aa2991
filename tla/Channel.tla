------------------------------ MODULE Channel ------------------------------
(***************************************************************************)
(* What a pipe promises: a first-in first-out byte channel of bounded      *)
(* capacity.  Writers append, readers take from the front, and a side that *)
(* is closed stays closed until a new channel is opened, empty.            *)
(***************************************************************************)
EXTENDS Sequences, Naturals

CONSTANTS Bytes, Capacity

VARIABLES
  queue,                 \* bytes written and not yet read, oldest first
  taken,                 \* bytes the latest read delivered
  readopen, writeopen

vars == <<queue, taken, readopen, writeopen>>

Init ==
  /\ queue = << >> /\ taken = << >>
  /\ readopen = FALSE /\ writeopen = FALSE

Open ==
  /\ ~readopen /\ ~writeopen
  /\ queue' = << >> /\ taken' = << >>
  /\ readopen' = TRUE /\ writeopen' = TRUE

(* Some prefix of what a writer offers is appended.                        *)
Put ==
  /\ writeopen
  /\ queue' \in Seq(Bytes)
  /\ Len(queue') <= Capacity
  /\ Len(queue) <= Len(queue')
  /\ SubSeq(queue', 1, Len(queue)) = queue
  /\ UNCHANGED <<taken, readopen, writeopen>>

(* The oldest bytes are delivered, in order, each once.                    *)
Take ==
  /\ readopen
  /\ \E n \in 0..Len(queue) :
       /\ taken' = SubSeq(queue, 1, n)
       /\ queue' = SubSeq(queue, n + 1, Len(queue))
  /\ UNCHANGED <<readopen, writeopen>>

CloseRead == readopen' = FALSE /\ UNCHANGED <<queue, taken, writeopen>>

CloseWrite == writeopen' = FALSE /\ UNCHANGED <<queue, taken, readopen>>

Next == Open \/ Put \/ Take \/ CloseRead \/ CloseWrite

Spec == Init /\ [][Next]_vars

============================================================================
