------------------------------- MODULE MCLog -------------------------------
(* Instances of Log for TLC. *)
EXTENDS Log

CONSTANTS b1, b2

(* Two blocks with contents to tell apart; the others are there to fill    *)
(* the log.                                                                *)
TwoValued == [b \in Blocks |-> IF b \in {b1, b2} THEN Vals ELSE {Zero}]
============================================================================
