------------------------------ MODULE ForkPrio ------------------------------
(***************************************************************************)
(* forkprio.c (lab-03): a father forks childs processes that burn CPU time *)
(* until he sends them SIGTERM, after some seconds or when the user types  *)
(* ^C, which gives SIGINT to all of them at any moment.                    *)
(*                                                                         *)
(* A signal is pending until it is delivered between two system calls of   *)
(* its process.  A dead child stays a zombie until the father ends, so its *)
(* pid is not used again.  Priorities and times are left out.              *)
(***************************************************************************)
EXTENDS Integers, FiniteSets

CONSTANT MaxChilds   \* bound: at most MAX_CHILDS (100)

ASSUME ForkPrioAssumption == MaxChilds \in Nat

VARIABLES
  childs, seconds,   \* the arguments; seconds: execSeconds is not 0
  father,            \* pc, loop variable k, sign of p, SIGINT is pending
  pids,              \* pids[k - 1]: 0 before fork(), then k, or -1 if it failed
  kid,               \* each child: pc, and the signals pending
  stray              \* a signal went to -1 or 0: to everybody

forkVars == <<childs, seconds, father, pids, kid, stray>>

Kids == 1..MaxChilds
Ended == {"none", "reported", "killed"}

ForkInit ==
  /\ childs \in 0..MaxChilds /\ seconds \in BOOLEAN
  /\ father = [pc |-> "fork", k |-> 1, p |-> 1, int |-> FALSE]
  /\ pids = [k \in Kids |-> 0]
  /\ kid = [k \in Kids |-> [pc |-> "none", pend |-> {}]]
  /\ stray = FALSE

FatherTo(pc, k) == father' = [father EXCEPT !.pc = pc, !.k = k]

(* The loop of fork(): once p is -1 nothing more is forked.                *)
ForkChild ==
  LET k == father.k IN
  /\ father.pc = "fork" /\ k <= childs
  /\ \/ /\ father.p > 0
        /\ pids' = [pids EXCEPT ![k] = k]
        /\ kid' = [kid EXCEPT ![k].pc = "born"]
        /\ FatherTo("fork", k + 1)
     \/ /\ father.p > 0
        /\ pids' = [pids EXCEPT ![k] = -1]
        /\ father' = [father EXCEPT !.k = k + 1, !.p = -1]
        /\ UNCHANGED kid
     \/ /\ father.p <= 0
        /\ FatherTo("fork", k + 1)
        /\ UNCHANGED <<pids, kid>>
  /\ UNCHANGED <<childs, seconds, stray>>

(* The child installs its handlers and goes to work.                       *)
ChildSigaction(k) ==
  /\ kid[k].pc \in {"born", "term"}
  /\ kid' = [kid EXCEPT ![k].pc = IF @ = "born" THEN "term" ELSE "busy"]
  /\ UNCHANGED <<childs, seconds, father, pids, stray>>

(* terminateChild(), doNothing(), or the default action before there is a  *)
(* handler.                                                                *)
ChildSignal(k, s) ==
  /\ kid[k].pc \notin Ended /\ s \in kid[k].pend
  /\ kid' = [kid EXCEPT ![k].pend = @ \ {s},
       ![k].pc = IF s = "TERM" THEN IF @ = "born" THEN "killed" ELSE "reported"
                 ELSE IF @ = "busy" THEN @ ELSE "killed"]
  /\ UNCHANGED <<childs, seconds, father, pids, stray>>

(* The end of the loop: the handler of SIGINT is installed, or the father  *)
(* whose fork() has failed exits.                                          *)
FatherSigaction ==
  /\ father.pc = "fork" /\ father.k > childs
  /\ FatherTo(IF father.p > 0 THEN "wait" ELSE "exit", 1)
  /\ UNCHANGED <<childs, seconds, pids, kid, stray>>

(* sleep(execSeconds) returns; pause() does only for a signal.             *)
FatherSleeps ==
  /\ father.pc = "wait" /\ seconds
  /\ FatherTo("kill", 1)
  /\ UNCHANGED <<childs, seconds, pids, kid, stray>>

(* SIGINT: terminateFather() from its start, or the end of the father.     *)
FatherSignal ==
  /\ father.int /\ father.pc \in {"fork", "wait", "kill"}
  /\ father' = [father EXCEPT !.int = FALSE, !.k = 1,
                  !.pc = IF @ = "fork" THEN "died" ELSE "handler"]
  /\ UNCHANGED <<childs, seconds, pids, kid, stray>>

(* Mutant: the loop ends one child early.                                  *)
FatherKillsButLast ==
  /\ father.pc \in {"kill", "handler"}
  /\ IF father.k < childs
     THEN /\ kid' = [kid EXCEPT ![pids[father.k]].pend = @ \cup {"TERM"}]
          /\ FatherTo(father.pc, father.k + 1)
     ELSE FatherTo("exit", 1) /\ UNCHANGED kid
  /\ UNCHANGED <<childs, seconds, pids, stray>>

(* One kill() of main() or of terminateFather(), which both end in exit(). *)
FatherKills ==
  LET pid == pids[father.k] IN
  /\ father.pc \in {"kill", "handler"}
  /\ \/ /\ father.k <= childs
        /\ kid' = [k \in Kids |-> [kid[k] EXCEPT
                     !.pend = IF pid \in {-1, 0, k} THEN @ \cup {"TERM"} ELSE @]]
        /\ stray' = (stray \/ pid <= 0)
        /\ FatherTo(father.pc, father.k + 1)
     \/ /\ father.k > childs
        /\ FatherTo("exit", 1)
        /\ UNCHANGED <<kid, stray>>
  /\ UNCHANGED <<childs, seconds, pids>>

(* ^C at the terminal: SIGINT to the whole group.                          *)
Terminal ==
  /\ father' = [father EXCEPT !.int = TRUE]
  /\ kid' = [k \in Kids |-> [kid[k] EXCEPT
               !.pend = IF kid[k].pc \in Ended THEN @ ELSE @ \cup {"INT"}]]
  /\ UNCHANGED <<childs, seconds, pids, stray>>

ForkNext ==
  \/ ForkChild \/ FatherSigaction \/ FatherSleeps \/ FatherSignal \/ FatherKills
  \/ \E k \in Kids : ChildSigaction(k) \/ \E s \in {"TERM", "INT"} : ChildSignal(k, s)
  \/ Terminal

ForkSpec == ForkInit /\ [][ForkNext]_forkVars

------------------------------------------------------------------------------
(* A father who got as far as waiting leaves no child behind that nobody   *)
(* will end: when he is gone each one has ended or has its SIGTERM, also   *)
(* when ^C interrupts him while he sends them.  He never signals a process *)
(* that is not his.  (A father whose fork() failed, or who is killed by ^C *)
(* while he forks, does leave them running.)                               *)
NoChildLeft ==
  /\ ~stray
  /\ father.pc = "exit" /\ father.p > 0 =>
       \A k \in 1..childs : kid[k].pc \in Ended \/ "TERM" \in kid[k].pend
=============================================================================
