---------------------------- MODULE AtomicDisk ----------------------------
(***************************************************************************)
(* What the logging layer of xv6 promises to the file system above it: the *)
(* disk changes only by whole group commits, at moments when no file       *)
(* system call is in progress, and a crash returns memory to the last      *)
(* committed contents.  Log.tla is shown to implement this specification.  *)
(***************************************************************************)
CONSTANTS Procs, Blocks, Vals

VARIABLES
  store,    \* what a reboot would find: the contents that survive a crash
  mem,      \* what the running kernel reads: committed and pending writes
  active    \* the processes between begin_op() and end_op()

vars == <<store, mem, active>>

TypeOK ==
  /\ store \in [Blocks -> Vals]
  /\ mem \in [Blocks -> Vals]
  /\ active \subseteq Procs

Init ==
  /\ store \in [Blocks -> Vals]
  /\ mem = store
  /\ active = {}

Begin(p) ==
  /\ active' = active \cup {p}
  /\ UNCHANGED <<store, mem>>

Write(p, b, v) ==
  /\ p \in active
  /\ mem' = [mem EXCEPT ![b] = v]
  /\ UNCHANGED <<store, active>>

End(p) ==
  /\ active' = active \ {p}
  /\ UNCHANGED <<store, mem>>

(* The whole of memory becomes durable in one step, and never in the       *)
(* middle of a system call.                                                *)
Commit ==
  /\ active = {}
  /\ store' = mem
  /\ UNCHANGED <<mem, active>>

Crash ==
  /\ mem' = store
  /\ active' = {}
  /\ UNCHANGED store

Next ==
  \/ \E p \in Procs : Begin(p) \/ End(p)
  \/ \E p \in Procs, b \in Blocks, v \in Vals : Write(p, b, v)
  \/ Commit
  \/ Crash

Spec == Init /\ [][Next]_vars

============================================================================
