----------------------------- MODULE MCFileSys -----------------------------
(* Instances of FileSys for TLC: the system calls the processes make.      *)
EXTENDS FileSys, TLC

A == <<"/", "a">>
B == <<"/", "b">>
AB == <<"/", "a", "b">>

Symmetry == Permutations(Procs)

(* Two names of one file, descriptors and a table of one open file.        *)
FileCalls == {
  [op |-> "create", path |-> A], [op |-> "link", path |-> A, new |-> B],
  [op |-> "unlink", path |-> A], [op |-> "unlink", path |-> B],
  [op |-> "open", path |-> B, write |-> TRUE], [op |-> "close"], [op |-> "dup"]}

(* A directory that is filled, entered and removed, and a device that may  *)
(* have its name.                                                          *)
TreeCalls == {
  [op |-> "mkdir", path |-> A], [op |-> "mknod", path |-> A],
  [op |-> "mknod", path |-> AB], [op |-> "link", path |-> A, new |-> AB],
  [op |-> "unlink", path |-> A], [op |-> "unlink", path |-> AB]}

(* Nested directories, one of them entered, removed and used all the same. *)
NestedCalls == {
  [op |-> "mkdir", path |-> A], [op |-> "mkdir", path |-> AB],
  [op |-> "unlink", path |-> A], [op |-> "unlink", path |-> AB],
  [op |-> "chdir", path |-> A], [op |-> "mkdir", path |-> <<"b">>]}

(* A walk through "..": here the conditional properties say nothing.       *)
ParentCalls == {
  [op |-> "mkdir", path |-> A], [op |-> "mkdir", path |-> AB],
  [op |-> "unlink", path |-> A], [op |-> "unlink", path |-> AB],
  [op |-> "chdir", path |-> AB], [op |-> "chdir", path |-> <<"..">>],
  [op |-> "open", path |-> A, write |-> TRUE]}

AllMenus == {FileCalls, TreeCalls, NestedCalls, ParentCalls}

(* The calls of linkunlink() in usertests.c.                               *)
LinkUnlinkMenu == {{
  [op |-> "create", path |-> <<"a">>], [op |-> "unlink", path |-> <<"a">>],
  [op |-> "close"]}}

(* A process makes a directory beside the one it is in, after this one and *)
(* its parent have been removed.                                           *)
StaleParentMenu == {{
  [op |-> "mkdir", path |-> A], [op |-> "mkdir", path |-> AB],
  [op |-> "unlink", path |-> A], [op |-> "unlink", path |-> AB],
  [op |-> "chdir", path |-> AB], [op |-> "mkdir", path |-> <<"..", "b">>]}}
=============================================================================
