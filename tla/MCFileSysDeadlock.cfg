\* The calls of linkunlink() in usertests.c, without link().
CONSTANTS
  Procs = {p1, p2}
  Nobody = nobody
  NInodes = 3
  Names = {".", "..", "a", "b"}
  NINODE = 3
  NFILE = 1
  NOFILE = 2
  Menus <- LinkUnlinkMenu
SYMMETRY Symmetry
SPECIFICATION Spec
INVARIANTS NoLockCycle
CHECK_DEADLOCK FALSE
