\* As MCFileSys.cfg, with the inodes and the calls that walk through a stale "..".
CONSTANTS
  Procs = {p1, p2}
  Nobody = nobody
  NInodes = 4
  Names = {".", "..", "a", "b"}
  NINODE = 4
  NFILE = 1
  NOFILE = 2
  Menus <- StaleParentMenu
SYMMETRY Symmetry
SPECIFICATION Spec
INVARIANTS NamesAreLinks
CHECK_DEADLOCK FALSE
