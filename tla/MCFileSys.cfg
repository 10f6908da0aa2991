CONSTANTS
  Procs = {p1, p2}
  Nobody = nobody
  NInodes = 3
  Names = {".", "..", "a", "b"}
  NINODE = 3
  NFILE = 1
  NOFILE = 2
  Menus <- AllMenus
SYMMETRY Symmetry
SPECIFICATION Spec
INVARIANTS ReferencesExact CacheCoherent NamesCounted TreeKept
CHECK_DEADLOCK FALSE
