\* Four blocks share three buffers, one of which the log may pin; three uses:
\* a process with two buffers and another with one, or three processes.
CONSTANTS
  BufUses = {p1, p2, p3}
  NoUse = nouse
  Blocks = {k1, k2, k3, k4}
  NoBlock = noblock
  NBUF = 3
  Data = {0, 1}
  MaxPinned = 1
SPECIFICATION BufSpec
SYMMETRY Symmetry
INVARIANTS ReadsLatest BufSleepersWait UsersCounted
CHECK_DEADLOCK FALSE
