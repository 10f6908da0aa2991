\* LogSize = NLog as in xv6: log_write() panics at NLog - 1 = 4 entries, and
\* there are as many blocks.  A call may join a group that has logged a block
\* already (3 entries in the end); then the next one has to wait.
CONSTANTS
  b1 = b1
  b2 = b2
  Procs = {p1, p2}
  Blocks = {b1, b2, b3, b4}
  Vals = {0, 1}
  Zero = 0
  Contents <- TwoValued
  MaxOpBlocks = 2
  LogSize = 5
  NLog = 5
  OpBlocks = 1
SPECIFICATION FairSpec
INVARIANTS TypeOK SpaceReserved NoStrandedSleeper QuiescentIsDurable
PROPERTIES ImplementsAtomicDisk SleeperWakes RecoveryCompletes
