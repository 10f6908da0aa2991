CONSTANTS
  CPUs = {cpu1, cpu2}
  NoCPU = nocpu
  NLocks = 2
  ConsReaders = {r1, r2}
  INPUT_BUF = 3
  InputMod = 6
  MaxRead = 2
  NProcs = 2
  NPages = 12
  PGSIZE = 2
  NPTE = 2
  UserPages = 4
  MaxStep = 2
  ImagePages = 1
  FileProcs = {q1, q2}
  Layouts <- MCLayouts
  NDIRECT = 1
  NINDIRECT = 3
  BSIZE = 2
  NBlocks = 5
  MAXOPBLOCKS = 6
  Lengths = {1, 7}
  ImageSizes = {0, 3}
  MaxHeap = 9
  MinCore = 3
  MaxUnits = 4
  MAX_THREAD = 5
  MaxExecs = 2
  StackProcs = {c1, c2, c3}
  NoProc = nobody
  Words = {"ab"}
  ITEMS = 2
  BufSizes = {1, 2, 3}
  MaxItems = 5
  Frames = 2
  DiskSlots = 2
  PageRefs <- MCPageRefs
  MaxRefs = 7
  Lines <- MCLines
  MAXARGS = 4
  GrepBuf = 5
  GrepInputs <- MCGrepInputs
  MaxChilds = 3
INIT Init
NEXT Next
INVARIANTS
  NoSelfDeadlock InterruptsRestored
  ReadersSleepOnEmpty InputNeverStuck
  PagesConserved KernelAccessMapped
  BlocksExact TransactionFits
  HeapTiled
  RowsConserved
  ConsumerReadsAll
  VictimInOrder
  ExecsWhatWasTyped
  GrepPrintsMatches
  NoChildLeft
PROPERTIES
  RoundRobin
CHECK_DEADLOCK FALSE
