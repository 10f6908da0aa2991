\* Four slots: init, a process asleep in wait(), its child and grandchild.
CONSTANTS
  NPROC = 4
  Cpus = {c0, c1}
  NoCpu = none
  BootCpu = c0
  MaxPid = 4
  MaxSleep = 1
  KillTargets = {3}
  Calls = {"exit", "kill", "sleep"}
SPECIFICATION Spec
INVARIANTS OneCpuPerProcess NoMissedChild NoMissedTick ProcessTree
