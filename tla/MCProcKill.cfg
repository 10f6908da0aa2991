\* A fork() fails, and its pid is then killed.
CONSTANTS
  NPROC = 3
  Cpus = {c0, c1}
  NoCpu = none
  BootCpu = c0
  MaxPid = 3
  MaxSleep = 1
  KillTargets = {1, 2, 3}
  Calls = {"exit", "fault", "kill", "getppid", "sleep"}
SPECIFICATION Spec
INVARIANTS UnusedNotKilled
