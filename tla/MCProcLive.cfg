\* One CPU; one pid more than slots, so the table fills up and slots are reused.
CONSTANTS
  NPROC = 3
  Cpus = {c0}
  NoCpu = none
  BootCpu = c0
  MaxPid = 4
  MaxSleep = 1
  KillTargets = {2, 3}
  Calls = {"exit", "fault", "kill", "getppid", "sleep"}
SPECIFICATION FairSpec
INVARIANTS TypeOK
PROPERTIES KilledExits OrphansReaped
