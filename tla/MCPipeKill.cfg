\* One reader, killed while it goes to sleep.
CONSTANTS
  Writers = {w1}
  Readers = {r1}
  Nobody = nobody
  Bytes = {a, b}
  Garbage = garbage
  PIPESIZE = 2
  CounterMod = 4
  MaxCount = 2
  Killable = {r1}
SPECIFICATION FairSpec
PROPERTIES KilledLeavesPipe
