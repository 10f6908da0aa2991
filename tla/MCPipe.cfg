\* Two writers and two readers share a ring that two bytes fill, and the
\* counters wrap after four bytes.
CONSTANTS
  Writers = {w1, w2}
  Readers = {r1, r2}
  Nobody = nobody
  Bytes = {a, b}
  Garbage = garbage
  PIPESIZE = 2
  CounterMod = 4
  MaxCount = 2
  Killable = {w1, r1}
SPECIFICATION Spec
INVARIANTS SleepersHaveReason FreedWhenUnused
PROPERTIES ImplementsChannel
