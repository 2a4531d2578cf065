CONSTANTS
  i1 = i1
  i2 = i2
  Idlers = {i1, i2}
  Timers = {1}
  Periods = {1, 2}
  FromNow = {TRUE, FALSE}
  Hour = 1
  MaxTimeout = 2
  IntRange = 32
  MaxTime = 4
  MaxTickling = 2
  MaxSetBack = 1
SPECIFICATION Spec
SYMMETRY Symmetry
INVARIANT TypeOK
INVARIANT KeysMatch
INVARIANT OneShot
