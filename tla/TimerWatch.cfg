CONSTANTS
  i1 = i1
  i2 = i2
  Idlers = {i1}
  Timers = {1, 2}
  Periods = {1, 2}
  FromNow = {TRUE}
  Hour = 0
  MaxTimeout = 2
  IntRange = 32
  MaxTime = 3
  MaxTickling = 1
  MaxSetBack = 0
SPECIFICATION LiveSpec
PROPERTY DueTimersFire
 
PROPERTY NotEarly
