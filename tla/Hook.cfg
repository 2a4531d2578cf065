CONSTANTS
  f1 = f1
  f2 = f2
  NoFiber = NoFiber
  i1 = i1
  Idlers = {i1}
  Fibers = {f1, f2}
  Ops <- TwoRoles
  MaxArms <- TwoAndNone
  MaxOpens = 2
SPECIFICATION LiveSpec
CHECK_DEADLOCK FALSE
PROPERTY TimeoutEndsWait
INVARIANT TypeOK
INVARIANT OwnTimeout
INVARIANT WaitersReachable
PROPERTY ConnectedIsUp
