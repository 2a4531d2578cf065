CONSTANTS
  c1 = c1
  c2 = c2
  i1 = i1
  i2 = i2
  w1 = w1
  w2 = w2
  NoThread = NoThread
  NoWaiter = NoWaiter
  Callers = {c1}
  Idlers = {i1, i2}
  Fds = {1}
  Events = {"READ", "WRITE"}
  Waiters = {w1, w2}
  Kinds = {"cancel"}
  InitSize = 2
  MaxCtx = 1
  MaxEvents = 2
  Errors = FALSE
  Quiet = {}
  Careful = TRUE
SPECIFICATION Spec
INVARIANT TriggerAsserts
