CONSTANTS
  c1 = c1
  c2 = c2
  i1 = i1
  i2 = i2
  w1 = w1
  w2 = w2
  NoThread = NoThread
  NoWaiter = NoWaiter
  Callers = {c1, c2}
  Idlers = {i1, i2}
  Fds = {2, 3}
  Events = {"READ"}
  Waiters = {w1, w2}
  Kinds = {"close"}
  InitSize = 2
  MaxCtx = 2
  MaxEvents = 2
  Errors = TRUE
  Quiet = {3}
  Careful = TRUE
SPECIFICATION LiveSpec
INVARIANT Cancellable
PROPERTY ReadyWaiterWoken
