CONSTANTS
  w1 = w1
  w2 = w2
  f1 = f1
  f2 = f2
  j1 = j1
  j2 = j2
  Caller = Caller
  AnyThread = AnyThread
  NoFiber = NoFiber
  NoJob = NoJob
  Workers = {w1, w2}
  UseCaller = FALSE
  FiberIds = {f1}
  Jobs = {j1}
  MaxSteps = 2
  MaxStarts = 1
  IOM = TRUE
  Strict = TRUE
  PinAnywhere = FALSE
SPECIFICATION Spec
INVARIANT StopMeansDone
