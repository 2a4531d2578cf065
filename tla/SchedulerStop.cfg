CONSTANTS
  w1 = w1
  w2 = w2
  f1 = f1
  f2 = f2
  j1 = j1
  j2 = j2
  Caller = Caller
  AnyThread = AnyThread
  NoFiber = NoFiber
  NoJob = NoJob
  Workers = {w1}
  UseCaller = TRUE
  FiberIds = {f1, f2}
  Jobs = {j1, j2}
  MaxSteps = 1
  MaxStarts = 1
  IOM = TRUE
  Strict = FALSE
  PinAnywhere = FALSE
INVARIANT StopLeavesOnlySuspended
SPECIFICATION LiveSpec
PROPERTY StopReturns
INVARIANT QueueServable
PROPERTY JobsFinish
