CONSTANTS
  w1 = w1
  w2 = w2
  f1 = f1
  f2 = f2
  j1 = j1
  j2 = j2
  Caller = Caller
  AnyThread = AnyThread
  NoFiber = NoFiber
  NoJob = NoJob
  Workers = {w1, w2}
  UseCaller = FALSE
  FiberIds = {f1, f2}
  Jobs = {j1, j2}
  MaxSteps = 2
  MaxStarts = 2
  IOM = FALSE
  Strict = TRUE
  PinAnywhere = TRUE
SPECIFICATION Spec
SYMMETRY Symmetry
INVARIANT TypeOK
INVARIANT Exclusive
INVARIANT SwapInAsserts
INVARIANT CountsExact
INVARIANT NothingForgotten
PROPERTY ImplementsPool
