CONSTANTS
  t1 = t1
  t2 = t2
  Broken = Broken
  Nothing = Nothing
  NoDefine = NoDefine
  Threads = {t1, t2}
  Values <- Tables
  Default <- Empty
  Listeners = {"copy", "logs"}
  LogListener = "logs"
  Contents <- InFile
  MaxClock = 1
  MaxCalls = 3
  MaxChanges = 3
  MaxWork = 3
  h1 = h1
  Handles = {h1}
  NameOrder <- Two
  Texts = {"", "a.log", "F", "G", "%{"}
  Formats = {"F", "G"}
SPECIFICATION Spec
SYMMETRY AnyThread
CHECK_DEADLOCK FALSE
INVARIANT TypeOK
INVARIANT ListenersInformed
INVARIANT LoadedLatest
INVARIANT LoggersFollowConfig
INVARIANT InheritedFormat
