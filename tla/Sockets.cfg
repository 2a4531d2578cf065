CONSTANTS
  u = u
  s1 = s1
  s2 = s2
  Objects = {u, s1, s2}
  Kind <- UdpAndSsl
  Ops <- Roles
  Tuned = {s2}
  MinFd = 1
  MaxFd = 2
  InitSize = 2
  MaxGen = 3
  Timeouts = {1}
SPECIFICATION Spec
CHECK_DEADLOCK FALSE
INVARIANT TypeOK
INVARIANT OneOwner
INVARIANT CtxFollowsSocket
INVARIANT NonblockKept
INVARIANT MembersCurrent
