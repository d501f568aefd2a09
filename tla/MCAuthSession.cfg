SPECIFICATION Spec
CONSTANTS
  u1 = u1
  u2 = u2
  i1 = i1
  Users = {u1, u2}
  Ips = {i1}
  NoIp = NoIp
  Principals <- MCPrincipals
  Sids = {s1, s2, s3}
  MaxSessions = 2
  Ttl = 1
  UserMax = 2
  IpMax = 2
  Minute = 0
  FailWindow = 1
  BanFrom = 2
  LongBanFrom = 3
  BanStep = 1
  LongBan = 2
  MaxTime = 2
  None = None
SYMMETRY Symmetry
INVARIANTS
  WellFormed
  AttemptsLimited
  BansFollowMatrix
PROPERTY BanStands
CHECK_DEADLOCK FALSE
