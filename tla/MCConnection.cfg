SPECIFICATION FairSpec
CONSTANTS
  Conns = {k1, k2}
  Texts = {t1}
  Others = {s1, s2}
  Pushes = {p1}
  Loops = {f1}
  HalfWindow = 3
  Auth = Auth
  None = None
INVARIANTS
  WellFormed
  ClientFramesAccepted
  ReplyIsMine
PROPERTY CallReturns
CHECK_DEADLOCK FALSE
