SPECIFICATION Spec
CONSTANTS
  alice = alice
  bob = bob
  m1 = m1
  m2 = m2
  m3 = m3
  None = None
  Users = {alice, bob}
  Chans = {c1, c2, c3}
  Msgs = {m1, m2, m3}
  QueueMax = 2
  MaxAuths = 3
  From <- MCFrom
  To <- MCTo
SYMMETRY ChanSymmetry
INVARIANTS
  WellFormed
  Addressed
  OnePlace
  LatestConnection
  DeadReceiveNothing
  LossHasCause
CHECK_DEADLOCK FALSE
