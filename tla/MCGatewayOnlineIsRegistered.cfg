SPECIFICATION Spec
CONSTANTS
  alice = alice
  bob = bob
  m1 = m1
  m2 = m2
  m3 = m3
  None = None
  Users = {alice, bob}
  Chans = {c1, c2, c3}
  Msgs = {m1, m2}
  QueueMax = 1
  MaxAuths = 3
  From <- MCFrom2
  To <- MCTo2
INVARIANT OnlineIsRegistered
CHECK_DEADLOCK FALSE
