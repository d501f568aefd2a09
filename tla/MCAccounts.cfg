SPECIFICATION Spec
CONSTANTS
  Users = {u1, u2}
  Locals = {u1}
  Tokens = {s1, s2, s3}
  MaxDevices = 2
  IdleTimeout = 0
  MaxTime = 1
  MaxFaults = 1
  Secrets = {p1, p2}
  Peers = {f1, f2}
  Notes = {n1}
  Junk = Junk
  Mark = Mark
  None = None
SYMMETRY Symmetry
INVARIANTS
  WellFormed
  StoredAsAcknowledged
  DevicesAsReported
PROPERTIES
  EarliestKicked
