SPECIFICATION Spec
CONSTANTS
  Users = {u1, u2, u3}
  Groups = {g1}
  None = None
  RequestTtl = 0
  MaxTime = 1
  MaxRequests = 2
  Durations = {1}
  Second = 2
  MaxCleanupTime = 3
  MaxAtAll = 1
  AtAllWindow = 0
  MaxFaults = 1
  MaxMentioners = 1
SYMMETRY UserSymmetry
INVARIANTS
  WellFormed
  EndedStaysEnded
  MutesOfMembers
  MembersConsented
  CreationIsWhole
  AtAllLimited
PROPERTIES
  CleanupSparesMutes
CHECK_DEADLOCK FALSE
