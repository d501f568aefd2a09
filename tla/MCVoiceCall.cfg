SPECIFICATION Spec
CONSTANTS
  Peers = {b, c}
  Yields = {b}
  MaxWork = 3
  None = None
INVARIANTS
  WellFormed
  
CHECK_DEADLOCK FALSE
