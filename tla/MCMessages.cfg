SPECIFICATION MessagesSpec
CONSTANTS
  Users = {u1, u2}
  Sessions = {s1, g1}
  Groups = {g1}
  EditWindow = 1
  MaxEdits = 3
  MaxBatch = 2
  MaxMsgs = 2
  MaxTime = 3
  None = None
INVARIANTS
  TablesAgree
  RepliesSound
  EditSpan
  PagesCover
SYMMETRY Symmetry
