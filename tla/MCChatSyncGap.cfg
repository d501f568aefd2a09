SPECIFICATION FairSpec
CONSTANTS
  Workers = {chat}
  Senders = {chat}
  Pollers = {chat}
  Mergers = {chat}
  Window = 1
  Page = 1
  Rounds = 2
  Fit = 1
  MaxMsgs = 4
  MaxUpsets = 0
PROPERTY GapFilled
