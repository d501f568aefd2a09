SPECIFICATION FairSpec
CONSTANTS
  Workers = {chat, incoming}
  Senders = {chat}
  Pollers = {chat}
  Mergers = {incoming}
  Window = 2
  Page = 1
  Rounds = 2
  Fit = 2
  MaxMsgs = 2
  MaxUpsets = 1
INVARIANTS
  WellFormed
  UnreadArrived
PROPERTIES
  AnswersIngested
  Delivered
