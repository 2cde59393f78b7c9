SPECIFICATION Spec
CONSTANTS
  Turn = Turn
  NoTask = NoTask
  NoCall = NoCall
  Cancellers = {x1}
  Resetters = {}
  Calls = {k1}
  Attachments = {a1}
  Capacity = 2
  SavesFail = FALSE
  MaxCommits = 3
  MaxLog = 4
CHECK_DEADLOCK FALSE
INVARIANTS
  LogReplaysToConversation
