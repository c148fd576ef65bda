SPECIFICATION FairProcessSpec
CONSTANTS
  None = None
  Malformed = Malformed
  Chats = {a}
  PolicyIds = {p}
  MaxUpdates = 4
  Keep = 3
  MaxTurns = 2
  MaxCalls = 2
  MaxStarts = 2
  MaxTokens = 2
INVARIANTS
  PromptAppearsOnce
  ReplyIsKept
  IdentityIsAccountedFor
  MintsAreAccountedFor
PROPERTIES
  HandlersGetOn
  EndsOrHangsInOneCall
CHECK_DEADLOCK FALSE
