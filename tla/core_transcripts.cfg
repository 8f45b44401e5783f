CONSTANTS
  m1 = m1
  m2 = m2
  m3 = m3
  m4 = m4
  room = room
  hall = hall
  Absent = Absent
  Full = Full
  WindowTurns = 2
  None = None
  NoCap = NoCap
  Messages = {m1, m2, m3, m4}
  Rostered = {m1, m2, m3}
  Commands = {m3}
  Sessions = {room, hall}
  SessionOf <- MCSessionOf
  TokenCap = 4
  UsdCap = NoCap
  OnExceed = "warn"
  HasMessageTier = TRUE
  Price <- MCPrice
  Usage <- OneUsage
  ToolsWired = TRUE
  MaxToolRounds = 1
  MaxCalls = 1
  FaultKinds = {"db", "load", "command", "sink"}
  MaxFaults = 1
  MaxStops = 1
SPECIFICATION Spec
SYMMETRY RoomSymmetry
INVARIANT MemoryMatchesStore
INVARIANT AnsweredIsStored
INVARIANT WarnedOverBudget
INVARIANT EveryCompletedCallCharged
INVARIANT PromptEndsTheTranscript
INVARIANT FactsAreMentioned
PROPERTY RepliesSettleOnce
PROPERTY IsSerialConversation
