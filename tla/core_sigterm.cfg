CONSTANTS
  m1 = m1
  m2 = m2
  m3 = m3
  m4 = m4
  room = room
  hall = hall
  Absent = Absent
  Full = Full
  WindowTurns = Full
  None = None
  NoCap = NoCap
  Messages = {m1, m2}
  Rostered = {m1, m2}
  Commands = {}
  Sessions = {room}
  SessionOf <- MCSessionOf
  TokenCap = 4
  UsdCap = NoCap
  OnExceed = "block"
  HasMessageTier = TRUE
  Price <- MCPrice
  Usage <- OneUsage
  ToolsWired = TRUE
  MaxToolRounds = 1
  MaxCalls = 1
  FaultKinds = {}
  MaxFaults = 0
  MaxStops = 1
SPECIFICATION Spec
INVARIANT EveryCallRecorded
