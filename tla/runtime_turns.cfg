CONSTANTS
  m1 = m1
  m2 = m2
  room = room
  asked = asked
  sure = sure
  risky = risky
  rash = rash
  Absent = Absent
  Full = Full
  WindowTurns = Full
  None = None
  NoCap = NoCap
  Policy = Policy
  Messages = {m1, m2}
  Rostered = {m1, m2}
  Commands = {}
  Sessions = {room}
  SessionOf <- MCSessionOf
  TokenCap = NoCap
  UsdCap = NoCap
  OnExceed = "block"
  HasMessageTier = FALSE
  Price <- MCPrice
  Usage <- OneUsage
  ToolsWired = TRUE
  MaxToolRounds = 1
  MaxCalls = 1
  FaultKinds = {"sink"}
  MaxFaults = 1
  MaxStops = 1
  Calls = {risky}
  Ungranted = {}
  AutoApproved = {}
  Deciders = {ann}
SPECIFICATION RuntimeFairSpec
PROPERTY ParkedCallsHoldNoTurn
