CONSTANTS
  m1 = m1
  m2 = m2
  room = room
  asked = asked
  sure = sure
  risky = risky
  rash = rash
  Absent = Absent
  Full = Full
  WindowTurns = Full
  None = None
  NoCap = NoCap
  Policy = Policy
  Messages = {m1, m2}
  Rostered = {m1, m2}
  Commands = {}
  Sessions = {room}
  SessionOf <- MCSessionOf
  TokenCap = 3
  UsdCap = 4
  OnExceed = "block"
  HasMessageTier = TRUE
  Price <- MCPrice
  Usage <- MCUsage
  ToolsWired = TRUE
  MaxToolRounds = 1
  MaxCalls = 1
  FaultKinds = {"sink", "db"}
  MaxFaults = 1
  MaxStops = 1
  Calls = {sure, risky, rash}
  Ungranted = {}
  AutoApproved = {sure}
  Deciders = {ann}
SPECIFICATION RuntimeSpec
SYMMETRY Alike
INVARIANT ToolsFollowARecordedCall
INVARIANT RoundsBoundCalls
INVARIANT ChargedIsAudited
INVARIANT UnrecordedByFaultOnly
PROPERTY KeepsRouterProtocol
