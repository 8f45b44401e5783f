CONSTANTS
  dotted = dotted
  dashed = dashed
  plain = plain
  Sessions = {"room"}
  TokenCap = 2
  UsdCap = 4
  OnExceed = "block"
  HasMessageTier = TRUE
  Price <- MCPrice
  Usage <- MCUsage
  NoCap = NoCap
  None = None
  MaxRetries = 2
  Base = 1
  Cap = 3
  RetryAfter = {0, 2, 9}
  Tools = {dotted, dashed, plain}
  Wire <- MCWire
  WireNames = {"same", "other", "unknown"}
  MaxCalls = 2
SPECIFICATION CallFairSpec
INVARIANT OneCallOvershoot
INVARIANT RetriesAreBounded
INVARIANT ToolNamesRoundTrip
PROPERTY CallsEnd
