CONSTANTS
  asked = asked
  sure = sure
  risky = risky
  rash = rash
  Calls = {asked, sure, risky, rash}
  Ungranted = {asked}
  AutoApproved = {sure}
  Triggers = {t1, t2}
  Deciders = {ann, bob}
  Policy = Policy
  None = None
  SinkRaises = TRUE
  MaxFaults = 2
  MaxStops = 1
SPECIFICATION Spec
SYMMETRY GatedSymmetry
INVARIANT RecordsNameAskerAndDecider
INVARIANT OneStoryPerCall
INVARIANT UnrecordedByFaultOnly
PROPERTY IsApprovalGate
