CONSTANTS
  Conns = {c1, c2}
  MaxConnections = 1
  MaxChunks = 2
  MaxFaults = 1
  MaxStops = 1
  None = None
SPECIFICATION FairSpec
INVARIANT SlotsAreConnections
INVARIANT OneClosingRecord
INVARIANT TunnelIsObserved
INVARIANT PairsCorrelate
INVARIANT BytesAreRelayed
PROPERTY OnlyPeersHoldSlots
