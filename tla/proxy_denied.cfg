CONSTANTS
  Conns = {c1}
  MaxConnections = 1
  MaxChunks = 1
  MaxFaults = 0
  MaxStops = 0
  None = None
SPECIFICATION Spec
INVARIANT DeniedIsNotDialed
