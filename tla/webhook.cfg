CONSTANTS
  c1 = c1
  c2 = c2
  c3 = c3
  hello = hello
  bye = bye
  Conns = {c1, c2, c3}
  MaxConns = 1
  Flaky = {c1}
  Statuses = {200, 202}
  None = None
  Deliveries = {c1, c2, c3}
  Ids = {hello, bye}
  IdOf <- MCIdOf
  MaxSize = 1
  Ttl = 1
  MaxTime = 1
SPECIFICATION FairSpec
INVARIANT SlotsAreConnections
INVARIANT NoOrphanHandler
INVARIANT OneTurnPerWindow
INVARIANT AcknowledgedHasATurn
PROPERTY NothingPostedOnceClosed
PROPERTY SlotsComeBack
