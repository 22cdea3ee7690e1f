SPECIFICATION Spec
CONSTANTS
  a = a
  b = b
  c = c
  d = d
  o1 = o1
  o2 = o2
  bad = bad
  x = x
  y = y
  Items = {a, b, c, d}
  Ops = {o1, o2}
  Malformed = {bad}
  ObserveOps = {o1}
  Foreign <- MCForeign
  FirstOps = {o1}
  Key <- MCKey
  Parsed <- MCParsed
  Requests <- MCRequests
  Batches <- MCBatches
  Roots = {b}
  Depths = {0, 1, 9}
  AsOfs <- MCAsOfs
  Limit = 2
  MaxEdges = 3
  MaxTime = 1
  None = None
INVARIANTS TypeOK EventsExact LineageComplete
PROPERTY AsOfStable
