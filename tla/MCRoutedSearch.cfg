SPECIFICATION Spec
CONSTANTS
  x = x
  y = y
  Shards = {1, 2, 3}
  Stores = {4, 5}
  Requester = 2
  Facts <- MCFacts
  FirstHeld <- MCFirstHeld
  TopK = 2
  Budgets = {1, None}
  Capacity = 2
  MaxChanges = 1
  None = None
INVARIANTS TypeOK CacheSound ReceiptTellsTruth ExpansionIsExact NothingBetterLeftOut
