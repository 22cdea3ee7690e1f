SPECIFICATION Spec
CONSTANTS
  Facts = {f1, f2, f3}
  Epochs = {1, 2}
  Keys = {k1}
  Generations = {g1, g2}
  Times = {1}
  Rows <- MCRows
  BatchIds = {b1, b2}
  MaxRecords = 3
  MaxPosted = 3
  MaxIrregular = 1
  MaxDisturb = 1
  CliWhileServing = TRUE
  None = None
SYMMETRY Symmetry
INVARIANTS TypeOK OneSuccessor ConflictIsFinal OneLateWrite
PROPERTIES ImplementsLog
CHECK_DEADLOCK FALSE
