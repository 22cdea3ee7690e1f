SPECIFICATION Spec
CONSTANTS
  Facts = {f1, f2}
  Creates = {f1, f2}
  Epochs = {1}
  Keys = {k1}
  PublicKeys = {p1}
  Fences = {n1, n2}
  Times = {1}
  Invocations = {i1, i2}
  Workers = {w1, w2}
  BatchIds = {b1, b2}
  MaxJournal = 2
  MaxDisturb = 3
  CliWhileServing = FALSE
  None = None
  Absent = Absent
  Empty = Empty
  Torn = Torn
  Refused = Refused
SYMMETRY Symmetry
INVARIANTS TypeOK AckDurable WatermarkBacked
PROPERTIES AppliedOnlyAdmitted DuplicateGetsOriginalAck ImplementsLog
CHECK_DEADLOCK FALSE
