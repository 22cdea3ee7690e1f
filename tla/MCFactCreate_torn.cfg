SPECIFICATION Spec
CONSTANTS
  Facts = {f1}
  Creates = {f1}
  Epochs = {1}
  Keys = {k1}
  PublicKeys = {p1}
  Fences = {n1}
  Times = {1}
  Invocations = {i1, i2}
  Workers = {w1}
  BatchIds = {b1, b2}
  MaxJournal = 1
  MaxDisturb = 1
  CliWhileServing = FALSE
  None = None
  Absent = Absent
  Empty = Empty
  Torn = Torn
  Refused = Refused
INVARIANTS WatermarkReadable
CHECK_DEADLOCK FALSE
