SPECIFICATION FairSpec
CONSTANTS
  Facts = {f1, s1}
  Creates = {f1}
  Epochs = {1}
  Keys = {k1}
  PublicKeys = {p1}
  Fences = {n1}
  Times = {1}
  Invocations = {i1}
  Workers = {w1}
  BatchIds = {b1, b2, b3}
  MaxJournal = 2
  MaxDisturb = 3
  CliWhileServing = FALSE
  None = None
  Absent = Absent
  Empty = Empty
  Torn = Torn
  Refused = Refused
PROPERTIES WatermarkMonotone EventuallyReplicated
CHECK_DEADLOCK FALSE
