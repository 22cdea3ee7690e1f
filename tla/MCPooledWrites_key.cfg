SPECIFICATION Spec
CONSTANTS
  Keys = {k1, k2}
  Digests = {d1, d2}
  Sources = {s1, s2}
  Contents = {t1, t2}
  Workers = {w1, w2}
  Overlap = TRUE
  MaxRows = 3
  MaxFail = 0
  None = None
SYMMETRY Symmetry
INVARIANTS SameKeySameAnswer
CHECK_DEADLOCK FALSE
