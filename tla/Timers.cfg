CONSTANTS
  m1 = m1
  m2 = m2
  Mbuffs = {m1, m2}
  c1 = c1
  c2 = c2
  c3 = c3
  c4 = c4
  Cells = {c1, c2, c3, c4}
  None = None
  Timeout = 3
  MaxNow = 10
SYMMETRY Symmetry
SPECIFICATION Spec
INVARIANTS
  TypeOK
  ListIsArmed
PROPERTY EarliestFirst
CHECK_DEADLOCK FALSE
