SPECIFICATION Spec
CONSTANTS
  m1 = m1  m2 = m2  m3 = m3  m4 = m4  a = a  b = b  c = c
  None = None
  Messages = {m1, m2, m3, m4}
  Callers = {a, b, c}
  Slots = {1, 2}
  SlotOf <- FourMessages
SYMMETRY Symmetry4
INVARIANTS TypeOK CountsExact DecrementsSucceed OrderedStatementsNeverDeadlock
