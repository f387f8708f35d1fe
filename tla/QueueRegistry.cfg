SPECIFICATION Spec
CONSTANTS
  a = a  b = b  q1 = q1  q2 = q2
  None = None
  Clients = {a, b}
  Ids = {q1, q2}
  Names <- RequestNames
  Changes <- RequestChanges
  Lifetimes = {0, 1, 2592000, 2592001}
  Priorities = {0, 1, 3}
  MaxNameLength = 3
SYMMETRY Symmetry
INVARIANTS TypeOK NothingAcceptedInVain NothingRefusedInVain NoUpdateLost OneQueuePerName
