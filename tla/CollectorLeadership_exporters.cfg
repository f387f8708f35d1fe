SPECIFICATION Spec
CONSTANTS
  a = a  b = b  c = c
  None = None
  Orphan = Orphan
  Processes = {a, b}
INVARIANT SingleExporter
