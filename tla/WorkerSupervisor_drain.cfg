SPECIFICATION FairSpec
CONSTANTS
  job = job  management = management
  None = None
  Loops = {job}
  Servers = {management}
PROPERTY CurrentBatchFinishes
\* The process has exited.
CHECK_DEADLOCK FALSE
