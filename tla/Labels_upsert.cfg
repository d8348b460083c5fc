SPECIFICATION StoreSpec
CONSTANTS
  Labels = {l1, l2}
  Workspaces = {w1}
  Absent = Absent
  Committed = Committed
INVARIANT AssignedIsDefined
CHECK_DEADLOCK FALSE
