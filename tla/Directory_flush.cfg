SPECIFICATION DirectorySpec
CONSTANTS
  Ids = {a1, b1}
  Values = {v1, v2}
  Faces = {{v1, v2}}
  Gone = Gone
  Unset = Unset
  MaxTombstones = 1
  Sessions = {s1}
  MaxChanges = 2
  MaxLosses = 1
  MaxLives = 1
INVARIANT CursorIsTold
CHECK_DEADLOCK FALSE
