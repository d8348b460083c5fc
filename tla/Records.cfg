SPECIFICATION RecordsSpec
CONSTANTS
  \* LabelStore
  Labels = {l1, l2}
  Workspaces = {w1}
  Absent = Absent
  Committed = Committed
  \* CreationJournal
  Keys = {k1, k2}
  AgentIds = {i1}
  Intents = {{"workspace"}, {"workspace", "agent", "prompt"}, {"agent"}}
  Missing = Missing
  Torn = Torn
  MaxCrashes = 1
  MaxFaults = 1
  \* DirectorySync
  Ids = {a1, b1}
  Values = {v1, v2}
  Faces = {{v1}, {v2}}
  Gone = Gone
  Unset = Unset
  MaxTombstones = 1
  Sessions = {s1}
  MaxChanges = 2
  MaxLosses = 1
  MaxLives = 1
  \* BotAutoResume
  Interval = 1
  Window = 3
  MaxAttempts = 2
  Horizon = 9
  MaxPrompts = 2
  \* Schedules
  Ticks = {t1, t2}
  Demands = {d1}
  Cadences = {1}
  RunLimits = {2, Unlimited}
  Expiries = {2, Unlimited}
  Unlimited = Unlimited
  Deleted = Deleted
  LastMoment = 2
  MaxRuns = 2
  MaxEvents = 2
  \* RestartRecovery
  Agents = {x1}
  CloseCancels = FALSE
  MaxActs = 2
  MaxStops = 2
INVARIANTS
  RecordsTypeOK
  DefinedUnlessOverwritten NothingRepeated RecordTells
  CatchUpIsExact FollowedChangesShow RetriesBounded
  RunsFollowOneAnother ActiveIsPlanned ResumesAreOwed
PROPERTIES LabelsAreAtomic StopHolds
CHECK_DEADLOCK FALSE
