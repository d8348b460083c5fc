SPECIFICATION ServicesSpec
CONSTANTS
  \* LabelSync
  Names = {n1, n2}
  Colors = {red}
  None = None
  JournalLimit = 2
  MaxSeq = 3
  MaxServerLives = 2
  MaxLinkLosses = 1
  \* AgentMessages
  a = a
  h = h
  n = n
  o = o
  plan = plan
  Queued = {a}
  Direct = {h}
  Notices = {n, o}
  Interrupting = {n}
  Modes = {plan}
  AnyMode = AnyMode
  ModeOf <- ModeOfMessage
  MaxSends = 3
  MaxRestarts = 1
  \* AgentRuntime
  Prompts = {p1, p2}
  Protecting = {p2}
  MaxSessions = 3
  MaxRequests = 2
  \* TimelineSync
  StartRows = 1
  PageSize = 1
  MaxRows = 3
  MaxEpochs = 2
  MaxDrops = 1
  MaxFailures = 1
  MaxUses = 1
  \* TerminalStream
  MaxOutput = 2
  MaxViews = 1
  MaxCuts = 2
  MaxPressures = 1
  MaxTimeouts = 1
  \* FinishObservation
  MaxAsks = 2
  MaxRuns = 1
INVARIANTS
  ServicesTypeOK
  ReplicaIsTrue
  MessagesAreKept
  SingleWriter PromptKeepsRuntime
  ChatIsTrue
  ScreenIsExact
PROPERTIES ReplicaConverges MessagesSettle PromptAnswered CatchUpSettles ScreenCatchesUp
  NoticesAreTrue SettlementIsHeard
CHECK_DEADLOCK FALSE
