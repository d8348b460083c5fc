\* No symmetry: temporal properties.  Calls end, and starts are bounded: the system may stop.
SPECIFICATION LivenessSpec
CONSTANTS
  \* AgentTurns
  Calls = {c1, c2}
  Autos = {a1}
  Kinds = {"send", "run", "steer", "stop"}
  CanSteer = TRUE
  MaxHeld = 2
  None = None
  \* FinishSubscriptions: two registrations, a crash or a shutdown, and a second start
  N = 2
  Owned = {}
  Remote = FALSE
  Attempts = 2
  LateReject = FALSE
  Faults = {}
  WorldEvents = {}
  MaxFaults = 0
  MaxLives = 2
INVARIANTS TypeOK NoSplitBrain TurnsAreOwned AdmittedTurnStaysActive NoResurrection
PROPERTIES SlotSpec LaneMoves FinishedRunIsReleased AcceptedIsAnswered ShutdownCompletes
CHECK_DEADLOCK FALSE
