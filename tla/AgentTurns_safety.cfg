\* Three calls and one autonomous turn; calls may all be issued and finished, so the system may stop.
CONSTANTS
    Calls = {c1, c2, c3}
    Autos = {a1}
    Kinds = {"send", "run", "steer", "stop"}
    CanSteer = TRUE
    MaxHeld = 1
    None = None
SPECIFICATION Spec
INVARIANTS TypeOK NoSplitBrain TurnsAreOwned AdmittedTurnStaysActive
SYMMETRY Symmetry
CHECK_DEADLOCK FALSE
