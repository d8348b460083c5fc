\* A turn, a steer of it, a replacement of it and an autonomous turn.
CONSTANTS
    Calls = {c1, c2, c3}
    Autos = {a1}
    Kinds = {"send", "steer"}
    CanSteer = TRUE
    MaxHeld = 1
    None = None
SPECIFICATION Spec
PROPERTY SteerInterruptsOnlyItsTurn
CHECK_DEADLOCK FALSE
