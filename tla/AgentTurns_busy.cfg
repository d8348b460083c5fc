\* Three sends, each replacing the one before.
CONSTANTS
    Calls = {c1, c2, c3}
    Autos = {}
    Kinds = {"send"}
    CanSteer = FALSE
    MaxHeld = 1
    None = None
SPECIFICATION Spec
PROPERTY ReplacementHoldsBusy
CHECK_DEADLOCK FALSE
