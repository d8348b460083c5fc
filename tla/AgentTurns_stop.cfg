\* Two sends, the second replacing the first, and a Stop.
CONSTANTS
    Calls = {c1, c2, c3}
    Autos = {}
    Kinds = {"send", "stop"}
    CanSteer = FALSE
    MaxHeld = 1
    None = None
SPECIFICATION Spec
INVARIANT RunningHasWork
CHECK_DEADLOCK FALSE
