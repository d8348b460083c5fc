\* A dispatch that is rejected after it was accepted; the system may stop.
CONSTANTS
    N = 2
    Owned = {}
    Remote = FALSE
    Attempts = 2
    LateReject = TRUE
    Faults = {}
    WorldEvents = {}
    MaxFaults = 0
    MaxLives = 1
SPECIFICATION Spec
INVARIANT RejectionPreserves
CHECK_DEADLOCK FALSE
