\* The store fails to remove a rejected candidate; the system may stop.
CONSTANTS
    N = 2
    Owned = {}
    Remote = FALSE
    Attempts = 2
    LateReject = FALSE
    Faults = {"reject"}
    WorldEvents = {}
    MaxFaults = 1
    MaxLives = 1
SPECIFICATION FairSpec
PROPERTY AcceptedIsAnswered
CHECK_DEADLOCK FALSE
