\* Two registrations, two starts, one failure of any kind; everything may be done, so the system may stop.
CONSTANTS
    N = 2
    Owned = {1}
    Remote = TRUE
    Attempts = 2
    LateReject = FALSE
    Faults = {"put", "commit", "supersede", "reject", "dispatch", "observe", "host"}
    WorldEvents = {"archive", "detach"}
    MaxFaults = 1
    MaxLives = 2
SPECIFICATION Spec
INVARIANTS TypeOK IntentKept ReportedOnce OpenIsProtected
CHECK_DEADLOCK FALSE
