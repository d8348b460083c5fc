\* Two prompts that met reloads, and a close that fails: what OneWriter needs to be wrong.
SPECIFICATION RuntimeSpec
CONSTANTS
    Prompts = {p1, p2}
    Protecting = {p1}
    MaxSessions = 3
    MaxRequests = 5
INVARIANT OneWriter
CHECK_DEADLOCK FALSE
