\* Three permission requests of one turn, two of them answered by the initial wait
CONSTANTS
    MaxAsks = 3
    MaxRuns = 0
SPECIFICATION ObservationSpec
PROPERTY ResolvedIsNotAsked
CHECK_DEADLOCK FALSE
