\* "The bounded retry window" (docs/vibing-patches.md:44) as it reads: a retry that is still starting when
\* its window is closed opens another one.
CONSTANTS
    Interval = 1
    Window = 3
    MaxAttempts = 2
    Horizon = 9
    MaxPrompts = 2
SPECIFICATION BotSpec
INVARIANT WindowIsBounded
CHECK_DEADLOCK FALSE
