CONSTANTS
    HideDelay = 2
    MaxTime = 6
    MaxClicks = 3

SPECIFICATION NSpec

INVARIANT ShownForDelayAfterLastClick

CHECK_DEADLOCK FALSE
