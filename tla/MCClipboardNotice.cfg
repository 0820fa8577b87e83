CONSTANTS
    HideDelay = 2
    MaxTime = 6
    MaxClicks = 3

SPECIFICATION NSpec

INVARIANT NTypeOK
PROPERTY NoticeHidesAgain

CHECK_DEADLOCK FALSE
