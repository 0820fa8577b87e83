CONSTANTS
    ParamChoices <- MCParamChoices
    Markup = {"m"}
    Scale = 2
    MaxFrames = 3
SPECIFICATION TSpec
INVARIANT ClassesFollowPhase
CHECK_DEADLOCK FALSE
