CONSTANTS
    ParamChoices <- MCParamChoices
    Markup = {"m"}
    Scale = 2
    MaxFrames = 3
SPECIFICATION TSpec
INVARIANT TTypeOK
INVARIANT EndsWithoutBase
CHECK_DEADLOCK FALSE
