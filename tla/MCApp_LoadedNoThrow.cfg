CONSTANTS
    BadPattern = BadPattern
    None = None
    Undef = Undef
    NotFound = NotFound
    Throw = Throw
    NoMatch = NoMatch
    NoQuery = NoQuery
    RouteTable <- MCRouteTable
    PatternInputs <- MCPatternInputs
    NameInputs <- MCNameInputs
    PathInputs <- MCPathInputs
    CheckPaths <- MCCheckPaths
    ParamInputs <- MCParamInputs
    QueryInputs <- MCQueryInputs
    SearchParams <- MCSearchParams
    MaxCalls = 12
    InheritedNames = {"constructor"}
    UndefinedText = UndefinedText

SPECIFICATION AppSpec

INVARIANT LoadedNoThrow


CHECK_DEADLOCK FALSE
