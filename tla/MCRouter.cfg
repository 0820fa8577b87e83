CONSTANTS
    BadPattern = BadPattern
    None = None
    Undef = Undef
    NotFound = NotFound
    Throw = Throw
    NoMatch = NoMatch
    NoQuery = NoQuery
    PatternInputs <- MCPatternInputs
    NameInputs <- MCNameInputs
    PathInputs <- MCPathInputs
    CheckPaths <- MCCheckPaths
    ParamInputs <- MCParamInputs
    QueryInputs <- MCQueryInputs
    SearchParams <- MCSearchParams
    MaxCalls = 5
    InheritedNames = {"constructor"}
    UndefinedText = UndefinedText

SPECIFICATION Spec

INVARIANT TypeOK
INVARIANT RegistryConsistent
INVARIANT TrieShape
INVARIANT MatchSound
PROPERTY RefinesCachedRouter

CHECK_DEADLOCK FALSE
