CONSTANTS
    Code <- MCCode
    Text <- MCText
    Failure <- MCFailure
    MaxErrors = 8
SPECIFICATION Spec
CHECK_DEADLOCK FALSE
INVARIANTS
    ChainsEnd
    DispatchIsByCode
    WildcardsCompose
    BothShapesMatch
    Inv
PROPERTIES
    MatchesAreStable
    CauseReplaces
