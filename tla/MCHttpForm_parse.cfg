CONSTANTS
    Str <- MCStr
    URI <- MCURI
    Nil = Nil
    ExtraParam <- MCExtra
    Sent <- MCSent
    MaxAnswers = 3
SPECIFICATION Spec
CHECK_DEADLOCK FALSE
INVARIANTS
    RepeatsAgree
    StrippedStaysOut
    Inv
PROPERTIES
    FirstReaderSeesAll
