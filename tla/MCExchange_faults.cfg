SPECIFICATION ClientSpec
CONSTANTS
    Str <- MCStr
    URI <- MCURI
    Nil = Nil
    ExtraParam <- MCExtraParam
    NameOrder <- MCNameOrder
    Fold <- MCFold
    ToUTF8 <- MCToUTF8
    Call = {c1}
    Requests <- AllRequests
    Grants <- AllGrants
    Denials <- AllDenials
    GatewayReplies <- Pages
    EndpointQuery <- NoQuery
    RedirectQueries <- Locations
    MaxRedirects = 2
INVARIANTS Inv TypeOK SuccessIsTheGrant RefusalIsTheDenial ASSeesTheCaller
    GrantedAsAsked DecisionIsReported NobodyWaitsInVain
PROPERTIES KeepsPromise EveryStepIsProgress CancelReturns EveryCallReturns
CHECK_DEADLOCK FALSE
