SPECIFICATION ExampleSpec
CONSTANTS
    Str <- MCStr
    URI <- MCURI
    Nil = Nil
    ExtraParam <- MCExtraParam
    NameOrder <- MCNameOrder
    Fold <- MCFold
    ToUTF8 <- MCToUTF8
    Call = {c1}
    Requests <- MCRequests
    Grants <- MCGrants
    Denials = {}
    GatewayReplies <- MCPages
    EndpointQuery <- MCQuery
    RedirectQueries <- MCLocations
    MaxRedirects = 1
    AccessTokenFor <- MCAccessTokenFor
INVARIANTS TokenIsForTheFirst TypeIsAgreed CallerWins
CHECK_DEADLOCK FALSE
