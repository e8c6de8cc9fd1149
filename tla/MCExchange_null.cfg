SPECIFICATION Spec
CONSTANTS
    Str <- MCStr
    URI <- MCURI
    Nil = Nil
    ExtraParam <- MCExtraParam
    NameOrder <- MCNameOrder
    Fold <- MCFold
    ToUTF8 <- MCToUTF8
    Call = {c1}
    Requests <- OneRequest
    Grants <- OneGrant
    Denials <- OneDenial
    GatewayReplies <- NullPage
    EndpointQuery <- NoQuery
    RedirectQueries <- NoLocation
    MaxRedirects = 0
INVARIANTS SuccessIsValid
CHECK_DEADLOCK FALSE
