SPECIFICATION Spec
CONSTANTS
    Str <- MCStr
    URI <- MCURI
    Nil = Nil
    ExtraParam <- MCExtraParam
    NameOrder <- MCNameOrder
    Fold <- MCFold
    ToUTF8 <- MCToUTF8
    Call = {c1}
    Requests <- OneRequest
    Grants <- FoldedGrants
    Denials <- OneDenial
    GatewayReplies <- NoGateway
    EndpointQuery <- NoQuery
    RedirectQueries <- NoLocation
    MaxRedirects = 0
INVARIANTS ExtraNeverBackfills
CHECK_DEADLOCK FALSE
