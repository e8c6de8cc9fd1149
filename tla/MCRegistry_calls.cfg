SPECIFICATION FairSpec
CONSTANTS
    Str <- MCStr
    URI <- MCURI
    Nil = Nil
    g1 = g1
    g2 = g2
    g3 = g3
    Goroutine = {g1, g2, g3}
    Asked <- MCAsked
    BuiltinTokenTypes <- MCBuiltin
    None = None
INVARIANTS Inv MapAccessIsExclusive TableIsSound RegisteredIsFound HoldersGoOn
PROPERTIES NothingIsForgotten IsAtomic CallsReturn
