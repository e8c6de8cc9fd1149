SPECIFICATION Spec
CONSTANTS
    Str <- MCStr
    Field <- MCField
    Forms <- MCForms
    Builtins <- MCBuiltins
    MaxRoom = 1
    MaxObjects = 3
    MaxBlocks = 3
INVARIANTS Inv
PROPERTIES OthersUntouched BehavesAsValues
CHECK_DEADLOCK FALSE
