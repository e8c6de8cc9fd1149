SPECIFICATION Spec
CONSTANTS
    Client = {c1, c2}
    HttpClient = {standard, own}
    Nil = Nil
    MaxOptions = 3
INVARIANTS SentAsAskedFor Inv
