SPECIFICATION AuthSpec
CONSTANTS
    Users = {u1}
    Workers = {p1, p2}
    Null = Null
    MaxTokens = 3
    MaxChanges = 2
    LastTick = 2
    SecondTicks = 2
    AccessLife = 1
    RefreshLife = 1
INVARIANTS AuthTypeOK SpentOnce LiveIsCurrent OldAccessEnds FreshAccepted
PROPERTIES ImplementsTokenChain
SYMMETRY Symmetry
