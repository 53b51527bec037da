SPECIFICATION Spec
CONSTANTS
    Items = {i1, i2}
    Stranger = stranger
    Keys = {k1, k2, k3, k4}
    Handlers = {h1, h2}
    Null = Null
SYMMETRY Symmetry
INVARIANTS
    TypeOK
    RowsNameObjects
    RefusedLeavesNothing
    CompletionIsCounted
    CountedOnlyWhenComplete
PROPERTIES
    BrokenOnlyIfReplaced
    ImplementsDepositBox
