SPECIFICATION Spec
CONSTANTS
    Requests = {q1, q2, q3}
    PageSize = 1
    MaxChanges = 2
    Loads = {l1, l2}
    Null = Null
SYMMETRY Symmetry
INVARIANTS
    LastAnswerShown
    ScreenAsOfLastAction
    CardOpensTheRequest
    NothingSkipped
