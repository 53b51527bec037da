SPECIFICATION Spec
CONSTANTS
    Tokens = {t1, t2, t3}
    Lawyers = {l1}
    Handlers = {h1, h2}
    SessionTtl = 2
    IdleTtl = 1
    RaceWindow = 1
    MaxTime = 3
    Null = Null
SYMMETRY Symmetry
INVARIANTS
    TypeOK
    OneLiveTokenPerFamily
    ChainNeverForks
    CeilingNeverMoves
    ReuseRecognisable
    OnlyPurgesDeadlock
PROPERTIES
    NoTokenSpentForNothing
    ImplementsSessionChain
    RevocationKillsWhatItSaw
