SPECIFICATION Spec
CONSTANTS
    kB = kB
    dA = dA
    dB = dB
    Links = {kA, kB}
    Requests = {dA, dB}
    Items = {i1, i2}
    DossierOf <- MCDossierOf
    PieceOf <- MCPieceOf
    Tabs = {t1}
    Handlers = {h1, h2}
    Null = Null
SYMMETRY Symmetry
INVARIANTS
    TypeOK
    CutLinksOpenNothing
    ViewNeedsTheCode
    AnswersAreCounted
    TickedIsReceived
    NoStuckRow
