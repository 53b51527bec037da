SPECIFICATION Spec
CONSTANTS
    kB = kB
    dA = dA
    dB = dB
    Links = {kA, kC, kB}
    Requests = {dA, dB}
    Items = {i1}
    DossierOf <- MCDossierOf
    PieceOf <- MCPieceOf
    Tabs = {t1, t2}
    Handlers = {h1, h2}
    Null = Null
SYMMETRY Symmetry
INVARIANT TabShowsItsOwnDossier
