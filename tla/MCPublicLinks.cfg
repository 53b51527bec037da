SPECIFICATION Spec
CONSTANTS
    Links = {k1, k2, k3}
    Requests = {r1, demo}
    Demo = demo
    Lawyers = {l1}
    Seeder = l1
    Handlers = {h1, h2}
    Validities = {0}
    MaxTime = 1
    Null = Null
SYMMETRY Symmetry
INVARIANTS
    TypeOK
    OneActiveLink
    DashboardAgreesWithClient
PROPERTIES
    RevocationIsFinal
    NoLinkLostToARegeneration
    SuccessCutsWhatWorked
    ImplementsLinkRegister
