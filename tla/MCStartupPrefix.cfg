SPECIFICATION Spec
CONSTANTS
    Raws <- Environments
    Paddings <- Blanks
    MaxFaults = 3
    Missing = Missing
    Text = Text
INVARIANT
    CookiesReachTheirRoutes
