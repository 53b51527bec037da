SPECIFICATION FairSpec
CONSTANTS
    Raws <- Environments
    Paddings <- Blanks
    MaxFaults = 3
    Missing = Missing
    Text = Text
INVARIANTS
    IdleDeadlineCanFall
    MigratedIsServed
PROPERTY
    EventuallyHealthy
