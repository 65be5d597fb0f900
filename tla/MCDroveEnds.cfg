CONSTANTS
    None = None
    MaxPigs = 1
    Setups <- Endings
    Users = {}
    MaxCommands = 6
    MaxConfigs = 3
SPECIFICATION FairSpec
PROPERTY DeathsHandled
PROPERTY ReloadEnds
PROPERTY QuitEnds
