CONSTANTS
    None = None
    MaxPigs = 2
    Setups <- TwoFiles
    Users = {}
    MaxCommands = 6
    MaxConfigs = 2
SPECIFICATION FairSpec
PROPERTY DeathsHandled
