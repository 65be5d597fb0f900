CONSTANTS
    None = None
    MaxPigs = 2
    Setups <- FailingUser
    Users = {1}
    MaxCommands = 6
    MaxConfigs = 3
SPECIFICATION Spec
INVARIANT ConfigInUseExists
