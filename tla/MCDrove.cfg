CONSTANTS
    None = None
    MaxPigs = 2
    Setups <- Everyday
    Users = {1}
    MaxCommands = 5
    MaxConfigs = 3
SPECIFICATION Spec
INVARIANT TypeOK
INVARIANT CommandsOwned
INVARIANT ConfigInUseExists
INVARIANT ReloadReachedAll
INVARIANT AssertionsHold
INVARIANT PauseAgreed
INVARIANT CommandBreaksAcquire
INVARIANT PrivilegesDroppedFirst
INVARIANT BlockedHasCommand
