\* Settings and retention alone, with the fairness of the loop: MCAdministration.
SPECIFICATION FairSpec
CONSTANTS
    Mappings <- MCMappings
    Edits <- MCEdits
    MaxEdits = 0
    MaxStarts = 0
    Admins = {"short"}
    Updates <- MCUpdates
    Defaults <- MCDefaults
    Number <- MCNumber
    DefaultDays = 2
    MaxDay = 3
    MaxRestarts = 1
    Callers = {c1, c2}
    Lists <- MCLists
    Requested <- MCRequested
    ModelAlias <- MCAlias
    MaxChanges = 0
    MaxCalls = 0
PROPERTIES
    SettingsTakeEffect
CHECK_DEADLOCK FALSE
