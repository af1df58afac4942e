\* Migration, settings and retention, model list: MCAdministration.
SPECIFICATION Spec
CONSTANTS
    Mappings <- MCMappings
    Edits <- MCEdits
    MaxEdits = 2
    MaxStarts = 3
    Admins = {"short", "off"}
    Updates <- MCUpdates
    Defaults <- MCDefaults
    Number <- MCNumber
    DefaultDays = 2
    MaxDay = 3
    MaxRestarts = 1
    Callers = {c1, c2}
    Lists <- MCLists
    Requested <- MCRequested
    ModelAlias <- MCAlias
    MaxChanges = 1
    MaxCalls = 3
INVARIANTS
    TypeOK
    BackfillIsExact
    RulesKeepPlaces
    AcknowledgedSettingsHold
    OfferedIsNotRefused
    RefreshIsFresh
PROPERTIES
    CleanupKeepsRetained
CHECK_DEADLOCK FALSE
