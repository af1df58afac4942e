SPECIFICATION Spec

CONSTANTS
    Sids = {"s"}
    NoSession = ""
    TTL = 0
    MaxSessions = 0
    Reqs = {q1, q2}
    ClientRequests <- MCClientRequests
    InitialRules <- MCInitialRules
    Policies <- MCPolicies
    MaxEdits = 1
    Aliases <- MCAliases
    Words <- MCWords
    Mappings <- MCMappings

SYMMETRY Symmetry

CHECK_DEADLOCK FALSE

INVARIANTS
    TypeOK
    EverythingIsSent
    FirstRuleDecides
    ReplayIsFaithful
    SentImagesAreAllowed
    UnnamedCallsStayOut
