SPECIFICATION Spec

CONSTANTS
    Indexes = {0, 1}
    Events <- MCEvents
    MaxEvents = 4

CHECK_DEADLOCK FALSE

INVARIANTS
    TypeOK
    CallsAreWhole
    EveryPartOnce
    TextAfterItsCalls
    BlocksNest
    EndpointsAgree
