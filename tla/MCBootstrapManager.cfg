SPECIFICATION Spec
CONSTANTS
    Sids = {s1, s2}
    Creds = {s1, s2, earlier}
    Reqs = {q1, q2}
    NoFile = NoFile
    Empty = Empty
    Garbled = Garbled
    NoCred = NoCred
    NoSid = NoSid
    Timeout = 1
    Retention = 2
    MaxTime = 3
    MaxCrashes = 1
SYMMETRY Symmetry
INVARIANTS
    TypeOK
    AwaitingHasDeadline
    OneAwaiting
    CompletedWasSaved
    StaleOnlyUntilReload
PROPERTIES
    CancelHoldsWithoutWorker
