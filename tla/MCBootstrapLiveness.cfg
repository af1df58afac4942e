SPECIFICATION FairSpec
CONSTANTS
    Sids = {s1}
    Creds = {s1, earlier}
    Reqs = {q1, q2}
    NoFile = NoFile
    Empty = Empty
    Garbled = Garbled
    NoCred = NoCred
    NoSid = NoSid
    Timeout = 1
    Retention = 2
    MaxTime = 3
    MaxCrashes = 1
INVARIANTS
    OneWorkerPerSession
    RunningHasWorker
PROPERTIES
    SlotIsFreed
    SubmitIsAnswered
