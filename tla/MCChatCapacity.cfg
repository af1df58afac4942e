SPECIFICATION Spec

CONSTANTS
    Sids = {s1, s2, s3}
    NoSession = NoSession
    TTL = 1
    MaxSessions = 2
    SendTo = {s1, s2, s3}
    Reqs = {q1, q2, q3}
    Styles = {"openai_stream"}
    Answers = {"text"}
    MaxTime = 2

SYMMETRY Symmetry

CHECK_DEADLOCK FALSE

INVARIANTS
    AnsweredIsRemembered
    CapacityHolds

PROPERTIES
    EvictsOnlyOldest
