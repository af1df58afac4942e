SPECIFICATION Spec

CONSTANTS
    Sids = {s1}
    NoSession = NoSession
    TTL = 1
    MaxSessions = 1
    SendTo = {s1}
    Reqs = {q1, q2}
    Styles = {"openai_stream"}
    Answers = {"text", "call"}
    MaxTime = 0

SYMMETRY Symmetry

CHECK_DEADLOCK FALSE

INVARIANTS
    FullHistoryIsAuthority
