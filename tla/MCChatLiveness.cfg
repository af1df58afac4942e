SPECIFICATION FairSpec

CONSTANTS
    Sids = {s1}
    NoSession = NoSession
    TTL = 1
    MaxSessions = 1
    SendTo = {s1, NoSession}
    Reqs = {q1, q2}
    Styles = {"openai", "anthropic_stream"}
    Answers = {"text", "call", "thought"}
    MaxTime = 2

CHECK_DEADLOCK FALSE

INVARIANTS
    TypeOK

PROPERTIES
    StaleIsSwept
