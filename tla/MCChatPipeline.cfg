SPECIFICATION Spec

CONSTANTS
    Sids = {s1, s2}
    NoSession = NoSession
    TTL = 1
    MaxSessions = 1
    SendTo = {s1, s2}
    Reqs = {q1, q2, q3}
    Styles = {"anthropic_stream"}
    Answers = {"text"}
    MaxTime = 2

SYMMETRY Symmetry

CHECK_DEADLOCK FALSE

INVARIANTS
    AnsweredIsRemembered
    FailureLeavesNoTrace
    ForgottenIsNotForwarded
    FullHistoryNotDoubled

PROPERTIES
    KeepsConversations
