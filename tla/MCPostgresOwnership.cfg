SPECIFICATION Spec
CONSTANTS
    c1 = c1
    c2 = c2
    t1 = t1
    t2 = t2
    Callers = {c1, c2}
    TransitionIds = {t1, t2}
    ExpectedVersions = {AnyVersion, 0, 1}
    Requests <- MCRequests
    NoTransition = NoTransition
    AnyVersion = AnyVersion
    NotLogged = NotLogged
    NoRequest = NoRequest
    NoReply = NoReply
    Conflict = Conflict
    Failed = Failed
    NoRow = NoRow
    Nobody = Nobody
INVARIANTS IInv HistoryIsGapFree ExpectedVersionHonoured RetriesAgree
PROPERTIES HumanKeepsConversation ImplementsStore EveryCallAnswered
