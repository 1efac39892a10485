\* Three requests on two agents and one session id.
SPECIFICATION FairSpec
CHECK_DEADLOCK FALSE
CONSTANTS
    r1 = r1
    r2 = r2
    r3 = r3
    r4 = r4
    a1 = a1
    a2 = a2
    s1 = s1
    s2 = s2
    Requests = {r1, r2, r3}
    Agents = {a1, a2}
    Sids = {s1}
    HistoryLimit = 1
    MaxMessages = 6
INVARIANTS
    NoDangling
    TurnIsWhole
    CountExactUnlessRaced
    ContextIsTranscript
PROPERTIES
    EveryRequestEnds
