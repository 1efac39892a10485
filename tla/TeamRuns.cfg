\* Up to four runs of one session, at most one of them over before the others
\* start, beside teams of the queue under the same session id.
SPECIFICATION FairSpec
CHECK_DEADLOCK FALSE
CONSTANTS
    r0 = r0
    r1 = r1
    r2 = r2
    r3 = r3
    Runs = {r0, r1, r2, r3}
    Specialists = {"analyst", "executor"}
    Coordinator = "coordinator"
    Worker = worker
    WorkerRoles = {"analyst", "executor"}
    Texts = {r1, worker}
    Mixes <- MCMixes
    MaxFaults = 2
INVARIANTS
    RunIsWhole
    ExactUnlessMet
    MemoriesAgree
PROPERTIES
    EveryRunEnds
