SPECIFICATION Spec
CONSTANTS
    c1 = c1
    c2 = c2
    Requests = {c1, c2}
    Mixes <- MCMixes
    MaxJobs = 3
    Paths = {"notes"}
    StartStatuses = {"pending", "completed"}
    EarlierStatuses = {"pending"}
    WaveSize = 2
    District = "viz"
    Notes = 0
    Batches <- MCBatches
    TeamCalls <- MCTeamCalls
    VizTypes = {"job.completed", "cohesion.veto"}
    Followed = {1}
    PageSize = 2
INVARIANTS
    ArtifactHistory
    StatusTold
    DecisionsToldWhole
PROPERTIES
    StreamNeverJumps
CHECK_DEADLOCK FALSE
