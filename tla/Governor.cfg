\* A pool worker and two HTTP calls on two jobs, of two families and one district.
SPECIFICATION FairSpec
CONSTANTS
    w1 = w1
    c1 = c1
    c2 = c2
    Workers = {w1}
    Calls = {c1, c2}
    Jobs = {"j1", "j3"}
    FamilyOf <- MCFamilyOf
    DistrictOf <- MCDistrictOf
    MaxGlobal = 2
    MaxFamily = 2
    MaxDistrict = 1
    MaxJob = 1
    StartStatuses = {"pending", "running"}
    MaxFaults = 2
INVARIANTS
    TypeOK
    SlotsAccounted
    CountersTruthful
    CapsRespected
PROPERTIES
    BatchesEnd
CHECK_DEADLOCK FALSE
