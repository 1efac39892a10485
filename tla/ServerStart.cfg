\* Two processes that start and stop, over two presets and two roles.
SPECIFICATION FairSpec
CONSTANTS
    s1 = s1
    s2 = s2
    s3 = s3
    Servers = {s1, s2}
    Presets <- MCPresets
    Roles <- MCRoles
    MaxRows = 2
    MaxFaults = 1
INVARIANTS
    UpMeansSeeded
    RestartsAreIdempotent
PROPERTIES
    ComesUp
