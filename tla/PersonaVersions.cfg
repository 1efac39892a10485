\* Three updates of one persona, beside everything else that writes it.
SPECIFICATION Spec
CHECK_DEADLOCK FALSE
CONSTANTS
    p1 = p1
    p2 = p2
    v1 = v1
    v2 = v2
    w1 = w1
    w2 = w2
    w3 = w3
    Personas = {p1}
    Writers = {w1, w2, w3}
    Target <- MCTarget
    Values = {v1, v2}
    MaxVersion = 4
    MaxTunes = 1
SYMMETRY Symmetry
INVARIANTS
    VersionHistory
    ConflictOnlyBesideUnlocked
PROPERTIES
    AcceptedIsApplied
