SPECIFICATION Spec
CONSTANTS
    r1 = r1
    r2 = r2
    w1 = w1
    w2 = w2
    Readers = {r1, r2}
    Writers = {w1, w2}
    Fields = {"system_prompt"}
    Mixes <- RaceMixes
    MaxVersion = 2
    MaxGeneration = 1
    MaxFaults = 0
INVARIANTS
    InvalidationIsRaceSafe
