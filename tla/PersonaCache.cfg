\* Two changes of the persona and two invalidations under reads for ever.
SPECIFICATION FairSpec
CONSTANTS
    r1 = r1
    r2 = r2
    w1 = w1
    w2 = w2
    Readers = {r1, r2}
    Writers = {w1, w2}
    Fields = {"system_prompt", "sampling"}
    Mixes <- MCMixes
    MaxVersion = 3
    MaxGeneration = 2
    MaxFaults = 1
INVARIANTS
    TypeOK
    StaleOnlyByRace
PROPERTIES
    EventuallyFresh
