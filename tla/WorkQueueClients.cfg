\* Clients that commit every call, beside two daemons: claims can lapse.
SPECIFICATION Spec
CONSTANTS
    Tasks = {1, 2}
    Roles = {"analyst"}
    Daemons = {d1, d2}
    Requests = {}
    Clients = {c1, c2}
    MaxFaults = 2
SYMMETRY WorkerSymmetry
CHECK_DEADLOCK FALSE
INVARIANTS
    QueueInv
PROPERTIES
    SettledIsFinal
