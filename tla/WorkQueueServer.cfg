\* Production: two server processes and one tick request over two tasks, with
\* crashes, outages and database errors, under the fairness of the polling loop.
SPECIFICATION FairSpec
CONSTANTS
    Tasks = {1, 2}
    Roles = {"analyst", "executor"}
    Daemons = {d1, d2}
    Requests = {q1}
    Clients = {}
    MaxFaults = 2
CHECK_DEADLOCK FALSE
INVARIANTS
    TypeOK
    OneOwner
    OneOutcome
    InstructedOncePerAttempt
PROPERTIES
    SettledIsFinal
    ImplementsBoard
    QueuedIsSettled
