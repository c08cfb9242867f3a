SPECIFICATION Spec
CONSTANTS
    Users = {u1, u2}
    Workers = {w1, w2}
    Initial = {u1}
    Invitable = {u2}
    Completed = {u1}
    Assessment = TRUE
    MaxJobs = 3
    MaxFaults = 1
    MaxAttempts = 2
    NoOne = NoOne
INVARIANTS
    TypeOK
    DuplicatesBounded
PROPERTIES
    ImplementsDelivery
    StartsOnParticipants
SYMMETRY WorkerSymmetry

\* With its bounds used up and its queue empty the system rests.
CHECK_DEADLOCK FALSE
