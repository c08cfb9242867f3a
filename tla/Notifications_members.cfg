SPECIFICATION FairSpec
CONSTANTS
    Users = {u1, u2}
    Workers = {w1, w2}
    Initial = {u1}
    Invitable = {u1, u2}
    Completed = {}
    Assessment = FALSE
    MaxJobs = 2
    MaxFaults = 1
    MaxAttempts = 2
    NoOne = NoOne
PROPERTIES
    EveryParticipantInvited

\* With its bounds used up and its queue empty the system rests.
CHECK_DEADLOCK FALSE
