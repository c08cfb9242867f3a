SPECIFICATION Spec
CONSTANTS
    Questions = {q1}
    Answers = {a1}
    Roles = {teacher}
    Docs = {"response", "consensus", "analysis"}
    Existing = {"response", "consensus"}
    MaxRequests = 2
    MaxActs = 4
    MaxFaults = 1
    None = None
INVARIANTS
    ShownWasHeld
    QuietMeansStored
    ContextFollowsPage

\* The bounds on clicks and failures end every behaviour.
CHECK_DEADLOCK FALSE
