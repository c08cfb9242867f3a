SPECIFICATION Spec
CONSTANTS
    Assessments = {as}
    Others = {in1}
    Users = {u1, u2}
    Initial = {u1}
    NetworkPartners = {u2}
    OtherRoles <- MCOtherRoles
    MaxActs = 2
    MaxForeign = 1
    MaxFaults = 1
    MaxNet = 1
    None = None

INVARIANTS
    TypeOK
    ListShowsOwnChanges
    GrantArrives
    MembersWereChosen
PROPERTIES
    OnlyTickedChange

\* The bounds on clicks, failures and others' changes end every behaviour.
CHECK_DEADLOCK FALSE
