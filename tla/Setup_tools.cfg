SPECIFICATION Spec
CONSTANTS
    Assessments = {a1, a2}
    Inventories = {i1}
    Analyses = {n1}
    Districts = {d1, d2, d3}
    MyDistricts = {d1, d2}
    FirstDistrict = d1
    Elsewhere = {d3}
    Made = {a1, i1}
    Dates = {m1, m2}
    MaxActs = 2
    MaxFaults = 1
    None = None
SYMMETRY SetupSymmetry
INVARIANTS
    ReportsOwnSaves
    AssignedWhenConfirmed
    DistrictWasOffered
    ScheduleWasSaved

\* The bounds on clicks and failures end every behaviour.
CHECK_DEADLOCK FALSE
