SPECIFICATION Spec
CONSTANTS
    Entries = {e1, e2}
    Vals = {v1, v2}
    MaxUpsets = 1
    New = New
SYMMETRY Interchangeable

INVARIANTS
    TypeOK
    ListFollows
PROPERTIES
    SavesOnlyEdits
    OnlyRestoringRevives
