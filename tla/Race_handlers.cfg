SPECIFICATION Spec
CONSTANTS
    Users = {u1, u2}
    Inventory = inventory
    Threads = {t1, t2}
    MaxRows = 3
    Posted <- MCPosted
    RoleLists <- MCRoleLists
    NoOne = NoOne
SYMMETRY Alike
INVARIANTS
    RowsBounded
PROPERTIES
    ImplementsAtomic
VIEW Served

\* Facilitators may give up their role until nobody can act.
CHECK_DEADLOCK FALSE
