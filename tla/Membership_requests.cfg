SPECIFICATION Spec
CONSTANTS
    Users = {u1, u2}
    NetworkPartners = {u2}
    Inventory = inventory
    Analyses = {}
    Invitable = {u2}
    RequestIds = {1}
    RoleLists <- MCRoleLists
    NoOne = NoOne
PROPERTIES
    FacilitatorProvenance
VIEW Database

\* Facilitators may demote themselves until nobody can act on the tool.
CHECK_DEADLOCK FALSE
