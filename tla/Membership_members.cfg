SPECIFICATION Spec
CONSTANTS
    Users = {u1, u2}
    NetworkPartners = {u2}
    Inventory = inventory
    Analyses = {analysis}
    Invitable = {u1, u2}
    RequestIds = {}
    RoleLists <- MCRoleLists
    NoOne = NoOne
INVARIANTS
    TypeOK
    NeverOrphaned
PROPERTIES
    CallbacksSettled
    FacilitatorProvenance
    PromotionAnnounced
    InvitedGetsRole
VIEW Database

\* Facilitators may demote themselves until nobody can act on the tool.
CHECK_DEADLOCK FALSE
