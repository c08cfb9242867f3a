SPECIFICATION Spec
CONSTANTS
    owner = owner
    member = member
    newcomer = newcomer
    Users = {owner, member, newcomer}
    Owner = owner
    Members = {owner, member}
    NetworkPartners = {newcomer}
    NoOne = NoOne
    Threads = {t1, t2}
    UpdateLists <- MCLists
    RoleLists <- MCRoles
    InviteLevels <- MCInvites
    MaxServed = 3
SYMMETRY Symmetry
INVARIANTS
    NobodyStripped
    OnlyHoldersAreTold
PROPERTIES
    RequestsEndWhole

\* MaxServed requests were served.
CHECK_DEADLOCK FALSE
