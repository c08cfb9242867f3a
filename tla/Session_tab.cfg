SPECIFICATION SessionSpec
CONSTANTS
    Members = {ann}
    Newcomers = {bob}
    Pages <- MCPages
    MaxUpsets = 1
    MaxHaste = 1
    Null = Null

INVARIANTS
    SessionTypeOK
    SeenIsServed
PROPERTIES
    GuardedPagesHaveUser
    SignsInOnRequest
