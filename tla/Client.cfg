SPECIFICATION FairSpec
CONSTANTS
    Entries = {e1, e2}
    Contexts = {c1, c2}
    Updates = {u1, u2}
    Users = {q1}
    None = None
    Faults = 3
INVARIANTS
    TypeOK
PROPERTIES
    KilledByItsOwnUser
    Recovers
    UsersEnd
CHECK_DEADLOCK FALSE
