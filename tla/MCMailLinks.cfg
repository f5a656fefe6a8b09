CONSTANTS
    User = {u1, u2}
    Request = {r1, r2}
    NoUser = NoUser
    MaxLinks = 4
SYMMETRY Symmetry
SPECIFICATION Spec
INVARIANTS TypeOK UsedLinkIsDead PendingLinkIsFresh LastMailActivates
