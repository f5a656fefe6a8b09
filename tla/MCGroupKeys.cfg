SPECIFICATION Spec
CONSTANTS
    User = {u1, u2, u3}
    Group = {g1}
    Server = {s1, s2}
    Password = {p1}
    Blank = Blank
    Key = {k1, k2}
    NoKey = NoKey
    NoGroup = NoGroup
    MaxKeypairs = 2
SYMMETRY Symmetry
INVARIANTS
    TypeOK
    KeyAgreement
    OutdatedFlagExact
    PublicPasswordsReadable
PROPERTIES
    AdminsKept
    BlankingIsComplete
    RekeyReachesMembers
    SharesSecret
