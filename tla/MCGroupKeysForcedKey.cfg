SPECIFICATION Spec
CONSTANTS
    User = {u1, u2}
    Group = {g1}
    Server = {s1}
    Password = {p1, p2}
    Blank = Blank
    Key = {k1, k2}
    NoKey = NoKey
    NoGroup = NoGroup
    MaxKeypairs = 2
SYMMETRY Symmetry
INVARIANTS
    GroupKeyOpensServers
