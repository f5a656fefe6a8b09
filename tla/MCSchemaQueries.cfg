SPECIFICATION Spec
CONSTANTS
    Ada = Ada
    Bob = Bob
    q1 = q1
    q2 = q2
    q3 = q3
    s1 = s1
    s2 = s2
    r1 = r1
    r2 = r2
    User <- MCUser
    Admin <- MCAdmin
    Query <- MCQuery
    Server <- MCServer
    Request <- MCRequest
    Shared = Shared
    NoQuery = NoQuery
    NoUser = NoUser
    NoServer = NoServer
SYMMETRY Symmetry
INVARIANTS
    TypeOK
    OneDefault
PROPERTIES
    ReadersLostByRace
