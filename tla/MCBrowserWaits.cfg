\* No symmetry: what is waited for is a question of liveness.
CONSTANTS
    q1 = q1
    q2 = q2
    q3 = q3
    Query = {q1, q2, q3}
    Default = q1
    Unborn = q3
    BatchSize = 1
    MaxSchemaRequests = 2
    MaxForms = 2
    Person = {p1}
    NoRole = NoRole
    MaxUserRequests = 2
    DbServer = {s1, s2}
    MaxServerRequests = 2
SPECIFICATION WaitsSpec
INVARIANTS
    WaitsTypeOK
    
    ListsRight
PROPERTIES
    WaitingEnds
CHECK_DEADLOCK FALSE
