\* Sessions of two users; the rest as small as its interesting cases allow.
CONSTANTS
    u1 = u1
    u2 = u2
    User <- MCUser
    NoUser = NoUser
    MaxToken = 2
    MaxRequests = 2
    s1 = s1
    s2 = s2
    d1 = d1
    d2 = d2
    Server <- MCServer
    NoServer = NoServer
    Db <- MCDb
    NoDb = NoDb
    Databases <- MCDatabases
    InitDb <- MCInitDb
    MaxBenchRequests = 2
    Base = {b1, b2}
    NoBase = NoBase
    MaxTabs = 2
    MaxReloads = 1
    MaxRuns = 3
    c1 = c1
    c2 = c2
    k1 = k1
    k2 = k2
    Connection <- MCConnection
    Incomplete = Incomplete
    Saved = c1
    Catalog <- MCCatalog
    NoCatalog = NoCatalog
    DatabasesOf <- MCDatabasesOf
    MaxFormRequests = 2
    Group = {g1}
    NoGroup = NoGroup
    MaxGroupRequests = 2
    LogQuery = {q1, q2}
    Unrun = q2
    MaxLogRequests = 2
    Scope = {p1, p2}
    NoScope = NoScope
    Entry = {e1, e2}
    NoEntry = NoEntry
    MaxCopyTimers = 3
    LoadedRows = 12
    Threshold = 2
    PageRows = 2
    Lengths = {3, 13, 30}
    Schemas <- MCSchemas
    PrimaryKey <- MCPrimaryKey
    ColumnPath <- MCColumnPath
    PrimaryConstraint = {pk}
    ReferenceConstraint = {f1}
    NoConstraint = NoConstraint
    MaxStructureRows = 3
    MaxColumns = 2
    MaxRows = 1
    MaxChars = 3
SPECIFICATION TabSpec
SYMMETRY Symmetry
INVARIANTS
    TabTypeOK
    SessionIsWhole
    IdentityAgrees
    WorkbenchAgrees
    EditorsAgree
    FormAgrees
    ListsAgree
    ShortLivedWatched
    ResultsReadable
    TreeAgrees
CHECK_DEADLOCK FALSE
