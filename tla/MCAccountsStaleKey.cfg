CONSTANTS
    User = {u1}
    Server = {s1, s2}
    Token = {t1, t2}
    Password = {p1, p2}
    Blank = Blank
    NewPassword = {p1, p2}
    Request = {r1, r2}
    NoUser = NoUser
    NoPassword = NoPassword
    NoServer = NoServer
SYMMETRY Symmetry
SPECIFICATION Spec
INVARIANTS KeyOfLoginPassword
