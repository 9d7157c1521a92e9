SPECIFICATION Spec
CONSTANTS
    None = None
    Users = {u1}
    Sessions = {s1, s2}
    Handlers = {h1, h2}
    MaxSecond = 1
    MaxPassword = 3
SYMMETRY Symmetry
INVARIANTS
    TypeOK
    SignedOutIsRefused
    PasswordTold
PROPERTIES
    ImplementsSessionBook
\* Sessions and passwords run out.
CHECK_DEADLOCK FALSE
