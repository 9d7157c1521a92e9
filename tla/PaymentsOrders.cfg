SPECIFICATION Spec
CONSTANTS
    None = None
    a1 = a1
    a2 = a2
    course = course
    guide = guide
    e1 = e1
    e2 = e2
    h1 = h1
    h2 = h2
    u1 = u1
    u2 = u2
    Users = {a1, a2}
    Emails = {e1, e2}
    Items = {guide}
    Uuids = {u1, u2}
    Millis = {}
    Requests = {h1, h2}
    Callbacks = {}
    Transactions = {}
    Bearers = {"token"}
    Moves = {"register", "grant", "unlist", "readdress", "revoke"}
    MaxFaults = 0
    ProductTypeOf <- MCProductTypeOf
SYMMETRY Symmetry
INVARIANTS
    TypeOK
    OrderInTurn
\* A server without requests, reports or callbacks may wait for ever.
CHECK_DEADLOCK FALSE
