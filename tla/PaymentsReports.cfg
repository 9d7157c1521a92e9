SPECIFICATION Spec
CONSTANTS
    None = None
    a1 = a1
    course = course
    e1 = e1
    guide = guide
    h1 = h1
    u1 = u1
    w1 = w1
    w2 = w2
    Users = {a1}
    Emails = {e1}
    Items = {guide}
    Uuids = {u1}
    Millis = {}
    Requests = {h1}
    Callbacks = {w1, w2}
    Transactions = {"Approved", "Declined"}
    Bearers = {"token", "none"}
    Moves = {"register", "discount", "unsigned"}
    MaxFaults = 1
    ProductTypeOf <- MCProductTypeOf
INVARIANTS
    DecidedByProvider
    AnnouncedAfterSaved
    AckedIsRecorded
    StatusReflectsTransaction
PROPERTIES
    ImplementsOrderBook
\* A server without requests, reports or callbacks may wait for ever.
CHECK_DEADLOCK FALSE
