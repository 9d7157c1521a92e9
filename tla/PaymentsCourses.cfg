SPECIFICATION Spec
CONSTANTS
    None = None
    a1 = a1
    course = course
    guide = guide
    e1 = e1
    h1 = h1
    h2 = h2
    m1 = m1
    m2 = m2
    w1 = w1
    Users = {a1}
    Emails = {e1}
    Items = {course}
    Uuids = {}
    Millis = {m1, m2}
    Requests = {h1, h2}
    Callbacks = {w1}
    Transactions = {"Approved", "Declined", "InProcessing"}
    Bearers = {"token", "none"}
    Moves = {"enrol"}
    MaxFaults = 0
    ProductTypeOf <- MCProductTypeOf
SYMMETRY Symmetry
INVARIANTS
    CourseOrderInTurn
\* A server without requests, reports or callbacks may wait for ever.
CHECK_DEADLOCK FALSE
