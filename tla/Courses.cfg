SPECIFICATION Spec
CONSTANTS
    c1 = c1  f1 = f1  h1 = h1  h2 = h2  k1 = k1  k2 = k2
    CourseIds = {c1}
    Covers = {k1, k2}
    Files = {f1}
    Handlers = {h1, h2}
    Sent <- MCSent
    Failing = {k1, f1}
    MaxCopies = 2
    MaxFailures = 1
    None = None
INVARIANTS UploadsKept MaterialsMatch  ContractAsAsked
CHECK_DEADLOCK FALSE
SYMMETRY Symmetric
