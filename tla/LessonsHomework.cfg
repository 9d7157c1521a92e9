SPECIFICATION Spec
CONSTANTS
    f1 = f1  h1 = h1  h2 = h2  l1 = l1  l2 = l2
    LessonIds = {l1, l2}
    Files = {f1}
    Handlers = {h1, h2}
    Bodies <- MCBodies
    Failing = {f1}
    MaxCopies = 2
    None = None
INVARIANT RecordedIsListed
CHECK_DEADLOCK FALSE
SYMMETRY Symmetric
