SPECIFICATION Spec
CONSTANTS
    None = None
    Handlers = {h1, h2}
    Purchases = {p1, p2}
    MaxLessons = 2
    MaxPracticals = 1
    MaxRequests = 4
    Horizon = 2
    DateStart = 1
    DateEnd = 2
    Period = 1
    Forever = 9
INVARIANTS
    TypeOK
    AddedInTurn
    PracticesBounded
    MonthsGranted
    OpenWhileBought
SYMMETRY Symmetry

    
\* Requests, months and lessons are bounded.
CHECK_DEADLOCK FALSE
