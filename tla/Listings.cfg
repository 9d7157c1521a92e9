SPECIFICATION ListSpec
CONSTANTS
    Routes <- MCRoutes
    Limits = {1, 2}
    Statuses = {"PUBLISHED", "ARCHIVE"}
    Asked <- MCAsked
    MaxDocuments = 3
INVARIANTS NothingMissed NoneTwice CountersAgree
CHECK_DEADLOCK FALSE
