CONSTANTS
    Clients = {c1, c2}
    None = None
    N = 2
    BACKLOG = 1
    Reqs <- MCReqs
SPECIFICATION PatientSpec
INVARIANTS TypeOK IdleIsClean PinsFollow
PROPERTIES LedsAreARegister EveryConnectionEnds
CHECK_DEADLOCK FALSE
