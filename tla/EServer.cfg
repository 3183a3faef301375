CONSTANTS
    Clients = {c1, c2}
    None = None
    N = 2
    ValLists <- MCValLists
SPECIFICATION Spec
INVARIANTS TypeOK UndisturbedPostEchoes
PROPERTIES SilentClientIsHarmless
