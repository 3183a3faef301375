CONSTANTS
    Calls = {r1, r2, r3}
    QUEUE = 1
    Kinds = {"sync", "timed", "async", "empty"}
    TRIES = 2
    Server = Server
    None = None
SPECIFICATION Spec
INVARIANTS TypeOK NoUseAfterFree SentBuffersReclaimed OkMeansHandled
PROPERTIES CallsReturn
CHECK_DEADLOCK FALSE
