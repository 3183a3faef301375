CONSTANTS
    Keys = {a, b}
    Vals = {v, w}
    Groups = {{a, b}}
    Tasks = {t1}
    SIZE = 3
    MAXLEN = 2
    Faults = {"power"}
    MaxFaults = 1
    MaxSem = 1
    MaxPosting = 1
    Gc = Gc
    None = None
SPECIFICATION Spec
INVARIANTS Persistent
CHECK_DEADLOCK FALSE
