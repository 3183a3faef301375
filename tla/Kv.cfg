CONSTANTS
    Keys = {a, b}
    Vals = {v, w}
    Groups = {{a, b}}
    Tasks = {t1, t2}
    SIZE = 3
    MAXLEN = 2
    Faults = {"power", "memory"}
    MaxFaults = 1
    MaxSem = 1
    MaxPosting = 1
    Gc = Gc
    None = None
SPECIFICATION Spec
SYMMETRY Symmetry
INVARIANTS TypeOK Durable OneLiveItem SpareBlock GarbageIsMarked OnlyLateWaitersStrand
CHECK_DEADLOCK FALSE
