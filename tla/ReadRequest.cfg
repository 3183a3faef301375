CONSTANTS
    CAP = 9
    WORD = 40
    Requests <- MCRequests
SPECIFICATION Spec
INVARIANTS TypeOK BufferSafe ChunkIndependent
PROPERTY Terminates
CHECK_DEADLOCK FALSE
