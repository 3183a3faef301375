CONSTANTS
    CHUNK = 2
    MAXLEN = 7
    ATTEMPTS = 3
SPECIFICATION Spec
INVARIANTS TypeOK ReadAllStaysInside InfoLeavesNothing LookupsAreIndependent
PROPERTY InfoAnswers
