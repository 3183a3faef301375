CONSTANTS
    Pages = {p1, p2}
    N = 1
    Slots = {s1}
    MaxClicks = 2
    None = None
SPECIFICATION Spec
INVARIANTS TypeOK CalmPageIsFaithful
PROPERTY SetLedEnds
