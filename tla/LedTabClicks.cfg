CONSTANTS
    Pages = {p1}
    N = 1
    Slots = {s1}
    MaxClicks = 2
    None = None
SPECIFICATION Spec
INVARIANT ClicksAreCoalesced
CHECK_DEADLOCK FALSE
