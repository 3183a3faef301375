CONSTANTS
    Plots = {ch0, bat}
    MAX_SAMPLES = 2
    Samples = {s1, s2}
    MaxFetches = 5
    MaxStarts = 2
    Bad = Bad
    Null = Null
SPECIFICATION AdcSpec
INVARIANTS AdcTypeOK SeriesContinues LastPointIsLastReading
SYMMETRY TabSymmetry
