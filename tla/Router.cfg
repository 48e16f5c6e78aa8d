SPECIFICATION Spec
CONSTANTS
    Models = {m1, m2, m3}
    MaxPrompt = 3
    Thresholds <- SmallThresholds
    SizeT = 16
SYMMETRY ModelSymmetry
INVARIANTS
    StaysLocalIfShortAndNormal
    LoadedConfigurationServes
