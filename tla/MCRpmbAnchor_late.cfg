SPECIFICATION RpmbSpec
CONSTANTS
    h1 = h1
    h2 = h2
    Hashes = {h1, h2}
    NoHash = NoHash
    Keys = {"unit"}
    NoKey = NoKey
    NoFrame = NoFrame
    UnitKey = "unit"
    MaxGen = 2
    MaxDraws = 5
    Faults = {"lost", "late"}
SYMMETRY HashSymmetry
INVARIANT SuccessMeansAnchored
