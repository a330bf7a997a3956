SPECIFICATION BringUpSpec
CONSTANTS
    h1 = h1
    h2 = h2
    Hashes = {h1, h2}
    NoHash = NoHash
    Keys = {"unit", "dev", "zero", "other"}
    UnitKey = "unit"
    DevKey = "dev"
    ZeroKey = "zero"
    NoKey = NoKey
    NoFrame = NoFrame
    MaxGen = 2
    MaxDraws = 7
    Faults = {"lost", "stale", "duplicate"}
SYMMETRY HashSymmetry
INVARIANTS CounterWithinGenerations StatusTruthful FusedServesProtected
PROPERTIES KeyProgrammedOnce ImplementsAnchorRegister
