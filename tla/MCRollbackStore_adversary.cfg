SPECIFICATION Spec
CONSTANTS
    n1 = n1
    n2 = n2
    n3 = n3
    Origins = {"a", "b"}
    Heads <- MCHeads
    Follows <- MCFollows
    NoNote = NoNote
    BadNote = BadNote
    NoBlob = NoBlob
    Nonces <- MCNonces3
    MaxGen = 3
    Planted <- NoPlanted
    Faults = {"tamper", "slotRead", "slotWrite", "anchorRead", "anchorWrite"}
SYMMETRY NonceSymmetry
INVARIANTS TypeOK StoreInv NoSplitView ServesCommitted
PROPERTY ImplementsConsistentView
