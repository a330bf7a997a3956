SPECIFICATION Spec
CONSTANTS
    n1 = n1
    n2 = n2
    n3 = n3
    Origins = {"a"}
    Heads <- MCHeads
    Follows <- MCFollows
    NoNote = NoNote
    BadNote = BadNote
    NoBlob = NoBlob
    Nonces <- MCNonces3
    MaxGen = 3
    Planted <- NoPlanted
    Faults = {"anchorWrite"}
SYMMETRY NonceSymmetry
INVARIANT ServedIsAnchored
