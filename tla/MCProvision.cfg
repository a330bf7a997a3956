SPECIFICATION FairProvisionSpec
CONSTANTS
    s1 = s1
    s2 = s2
    Sessions = {s1, s2}
    Origins = {"a"}
    Heads <- MCHeads
    Follows <- MCFollows
    SizeOf <- MCSizeOf
    EmptyHead <- EmptyTree
    NoNote = NoNote
    None = None
    NoSigner = NoSigner
    Signers = {"k1", "k2", "k3"}
    Requests <- Growth
    Clients = {"c"}
    MaxPoolSize = 1
    MaxEpoch = 3
    MayStop = FALSE
INVARIANTS NeverSignsWithZeroedKey OnlyInstalledKeyLives
PROPERTY SessionsFinish
