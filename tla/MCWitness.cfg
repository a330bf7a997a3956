SPECIFICATION WitnessSpec
CONSTANTS
    c1 = c1
    c2 = c2
    s1 = s1
    s2 = s2
    Origins = {"a", "b"}
    Heads <- MCHeads
    Follows <- MCFollows
    SizeOf <- MCSizeOf
    EmptyHead <- EmptyTree
    NoNote = NoNote
    None = None
    NoSigner = NoSigner
    Signers = {s1, s2}
    Requests <- AllKinds
    Clients = {c1, c2}
    MaxPoolSize = 2
    MaxEpoch = 3
    MayStop = TRUE
SYMMETRY WitnessSymmetry
INVARIANTS WitnessTypeOK AnswersSound PendingExtendsStore WaitersTracked SignerInUseIsInstalled
PROPERTY ImplementsConsistentView
