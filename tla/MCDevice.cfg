SPECIFICATION DeviceSpec
CONSTANTS
    c1 = c1
    c2 = c2
    n1 = n1
    n2 = n2
    Origins = {"a", "b"}
    Heads <- MCHeads
    Follows <- MCFollows
    SizeOf <- MCSizeOf
    EmptyHead <- EmptyTree
    NoNote = NoNote
    BadNote = BadNote
    NoBlob = NoBlob
    None = None
    NoSigner = NoSigner
    Nonces = {n1, n2}
    MaxGen = 3
    Planted <- NoPlanted
    Faults = {"tamper", "slotWrite", "anchorRead", "anchorWrite"}
    Signers = {"s1"}
    Requests <- MCRequests
    Clients = {c1, c2}
    MaxPoolSize = 1
    MaxEpoch = 1
    MayStop = FALSE
SYMMETRY DeviceSymmetry
INVARIANTS BatchExtendsStore NobodyLost AnswersSurviveReboot CommittedBlobKept
PROPERTIES DeviceKeepsPromise RebootResolves
