SPECIFICATION FairFeedSpec
CONSTANTS
    c1 = c1
    c2 = c2
    f1 = f1
    f2 = f2
    s1 = s1
    s2 = s2
    Origins = {"a"}
    LogOrigin = "a"
    Heads <- MCHeads
    Chain <- MCChain
    Follows <- MCFollows
    SizeOf <- MCSizeOf
    EmptyHead <- EmptyTree
    NoNote = NoNote
    None = None
    NoSigner = NoSigner
    Signers = {s1}
    Requests <- MCRequests
    Clients = {c1, c2}
    Feeders = {f1}
    MaxPoolSize = 1
    MaxEpoch = 2
    MayStop = FALSE
PROPERTIES FeedConverges RequestsAnswered
