SPECIFICATION Spec
CONSTANTS
    Base = 8
    ShortLen = 1
    LongLen = 2
    TagLen = 2
    SlotSize = 24
    Devices <- AllDevices
    Generations <- SomeGenerations
    Nonces = {1}
    StateMaps <- SomeStates
    MaxProofLines = 2
    OldSizes = {0, 2}
    Hashes = {1, 2}
    Notes <- SomeNoteLines
    Lines <- SomeLines
    MaxBodyLines = 5
    LogRingLines = 4
    Messages = {"a", "b"}
    SelftestOrigin = "selftest"
    UnknownOrigin = "unknown"
    Origins = {"selftest", "unknown"}
    Heads <- ScriptHeads
    Follows <- MCFollows
    SizeOf <- MCSizeOf
    EmptyHead <- EmptyTree
    NoNote = NoNote
INVARIANTS SlotsApart SlotsReadBack RequestsRoundTrip LogzShowsNewest LedsTellState SelftestPassesOnce ManifestReplays
