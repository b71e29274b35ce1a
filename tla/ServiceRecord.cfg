\* Every sequence of up to four POSTs, and DELETEs.
SPECIFICATION Spec
CONSTANTS
    Local = "local"
    None = None
    NoEntry = NoEntry
    Panic = Panic
    Values <- MCValues
    Bodies <- MCBodies
    MaxPosts = 4
INVARIANTS
    LastWriterWins
    ProvidersMerged
    RetryHarmless
    LookupNeverPanics
PROPERTIES
    ListingKept
