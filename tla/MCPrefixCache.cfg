SPECIFICATION Spec
CONSTANTS
    Parts = {"pool", "list", "hash"}
    Reqs <- MCReqs
    Prompt <- MCPrompt
    NumBlocks = 4
    BlockSize = 2
    MaxInFlight = 2
    Workloads <- MCWorkloads
    ListSize = 4
    HashScenario = "apart"
    Requests <- MCRequests
    Tokens <- MCTokens
    PromptLen <- MCPromptLen
    Features <- MCFeatures
    Lora <- MCLora
    Salt <- MCSalt
    HashBlockSize = 3
    MaxOut = 2
INVARIANTS
    PoolConsistent
    CacheClosedUnderPrefix
    EqualHashEqualPrefix
    ResumedAsFromScratch
PROPERTIES
    EveryRequestHasItsOwnCache
    ListImplementsQueue
