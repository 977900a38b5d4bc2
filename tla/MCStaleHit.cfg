SPECIFICATION Spec
CONSTANTS
    Parts = {"pool"}
    Reqs <- MCReqs
    Prompt <- MCPrompt
    NumBlocks = 4
    BlockSize = 2
    MaxInFlight = 2
    Workloads <- MCPriority
    ListSize = 4
    HashScenario = "apart"
    Requests <- MCRequests
    Tokens <- MCTokens
    PromptLen <- MCPromptLen
    Features <- MCFeatures
    Lora <- MCLora
    Salt <- MCSalt
    HashBlockSize = 3
    MaxOut = 2
INVARIANT
    HitsAreComputed
