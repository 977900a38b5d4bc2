SPECIFICATION Spec
CONSTANTS
    MergeScenario = "vocal"
    rank1 = rank1
    rank2 = rank2
    rank3 = rank3
    Ranks <- MCRanks
    ConvChunk = 2
    Layers = 3
    Batches <- MCBatches
    MergeReqs <- MCMergeReqs
    MergeItems <- MCMergeItems
    MergeLen <- MCMergeLen
    Setups <- MCSetups
    Reqs <- MCReqs
    Items <- MCItems
    Runners <- MCRunners
    MaxGen = 2
    MaxChunk = 4
    Convs = {c1, c2}
    Prompts <- MCPrompts
    Turns <- MCTurns
    Pads = {0, 2}
    MaxLen = 4
INVARIANTS
    CollectivesAligned
    OwnRowsBack
    RowsInPlace
    
    TokenKeepsPosition
    PositionsAsDocumented
    ConversationAsDocumented
