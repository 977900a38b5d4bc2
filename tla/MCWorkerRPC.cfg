SPECIFICATION Spec
CONSTANTS
    World = 2
    Output = 0
    MaxFutures = 2
    Scenarios <- MCScenarios
INVARIANTS
    AnswersAreOwn
    AnswersInOrder
PROPERTIES
    EveryWaitEnds
CHECK_DEADLOCK FALSE
