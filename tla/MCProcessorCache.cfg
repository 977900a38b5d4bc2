SPECIFICATION Spec
CONSTANTS
    a = a
    b = b
    c = c
    d = d
    Keys <- MCKeys
    Size <- MCSize
    Capacity = 3
    Scenarios <- MCScenarios
INVARIANTS
    CacheTypeOK
    ReceiverMirrorsSender
    EvictionEnds
PROPERTIES
    PromptStaysCached
CHECK_DEADLOCK FALSE
