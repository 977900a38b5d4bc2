SPECIFICATION Spec
CONSTANTS
    GridTs = {1, 2, 3, 5}
    AudioLens = {0, 1, 2, 7, 13, 14, 26, 40, 70}
    SecsPerGrid <- MCSecs
    VideoTokens = {4}
    PosPerSec = 13
    t1 = t1
    t2 = t2
    pyav = pyav
    decord = decord
    utils = utils
    qwen = qwen
    Threads = {t1, t2}
    Backends = {pyav, decord}
    Modules = {utils, qwen}
    Samples <- MCSamples
    MaxMedia <- MCMaxMedia
    MaxBatch = 2
INVARIANTS
    AudioPartition
    AudioInItsGrid
    OwnLoaders
    LoadersRestored
    EveryMediumPlacedOnce
    MediaInTextOrder
    ReturnsExactlyOnMatch
PROPERTY
    LockComesFree
