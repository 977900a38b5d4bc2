SPECIFICATION FairMMSpec
CONSTANTS
    r1 = r1
    r2 = r2
    r3 = r3
    a = a
    b = b
    c = c
    d = d
    e = e
    Reqs = {r1, r2, r3}
    Hashes = {a, b, c, d, e}
    Size <- StallSize
    CacheSize = 4
    Prio <- Priorities
    TokenBudget = 4
    EncoderBudget = 4
    Configs <- StallOnly
PROPERTY
    EventuallyCatchesUp
