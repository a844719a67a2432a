CONSTANTS
    k1 = k1  k2 = k2  k3 = k3
    short = short  long = long  huge = huge
    NoSet = NoSet
    Miss = Miss
    NoGet = NoGet
    LargestEntry = 136
    CacheSize = 136
    MaxChain = 1
    MaxTTL = 2
    TTLs = {1}
    Times = {0, 2}
    Keys = {k1, k2, k3}
    KeyLen <- MCKeyLen
    Data = {short, huge}
    DataLen <- MCDataLen
    RawHash <- MCRawHash
    BitXor <- MCXor
SPECIFICATION Spec
INVARIANTS RingOK ChainsOK GetIsNewest
PROPERTIES FifoSpec SetAdvances
