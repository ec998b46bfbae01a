SPECIFICATION MountSpec
CONSTANTS
    t1 = t1  t2 = t2  f = f  g = g
    c1 = c1  c2 = c2  h1 = h1  h2 = h2
    p1 = p1  p2 = p2  p3 = p3  p4 = p4  NULL = NULL
    Threads = {t1}
    Paths = {f, g}
    Contents = {c1, c2}
    Hashes = {h1, h2}
    HashOf <- MCHashOf
    Infos = {p1, p2, p3, p4}
    BLOCK_SIZE = 2
    RefcountLimit = 8
    Requests <- SequentialRequests
    SerializePaths = TRUE
    MaxBlocks = 2
    MaxSlots = 8
    MaxRequests = 5
    PwriteFails = TRUE
    SaveFails = FALSE
    Crashes = FALSE
    MaxMounts = 3
SYMMETRY InfoSymmetry
INVARIANTS
    NoDanglingInfo
    RefcountExact
    SlotsOwned
    BlocksMatchHash
PROPERTIES
    KeepsContents
