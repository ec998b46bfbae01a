SPECIFICATION Spec
CONSTANTS
    t1 = t1  t2 = t2  f = f  g = g
    c1 = c1  c2 = c2  h1 = h1  h2 = h2
    p1 = p1  p2 = p2  p3 = p3  p4 = p4  NULL = NULL
    Threads = {t1, t2}
    Paths = {f, g}
    Contents = {c1, c2}
    Hashes = {h1, h2}
    HashOf <- MCHashOf
    Infos = {p1, p2, p3, p4}
    BLOCK_SIZE = 2
    RefcountLimit = 9
    Requests <- RaceRequests
    SerializePaths = FALSE
    MaxBlocks = 2
    MaxSlots = 5
    MaxRequests = 4
SYMMETRY Symmetry
INVARIANTS
    TypeOK
    NoDanglingInfo
    RefcountExact
    SlotPartition
    ContentMatchesHash
    MappedIsPublished
    LockDiscipline
PROPERTIES
    ChangesInRange
    SnapshotWhileReading
