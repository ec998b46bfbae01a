SPECIFICATION PassSpec
CONSTANTS
    t1 = t1  t2 = t2  f = f  g = g
    c1 = c1  c2 = c2  h1 = h1  h2 = h2
    p1 = p1  p2 = p2  p3 = p3  p4 = p4  NULL = NULL
    Threads = {t1}
    Paths = {f, g, hid}
    Contents = {c1, c2}
    Hashes = {h1, h2}
    HashOf <- MCHashOf
    Infos = {p1, p2}
    BLOCK_SIZE = 2
    RefcountLimit = 16
    Requests <- NamespaceRequests
    SerializePaths = TRUE
    MaxBlocks = 2
    MaxSlots = 5
    MaxRequests = 3
    hid = hid  i1 = i1  i2 = i2  i3 = i3
    Inodes = {i1, i2, i3}
    Hidden = hid
    Calls = {"rename", "link", "otrunc", "mknod", "unlink_open", "grow", "backend_fails"}
SYMMETRY PassSymmetry
INVARIANTS
    PassTypeOK
    UntouchedShowPosix
