SPECIFICATION BioSpec
CONSTANTS
    BufferSizes = {3, 4}
    Lists <- MCLists
    COUNT = 1
    HDR = 2
    WriteFaults = TRUE
INVARIANTS
    FileIsPrefix
    LoadsCompleteElements
PROPERTIES
    SaveAndLoadEnd
