SPECIFICATION CorpusSpec
CONSTANTS
    a = a
    b = b
    c = c
    blank = blank
    Hanzi = {a, b, c}
    Blank = blank
    Archive <- MCArchive
    Sources = {github, npm}
    PackData <- MCPackData
    Drafts <- MCDrafts
    ChunkSize = 2
    OutputRetries = 1
    Runs = {r1, r2}
    MaxOwned = 1
SYMMETRY Symmetry
INVARIANTS
    CacheWhole
    PacksGrounded
