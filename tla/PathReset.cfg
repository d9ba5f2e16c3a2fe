SPECIFICATION FairSpec
CONSTANTS
    Packs <- OnePack
    NumChars <- OneChar
    NumSentences <- NoSentences
    Starter <- FirstStarter
    Requests = {r1, r2}
    NoRequest = none
    BatchSize = 1
    PendingWindow = 1
    MaxPasses = 3
    MaxIds = 2
    MaxReps = 2
    MaxDay = 1
    MaxResets = 2
INVARIANTS
    ProjectionNotBehindLog
PROPERTIES
    LadderNeverDescends
    ImplementsContract
    RequestsFinish
