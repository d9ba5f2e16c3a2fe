SPECIFICATION FairSpec
CONSTANTS
    PageLimit = 1
    PendingWindow = 2
    BatchSize = 1
    MaxIds = 3
    MaxDay = 1
INVARIANTS
    EachLessonOnce
    OneLessonToStart
PROPERTIES
    LookupEnds
