SPECIFICATION SpecWithoutReset
CONSTANTS
    Packs <- TwoPacks
    NumChars <- TwoPacksChars
    NumSentences <- TwoPacksSentences
    Starter <- FirstStarter
    Requests = {r1, r2}
    NoRequest = none
    BatchSize = 2
    PendingWindow = 2
    MaxPasses = 3
    MaxIds = 3
    MaxReps = 1
    MaxDay = 0
    MaxResets = 0
SYMMETRY RequestSymmetry
INVARIANTS
    TypeOK
    OneCompletionPerItem
    QueueIsSound
    DisabledPackHasNoPending
PROPERTIES
    HistoryKept
    ImplementsContractWithoutReset
