SPECIFICATION SpecWithoutReset
CONSTANTS
    Packs <- OnePack
    NumChars <- OnePackChars
    NumSentences <- OnePackSentences
    Starter <- FirstStarter
    Requests = {r1}
    NoRequest = none
    BatchSize = 2
    PendingWindow = 2
    MaxPasses = 3
    MaxIds = 5
    MaxReps = 2
    MaxDay = 3
    MaxResets = 0
INVARIANTS
    ProjectionMatchesLog
PROPERTIES
    PathNeverRunsOut
