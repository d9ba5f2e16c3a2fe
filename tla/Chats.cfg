SPECIFICATION Spec
CONSTANTS
    Keys = {me, other}
    Me = me
    Features = {"practice", "generation"}
    Limit = 2
    Window = 2
    MaxHistory = 1
    MaxRequests = 4
    MaxFailures = 2
    MaxTime = 2
CHECK_DEADLOCK FALSE
INVARIANTS
    TranscriptIsTrue
    TutorAnswersOnce
    NeverLocked
    SavedAsAsked
    QuotaPerWindow
    SpendIsCapped
