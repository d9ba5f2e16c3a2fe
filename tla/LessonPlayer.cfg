SPECIFICATION Spec
CONSTANTS
    Screens = {s1, s2}
    NumPairs = 2
    Lengths <- TwoSentences
    Blanks <- SecondSentence
    Lateness <- AroundTime
    MaxPosts = 2
    MaxFailures = 1
SYMMETRY ScreenSymmetry
INVARIANTS
    PostedIsPractised
    BoardsGoOn
    OutcomeIsTrue
    LoggedIsPlayed
