SPECIFICATION Spec
CONSTANTS
    Packs <- TwoPacks
    NumChars <- TwoPacksChars
    NumSentences <- TwoPacksSentences
    BatchSize = 4
    Days = {0, 1, 3}
    Today = 2
    MaxCount = 32
    MaxHigh = 6
INVARIANTS
    BatchIsSound
    BatchOrder
    NothingLeftOut
    ChunksFair
