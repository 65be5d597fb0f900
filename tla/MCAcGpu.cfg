CONSTANTS
    Bytes <- MCBytes
    Upper <- MCUpper
    Words <- ManyWords
    Texts <- FewTexts
    Threads = {t1}
    BufferSize = 2
    MaxPatterns = 3
    MaxText = 4
    MaxSearches = 3
SPECIFICATION Spec
INVARIANT TypeOK
INVARIANT AutomatonExact
INVARIANT SearchedOnce
INVARIANT UserDataCounted
