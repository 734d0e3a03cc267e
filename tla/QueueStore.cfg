\* a queue of up to two songs, each inserted in a transaction of its own
CONSTANTS
    a = a
    b = b
    SongId <- Songs
    Selections <- Lists
    MaxLen = 2
    MaxWaiting = 0
    NumProcess = 1
SPECIFICATION SaveFairSpec
INVARIANTS
    SaveTypeOK
    QuietStoreIsCurrent
PROPERTIES
    EditsAreSaved
