\* both threads and both players, on a queue of up to two entries
CONSTANTS
    a = a
    b = b
    NoSong = NoSong
    Song <- Songs
    Selections <- Lists
    MaxLen = 2
    MaxPosition = 1
    MaxInbox = 0
    MaxEvents = 1
SPECIFICATION Spec
INVARIANTS
    TypeOK
    HeardSongIsShown
PROPERTIES
    ImplementsPlayingQueue
\* the process may end in an uncaught exception
CHECK_DEADLOCK FALSE
