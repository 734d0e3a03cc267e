\* every interleaving of the two threads with up to two messages waiting,
\* on a queue of up to two entries
CONSTANTS
    a = a
    b = b
    NoSong = NoSong
    Song <- Songs
    Selections <- Lists
    MaxLen = 2
    MaxPosition = 1
    MaxInbox = 2
    MaxEvents = 2
SPECIFICATION Spec
INVARIANTS
    TypeOK
    SettlesInRange
    ThrowsOnlyAhead
    ChosenSongBecomesCurrent
SYMMETRY SongsAlike
\* the process may end in an uncaught exception
CHECK_DEADLOCK FALSE
