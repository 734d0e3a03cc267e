\* longer queues, with the inbox empty whenever the listener acts
CONSTANTS
    a = a
    b = b
    NoSong = NoSong
    Song <- Songs
    Selections <- Lists
    MaxLen = 3
    MaxPosition = 3
    MaxInbox = 0
    MaxEvents = 0
SPECIFICATION Spec
INVARIANTS
    UnshuffledListsAgree
    ListsHoldSameSongs
PROPERTIES
    EditsKeepCurrentSong
SYMMETRY SongsAlike
\* the process may end in an uncaught exception
CHECK_DEADLOCK FALSE
