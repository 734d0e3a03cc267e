\* the queue view's two calls, with and without the handler in between
CONSTANTS
    a = a
    b = b
    NoSong = NoSong
    Song <- Songs
    Selections <- Lists
    MaxLen = 2
    MaxPosition = 1
    MaxInbox = 1
    MaxEvents = 1
SPECIFICATION Spec
INVARIANTS
    RemovedSongYieldsToNext
CHECK_DEADLOCK FALSE
