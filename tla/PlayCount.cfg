\* three weeks of columns, five weeks of time, two plays
CONSTANTS
    a = a
    b = b
    NoSong = NoSong
    Song <- Songs
    Half = 1
    NUM_WEEKS = 3
    MaxWeek = 4
    MaxPlays = 2
SPECIFICATION Spec
INVARIANTS
    TypeOK
    CountsMatchPlays
    ScoreMatchesCounts
    TopSongsWerePlayed
PROPERTIES
    LongListenIsCounted
