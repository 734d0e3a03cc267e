\* two threads, one leaving thread, three songs and a request
CONSTANTS
    a = a
    b = b
    c = c
    t1 = t1
    t2 = t2
    t3 = t3
    NoSong = NoSong
    Song <- Songs
    Worker <- Workers
    NUM_THREADS = 2
    Library <- AllSongs
    Upcoming <- QueueRest
    Tagged <- WithTempo
    MaxRequests = 1
SPECIFICATION DetectionFairSpec
INVARIANTS
    DetectionTypeOK
    NoSongAnalysedTwice
PROPERTIES
    ScannedSongsSettle
    RequestedSongAnalysed
    ServiceEventuallyStops
\* the service rests when everything is analysed
CHECK_DEADLOCK FALSE
