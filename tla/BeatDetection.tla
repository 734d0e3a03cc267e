---------------------------- MODULE BeatDetection ----------------------------
(***************************************************************************)
(* BeatDetectionService: up to NUM_THREADS worker threads find the tempo   *)
(* of the songs that have none.  Scans add songs, a listener asks for one  *)
(* with priority, and a worker that is done picks its next song itself.    *)
(*                                                                         *)
(* synchronized(threads) makes each choice one step, together with the     *)
(* tags it reads; a worker that found nothing leaves the set in a later    *)
(* one, and shows or hides the notification after it left, without the     *)
(* lock.  The queue's position is taken to be inside it, its songs to be   *)
(* the objects of the discography, and the copy of a song that the         *)
(* listener asks for to have the type the discography has.                 *)
(***************************************************************************)
EXTENDS DetectionThreads, Integers, Sequences, FiniteSets

CONSTANTS
    Song, NoSong,
    NUM_THREADS,
    Library,     \* Discography.allSongs, in its order
    Upcoming,    \* the playing queue from the current position on
    Tagged,      \* songs whose file has a tempo with a valid signature
    MaxRequests  \* bound on the listener's requests

ASSUME DetectionAssumption ==
    /\ NoSong \notin Song /\ Tagged \subseteq Song /\ IsFiniteSet(Worker)
    /\ Library \in Seq(Song) /\ Upcoming \in Seq(Song)
    /\ NUM_THREADS \in Nat \ {0} /\ MaxRequests \in Nat

VARIABLES
    bpmType,    \* of each song; "absent" before a scan finds it
    scans,      \* FROM_SCAN intents on their way
    songToPlay, \* the song last asked for; nothing resets it
    adding,     \* the main thread has set songToPlay and waits for the lock
    doing, working, \* what each thread does, and its song
    shown,      \* the service is in the foreground, with its notification
    requests,   \* counts the listener's requests
    asked,      \* history: the song asked for and not analysed since
    missed      \* history: an intent came while the workers were leaving

service == <<bpmType, scans, songToPlay, adding, doing, working, shown>>
detectionVars == <<service, requests, asked, missed>>

BpmTypes == {"absent", "INVALID", "DISABLED", "DETECTED", "MANUAL"}
InThreads == {"detecting", "choosing", "ending"}
AfterThreads == {"noticing", "showing", "hiding"}
Doings == {"idle"} \cup InThreads \cup AfterThreads

threads == { w \in Worker : doing[w] \in InThreads }
songsInDetection == { working[w] : w \in { v \in Worker : doing[v] = "detecting" } }
currentSongs == { working[w] : w \in threads }

DetectionInit ==
    /\ bpmType = [s \in Song |-> "absent"]
    /\ scans = 0 /\ songToPlay = NoSong /\ adding = FALSE
    /\ doing = [w \in Worker |-> "idle"] /\ working = [w \in Worker |-> NoSong]
    /\ shown = FALSE
    /\ requests = 0 /\ asked = NoSong /\ missed = FALSE

-----------------------------------------------------------------------------
(* getNextSongOnList *)

(* The entries that find may return, and those among them whose file says  *)
(* nothing either.                                                         *)
Candidates(list) ==
    { i \in DOMAIN list : bpmType[list[i]] = "INVALID" /\ list[i] \notin currentSongs }
Untagged(list) == { i \in Candidates(list) : list[i] \notin Tagged }

findSong(list) ==
    IF Untagged(list) = {} THEN NoSong
    ELSE list[CHOOSE i \in Untagged(list) : \A j \in Untagged(list) : i <= j]

(* The songs passed on the way, whose tempo is taken from their tags. *)
ReadFromTags(list) ==
    { list[i] : i \in { j \in Candidates(list) : list[j] \in Tagged
                                    /\ \A k \in Untagged(list) : j < k } }

isRequested == songToPlay # NoSong
isWaitingUntested ==
    songToPlay # NoSong /\ songToPlay \notin currentSongs /\ bpmType[songToPlay] = "INVALID"
isWaitingFor == songToPlay # NoSong /\ songToPlay \notin currentSongs

inQueue == findSong(Upcoming) # NoSong

nextSong ==
    IF isWaitingFor THEN songToPlay
    ELSE IF inQueue THEN findSong(Upcoming)
    ELSE findSong(Library)

settledByTags ==
    IF isWaitingFor THEN {}
    ELSE ReadFromTags(Upcoming) \cup IF inQueue THEN {} ELSE ReadFromTags(Library)

(* "MANUAL" stands for the type that the tags give. *)
TakeTags == bpmType' = [s \in Song |-> IF s \in settledByTags THEN "MANUAL" ELSE bpmType[s]]

-----------------------------------------------------------------------------
(* Main thread *)

(* A scan adds a song and sends the service an intent. *)
ScanSong(song) ==
    /\ bpmType[song] = "absent"
    /\ bpmType' = [bpmType EXCEPT ![song] = "INVALID"]
    /\ scans' = scans + 1
    /\ UNCHANGED <<songToPlay, adding, doing, working, shown, requests, asked, missed>>

(* Objects for new threads, one as good as another. *)
freshThreads == { w \in Worker : doing[w] = "idle" }

(* A new worker, if the next song exists; its notification is shown under   *)
(* the lock.                                                               *)
sendNextSongOnList ==
    /\ TakeTags
    /\ \/ /\ nextSong = NoSong
          /\ shown' = (threads # {})
          /\ UNCHANGED <<doing, working>>
       \/ /\ nextSong # NoSong
          /\ shown' = TRUE
          /\ freshThreads # {}
          /\ LET w == CHOOSE w \in freshThreads : TRUE
             IN /\ doing' = [doing EXCEPT ![w] = "detecting"]
                /\ working' = [working EXCEPT ![w] = nextSong]

hasRoomForOneMore == Cardinality(threads) <= NUM_THREADS
hasRoom == Cardinality(threads) < NUM_THREADS

(* synchronized(threads) of handleActionAddSong *)
handleActionAddSong ==
    \/ hasRoom /\ sendNextSongOnList
    \/ ~hasRoom /\ UNCHANGED <<bpmType, doing, working, shown>>

(* Every worker has found nothing more to do, yet fills the set. *)
AllAreLeaving == ~hasRoom /\ \A w \in threads : doing[w] = "ending"

HandleScan ==
    /\ ~adding /\ scans > 0
    /\ scans' = scans - 1
    /\ handleActionAddSong
    /\ missed' = (missed \/ AllAreLeaving)
    /\ UNCHANGED <<songToPlay, adding, requests, asked>>

(* ACTION_ADD_SONG with PLAY_NOW: songToPlay is set before the lock. *)
RequestSong(song) ==
    /\ ~adding /\ bpmType[song] # "absent"
    /\ requests < MaxRequests /\ requests' = requests + 1
    /\ songToPlay' = song /\ asked' = song /\ adding' = TRUE
    /\ UNCHANGED <<bpmType, scans, doing, working, shown, missed>>

(* A worker that has just finished this song keeps others from taking it. *)
IsStillHeld == \E w \in threads : working[w] = songToPlay /\ doing[w] # "detecting"

HandleRequest ==
    /\ adding /\ adding' = FALSE
    /\ handleActionAddSong
    /\ missed' = (missed \/ AllAreLeaving \/ IsStillHeld)
    /\ UNCHANGED <<scans, songToPlay, requests, asked>>

-----------------------------------------------------------------------------
(* BeatDetectionThread.run *)

Go(w, next) == doing[w] # next /\ doing' = [doing EXCEPT ![w] = next]

(* detectBeat finds a tempo or fails; updateSongInDatabase keeps the result. *)
FailedTypeKept(song) == bpmType[song]
FailedType(song) == IF bpmType[song] = "INVALID" THEN "DISABLED" ELSE bpmType[song]

Detect(w) ==
    /\ doing[w] = "detecting" /\ Go(w, "choosing")
    /\ \E type \in {"DETECTED", FailedType(working[w])} :
           bpmType' = [bpmType EXCEPT ![working[w]] = type]
    /\ asked' = IF working[w] = asked THEN NoSong ELSE asked
    /\ UNCHANGED <<scans, songToPlay, adding, working, shown, requests, missed>>

(* With a song, createNotification finds this thread in the set. *)
Choose(w) ==
    /\ doing[w] = "choosing"
    /\ TakeTags
    /\ \/ /\ nextSong # NoSong /\ Go(w, "detecting")
          /\ working' = [working EXCEPT ![w] = nextSong]
          /\ shown' = TRUE
       \/ /\ nextSong = NoSong /\ Go(w, "ending")
          /\ UNCHANGED <<working, shown>>
    /\ UNCHANGED <<scans, songToPlay, adding, requests, asked, missed>>

(* finally: threads.remove under the lock *)
End(w) ==
    /\ doing[w] = "ending" /\ Go(w, "noticing")
    /\ working' = [working EXCEPT ![w] = NoSong]
    /\ UNCHANGED <<bpmType, scans, songToPlay, adding, shown, requests, asked, missed>>

(* createNotification after the lock: threads.size is read in one step and  *)
(* acted on in another.                                                     *)
createNotification(w) ==
    /\ doing[w] = "noticing"
    /\ Go(w, IF threads = {} THEN "hiding" ELSE "showing")
    /\ UNCHANGED <<bpmType, scans, songToPlay, adding, working, shown, requests, asked, missed>>

startOrStopForeground(w) ==
    /\ doing[w] \in {"showing", "hiding"} /\ Go(w, "idle")
    /\ shown' = (doing[w] = "showing")
    /\ UNCHANGED <<bpmType, scans, songToPlay, adding, working, requests, asked, missed>>

run(w) == Detect(w) \/ Choose(w) \/ End(w) \/ createNotification(w) \/ startOrStopForeground(w)

DetectionNext ==
    \/ \E song \in Song : ScanSong(song) \/ RequestSong(song)
    \/ HandleScan \/ HandleRequest
    \/ \E w \in Worker : run(w)

DetectionSpec == DetectionInit /\ [][DetectionNext]_detectionVars

(* The main looper runs its messages, and a started thread runs; neither    *)
(* the scanner nor the listener has to do anything.                         *)
DetectionFairSpec == /\ DetectionSpec
            /\ WF_detectionVars(HandleScan \/ HandleRequest)
            /\ \A w \in Worker : WF_detectionVars(run(w))

-----------------------------------------------------------------------------
(* Properties *)

(* The types of the variables; a thread that is in the set has a song and   *)
(* the set is never larger than NUM_THREADS.                                *)
DetectionTypeOK ==
    /\ bpmType \in [Song -> BpmTypes]
    /\ scans \in Nat /\ requests \in 0 .. MaxRequests
    /\ songToPlay \in Song \cup {NoSong} /\ asked \in {songToPlay, NoSong}
    /\ doing \in [Worker -> Doings] /\ working \in [Worker -> Song \cup {NoSong}]
    /\ \A w \in Worker : working[w] # NoSong <=> w \in threads
    /\ Cardinality(threads) <= NUM_THREADS
    /\ {adding, shown, missed} \subseteq BOOLEAN

(* No two threads have the same song, whoever chose it: a thread for itself, *)
(* the main thread for a scan, or the listener, who may ask for a song that  *)
(* is being analysed (getNextSongOnList, currentSongs).                      *)
NoSongAnalysedTwice ==
    \A v, w \in threads : working[v] = working[w] => v = w

INVALID == { s \in Song : bpmType[s] = "INVALID" }

(* Unless an intent came while all threads were leaving, every song without  *)
(* a tempo gets a result, though a scan's song is ignored, intents are       *)
(* dropped when the threads are busy, and songToPlay is preferred over and   *)
(* over.                                                                     *)
ScannedSongsSettle ==
    INVALID # {} ~> INVALID = {} \/ missed

(* Unless it came while the threads were leaving, or right after that song   *)
(* was finished, the song last asked for is analysed, also when the threads  *)
(* were busy as the request came and its intent was dropped.                 *)
RequestedSongAnalysed ==
    asked # NoSong ~> asked = NoSong \/ missed

(* When nobody asks for more the threads end, though songToPlay is never     *)
(* reset and comes before all other songs.                                   *)
ServiceEventuallyStops == <>[](threads = {})

=============================================================================
