-------------------------- MODULE Detection_proofs --------------------------
(***************************************************************************)
(* Theorems about the two models of tempo detection.                       *)
(*                                                                         *)
(* BeatDetection, for any library, queue and number of threads: the set of *)
(* threads keeps its bound, no song is analysed by two of them and none is *)
(* forgotten.                                                              *)
(*                                                                         *)
(* BeatDetector, for any workers and files: the indices the comb filter    *)
(* reads, type correctness, the planner's mutex, the ownership of          *)
(* detectors, the window a tempo is computed from, whether there is a      *)
(* tempo at all, and that every step brings an analysis nearer to its end. *)
(***************************************************************************)
EXTENDS BeatDetection, BeatDetector, SongLists_proofs

-----------------------------------------------------------------------------
(* What getNextSongOnList chooses is a song that no thread has.            *)

LEMMA FindSongFree ==
    ASSUME NEW list \in Seq(Song), findSong(list) # NoSong
    PROVE  findSong(list) \in Song \ currentSongs
<1>1. Untagged(list) # {} /\ Untagged(list) \subseteq Nat
    BY DEF findSong, Untagged, Candidates
<1>2. \E i \in Untagged(list) : \A j \in Untagged(list) : i <= j
    BY <1>1, LeastElement
<1>3. PICK i \in Untagged(list) : findSong(list) = list[i]
    BY <1>1, <1>2 DEF findSong
<1>. QED
    BY <1>3 DEF Untagged, Candidates

LEMMA NextSongFree ==
    ASSUME DetectionTypeOK, nextSong # NoSong
    PROVE  nextSong \in Song \ currentSongs
<1>1. CASE isWaitingFor
    BY <1>1 DEF DetectionTypeOK, nextSong, isWaitingFor
<1>2. CASE ~isWaitingFor /\ inQueue
    BY <1>2, FindSongFree, DetectionAssumption DEF nextSong, inQueue
<1>3. CASE ~isWaitingFor /\ ~inQueue
    BY <1>3, FindSongFree, DetectionAssumption DEF nextSong
<1>. QED
    BY <1>1, <1>2, <1>3

-----------------------------------------------------------------------------
(* A thread joins the set, or leaves it.                                   *)

LEMMA ThreadsFinite == IsFiniteSet(threads) /\ Cardinality(threads) \in Nat
<1>1. IsFiniteSet(threads)
    BY FS_Subset, DetectionAssumption DEF threads
<1>. QED
    BY <1>1, FS_CardinalityType

LEMMA SendNextSong ==
    ASSUME DetectionTypeOK, hasRoom, sendNextSongOnList
    PROVE  \/ UNCHANGED <<doing, working>>
           \/ \E w \in Worker \ threads :
                 /\ threads' = threads \cup {w}
                 /\ doing' = [doing EXCEPT ![w] = "detecting"]
                 /\ working' = [working EXCEPT ![w] = nextSong]
                 /\ nextSong \in Song \ currentSongs
<1>1. CASE nextSong = NoSong
    BY <1>1 DEF sendNextSongOnList
<1>2. CASE nextSong # NoSong
    <2> DEFINE w == CHOOSE w \in freshThreads : TRUE
    <2>1. /\ freshThreads # {}
          /\ doing' = [doing EXCEPT ![w] = "detecting"]
          /\ working' = [working EXCEPT ![w] = nextSong]
        BY <1>2 DEF sendNextSongOnList
    <2>2. w \in freshThreads
        BY <2>1
    <2> HIDE DEF w
    <2>3. w \in Worker \ threads
        BY <2>2 DEF freshThreads, threads, InThreads
    <2>4. threads' = threads \cup {w}
        BY <2>1, <2>3 DEF DetectionTypeOK, threads, InThreads
    <2>5. nextSong \in Song \ currentSongs
        BY <1>2, NextSongFree
    <2>. QED
        BY <2>1, <2>3, <2>4, <2>5
<1>. QED
    BY <1>1, <1>2

(* A thread that stays in the set keeps the bound. *)
LEMMA SameThreads ==
    ASSUME DetectionTypeOK, NEW w \in Worker, NEW d \in Doings,
           doing' = [doing EXCEPT ![w] = d],
           d \in InThreads <=> doing[w] \in InThreads
    PROVE  threads' = threads
    BY DEF DetectionTypeOK, threads

-----------------------------------------------------------------------------
(* Types *)

LEMMA TypeInit == DetectionInit => DetectionTypeOK
<1> SUFFICES ASSUME DetectionInit PROVE DetectionTypeOK
    OBVIOUS
<1>1. threads = {}
    BY DEF DetectionInit, threads, InThreads
<1>2. Cardinality(threads) = 0
    BY <1>1, FS_EmptySet
<1>3. doing \in [Worker -> Doings] /\ working \in [Worker -> Song \cup {NoSong}]
    BY DEF DetectionInit, Doings
<1>4. \A w \in Worker : working[w] # NoSong <=> w \in threads
    BY <1>1 DEF DetectionInit
<1>5. bpmType \in [Song -> BpmTypes] /\ {adding, shown, missed} \subseteq BOOLEAN
    BY DEF DetectionInit, BpmTypes
<1>6. scans \in Nat /\ requests \in 0 .. MaxRequests /\ Cardinality(threads) <= NUM_THREADS
    BY <1>2, DetectionAssumption DEF DetectionInit
<1>7. songToPlay \in Song \cup {NoSong} /\ asked \in {songToPlay, NoSong}
    BY DEF DetectionInit
<1>. QED
    BY <1>3, <1>4, <1>5, <1>6, <1>7 DEF DetectionTypeOK

LEMMA TakeTagsType ==
    ASSUME DetectionTypeOK, TakeTags PROVE bpmType' \in [Song -> BpmTypes]
    BY DEF DetectionTypeOK, TakeTags, BpmTypes

(* What is asked of the threads after the main thread has added one. *)
ThreadSetOK ==
    /\ doing \in [Worker -> Doings] /\ working \in [Worker -> Song \cup {NoSong}]
    /\ \A w \in Worker : working[w] # NoSong <=> w \in threads
    /\ Cardinality(threads) <= NUM_THREADS

LEMMA AddSongType ==
    ASSUME DetectionTypeOK, handleActionAddSong
    PROVE  ThreadSetOK' /\ bpmType' \in [Song -> BpmTypes] /\ shown' \in BOOLEAN
<1>1. CASE ~hasRoom
    <2>1. UNCHANGED <<bpmType, doing, working, shown>>
        BY <1>1 DEF handleActionAddSong
    <2>. QED
        BY <2>1 DEF DetectionTypeOK, ThreadSetOK, threads
<1>2. CASE hasRoom
    <2>1. sendNextSongOnList
        BY <1>2 DEF handleActionAddSong
    <2>2. bpmType' \in [Song -> BpmTypes] /\ shown' \in BOOLEAN
        BY <2>1, TakeTagsType DEF sendNextSongOnList
    <2>3. CASE UNCHANGED <<doing, working>>
        BY <2>2, <2>3 DEF DetectionTypeOK, ThreadSetOK, threads
    <2>4. ASSUME NEW w \in Worker \ threads,
                 threads' = threads \cup {w},
                 doing' = [doing EXCEPT ![w] = "detecting"],
                 working' = [working EXCEPT ![w] = nextSong],
                 nextSong \in Song \ currentSongs
          PROVE  ThreadSetOK'
        <3>1. Cardinality(threads') = Cardinality(threads) + 1
            BY <2>4, ThreadsFinite, FS_AddElement
        <3>2. Cardinality(threads') <= NUM_THREADS
            BY <3>1, <1>2, ThreadsFinite, DetectionAssumption DEF hasRoom
        <3>3. doing' \in [Worker -> Doings] /\ working' \in [Worker -> Song \cup {NoSong}]
            BY <2>4 DEF DetectionTypeOK, Doings, InThreads
        <3>4. \A v \in Worker : working'[v] # NoSong <=> v \in threads'
            BY <2>4, DetectionAssumption DEF DetectionTypeOK
        <3>. QED
            BY <3>2, <3>3, <3>4 DEF ThreadSetOK
    <2>. QED
        BY <2>1, <2>2, <2>3, <2>4, <1>2, SendNextSong
<1>. QED
    BY <1>1, <1>2

LEMMA TypeMain ==
    ASSUME DetectionTypeOK, HandleScan \/ HandleRequest PROVE DetectionTypeOK'
<1>1. handleActionAddSong
    BY DEF HandleScan, HandleRequest
<1>2. ThreadSetOK' /\ bpmType' \in [Song -> BpmTypes] /\ shown' \in BOOLEAN
    BY <1>1, AddSongType
<1>3. scans' \in Nat /\ adding' \in BOOLEAN /\ missed' \in BOOLEAN
    <2>1. scans \in Nat /\ adding \in BOOLEAN
        BY DEF DetectionTypeOK
    <2>2. scans' \in Nat
        BY <2>1 DEF HandleScan, HandleRequest
    <2>3. adding' \in BOOLEAN
        BY <2>1 DEF HandleScan, HandleRequest
    <2>4. CASE HandleScan
        <3>1. missed' = (missed \/ AllAreLeaving)
            BY <2>4 DEF HandleScan
        <3>. QED
            BY <2>2, <2>3, <3>1, Zenon
    <2>5. CASE HandleRequest
        <3>1. missed' = (missed \/ AllAreLeaving \/ IsStillHeld)
            BY <2>5 DEF HandleRequest
        <3>. QED
            BY <2>2, <2>3, <3>1, Zenon
    <2>. QED
        BY <2>4, <2>5
<1>4. UNCHANGED <<songToPlay, requests, asked>>
    BY DEF HandleScan, HandleRequest
<1>. QED
    BY <1>2, <1>3, <1>4 DEF DetectionTypeOK, ThreadSetOK

LEMMA TypeListener ==
    ASSUME DetectionTypeOK, NEW song \in Song, ScanSong(song) \/ RequestSong(song)
    PROVE  DetectionTypeOK'
<1>1. UNCHANGED <<doing, working, shown, missed>> /\ threads' = threads
    BY DEF ScanSong, RequestSong, threads
<1>2. CASE ScanSong(song)
    BY <1>1, <1>2 DEF ScanSong, DetectionTypeOK, BpmTypes
<1>3. CASE RequestSong(song)
    <2>1. requests' \in 0 .. MaxRequests
        BY <1>3, DetectionAssumption DEF RequestSong, DetectionTypeOK
    <2>. QED
        BY <1>1, <1>3, <2>1 DEF RequestSong, DetectionTypeOK
<1>. QED
    BY <1>2, <1>3

LEMMA TypeDetect ==
    ASSUME DetectionTypeOK, NEW w \in Worker, Detect(w) PROVE DetectionTypeOK'
<1>1. threads' = threads
    BY SameThreads DEF Detect, Go, Doings, InThreads
<1>2. working[w] \in Song /\ bpmType[working[w]] \in BpmTypes
    BY DEF Detect, DetectionTypeOK, threads, InThreads
<1>3. bpmType' \in [Song -> BpmTypes]
    BY <1>2 DEF Detect, DetectionTypeOK, FailedType, BpmTypes
<1>4. doing' \in [Worker -> Doings]
    BY DEF Detect, Go, DetectionTypeOK, Doings, InThreads
<1>. QED
    BY <1>1, <1>3, <1>4 DEF Detect, DetectionTypeOK

LEMMA TypeChoose ==
    ASSUME DetectionTypeOK, NEW w \in Worker, Choose(w) PROVE DetectionTypeOK'
<1>1. threads' = threads
    BY SameThreads DEF Choose, Go, Doings, InThreads
<1>2. bpmType' \in [Song -> BpmTypes]
    BY TakeTagsType DEF Choose
<1>3. doing' \in [Worker -> Doings]
    BY DEF Choose, Go, DetectionTypeOK, Doings, InThreads
<1>4. w \in threads
    BY DEF Choose, threads, InThreads
<1>5. CASE nextSong # NoSong
    <2>1. working' = [working EXCEPT ![w] = nextSong] /\ shown' = TRUE
        BY <1>5 DEF Choose
    <2>2. nextSong \in Song
        BY <1>5, NextSongFree
    <2>. QED
        BY <1>1, <1>2, <1>3, <1>4, <1>5, <2>1, <2>2 DEF Choose, DetectionTypeOK
<1>6. CASE nextSong = NoSong
    <2>1. UNCHANGED <<working, shown>>
        BY <1>6 DEF Choose
    <2>. QED
        BY <1>1, <1>2, <1>3, <2>1 DEF Choose, DetectionTypeOK
<1>. QED
    BY <1>5, <1>6

LEMMA TypeEnd ==
    ASSUME DetectionTypeOK, NEW w \in Worker, End(w) PROVE DetectionTypeOK'
<1>1. threads' = threads \ {w}
    BY DEF End, Go, DetectionTypeOK, threads, InThreads
<1>2. Cardinality(threads') <= NUM_THREADS
    <2>1. IsFiniteSet(threads) /\ threads' \subseteq threads
        BY <1>1, ThreadsFinite
    <2>2. Cardinality(threads') <= Cardinality(threads) /\ IsFiniteSet(threads')
        BY <2>1, FS_Subset
    <2>3. Cardinality(threads') \in Nat
        BY <2>2, FS_CardinalityType
    <2>. QED
        BY <2>2, <2>3, ThreadsFinite, DetectionAssumption DEF DetectionTypeOK
<1>3. doing' \in [Worker -> Doings]
    BY DEF End, Go, DetectionTypeOK, Doings, AfterThreads
<1>4. \A v \in Worker : working'[v] # NoSong <=> v \in threads'
    BY <1>1 DEF End, DetectionTypeOK
<1>5. working' \in [Worker -> Song \cup {NoSong}]
    BY DEF End, DetectionTypeOK
<1>. QED
    BY <1>2, <1>3, <1>4, <1>5 DEF End, DetectionTypeOK

LEMMA TypeNotice ==
    ASSUME DetectionTypeOK, NEW w \in Worker, createNotification(w) \/ startOrStopForeground(w)
    PROVE  DetectionTypeOK'
<1>1. PICK d \in {"hiding", "showing", "idle"} : doing' = [doing EXCEPT ![w] = d]
    BY DEF createNotification, startOrStopForeground, Go
<1>2. doing[w] \notin InThreads /\ d \notin InThreads /\ d \in Doings
    BY DEF createNotification, startOrStopForeground, InThreads, Doings, AfterThreads
<1>3. threads' = threads
    BY <1>1, <1>2, SameThreads
<1>4. doing' \in [Worker -> Doings]
    BY <1>1, <1>2 DEF DetectionTypeOK
<1>5. UNCHANGED <<bpmType, scans, songToPlay, adding, working, requests, asked, missed>>
      /\ shown' \in BOOLEAN
    BY DEF createNotification, startOrStopForeground, DetectionTypeOK
<1>. QED
    BY <1>3, <1>4, <1>5 DEF DetectionTypeOK

(* For any number of threads, songs and requests, every variable keeps its  *)
(* type, a thread has a song exactly while it is in the set, and the set    *)
(* never holds more than NUM_THREADS: handleActionAddSong tests the size    *)
(* under the lock that every change of it holds.                            *)
THEOREM DetectionTypeCorrect == DetectionSpec => []DetectionTypeOK
<1>1. DetectionTypeOK /\ [DetectionNext]_detectionVars => DetectionTypeOK'
    <2> SUFFICES ASSUME DetectionTypeOK, [DetectionNext]_detectionVars PROVE DetectionTypeOK'
        OBVIOUS
    <2>1. ASSUME NEW song \in Song, ScanSong(song) \/ RequestSong(song) PROVE DetectionTypeOK'
        BY <2>1, TypeListener
    <2>2. CASE HandleScan \/ HandleRequest
        BY <2>2, TypeMain
    <2>3. ASSUME NEW w \in Worker, run(w) PROVE DetectionTypeOK'
        BY <2>3, TypeDetect, TypeChoose, TypeEnd, TypeNotice DEF run
    <2>4. CASE UNCHANGED detectionVars
        BY <2>4 DEF detectionVars, service, DetectionTypeOK, threads
    <2>. QED
        BY <2>1, <2>2, <2>3, <2>4 DEF DetectionNext
<1>. QED
    BY TypeInit, <1>1, PTL DEF DetectionSpec

-----------------------------------------------------------------------------
(* No two threads have the same song. *)

(* A thread that takes a song no thread has keeps the songs apart. *)
LEMMA TakesFreeSong ==
    ASSUME DetectionTypeOK, NoSongAnalysedTwice, NEW w \in Worker,
           NEW song \in Song \ currentSongs,
           threads' = threads \cup {w}, working' = [working EXCEPT ![w] = song]
    PROVE  NoSongAnalysedTwice'
<1> SUFFICES ASSUME NEW u \in threads', NEW v \in threads', working'[u] = working'[v]
             PROVE  u = v
    BY DEF NoSongAnalysedTwice
<1>1. \A t \in threads : working[t] # song
    BY DEF currentSongs
<1>2. threads \subseteq Worker /\ working \in [Worker -> Song \cup {NoSong}]
    BY DEF threads, DetectionTypeOK
<1>. QED
    BY <1>1, <1>2 DEF NoSongAnalysedTwice

LEMMA FewerThreads ==
    ASSUME NoSongAnalysedTwice, threads' \subseteq threads,
           \A w \in threads' : working'[w] = working[w]
    PROVE  NoSongAnalysedTwice'
    BY DEF NoSongAnalysedTwice

LEMMA TwiceMain ==
    ASSUME DetectionTypeOK, NoSongAnalysedTwice, handleActionAddSong PROVE NoSongAnalysedTwice'
<1>1. CASE UNCHANGED <<doing, working>>
    BY <1>1, FewerThreads DEF threads
<1>2. CASE hasRoom /\ sendNextSongOnList /\ ~UNCHANGED <<doing, working>>
    BY <1>2, SendNextSong, TakesFreeSong
<1>. QED
    BY <1>1, <1>2 DEF handleActionAddSong

LEMMA TwiceChoose ==
    ASSUME DetectionTypeOK, NoSongAnalysedTwice, NEW w \in Worker, Choose(w)
    PROVE  NoSongAnalysedTwice'
<1>1. threads' = threads /\ threads' = threads \cup {w}
    <2>1. w \in threads
        BY DEF Choose, threads, InThreads
    <2>. QED
        BY <2>1, SameThreads DEF Choose, Go, Doings, InThreads
<1>2. CASE nextSong # NoSong
    <2>1. working' = [working EXCEPT ![w] = nextSong] /\ nextSong \in Song \ currentSongs
        BY <1>2, NextSongFree DEF Choose
    <2>. QED
        BY <1>1, <2>1, TakesFreeSong
<1>3. CASE nextSong = NoSong
    BY <1>1, <1>3, FewerThreads DEF Choose
<1>. QED
    BY <1>2, <1>3

LEMMA TwiceElsewhere ==
    ASSUME DetectionTypeOK, NoSongAnalysedTwice, NEW w \in Worker,
           Detect(w) \/ End(w) \/ createNotification(w) \/ startOrStopForeground(w)
    PROVE  NoSongAnalysedTwice'
<1>1. threads' \subseteq threads
    BY DEF Detect, End, createNotification, startOrStopForeground, Go, DetectionTypeOK,
       threads, InThreads
<1>2. \A v \in threads' : working'[v] = working[v]
    BY DEF Detect, End, createNotification, startOrStopForeground, Go, DetectionTypeOK,
       threads, InThreads
<1>. QED
    BY <1>1, <1>2, FewerThreads

(* Whoever chooses, a thread for itself or the main thread for an intent,   *)
(* chooses under the lock and a song no thread in the set has, so that no   *)
(* song is analysed by two threads, even one that is asked for again.       *)
THEOREM SongsStayApart == DetectionSpec => []NoSongAnalysedTwice
<1>1. DetectionInit => NoSongAnalysedTwice
    BY DEF DetectionInit, NoSongAnalysedTwice, threads, InThreads
<1>2. DetectionTypeOK /\ NoSongAnalysedTwice /\ [DetectionNext]_detectionVars
        => NoSongAnalysedTwice'
    <2> SUFFICES ASSUME DetectionTypeOK, NoSongAnalysedTwice, [DetectionNext]_detectionVars
              PROVE  NoSongAnalysedTwice'
        OBVIOUS
    <2>1. ASSUME NEW song \in Song, ScanSong(song) \/ RequestSong(song)
          PROVE  NoSongAnalysedTwice'
        BY <2>1, FewerThreads DEF ScanSong, RequestSong, threads
    <2>2. CASE HandleScan \/ HandleRequest
        BY <2>2, TwiceMain DEF HandleScan, HandleRequest
    <2>3. ASSUME NEW w \in Worker, run(w) PROVE NoSongAnalysedTwice'
        BY <2>3, TwiceChoose, TwiceElsewhere DEF run
    <2>4. CASE UNCHANGED detectionVars
        BY <2>4, FewerThreads DEF detectionVars, service, threads
    <2>. QED
        BY <2>1, <2>2, <2>3, <2>4 DEF DetectionNext
<1>. QED
    BY <1>1, <1>2, DetectionTypeCorrect, PTL DEF DetectionSpec

-----------------------------------------------------------------------------
(* No song and no request is forgotten: what ScannedSongsSettle and         *)
(* RequestedSongAnalysed rest on besides fairness.                          *)

Untested == { s \in Song : bpmType[s] = "INVALID" /\ \E i \in DOMAIN Library : Library[i] = s }

(* With no thread and no intent left the service has nothing left to do,    *)
(* unless an intent came while the workers were leaving.                    *)
IdleServiceIsDone ==
    ~missed /\ threads = {} /\ scans = 0 /\ ~adding => Untested = {} /\ asked = NoSong

(* A thread that will look for another song. *)
AtWork == \E w \in Worker : doing[w] \in {"detecting", "choosing"}
HasFinished(w) == doing[w] \in {"choosing", "ending"}

(* A song is known before it is asked for or analysed, and then it has a    *)
(* result.                                                                  *)
KnownBefore ==
    /\ songToPlay # NoSong => bpmType[songToPlay] # "absent"
    /\ \A w \in Worker : doing[w] = "detecting" => bpmType[working[w]] # "absent"
ResultsThere ==
    \A w \in Worker : HasFinished(w) => bpmType[working[w]] \notin {"absent", "INVALID"}

(* While a song is untested, an intent is on its way or a thread will look  *)
(* for songs.                                                               *)
NoSongForgotten == ~missed /\ scans = 0 /\ ~AtWork => Untested = {}

(* The same for the song asked for, which no thread holds that has finished *)
(* it and so keeps others from taking it.                                   *)
RequestKept ==
    ~missed /\ ~adding /\ asked # NoSong =>
        AtWork /\ \A w \in Worker : HasFinished(w) => working[w] # asked

IdleInv ==
    DetectionTypeOK /\ KnownBefore /\ ResultsThere /\ NoSongForgotten /\ RequestKept

LEMMA InThreadsIff ==
    ASSUME NEW w \in Worker
    PROVE  w \in threads <=> doing[w] = "detecting" \/ HasFinished(w)
    BY DEF threads, InThreads, HasFinished

(* A song taken from a list, and what is left where none was taken.         *)
LEMMA NothingFound ==
    ASSUME NEW list \in Seq(Song), findSong(list) = NoSong
    PROVE  Untagged(list) = {}
<1> SUFFICES ASSUME Untagged(list) # {} PROVE FALSE
    OBVIOUS
<1>1. Untagged(list) \subseteq Nat
    BY DEF Untagged, Candidates
<1>2. \E i \in Untagged(list) : \A j \in Untagged(list) : i <= j
    BY <1>1, LeastElement
<1>3. PICK i \in Untagged(list) : findSong(list) = list[i]
    BY <1>1, <1>2 DEF findSong
<1>4. list[i] \in Song
    BY <1>3 DEF Untagged, Candidates
<1>. QED
    BY <1>3, <1>4, DetectionAssumption

LEMMA FoundSongInvalid ==
    ASSUME NEW list \in Seq(Song), findSong(list) # NoSong
    PROVE  bpmType[findSong(list)] = "INVALID"
<1>1. Untagged(list) # {} /\ Untagged(list) \subseteq Nat
    BY DEF findSong, Untagged, Candidates
<1>2. \E i \in Untagged(list) : \A j \in Untagged(list) : i <= j
    BY <1>1, LeastElement
<1>3. PICK i \in Untagged(list) : findSong(list) = list[i]
    BY <1>1, <1>2 DEF findSong
<1>. QED
    BY <1>3 DEF Untagged, Candidates

LEMMA NextSongKnown ==
    ASSUME IdleInv, nextSong # NoSong
    PROVE  bpmType[nextSong] # "absent"
<1>1. CASE isWaitingFor
    BY <1>1 DEF IdleInv, KnownBefore, nextSong, isWaitingFor
<1>2. CASE ~isWaitingFor /\ inQueue
    BY <1>2, FoundSongInvalid, DetectionAssumption DEF nextSong, inQueue
<1>3. CASE ~isWaitingFor /\ ~inQueue
    BY <1>3, FoundSongInvalid, DetectionAssumption DEF nextSong
<1>. QED
    BY <1>1, <1>2, <1>3

(* Reading the tags only adds results. *)
LEMMA TagsAdd ==
    ASSUME DetectionTypeOK, TakeTags, NEW s \in Song
    PROVE  /\ bpmType[s] # "absent" => bpmType'[s] # "absent"
           /\ bpmType'[s] = "INVALID" => bpmType[s] = "INVALID"
           /\ bpmType'[s] = "INVALID" => s \notin settledByTags
    BY DEF DetectionTypeOK, TakeTags

(* Without a next song, every song of the library that is still untested is *)
(* one that a thread of the set has, and so is the song asked for.          *)
LEMMA NothingLeft ==
    ASSUME DetectionTypeOK, nextSong = NoSong, TakeTags
    PROVE  /\ Untested' \subseteq currentSongs
           /\ songToPlay # NoSong => songToPlay \in currentSongs
<1>1. ~isWaitingFor
    BY DEF nextSong, isWaitingFor
<1>2. ~inQueue /\ findSong(Library) = NoSong
    BY <1>1 DEF nextSong, inQueue
<1>3. Untagged(Library) = {}
    BY <1>2, NothingFound, DetectionAssumption
<1>4. ReadFromTags(Library) \subseteq settledByTags
    BY <1>1, <1>2 DEF settledByTags
<1>5. ASSUME NEW s \in Song, bpmType'[s] = "INVALID",
             NEW i \in DOMAIN Library, Library[i] = s, s \notin currentSongs
      PROVE  FALSE
    <2>1. bpmType[s] = "INVALID" /\ s \notin settledByTags
        BY <1>5, TagsAdd
    <2>2. i \in Candidates(Library)
        BY <1>5, <2>1 DEF Candidates
    <2>3. s \in Tagged
        BY <1>3, <1>5, <2>2 DEF Untagged
    <2>4. s \in ReadFromTags(Library)
        BY <1>3, <1>5, <2>2, <2>3 DEF ReadFromTags
    <2>. QED
        BY <1>4, <2>1, <2>4
<1>6. Untested' \subseteq currentSongs
    BY <1>5 DEF Untested
<1>. QED
    BY <1>1, <1>6 DEF isWaitingFor

-----------------------------------------------------------------------------
(* One lemma per action. *)

(* The main thread adds a worker, finds nothing to do, or has none to add. *)
LEMMA AddsOrRests ==
    ASSUME IdleInv, handleActionAddSong, songToPlay' = songToPlay
    PROVE  /\ KnownBefore' /\ ResultsThere'
           /\ AllAreLeaving \/ AtWork' \/ Untested' = {}
           /\ songToPlay # NoSong /\ ~AllAreLeaving /\ ~IsStillHeld =>
                 AtWork' /\ \A w \in Worker : HasFinished(w)' => working'[w] # songToPlay
<1>0. /\ DetectionTypeOK /\ KnownBefore /\ ResultsThere
      /\ doing \in [Worker -> Doings] /\ working \in [Worker -> Song \cup {NoSong}]
      /\ \A w \in Worker : w \in threads => working[w] \in Song
      /\ songToPlay \in Song \cup {NoSong}
    BY DEF IdleInv, DetectionTypeOK
<1>1. ~IsStillHeld => \A w \in Worker : HasFinished(w) => working[w] # songToPlay
    BY InThreadsIff DEF IsStillHeld, HasFinished
<1>2. CASE ~hasRoom /\ UNCHANGED <<bpmType, doing, working>>
    <2>1. KnownBefore' /\ ResultsThere'
        BY <1>0, <1>2 DEF KnownBefore, ResultsThere, HasFinished
    <2>2. AllAreLeaving \/ AtWork'
        BY <1>2, InThreadsIff DEF AllAreLeaving, AtWork, HasFinished, threads
    <2>3. \A w \in Worker : HasFinished(w)' => HasFinished(w) /\ working'[w] = working[w]
        BY <1>2 DEF HasFinished
    <2>. QED
        BY <1>1, <2>1, <2>2, <2>3
<1>3. CASE TakeTags /\ nextSong = NoSong /\ UNCHANGED <<doing, working>>
    <2>1. KnownBefore' /\ ResultsThere'
        <3>1. songToPlay # NoSong => bpmType'[songToPlay] # "absent"
            BY <1>0, <1>3, TagsAdd DEF KnownBefore
        <3>2. ASSUME NEW w \in Worker, doing[w] = "detecting"
              PROVE  bpmType'[working[w]] # "absent"
            BY <1>0, <1>3, <3>2, InThreadsIff, TagsAdd DEF KnownBefore
        <3>3. ASSUME NEW w \in Worker, HasFinished(w)
              PROVE  bpmType'[working[w]] \notin {"absent", "INVALID"}
            BY <1>0, <1>3, <3>3, InThreadsIff, TagsAdd DEF ResultsThere
        <3>. QED
            BY <1>3, <3>1, <3>2, <3>3 DEF KnownBefore, ResultsThere, HasFinished
    <2>2. /\ Untested' \subseteq currentSongs
          /\ songToPlay # NoSong => songToPlay \in currentSongs
        BY <1>0, <1>3, NothingLeft
    <2>3. AtWork' \/ Untested' = {}
        <3> SUFFICES ASSUME NEW s \in Untested' PROVE AtWork'
            OBVIOUS
        <3>1. PICK w \in threads : working[w] = s
            BY <2>2 DEF currentSongs
        <3>2. bpmType'[s] = "INVALID"
            BY DEF Untested
        <3>3. ~HasFinished(w)'
            BY <1>3, <2>1, <3>1, <3>2 DEF ResultsThere, threads
        <3>. QED
            BY <1>3, <3>1, <3>3, InThreadsIff DEF AtWork, HasFinished, threads
    <2>4. ASSUME songToPlay # NoSong, ~IsStillHeld PROVE AtWork'
        <3>1. PICK w \in threads : working[w] = songToPlay
            BY <2>2, <2>4 DEF currentSongs
        <3>. QED
            BY <1>3, <2>4, <3>1 DEF IsStillHeld, AtWork, threads
    <2>5. \A w \in Worker : HasFinished(w)' => HasFinished(w) /\ working'[w] = working[w]
        BY <1>3 DEF HasFinished
    <2>. QED
        BY <1>1, <2>1, <2>3, <2>4, <2>5
<1>4. ASSUME TakeTags, nextSong # NoSong, NEW u \in freshThreads,
             doing' = [doing EXCEPT ![u] = "detecting"],
             working' = [working EXCEPT ![u] = nextSong]
      PROVE  /\ KnownBefore' /\ ResultsThere' /\ AtWork'
             /\ ~IsStillHeld => \A w \in Worker : HasFinished(w)' => working'[w] # songToPlay
    <2>1. u \in Worker /\ doing'[u] = "detecting" /\ working'[u] = nextSong
        BY <1>0, <1>4 DEF freshThreads
    <2>2. nextSong \in Song /\ bpmType[nextSong] # "absent"
        BY <1>0, <1>4, NextSongFree, NextSongKnown
    <2>3. \A w \in Worker : w # u => doing'[w] = doing[w] /\ working'[w] = working[w]
        BY <1>0, <1>4
    <2>4. KnownBefore'
        <3>1. songToPlay # NoSong => bpmType'[songToPlay] # "absent"
            BY <1>0, <1>4, TagsAdd DEF KnownBefore
        <3>2. ASSUME NEW w \in Worker, w # u, doing[w] = "detecting"
              PROVE  bpmType'[working[w]] # "absent"
            BY <1>0, <1>4, <3>2, InThreadsIff, TagsAdd DEF KnownBefore
        <3>3. bpmType'[nextSong] # "absent"
            BY <1>0, <1>4, <2>2, TagsAdd
        <3>. QED
            BY <2>1, <2>3, <3>1, <3>2, <3>3 DEF KnownBefore
    <2>5. \A w \in Worker : HasFinished(w)' => w # u /\ HasFinished(w) /\ working'[w] = working[w]
        BY <2>1, <2>3 DEF HasFinished
    <2>6. ResultsThere'
        <3>1. ASSUME NEW w \in Worker, HasFinished(w)
              PROVE  bpmType'[working[w]] \notin {"absent", "INVALID"}
            BY <1>0, <1>4, <3>1, InThreadsIff, TagsAdd DEF ResultsThere
        <3>. QED
            BY <2>5, <3>1 DEF ResultsThere
    <2>7. AtWork'
        BY <2>1 DEF AtWork
    <2>. QED
        BY <1>1, <2>4, <2>5, <2>6, <2>7
<1>5. \/ ~hasRoom /\ UNCHANGED <<bpmType, doing, working>>
      \/ TakeTags /\ nextSong = NoSong /\ UNCHANGED <<doing, working>>
      \/ /\ TakeTags /\ nextSong # NoSong
         /\ \E u \in freshThreads : /\ doing' = [doing EXCEPT ![u] = "detecting"]
                                    /\ working' = [working EXCEPT ![u] = nextSong]
    <2>1. CASE ~hasRoom
        BY <2>1 DEF handleActionAddSong
    <2>2. CASE hasRoom
        <3>1. sendNextSongOnList
            BY <2>2 DEF handleActionAddSong
        <3>2. freshThreads # {} => (CHOOSE w \in freshThreads : TRUE) \in freshThreads
            OBVIOUS
        <3>. QED
            BY <3>1, <3>2 DEF sendNextSongOnList
    <2>. QED
        BY <2>1, <2>2
<1>. QED
    BY <1>2, <1>3, <1>4, <1>5

LEMMA IdleMain ==
    ASSUME IdleInv, HandleScan \/ HandleRequest PROVE IdleInv'
<1>1. handleActionAddSong /\ UNCHANGED <<songToPlay, asked>>
    BY DEF HandleScan, HandleRequest
<1>2. DetectionTypeOK'
    BY TypeMain DEF IdleInv
<1>3. asked \in {songToPlay, NoSong}
    BY DEF IdleInv, DetectionTypeOK
<1>4. ~missed' => ~missed /\ ~AllAreLeaving
    BY DEF HandleScan, HandleRequest
<1>5. NoSongForgotten'
    BY <1>1, <1>4, AddsOrRests DEF NoSongForgotten
<1>6. RequestKept'
    <2> SUFFICES ASSUME ~missed', ~adding', asked # NoSong
                 PROVE  AtWork' /\ \A w \in Worker : HasFinished(w)' => working'[w] # asked
        BY <1>1 DEF RequestKept
    <2>1. asked = songToPlay
        BY <1>3
    <2>2. CASE HandleRequest
        <3>1. ~IsStillHeld
            BY <2>2 DEF HandleRequest
        <3>. QED
            BY <1>1, <1>4, <2>1, <3>1, AddsOrRests
    <2>3. CASE HandleScan
        <3>1. ~adding
            BY <2>3 DEF HandleScan
        <3>2. \A w \in Worker : HasFinished(w) => working[w] # asked
            BY <1>4, <3>1 DEF IdleInv, RequestKept
        <3>3. ~IsStillHeld
            BY <2>1, <3>2, InThreadsIff DEF IsStillHeld, threads
        <3>. QED
            BY <1>1, <1>4, <2>1, <3>3, AddsOrRests
    <2>. QED
        BY <2>2, <2>3
<1>. QED
    BY <1>1, <1>2, <1>5, <1>6, AddsOrRests DEF IdleInv

LEMMA IdleListener ==
    ASSUME IdleInv, NEW song \in Song, ScanSong(song) \/ RequestSong(song)
    PROVE  IdleInv'
<1>1. DetectionTypeOK'
    BY TypeListener DEF IdleInv
<1>2. UNCHANGED <<doing, working, missed>>
    BY DEF ScanSong, RequestSong
<1>3. CASE ScanSong(song)
    <2>1. /\ bpmType[song] = "absent" /\ bpmType' = [bpmType EXCEPT ![song] = "INVALID"]
          /\ scans' = scans + 1 /\ scans \in Nat /\ UNCHANGED <<songToPlay, adding, asked>>
          /\ bpmType \in [Song -> BpmTypes]
        BY <1>3 DEF ScanSong, IdleInv, DetectionTypeOK
    <2>2. KnownBefore' /\ ResultsThere'
        BY <1>2, <2>1 DEF IdleInv, KnownBefore, ResultsThere, HasFinished
    <2>3. scans' # 0
        BY <2>1
    <2>4. NoSongForgotten' /\ RequestKept'
        BY <1>2, <2>1, <2>3
        DEF IdleInv, NoSongForgotten, RequestKept, AtWork, HasFinished
    <2>. QED
        BY <1>1, <2>2, <2>4 DEF IdleInv
<1>4. CASE RequestSong(song)
    <2>1. /\ bpmType[song] # "absent" /\ songToPlay' = song /\ adding'
          /\ UNCHANGED <<bpmType, scans>>
        BY <1>4 DEF RequestSong
    <2>2. KnownBefore' /\ ResultsThere' /\ NoSongForgotten'
        BY <1>2, <2>1
        DEF IdleInv, KnownBefore, ResultsThere, NoSongForgotten, Untested, AtWork, HasFinished
    <2>. QED
        BY <1>1, <2>1, <2>2 DEF IdleInv, RequestKept
<1>. QED
    BY <1>3, <1>4

LEMMA IdleDetect ==
    ASSUME IdleInv, NEW w \in Worker, Detect(w) PROVE IdleInv'
<1>1. DetectionTypeOK'
    BY TypeDetect DEF IdleInv
<1>2. /\ doing[w] = "detecting" /\ doing' = [doing EXCEPT ![w] = "choosing"]
      /\ asked' = IF working[w] = asked THEN NoSong ELSE asked
      /\ UNCHANGED <<songToPlay, adding, working, missed>>
      /\ doing \in [Worker -> Doings] /\ working[w] \in Song
      /\ bpmType \in [Song -> BpmTypes] /\ bpmType[working[w]] # "absent"
    BY DEF Detect, Go, IdleInv, DetectionTypeOK, KnownBefore, threads, InThreads
<1>3. PICK type \in {"DETECTED", FailedType(working[w])} :
          bpmType' = [bpmType EXCEPT ![working[w]] = type]
    BY DEF Detect
<1>4. type \notin {"absent", "INVALID"}
    BY <1>2 DEF FailedType
<1>5. AtWork'
    BY <1>2 DEF AtWork
<1>6. KnownBefore' /\ ResultsThere'
    BY <1>2, <1>3, <1>4 DEF IdleInv, KnownBefore, ResultsThere, HasFinished
<1>7. RequestKept'
    BY <1>2, <1>5 DEF IdleInv, RequestKept, HasFinished
<1>. QED
    BY <1>1, <1>5, <1>6, <1>7 DEF IdleInv, NoSongForgotten

LEMMA IdleChoose ==
    ASSUME IdleInv, NEW u \in Worker, Choose(u) PROVE IdleInv'
<1>0. /\ DetectionTypeOK /\ KnownBefore /\ ResultsThere /\ RequestKept
      /\ doing \in [Worker -> Doings] /\ working \in [Worker -> Song \cup {NoSong}]
      /\ \A w \in Worker : w \in threads => working[w] \in Song
      /\ songToPlay \in Song \cup {NoSong} /\ asked \in {songToPlay, NoSong}
    BY DEF IdleInv, DetectionTypeOK
<1>1. DetectionTypeOK'
    BY TypeChoose DEF IdleInv
<1>2. /\ doing[u] = "choosing" /\ TakeTags
      /\ UNCHANGED <<scans, songToPlay, adding, asked, missed>>
    BY DEF Choose
<1>3. songToPlay # NoSong => bpmType'[songToPlay] # "absent"
    BY <1>0, <1>2, TagsAdd DEF KnownBefore
<1>4. ASSUME NEW w \in Worker, doing[w] = "detecting"
      PROVE  bpmType'[working[w]] # "absent"
    BY <1>0, <1>2, <1>4, InThreadsIff, TagsAdd DEF KnownBefore
<1>5. ASSUME NEW w \in Worker, HasFinished(w)
      PROVE  bpmType'[working[w]] \notin {"absent", "INVALID"}
    BY <1>0, <1>2, <1>5, InThreadsIff, TagsAdd DEF ResultsThere
<1>6. CASE nextSong # NoSong
    <2>1. /\ doing' = [doing EXCEPT ![u] = "detecting"]
          /\ working' = [working EXCEPT ![u] = nextSong]
        BY <1>6 DEF Choose, Go
    <2>2. nextSong \in Song /\ bpmType[nextSong] # "absent"
        BY <1>0, <1>6, NextSongFree, NextSongKnown
    <2>3. bpmType'[nextSong] # "absent"
        BY <1>0, <1>2, <2>2, TagsAdd
    <2>4. \A w \in Worker : w # u => doing'[w] = doing[w] /\ working'[w] = working[w]
        BY <1>0, <2>1
    <2>5. doing'[u] = "detecting" /\ working'[u] = nextSong
        BY <1>0, <2>1
    <2>6. KnownBefore'
        BY <1>2, <1>3, <1>4, <2>3, <2>4, <2>5 DEF KnownBefore
    <2>7. \A w \in Worker : HasFinished(w)' => HasFinished(w) /\ working'[w] = working[w]
        BY <2>4, <2>5 DEF HasFinished
    <2>8. ResultsThere'
        BY <1>5, <2>7 DEF ResultsThere
    <2>9. AtWork'
        BY <2>5 DEF AtWork
    <2>10. RequestKept'
        BY <1>0, <1>2, <2>7, <2>9 DEF RequestKept
    <2>. QED
        BY <1>1, <2>6, <2>8, <2>9, <2>10 DEF IdleInv, NoSongForgotten
<1>7. CASE nextSong = NoSong
    <2>1. doing' = [doing EXCEPT ![u] = "ending"] /\ working' = working
        BY <1>7 DEF Choose, Go
    <2>2. \A w \in Worker : w # u => doing'[w] = doing[w]
        BY <1>0, <2>1
    <2>3. doing'[u] = "ending" /\ HasFinished(u)
        BY <1>0, <1>2, <2>1 DEF HasFinished
    <2>4. \A w \in Worker : HasFinished(w)' => HasFinished(w)
        BY <2>2, <2>3 DEF HasFinished
    <2>5. KnownBefore'
        BY <1>2, <1>3, <1>4, <2>1, <2>2, <2>3 DEF KnownBefore
    <2>6. ResultsThere'
        BY <1>5, <2>1, <2>4 DEF ResultsThere
    <2>7. /\ Untested' \subseteq currentSongs
          /\ songToPlay # NoSong => songToPlay \in currentSongs
        BY <1>0, <1>2, <1>7, NothingLeft
    <2>8. AtWork' \/ Untested' = {}
        <3> SUFFICES ASSUME NEW s \in Untested' PROVE AtWork'
            OBVIOUS
        <3>1. PICK w \in threads : working[w] = s
            BY <2>7 DEF currentSongs
        <3>2. w \in Worker /\ bpmType'[s] = "INVALID"
            BY DEF Untested, threads
        <3>3. ~HasFinished(w)
            BY <1>5, <3>1, <3>2
        <3>4. doing'[w] = "detecting"
            BY <2>2, <2>3, <3>1, <3>2, <3>3, InThreadsIff
        <3>. QED
            BY <3>2, <3>4 DEF AtWork
    <2>9. RequestKept'
        <3> SUFFICES ASSUME ~missed, ~adding, asked # NoSong
                     PROVE  AtWork' /\ \A w \in Worker : HasFinished(w)' => working'[w] # asked
            BY <1>2 DEF RequestKept
        <3>1. PICK w \in threads : working[w] = asked
            BY <1>0, <2>7 DEF currentSongs
        <3>2. w \in Worker /\ ~HasFinished(w)
            BY <1>0, <3>1 DEF RequestKept, threads
        <3>3. doing'[w] = "detecting"
            BY <2>2, <2>3, <3>1, <3>2, InThreadsIff
        <3>. QED
            BY <1>0, <2>1, <2>4, <3>2, <3>3 DEF AtWork, RequestKept
    <2>. QED
        BY <1>1, <2>5, <2>6, <2>8, <2>9 DEF IdleInv, NoSongForgotten
<1>. QED
    BY <1>6, <1>7

LEMMA IdleLeaves ==
    ASSUME IdleInv, NEW u \in Worker,
           End(u) \/ createNotification(u) \/ startOrStopForeground(u)
    PROVE  IdleInv'
<1>1. DetectionTypeOK'
    BY TypeEnd, TypeNotice DEF IdleInv
<1>2. /\ UNCHANGED <<bpmType, scans, songToPlay, adding, asked, missed>>
      /\ doing \in [Worker -> Doings] /\ working \in [Worker -> Song \cup {NoSong}]
    BY DEF End, createNotification, startOrStopForeground, IdleInv, DetectionTypeOK
<1>3. /\ doing[u] \notin {"detecting", "choosing"}
      /\ doing'[u] \notin {"detecting", "choosing", "ending"}
      /\ \A w \in Worker : w # u => doing'[w] = doing[w] /\ working'[w] = working[w]
    BY <1>2 DEF End, createNotification, startOrStopForeground, Go
<1>4. \A w \in Worker : HasFinished(w)' => HasFinished(w) /\ working'[w] = working[w]
    BY <1>3 DEF HasFinished
<1>5. AtWork => AtWork'
    BY <1>3 DEF AtWork
<1>6. KnownBefore' /\ ResultsThere'
    BY <1>2, <1>3, <1>4 DEF IdleInv, KnownBefore, ResultsThere
<1>7. NoSongForgotten' /\ RequestKept'
    BY <1>2, <1>4, <1>5 DEF IdleInv, NoSongForgotten, RequestKept, Untested
<1>. QED
    BY <1>1, <1>6, <1>7 DEF IdleInv

(* However many songs, threads and requests there are, the service never    *)
(* comes to rest with a song of the library untested or a request unserved, *)
(* though intents are dropped while the threads are busy: whoever is at     *)
(* work looks for another song before it leaves (handleActionAddSong, run). *)
THEOREM IdleServiceHasNothingLeft == DetectionSpec => []IdleServiceIsDone
<1>1. DetectionInit => IdleInv
    <2> SUFFICES ASSUME DetectionInit PROVE IdleInv
        OBVIOUS
    <2>1. KnownBefore /\ ResultsThere
        BY DEF DetectionInit, KnownBefore, ResultsThere, HasFinished
    <2>2. NoSongForgotten /\ RequestKept
        BY DEF DetectionInit, NoSongForgotten, RequestKept, Untested
    <2>. QED
        BY <2>1, <2>2, TypeInit DEF IdleInv
<1>2. IdleInv /\ [DetectionNext]_detectionVars => IdleInv'
    <2> SUFFICES ASSUME IdleInv, [DetectionNext]_detectionVars PROVE IdleInv'
        OBVIOUS
    <2>1. ASSUME NEW song \in Song, ScanSong(song) \/ RequestSong(song) PROVE IdleInv'
        BY <2>1, IdleListener
    <2>2. CASE HandleScan \/ HandleRequest
        BY <2>2, IdleMain
    <2>3. ASSUME NEW w \in Worker, run(w) PROVE IdleInv'
        BY <2>3, IdleDetect, IdleChoose, IdleLeaves DEF run
    <2>4. CASE UNCHANGED detectionVars
        BY <2>4 DEF detectionVars, service, IdleInv, DetectionTypeOK, threads, KnownBefore,
           ResultsThere, NoSongForgotten, RequestKept, Untested, AtWork, HasFinished
    <2>. QED
        BY <2>1, <2>2, <2>3, <2>4 DEF DetectionNext
<1>3. IdleInv => IdleServiceIsDone
    <2> SUFFICES ASSUME IdleInv, ~missed, threads = {}, scans = 0, ~adding
                 PROVE  Untested = {} /\ asked = NoSong
        BY DEF IdleServiceIsDone
    <2>1. ~AtWork
        BY DEF AtWork, threads, InThreads
    <2>. QED
        BY <2>1 DEF IdleInv, NoSongForgotten, RequestKept
<1>. QED
    BY <1>1, <1>2, <1>3, PTL DEF DetectionSpec

-----------------------------------------------------------------------------
(* The comb filter.                                                         *)

LEMMA Division ==
    ASSUME NEW a \in Nat, NEW d \in Nat \ {0}
    PROVE  a \div d \in Nat /\ d * (a \div d) <= a
  BY SMT

LEMMA Fewer ==
    ASSUME NEW a \in Nat, NEW b \in Nat, NEW i \in Nat \ {0}, a * i < b * i
    PROVE  a < b
<1> SUFFICES ASSUME b <= a PROVE FALSE
  OBVIOUS
<1> PICK c \in Nat : a = b + c
  OBVIOUS
<1>1. a * i = b * i + c * i
  OBVIOUS
<1>2. c * i \in Nat
  OBVIOUS
<1> QED BY <1>1, <1>2

(* For any sampling rate and length, at every tempo the comb filter tries,  *)
(* every sample it adds up lies in the buffer of the band (filtercomb_td).  *)
THEOREM CombStaysInside ==
    ASSUME NEW len \in Nat, NEW hz \in Nat \ {0}, NEW i \in HalfBeats,
           NEW r \in CombReads(len, hz, i)
    PROVE  r \in 0 .. len - 1
<1>1. PICK l \in 0 .. NumPulses(len, hz) - 1, k \in 0 .. hz :
          r = (120 * hz * l) \div i + k /\ k * i < 120 * hz
  BY DEF CombReads
<1> DEFINE o == (120 * hz * l) \div i
           p == NumPulses(len, hz)
<1>2. p \in Nat /\ hz * p <= len
  BY Division DEF NumPulses
<1>3. i \in Nat \ {0} /\ 120 <= i
  BY DEF HalfBeats
<1>4. l \in Nat /\ l + 1 <= p /\ k \in Nat
  BY <1>2
<1>5. 120 * hz * l \in Nat
  BY <1>4
<1>6. o \in Nat /\ i * o <= 120 * hz * l
  BY <1>3, <1>5, Division
<1> HIDE DEF o, p
<1>7. (o + k) * i < 120 * hz * (l + 1)
  <2>1. (o + k) * i = i * o + k * i
    BY <1>3, <1>4, <1>6
  <2>2. 120 * hz * (l + 1) = 120 * hz * l + 120 * hz
    BY <1>4
  <2>3. i * o \in Nat /\ k * i \in Nat /\ 120 * hz \in Nat
    BY <1>3, <1>4, <1>6
  <2> QED BY <1>1, <1>5, <1>6, <2>1, <2>2, <2>3
<1>8. hz * (l + 1) <= len
  <2>1. PICK c \in Nat : p = (l + 1) + c
    BY <1>2, <1>4
  <2>2. hz * p = hz * (l + 1) + hz * c
    BY <1>4, <2>1
  <2>3. hz * c \in Nat /\ hz * (l + 1) \in Nat /\ hz * p \in Nat
    BY <1>2, <1>4
  <2> QED BY <1>2, <2>2, <2>3
<1>9. 120 * hz * (l + 1) <= len * i
  <2>1. 120 * hz * (l + 1) = 120 * (hz * (l + 1)) /\ hz * (l + 1) \in Nat
    BY <1>4
  <2>2. 120 * (hz * (l + 1)) <= 120 * len
    BY <1>8, <2>1
  <2>3. 120 * len <= len * i
    <3>1. PICK c \in Nat : i = 120 + c
      BY <1>3
    <3>2. len * i = 120 * len + len * c /\ len * c \in Nat
      BY <3>1
    <3> QED BY <3>2
  <2>4. len * i \in Nat
    BY <1>3
  <2> QED BY <2>1, <2>2, <2>3, <2>4
<1>10. (o + k) * i < len * i
  <2>1. (o + k) * i \in Nat /\ 120 * hz * (l + 1) \in Nat /\ len * i \in Nat
    BY <1>3, <1>4, <1>6
  <2> QED BY <1>7, <1>9, <2>1
<1>11. o + k < len
  BY <1>3, <1>4, <1>6, <1>10, Fewer
<1>12. r = o + k
  BY <1>1 DEF o
<1> QED BY <1>4, <1>6, <1>11, <1>12

-----------------------------------------------------------------------------
(* Types and ownership, one lemma per action.                               *)

(* A worker that makes a detector, memory knows its rate, and one that frees a      *)
(* detector, memory has one.                                                        *)
RatesKnown ==
    \A w \in Worker :
        /\ pc[w] \in {"free", "freeing", "create", "creating"} => rate[w] # 0
        /\ pc[w] \in {"free", "freeing", "leave", "leaving"} => fs[w] # 0

(* The detector, memory is there before the first sample is read. *)
Making == {"format", "free", "freeing", "create", "creating"}
NothingRead ==
    \A w \in Worker : pc[w] \in Making => pos[w] = 0 /\ wpos[w] = 0 /\ xpos[w] = 0

OwnedInv == TypeOK /\ DetectorIsOwned /\ RatesKnown /\ NothingRead /\ PlannerIsExclusive

LEMMA RatesAreNat == ASSUME NEW r \in Rates \cup {0} PROVE r \in Nat
  BY FileAssumption DEF Rates

LEMMA RateType ==
    ASSUME NEW f \in File
    PROVE  Rate[f] \in Rates \cup {0} /\ Length[f] \in Nat
  BY FileAssumption DEF Rates

LEMMA FieldsType ==
    ASSUME TypeOK, NEW w \in Worker
    PROVE  /\ fs[w] \in Nat /\ n[w] = Seconds * fs[w] /\ n[w] \in Nat
           /\ file[w] \in File /\ Length[file[w]] \in Nat
           /\ rate[w] \in Rates \cup {0} /\ rate[w] \in Nat /\ Seconds * rate[w] \in Nat
<1>1. fs[w] \in Rates \cup {0} /\ n[w] = Seconds * fs[w]
  BY DEF TypeOK, DetectorOK
<1>2. file[w] \in File /\ rate[w] \in Rates \cup {0}
  BY DEF TypeOK, ThreadsOK
<1>3. fs[w] \in Nat /\ rate[w] \in Nat /\ Length[file[w]] \in Nat
  BY <1>1, <1>2, RatesAreNat, RateType
<1> QED BY <1>1, <1>2, <1>3, SizeAssumption

LEMMA SizeType ==
    ASSUME TypeOK, NEW w \in Worker
    PROVE  size(w) \in Nat /\ pos[w] + size(w) <= Length[file[w]] /\ pos[w] + size(w) \in Nat
<1>1. pos[w] \in Nat /\ pos[w] <= Length[file[w]]
  BY DEF TypeOK, CountersOK, BoundsOK
<1> QED BY <1>1, FieldsType, SizeAssumption DEF size, LeastOf

LEMMA EndType ==
    ASSUME TypeOK, NEW w \in Worker
    PROVE  /\ endOf(w) \in Nat /\ endOf(w) <= n[w]
           /\ endOf(w) <= xpos[w] + size(w)
           /\ endOf(w) < n[w] => endOf(w) = xpos[w] + size(w)
<1>1. xpos[w] \in Nat /\ size(w) \in Nat
  BY SizeType DEF TypeOK, CountersOK
<1> QED BY <1>1, FieldsType DEF endOf, LeastOf

LEMMA OwnedInit == Init => OwnedInv
<1> SUFFICES ASSUME Init PROVE OwnedInv
  OBVIOUS
<1>1. ThreadsOK
  BY DEF Init, ThreadsOK, Labels
<1>2. CountersOK
  BY DEF Init, CountersOK
<1>3. DetectorOK
  <2>1. \A w \in Worker : n[w] = 0 /\ x[w] = <<>> /\ fs[w] = 0
    BY DEF Init
  <2>2. n = [w \in Worker |-> Seconds * fs[w]]
    BY <2>1, SizeAssumption DEF Init
  <2>3. <<>> \in [0 .. 0 - 1 -> (File \X Nat) \cup {Junk}]
    OBVIOUS
  <2> QED BY <2>1, <2>2, <2>3 DEF Init, DetectorOK
<1>4. BoundsOK
  <2> SUFFICES ASSUME NEW w \in Worker PROVE pos[w] <= Length[file[w]] /\ pc[w] = "none"
    BY DEF BoundsOK
  <2>1. file[w] \in File /\ pos[w] = 0 /\ pc[w] = "none"
    BY DEF Init
  <2> QED BY <2>1, RateType
<1>5. DetectorIsOwned /\ RatesKnown /\ NothingRead /\ PlannerIsExclusive
  BY DEF Init, DetectorIsOwned, RatesKnown, NothingRead, Making, PlannerIsExclusive
<1> QED BY <1>1, <1>2, <1>3, <1>4, <1>5 DEF OwnedInv, TypeOK

LEMMA Owned_createNativeStruct ==
    ASSUME OwnedInv, NEW w \in Worker, createNativeStruct(w)
    PROVE  OwnedInv'
<1>1. ThreadsOK'
  BY DEF ThreadsOK, DetectorOK, Labels, Rates, OwnedInv, TypeOK, createNativeStruct,
     decoder, detector, memory, Goto
<1>2. CountersOK'
  BY DEF CountersOK, OwnedInv, TypeOK, createNativeStruct, decoder
<1>3. DetectorOK'
  BY DEF ThreadsOK, DetectorOK, OwnedInv, TypeOK, createNativeStruct, detector, memory, Goto
<1>4. BoundsOK'
  BY DEF ThreadsOK, CountersOK, BoundsOK, OwnedInv, TypeOK, createNativeStruct, decoder,
     detector, memory, Goto
<1>5. DetectorIsOwned'
  BY DEF ThreadsOK, DetectorOK, DetectorIsOwned, RatesKnown, OwnedInv, TypeOK,
     createNativeStruct, detector, memory, Goto
<1>6. RatesKnown'
  BY DEF ThreadsOK, DetectorOK, RatesKnown, OwnedInv, TypeOK, createNativeStruct, decoder,
     detector, memory, Goto
<1>7. NothingRead'
  BY DEF ThreadsOK, CountersOK, NothingRead, Making, OwnedInv, TypeOK, createNativeStruct,
     decoder, Goto
<1>8. PlannerIsExclusive'
  BY DEF ThreadsOK, PlannerIsExclusive, OwnedInv, TypeOK, createNativeStruct, Goto
<1> QED BY <1>1, <1>2, <1>3, <1>4, <1>5, <1>6, <1>7, <1>8 DEF OwnedInv, TypeOK

LEMMA Owned_analyse_file ==
    ASSUME OwnedInv, NEW w \in Worker, NEW f \in File, analyse_file(w, f)
    PROVE  OwnedInv'
<1>1. ThreadsOK'
  BY DEF ThreadsOK, DetectorOK, Labels, Rates, OwnedInv, TypeOK, analyse_file, detector, memory,
     Goto
<1>2. CountersOK'
  BY DEF CountersOK, OwnedInv, TypeOK, analyse_file
<1>3. DetectorOK'
  BY DEF ThreadsOK, DetectorOK, OwnedInv, TypeOK, analyse_file, detector, memory, Goto
<1>4. BoundsOK'
  BY RateType DEF ThreadsOK, CountersOK, BoundsOK, OwnedInv, TypeOK, analyse_file, detector, memory,
     Goto
<1>5. DetectorIsOwned'
  BY DEF ThreadsOK, DetectorOK, DetectorIsOwned, RatesKnown, OwnedInv, TypeOK, analyse_file,
     detector, memory, Goto
<1>6. RatesKnown'
  BY DEF ThreadsOK, DetectorOK, RatesKnown, OwnedInv, TypeOK, analyse_file, detector, memory, Goto
<1>7. NothingRead'
  BY DEF ThreadsOK, CountersOK, NothingRead, Making, OwnedInv, TypeOK, analyse_file, Goto
<1>8. PlannerIsExclusive'
  BY DEF ThreadsOK, PlannerIsExclusive, OwnedInv, TypeOK, analyse_file, Goto
<1> QED BY <1>1, <1>2, <1>3, <1>4, <1>5, <1>6, <1>7, <1>8 DEF OwnedInv, TypeOK

LEMMA Owned_analyse_nothing ==
    ASSUME OwnedInv, NEW w \in Worker, analyse_nothing(w)
    PROVE  OwnedInv'
<1>1. ThreadsOK'
  BY DEF ThreadsOK, DetectorOK, Labels, Rates, OwnedInv, TypeOK, analyse_nothing, detector, memory,
     Goto, Return
<1>2. CountersOK'
  BY DEF CountersOK, OwnedInv, TypeOK, analyse_nothing
<1>3. DetectorOK'
  BY DEF ThreadsOK, DetectorOK, OwnedInv, TypeOK, analyse_nothing, detector, memory, Goto, Return
<1>4. BoundsOK'
  BY DEF ThreadsOK, CountersOK, BoundsOK, OwnedInv, TypeOK, analyse_nothing, detector, memory, Goto,
     Return
<1>5. DetectorIsOwned'
  BY DEF ThreadsOK, DetectorOK, DetectorIsOwned, RatesKnown, OwnedInv, TypeOK,
     analyse_nothing, detector, memory, Goto, Return
<1>6. RatesKnown'
  BY DEF ThreadsOK, DetectorOK, RatesKnown, OwnedInv, TypeOK, analyse_nothing, detector, memory,
     Goto, Return
<1>7. NothingRead'
  BY DEF ThreadsOK, CountersOK, NothingRead, Making, OwnedInv, TypeOK, analyse_nothing,
     Goto, Return
<1>8. PlannerIsExclusive'
  BY DEF ThreadsOK, PlannerIsExclusive, OwnedInv, TypeOK, analyse_nothing, Goto, Return
<1> QED BY <1>1, <1>2, <1>3, <1>4, <1>5, <1>6, <1>7, <1>8 DEF OwnedInv, TypeOK

LEMMA Owned_header ==
    ASSUME OwnedInv, NEW w \in Worker, header(w)
    PROVE  OwnedInv'
<1>0. PICK r \in IF opened[w] THEN {Rate[file[w]]} ELSE Rates \cup {0} :
        /\ rate' = [rate EXCEPT ![w] = r]
        /\ \/ r = 0 /\ Return(w, "failed")
           \/ r # 0 /\ r = fs[w] /\ Goto(w, "read") /\ UNCHANGED outcome
           \/ /\ r # 0 /\ r # fs[w] /\ UNCHANGED outcome
              /\ Goto(w, IF fs[w] # 0 THEN "free" ELSE "create")
  BY DEF header
<1>a. r \in Rates \cup {0}
  BY FieldsType, RateType DEF OwnedInv
<1>b. /\ pc[w] = "format"
      /\ UNCHANGED <<file, opened, pos, wpos, xpos, detector, planner, crashed, noMemory>>
  BY DEF header
<1>c. /\ pc \in [Worker -> Labels] /\ pc' \in [Worker -> Labels]
      /\ rate \in [Worker -> Rates \cup {0}]
  BY <1>0 DEF OwnedInv, TypeOK, ThreadsOK, Goto, Return, Labels
<1>1. ThreadsOK'
  BY <1>0, <1>a, <1>b, <1>c DEF OwnedInv, TypeOK, ThreadsOK, Return
<1>2. CountersOK'
  BY <1>b DEF OwnedInv, TypeOK, CountersOK
<1>3. DetectorOK'
  BY <1>b DEF OwnedInv, TypeOK, DetectorOK, detector, memory
<1>4. BoundsOK'
  <2> SUFFICES ASSUME NEW v \in Worker
      PROVE (pc[v] \in {"read", "detect"} => xpos[v] <= n[v])' /\ (pos[v] <= Length[file[v]])'
    BY DEF BoundsOK
  <2>1. CASE v # w
    BY <1>0, <1>b, <1>c, <2>1 DEF OwnedInv, TypeOK, BoundsOK, detector, memory, Goto, Return
  <2>2. CASE v = w
    <3>1. xpos[w] = 0 /\ n[w] \in Nat
      BY <1>b, FieldsType DEF OwnedInv, NothingRead, Making
    <3> QED BY <1>b, <2>2, <3>1 DEF OwnedInv, TypeOK, BoundsOK, detector, memory
  <2> QED BY <2>1, <2>2
<1>5. DetectorIsOwned'
  BY <1>0, <1>b, <1>c DEF OwnedInv, DetectorIsOwned, detector, memory, Goto, Return
<1>6. RatesKnown'
  BY <1>0, <1>b, <1>c DEF OwnedInv, RatesKnown, detector, memory, Goto, Return
<1>7. NothingRead'
  BY <1>0, <1>b, <1>c DEF OwnedInv, NothingRead, Making, Goto, Return
<1>8. PlannerIsExclusive'
  BY <1>0, <1>b, <1>c DEF OwnedInv, PlannerIsExclusive, Goto, Return
<1> QED BY <1>1, <1>2, <1>3, <1>4, <1>5, <1>6, <1>7, <1>8 DEF OwnedInv, TypeOK

LEMMA Owned_lock ==
    ASSUME OwnedInv, NEW w \in Worker, lock(w)
    PROVE  OwnedInv'
<1>1. ThreadsOK'
  BY DEF ThreadsOK, DetectorOK, Labels, Rates, OwnedInv, TypeOK, lock, decoder, detector, memory,
     Goto, Locking
<1>2. CountersOK'
  BY DEF CountersOK, OwnedInv, TypeOK, lock, decoder, Locking
<1>3. DetectorOK'
  BY DEF ThreadsOK, DetectorOK, OwnedInv, TypeOK, lock, detector, memory, Goto, Locking
<1>4. BoundsOK'
  BY DEF ThreadsOK, CountersOK, BoundsOK, OwnedInv, TypeOK, lock, decoder, detector, memory, Goto,
     Locking
<1>5. DetectorIsOwned'
  BY DEF ThreadsOK, DetectorOK, DetectorIsOwned, RatesKnown, OwnedInv, TypeOK, lock,
     detector, memory, Goto, Locking
<1>6. RatesKnown'
  BY DEF ThreadsOK, DetectorOK, RatesKnown, OwnedInv, TypeOK, lock, decoder, detector, memory, Goto,
     Locking
<1>7. NothingRead'
  BY DEF ThreadsOK, CountersOK, NothingRead, Making, OwnedInv, TypeOK, lock, decoder, Goto,
     Locking
<1>8. PlannerIsExclusive'
  BY WorkerAssumption DEF ThreadsOK, PlannerIsExclusive, OwnedInv, TypeOK, lock, Goto,
     Locking
<1> QED BY <1>1, <1>2, <1>3, <1>4, <1>5, <1>6, <1>7, <1>8 DEF OwnedInv, TypeOK

LEMMA Owned_free_beat_detector_fields ==
    ASSUME OwnedInv, NEW w \in Worker, free_beat_detector_fields(w)
    PROVE  OwnedInv'
<1>1. ThreadsOK'
  BY DEF ThreadsOK, DetectorOK, Labels, Rates, OwnedInv, TypeOK, free_beat_detector_fields,
     decoder, Goto
<1>2. CountersOK'
  BY DEF CountersOK, OwnedInv, TypeOK, free_beat_detector_fields, decoder
<1>3. DetectorOK'
  <2>1. allocated[w] = Part
    BY DEF OwnedInv, DetectorIsOwned, RatesKnown, free_beat_detector_fields
  <2>2. allocated' \in [Worker -> {{}, Part}]
    BY <2>1 DEF OwnedInv, TypeOK, DetectorOK, free_beat_detector_fields
  <2> QED BY <2>2 DEF OwnedInv, TypeOK, DetectorOK, free_beat_detector_fields
<1>4. BoundsOK'
  BY DEF ThreadsOK, CountersOK, BoundsOK, OwnedInv, TypeOK, free_beat_detector_fields,
     decoder, Goto
<1>5. DetectorIsOwned'
  <2>1. allocated[w] = Part
    BY DEF OwnedInv, DetectorIsOwned, RatesKnown, free_beat_detector_fields
  <2>2. allocated'[w] = {}
    BY <2>1 DEF OwnedInv, TypeOK, DetectorOK, free_beat_detector_fields
  <2> QED BY <2>2 DEF OwnedInv, TypeOK, ThreadsOK, DetectorOK, DetectorIsOwned,
     free_beat_detector_fields, Goto
<1>6. RatesKnown'
  BY DEF ThreadsOK, DetectorOK, RatesKnown, OwnedInv, TypeOK, free_beat_detector_fields,
     decoder, Goto
<1>7. NothingRead'
  BY DEF ThreadsOK, CountersOK, NothingRead, Making, OwnedInv, TypeOK,
     free_beat_detector_fields, decoder, Goto
<1>8. PlannerIsExclusive'
  BY WorkerAssumption DEF ThreadsOK, PlannerIsExclusive, OwnedInv, TypeOK,
     free_beat_detector_fields, Goto
<1> QED BY <1>1, <1>2, <1>3, <1>4, <1>5, <1>6, <1>7, <1>8 DEF OwnedInv, TypeOK

LEMMA Owned_create_beat_detector ==
    ASSUME OwnedInv, NEW w \in Worker, create_beat_detector(w)
    PROVE  OwnedInv'
<1>a. /\ pc[w] = "creating" /\ allocated[w] = {} /\ rate[w] # 0 /\ xpos[w] = 0
      /\ rate[w] \in Rates \cup {0} /\ Seconds * rate[w] \in Nat
  BY FieldsType DEF OwnedInv, DetectorIsOwned, RatesKnown, NothingRead, Making,
     create_beat_detector
<1>b. PICK got \in SUBSET Part :
        LET hz == IF got = Part THEN rate[w] ELSE 0 IN
        /\ fs' = [fs EXCEPT ![w] = hz] /\ n' = [n EXCEPT ![w] = Seconds * hz]
        /\ x' = [x EXCEPT ![w] = [i \in 0 .. Seconds * hz - 1 |-> Junk]]
        /\ allocated' = [allocated EXCEPT ![w] = IF got = Part THEN Part ELSE {}]
        /\ leaked' = (leaked \/ allocated[w] # {} \/ got \notin {{}, Part})
        /\ brokeOff' = (brokeOff \/ got \notin {{}, Part})
  BY DEF create_beat_detector
<1> DEFINE hz == IF got = Part THEN rate[w] ELSE 0
<1>c. /\ hz \in Rates \cup {0} /\ Seconds * hz \in Nat
      /\ fs' = [fs EXCEPT ![w] = hz] /\ n' = [n EXCEPT ![w] = Seconds * hz]
      /\ x' = [x EXCEPT ![w] = [i \in 0 .. Seconds * hz - 1 |-> Junk]]
  BY <1>a, <1>b, SizeAssumption
<1>d. fs'[w] = hz /\ allocated'[w] = (IF hz = 0 THEN {} ELSE Part)
  BY <1>a, <1>b, <1>c DEF OwnedInv, TypeOK, DetectorOK
<1> HIDE DEF hz
<1>1. ThreadsOK'
  BY DEF ThreadsOK, DetectorOK, Labels, Rates, OwnedInv, TypeOK, create_beat_detector,
     decoder, Goto
<1>2. CountersOK'
  BY DEF CountersOK, OwnedInv, TypeOK, create_beat_detector, decoder
<1>3. DetectorOK'
  <2>1. /\ allocated' \in [Worker -> {{}, Part}]
        /\ leaked' \in BOOLEAN /\ brokeOff' \in BOOLEAN
    BY <1>a, <1>b DEF OwnedInv, TypeOK, DetectorOK
  <2>2. fs' \in [Worker -> Rates \cup {0}]
    BY <1>c DEF OwnedInv, TypeOK, DetectorOK
  <2>3. n' = [v \in Worker |-> Seconds * fs'[v]]
    BY <1>c DEF OwnedInv, TypeOK, DetectorOK
  <2>4. x' = [v \in Worker |-> x'[v]]
    BY <1>c DEF OwnedInv, TypeOK, DetectorOK
  <2>5. \A v \in Worker : x'[v] \in [0 .. n'[v] - 1 -> (File \X Nat) \cup {Junk}]
    <3> SUFFICES ASSUME NEW v \in Worker
        PROVE x'[v] \in [0 .. n'[v] - 1 -> (File \X Nat) \cup {Junk}]
      OBVIOUS
    <3>1. /\ n = [u \in Worker |-> Seconds * fs[u]] /\ x = [u \in Worker |-> x[u]]
          /\ x[v] \in [0 .. n[v] - 1 -> (File \X Nat) \cup {Junk}]
      BY DEF OwnedInv, TypeOK, DetectorOK
    <3>2. CASE v # w
      BY <1>c, <3>1, <3>2
    <3>3. CASE v = w
      BY <1>c, <3>1, <3>3
    <3> QED BY <3>2, <3>3
  <2> QED BY <2>1, <2>2, <2>3, <2>4, <2>5 DEF DetectorOK
<1>4. BoundsOK'
  <2> SUFFICES ASSUME NEW v \in Worker
      PROVE (pc[v] \in {"read", "detect"} => xpos[v] <= n[v])' /\ (pos[v] <= Length[file[v]])'
    BY DEF BoundsOK
  <2>1. CASE v # w
    BY <2>1 DEF OwnedInv, TypeOK, ThreadsOK, DetectorOK, BoundsOK, create_beat_detector,
       decoder, Goto
  <2>2. CASE v = w
    <3>1. n'[w] \in Nat
      BY <1>c DEF OwnedInv, TypeOK, DetectorOK
    <3> QED BY <1>a, <2>2, <3>1 DEF OwnedInv, TypeOK, BoundsOK, create_beat_detector,
       decoder
  <2> QED BY <2>1, <2>2
<1>5. DetectorIsOwned'
  <2>1. pc' = [pc EXCEPT ![w] = "read"] /\ pc \in [Worker -> Labels]
    BY DEF OwnedInv, TypeOK, ThreadsOK, create_beat_detector, Goto
  <2>2. \A v \in Worker \ {w} : fs'[v] = fs[v] /\ allocated'[v] = allocated[v] /\ pc'[v] = pc[v]
    BY <1>b, <1>c, <2>1 DEF OwnedInv, TypeOK, DetectorOK
  <2>3. leaked' => brokeOff'
    BY <1>a, <1>b DEF OwnedInv, DetectorIsOwned
  <2> QED BY <1>d, <2>1, <2>2, <2>3 DEF OwnedInv, DetectorIsOwned
<1>6. RatesKnown'
  BY DEF ThreadsOK, DetectorOK, RatesKnown, OwnedInv, TypeOK, create_beat_detector, decoder,
     Goto
<1>7. NothingRead'
  BY DEF ThreadsOK, CountersOK, NothingRead, Making, OwnedInv, TypeOK, create_beat_detector,
     decoder, Goto
<1>8. PlannerIsExclusive'
  BY WorkerAssumption DEF ThreadsOK, PlannerIsExclusive, OwnedInv, TypeOK,
     create_beat_detector, Goto
<1> QED BY <1>1, <1>2, <1>3, <1>4, <1>5, <1>6, <1>7, <1>8 DEF OwnedInv, TypeOK

LEMMA Owned_finished ==
    ASSUME OwnedInv, NEW w \in Worker, finished(w)
    PROVE  OwnedInv'
<1>1. ThreadsOK'
  BY DEF ThreadsOK, DetectorOK, Labels, Rates, OwnedInv, TypeOK, finished, decoder,
     detector, memory, Goto, Return
<1>2. CountersOK'
  BY DEF CountersOK, OwnedInv, TypeOK, finished, decoder
<1>3. DetectorOK'
  BY DEF ThreadsOK, DetectorOK, OwnedInv, TypeOK, finished, detector, memory, Goto, Return
<1>4. BoundsOK'
  BY DEF ThreadsOK, CountersOK, BoundsOK, OwnedInv, TypeOK, finished, decoder, detector, memory,
     Goto, Return
<1>5. DetectorIsOwned'
  BY DEF ThreadsOK, DetectorOK, DetectorIsOwned, RatesKnown, OwnedInv, TypeOK, finished,
     detector, memory, Goto, Return
<1>6. RatesKnown'
  BY DEF ThreadsOK, DetectorOK, RatesKnown, OwnedInv, TypeOK, finished, decoder, detector, memory,
     Goto, Return
<1>7. NothingRead'
  BY DEF ThreadsOK, CountersOK, NothingRead, Making, OwnedInv, TypeOK, finished, decoder,
     Goto, Return
<1>8. PlannerIsExclusive'
  BY DEF ThreadsOK, PlannerIsExclusive, OwnedInv, TypeOK, finished, Goto, Return
<1> QED BY <1>1, <1>2, <1>3, <1>4, <1>5, <1>6, <1>7, <1>8 DEF OwnedInv, TypeOK

LEMMA Owned_skip ==
    ASSUME OwnedInv, NEW w \in Worker, skip(w)
    PROVE  OwnedInv'
<1>a. /\ size(w) \in Nat /\ endOf(w) \in Nat /\ endOf(w) <= n[w] /\ n[w] \in Nat
      /\ pos[w] + size(w) \in Nat /\ pos[w] + size(w) <= Length[file[w]]
  BY SizeType, EndType, FieldsType DEF OwnedInv
<1>1. ThreadsOK'
  BY DEF ThreadsOK, DetectorOK, Labels, Rates, OwnedInv, TypeOK, skip, detector, memory, Goto,
     Return, After
<1>2. CountersOK'
  BY <1>a DEF CountersOK, OwnedInv, TypeOK, skip
<1>3. DetectorOK'
  BY DEF ThreadsOK, DetectorOK, OwnedInv, TypeOK, skip, detector, memory, Goto, Return, After
<1>4. BoundsOK'
  <2> SUFFICES ASSUME NEW v \in Worker
      PROVE (pc[v] \in {"read", "detect"} => xpos[v] <= n[v])' /\ (pos[v] <= Length[file[v]])'
    BY DEF BoundsOK
  <2>1. pos \in [Worker -> Nat] /\ pc \in [Worker -> Labels] /\ BoundsOK
    BY DEF OwnedInv, TypeOK, ThreadsOK, CountersOK
  <2>2. (pc[v] \in {"read", "detect"} => xpos[v] <= n[v])'
    BY <2>1 DEF BoundsOK, skip, After, Return, Goto, detector, memory
  <2>3. (pos[v] <= Length[file[v]])'
    BY <1>a, <2>1 DEF BoundsOK, skip
  <2> QED BY <2>2, <2>3
<1>5. DetectorIsOwned'
  BY DEF ThreadsOK, DetectorOK, DetectorIsOwned, RatesKnown, OwnedInv, TypeOK, skip,
     detector, memory, Goto, Return, After
<1>6. RatesKnown'
  BY DEF ThreadsOK, DetectorOK, RatesKnown, OwnedInv, TypeOK, skip, detector, memory, Goto, Return,
     After
<1>7. NothingRead'
  BY DEF ThreadsOK, CountersOK, NothingRead, Making, OwnedInv, TypeOK, skip, Goto, Return,
     After
<1>8. PlannerIsExclusive'
  BY DEF ThreadsOK, PlannerIsExclusive, OwnedInv, TypeOK, skip, Goto, Return, After
<1> QED BY <1>1, <1>2, <1>3, <1>4, <1>5, <1>6, <1>7, <1>8 DEF OwnedInv, TypeOK

LEMMA Owned_fill ==
    ASSUME OwnedInv, NEW w \in Worker, fill(w)
    PROVE  OwnedInv'
<1>a. /\ size(w) \in Nat /\ endOf(w) \in Nat /\ endOf(w) <= n[w] /\ n[w] \in Nat
      /\ pos[w] + size(w) \in Nat /\ pos[w] + size(w) <= Length[file[w]]
  BY SizeType, EndType, FieldsType DEF OwnedInv
<1>1. ThreadsOK'
  BY DEF ThreadsOK, DetectorOK, Labels, Rates, OwnedInv, TypeOK, fill, Goto, Return, After
<1>2. CountersOK'
  BY <1>a DEF CountersOK, OwnedInv, TypeOK, fill
<1>3. DetectorOK'
  <2>1. \A v \in Worker : x'[v] \in [0 .. n[v] - 1 -> (File \X Nat) \cup {Junk}]
    <3> SUFFICES ASSUME NEW v \in Worker
        PROVE x'[v] \in [0 .. n[v] - 1 -> (File \X Nat) \cup {Junk}]
      OBVIOUS
    <3>1. /\ x = [u \in Worker |-> x[u]]
          /\ x[v] \in [0 .. n[v] - 1 -> (File \X Nat) \cup {Junk}]
      BY DEF OwnedInv, TypeOK, DetectorOK
    <3>2. file[w] \in File /\ pos[w] \in Nat /\ xpos[w] \in Nat
      BY DEF OwnedInv, TypeOK, ThreadsOK, CountersOK
    <3>3. CASE v # w
      BY <3>1, <3>3 DEF fill
    <3>4. CASE v = w
      <4>1. x'[v] = [i \in 0 .. n[v] - 1 |->
               IF i \in xpos[w] .. endOf(w) - 1 THEN <<file[w], pos[w] + i - xpos[w]>> ELSE x[v][i]]
        BY <3>1, <3>4 DEF fill
      <4>2. ASSUME NEW i \in 0 .. n[v] - 1, i \in xpos[w] .. endOf(w) - 1
            PROVE  <<file[w], pos[w] + i - xpos[w]>> \in File \X Nat
        BY <1>a, <3>2, <4>2
      <4> QED BY <3>1, <4>1, <4>2
    <3> QED BY <3>3, <3>4
  <2> QED BY <2>1 DEF OwnedInv, TypeOK, DetectorOK, fill, memory
<1>4. BoundsOK'
  <2> SUFFICES ASSUME NEW v \in Worker
      PROVE (pc[v] \in {"read", "detect"} => xpos[v] <= n[v])' /\ (pos[v] <= Length[file[v]])'
    BY DEF BoundsOK
  <2>1. pos \in [Worker -> Nat] /\ xpos \in [Worker -> Nat] /\ pc \in [Worker -> Labels] /\ BoundsOK
    BY DEF OwnedInv, TypeOK, ThreadsOK, CountersOK
  <2>2. (pc[v] \in {"read", "detect"} => xpos[v] <= n[v])'
    <3>1. CASE v # w
      BY <2>1, <3>1 DEF BoundsOK, fill, After, Return, Goto
    <3>2. CASE v = w
      BY <1>a, <2>1, <3>2 DEF fill
    <3> QED BY <3>1, <3>2
  <2>3. (pos[v] <= Length[file[v]])'
    BY <1>a, <2>1 DEF BoundsOK, fill
  <2> QED BY <2>2, <2>3
<1>5. DetectorIsOwned'
  BY DEF ThreadsOK, DetectorOK, DetectorIsOwned, RatesKnown, OwnedInv, TypeOK, fill, Goto,
     Return, After, memory
<1>6. RatesKnown'
  BY DEF ThreadsOK, DetectorOK, RatesKnown, OwnedInv, TypeOK, fill, Goto, Return, After
<1>7. NothingRead'
  BY DEF ThreadsOK, CountersOK, NothingRead, Making, OwnedInv, TypeOK, fill, Goto, Return,
     After
<1>8. PlannerIsExclusive'
  BY DEF ThreadsOK, PlannerIsExclusive, OwnedInv, TypeOK, fill, Goto, Return, After
<1> QED BY <1>1, <1>2, <1>3, <1>4, <1>5, <1>6, <1>7, <1>8 DEF OwnedInv, TypeOK

LEMMA Owned_beatdetect ==
    ASSUME OwnedInv, NEW w \in Worker, beatdetect(w)
    PROVE  OwnedInv'
<1>1. ThreadsOK'
  BY DEF ThreadsOK, DetectorOK, Labels, Rates, OwnedInv, TypeOK, beatdetect, decoder, Goto,
     Return
<1>2. CountersOK'
  BY DEF CountersOK, OwnedInv, TypeOK, beatdetect, decoder
<1>3. DetectorOK'
  BY DEF ThreadsOK, DetectorOK, OwnedInv, TypeOK, beatdetect, memory, Goto, Return
<1>4. BoundsOK'
  BY DEF ThreadsOK, CountersOK, BoundsOK, OwnedInv, TypeOK, beatdetect, decoder, Goto,
     Return
<1>5. DetectorIsOwned'
  BY DEF ThreadsOK, DetectorOK, DetectorIsOwned, RatesKnown, OwnedInv, TypeOK, beatdetect,
     memory, Goto, Return
<1>6. RatesKnown'
  BY DEF ThreadsOK, DetectorOK, RatesKnown, OwnedInv, TypeOK, beatdetect, decoder, Goto,
     Return
<1>7. NothingRead'
  BY DEF ThreadsOK, CountersOK, NothingRead, Making, OwnedInv, TypeOK, beatdetect, decoder,
     Goto, Return
<1>8. PlannerIsExclusive'
  BY DEF ThreadsOK, PlannerIsExclusive, OwnedInv, TypeOK, beatdetect, Goto, Return
<1> QED BY <1>1, <1>2, <1>3, <1>4, <1>5, <1>6, <1>7, <1>8 DEF OwnedInv, TypeOK

LEMMA Owned_freeNativeStruct ==
    ASSUME OwnedInv, NEW w \in Worker, freeNativeStruct(w)
    PROVE  OwnedInv'
<1>0. /\ pc[w] = "ready"
      /\ pc' = [pc EXCEPT ![w] = IF fs[w] # 0 THEN "leave" ELSE "none"]
      /\ UNCHANGED <<fs, n, x, decoder, wpos, xpos, outcome, planner, crashed, noMemory>>
      /\ pc \in [Worker -> Labels] /\ pc' \in [Worker -> Labels]
  BY DEF OwnedInv, TypeOK, ThreadsOK, Labels, freeNativeStruct, Goto
<1>a. UNCHANGED <<allocated, leaked, brokeOff>>
  <2>1. CASE fs[w] # 0
    BY <2>1 DEF freeNativeStruct, memory
  <2>2. CASE fs[w] = 0
    <3>1. allocated[w] = {} /\ allocated \in [Worker -> {{}, Part}] /\ leaked \in BOOLEAN
      BY <2>2 DEF OwnedInv, DetectorIsOwned, TypeOK, DetectorOK
    <3> QED BY <2>2, <3>1 DEF freeNativeStruct
  <2> QED BY <2>1, <2>2
<1>1. ThreadsOK'
  BY DEF ThreadsOK, DetectorOK, Labels, Rates, OwnedInv, TypeOK, freeNativeStruct, decoder,
     detector, memory, Goto
<1>2. CountersOK'
  BY DEF CountersOK, OwnedInv, TypeOK, freeNativeStruct, decoder
<1>3. DetectorOK'
  BY DEF ThreadsOK, DetectorOK, OwnedInv, TypeOK, freeNativeStruct, detector, memory, Goto
<1>4. BoundsOK'
  BY DEF ThreadsOK, CountersOK, BoundsOK, OwnedInv, TypeOK, freeNativeStruct, decoder,
     detector, memory, Goto
<1>5. DetectorIsOwned'
  <2>1. pc[w] \notin {"create", "creating"} /\ pc'[w] \notin {"create", "creating"}
    BY <1>0
  <2>2. \A v \in Worker : (pc'[v] \in {"create", "creating"}) = (pc[v] \in {"create", "creating"})
    BY <1>0, <2>1
  <2> QED BY <1>0, <1>a, <2>2 DEF OwnedInv, DetectorIsOwned
<1>6. RatesKnown'
  BY DEF ThreadsOK, DetectorOK, RatesKnown, OwnedInv, TypeOK, freeNativeStruct, decoder,
     detector, memory, Goto
<1>7. NothingRead'
  BY DEF ThreadsOK, CountersOK, NothingRead, Making, OwnedInv, TypeOK, freeNativeStruct,
     decoder, Goto
<1>8. PlannerIsExclusive'
  BY DEF ThreadsOK, PlannerIsExclusive, OwnedInv, TypeOK, freeNativeStruct, Goto
<1> QED BY <1>1, <1>2, <1>3, <1>4, <1>5, <1>6, <1>7, <1>8 DEF OwnedInv, TypeOK

LEMMA Owned_leave ==
    ASSUME OwnedInv, NEW w \in Worker, leave(w)
    PROVE  OwnedInv'
<1>1. ThreadsOK'
  BY DEF ThreadsOK, DetectorOK, Labels, Rates, OwnedInv, TypeOK, leave, decoder, Goto
<1>2. CountersOK'
  BY DEF CountersOK, OwnedInv, TypeOK, leave, decoder
<1>3. DetectorOK'
  <2>1. allocated[w] = Part
    BY DEF OwnedInv, DetectorIsOwned, RatesKnown, leave
  <2>2. allocated' \in [Worker -> {{}, Part}] /\ fs' \in [Worker -> Rates \cup {0}]
    BY <2>1 DEF OwnedInv, TypeOK, DetectorOK, leave
  <2>3. n' = [v \in Worker |-> Seconds * fs'[v]]
    <3>1. n = [v \in Worker |-> Seconds * fs[v]] /\ fs \in [Worker -> Rates \cup {0}]
      BY DEF OwnedInv, TypeOK, DetectorOK
    <3>2. Seconds * 0 = 0
      BY SizeAssumption
    <3> QED BY <3>1, <3>2 DEF leave
  <2>4. x' = [v \in Worker |-> x'[v]]
    BY DEF OwnedInv, TypeOK, DetectorOK, leave
  <2>5. \A v \in Worker : x'[v] \in [0 .. n'[v] - 1 -> (File \X Nat) \cup {Junk}]
    <3>1. <<>> \in [0 .. 0 - 1 -> (File \X Nat) \cup {Junk}]
      OBVIOUS
    <3>2. n = [v \in Worker |-> Seconds * fs[v]]
      BY DEF OwnedInv, TypeOK, DetectorOK
    <3> QED BY <3>1, <3>2 DEF OwnedInv, TypeOK, DetectorOK, leave
  <2>6. leaked' \in BOOLEAN /\ brokeOff' \in BOOLEAN
    BY DEF OwnedInv, TypeOK, DetectorOK, leave
  <2> QED BY <2>2, <2>3, <2>4, <2>5, <2>6 DEF DetectorOK
<1>4. BoundsOK'
  BY DEF ThreadsOK, CountersOK, BoundsOK, OwnedInv, TypeOK, leave, decoder, Goto
<1>5. DetectorIsOwned'
  <2>1. allocated[w] = Part
    BY DEF OwnedInv, DetectorIsOwned, RatesKnown, leave
  <2>2. allocated'[w] = {} /\ fs'[w] = 0
    BY <2>1 DEF OwnedInv, TypeOK, DetectorOK, leave
  <2> QED BY <2>2 DEF OwnedInv, TypeOK, ThreadsOK, DetectorOK, DetectorIsOwned, leave, Goto
<1>6. RatesKnown'
  BY DEF ThreadsOK, DetectorOK, RatesKnown, OwnedInv, TypeOK, leave, decoder, Goto
<1>7. NothingRead'
  BY DEF ThreadsOK, CountersOK, NothingRead, Making, OwnedInv, TypeOK, leave, decoder, Goto
<1>8. PlannerIsExclusive'
  BY WorkerAssumption DEF ThreadsOK, PlannerIsExclusive, OwnedInv, TypeOK, leave, Goto
<1> QED BY <1>1, <1>2, <1>3, <1>4, <1>5, <1>6, <1>7, <1>8 DEF OwnedInv, TypeOK

LEMMA OwnedStep == OwnedInv /\ [Next]_vars => OwnedInv'
<1> SUFFICES ASSUME OwnedInv, [Next]_vars PROVE OwnedInv'
  OBVIOUS
<1>1. CASE UNCHANGED vars
  BY <1>1 DEF OwnedInv, TypeOK, ThreadsOK, CountersOK, DetectorOK, BoundsOK,
     DetectorIsOwned, RatesKnown, NothingRead, PlannerIsExclusive, vars, decoder, detector, memory
<1>2. ASSUME NEW w \in Worker, Service(w) \/ lock(w) \/ Work(w)
      PROVE  OwnedInv'
  BY <1>2, Owned_createNativeStruct, Owned_analyse_file, Owned_analyse_nothing,
     Owned_header, Owned_lock, Owned_free_beat_detector_fields, Owned_create_beat_detector,
     Owned_finished, Owned_skip, Owned_fill, Owned_beatdetect, Owned_freeNativeStruct,
     Owned_leave DEF Service, Work
<1> QED BY <1>1, <1>2 DEF Next

LEMMA OwnedAlways == Spec => []OwnedInv
<1> QED BY OwnedInit, OwnedStep, PTL DEF Spec

(* Every variable keeps its type, no file is decoded past its end and the   *)
(* window never outgrows the detector's input.                              *)
THEOREM TypeCorrect == Spec => []TypeOK
<1>1. OwnedInv => TypeOK
  BY DEF OwnedInv
<1> QED BY <1>1, OwnedAlways, PTL

(* No detector is used or freed after it was freed, and none is left behind *)
(* by free_beat_detector_fields and freeNativeStruct.  Memory is lost only  *)
(* once create_beat_detector could allocate some parts and not others: it   *)
(* abandons those it has.                                                   *)
THEOREM DetectorAlwaysOwned == Spec => []DetectorIsOwned
<1>1. OwnedInv => DetectorIsOwned
  BY DEF OwnedInv
<1> QED BY <1>1, OwnedAlways, PTL

(* However many threads analyse, FFTW's planner has one of them at a time   *)
(* (fftw_planner_lock).                                                     *)
THEOREM PlannerAlwaysExclusive == Spec => []PlannerIsExclusive
<1>1. OwnedInv => PlannerIsExclusive
  BY DEF OwnedInv
<1> QED BY <1>1, OwnedAlways, PTL

-----------------------------------------------------------------------------
(* The window.                                                              *)

(* The rate of the detector is the rate of the file, once there is one. *)
RateIsOfFile ==
    \A w \in Worker :
        /\ pc[w] \in (Making \ {"format"}) \cup {"read", "detect"} /\ opened[w] =>
               rate[w] = Rate[file[w]]
        /\ pc[w] \in {"read", "detect"} /\ ~noMemory[w] => fs[w] = rate[w]
        /\ pc[w] = "detect" => opened[w]

(* The first k samples of the window follow those skipped. *)
Copied(w, k) ==
    /\ k > 0 => wpos[w] >= 4 * n[w]
    /\ \A i \in 0 .. k - 1 : x[w][i] = <<file[w], wpos[w] + i>>

WindowFills ==
    \A w \in Worker :
        /\ pc[w] = "read" => wpos[w] + xpos[w] = pos[w] /\ Copied(w, xpos[w])
        /\ pc[w] = "detect" =>
               wpos[w] >= 4 * n[w] /\ wpos[w] <= Length[file[w]] /\ Copied(w, n[w])

WindowInv == OwnedInv /\ RateIsOfFile /\ WindowFills

LEMMA WindowInit == Init => RateIsOfFile /\ WindowFills
<1> SUFFICES ASSUME Init PROVE RateIsOfFile /\ WindowFills
  OBVIOUS
<1>1. \A w \in Worker : pc[w] = "none"
  BY DEF Init
<1> QED BY <1>1 DEF RateIsOfFile, WindowFills, Making

LEMMA WindowTypes ==
    ASSUME WindowInv
    PROVE  /\ pc \in [Worker -> Labels] /\ opened \in [Worker -> BOOLEAN]
           /\ rate \in [Worker -> Rates \cup {0}] /\ fs \in [Worker -> Rates \cup {0}]
           /\ file \in [Worker -> File] /\ noMemory \in [Worker -> BOOLEAN]
           /\ pos \in [Worker -> Nat] /\ wpos \in [Worker -> Nat] /\ xpos \in [Worker -> Nat]
           /\ n = [v \in Worker |-> n[v]] /\ x = [v \in Worker |-> x[v]]
           /\ RateIsOfFile /\ WindowFills
  BY DEF WindowInv, OwnedInv, TypeOK, ThreadsOK, CountersOK, DetectorOK

LEMMA Window_createNativeStruct ==
    ASSUME WindowInv, NEW w \in Worker, createNativeStruct(w)
    PROVE  RateIsOfFile' /\ WindowFills'
<1>1. RateIsOfFile'
  BY WindowTypes DEF RateIsOfFile, Making, createNativeStruct, decoder, detector, memory, Goto
<1>2. WindowFills'
  BY WindowTypes DEF WindowFills, Copied, createNativeStruct, decoder, detector, memory, Goto
<1> QED BY <1>1, <1>2

LEMMA Window_analyse_file ==
    ASSUME WindowInv, NEW w \in Worker, NEW f \in File, analyse_file(w, f)
    PROVE  RateIsOfFile' /\ WindowFills'
<1>1. RateIsOfFile'
  BY WindowTypes DEF RateIsOfFile, Making, analyse_file, detector, memory, Goto
<1>2. WindowFills'
  BY WindowTypes DEF WindowFills, Copied, analyse_file, detector, memory, Goto
<1> QED BY <1>1, <1>2

LEMMA Window_analyse_nothing ==
    ASSUME WindowInv, NEW w \in Worker, analyse_nothing(w)
    PROVE  RateIsOfFile' /\ WindowFills'
<1>1. RateIsOfFile'
  BY WindowTypes DEF RateIsOfFile, Making, analyse_nothing, detector, memory, Goto, Return
<1>2. WindowFills'
  BY WindowTypes DEF WindowFills, Copied, analyse_nothing, detector, memory, Goto, Return
<1> QED BY <1>1, <1>2

LEMMA Window_header ==
    ASSUME WindowInv, NEW w \in Worker, header(w)
    PROVE  RateIsOfFile' /\ WindowFills'
<1>a. PICK r \in IF opened[w] THEN {Rate[file[w]]} ELSE Rates \cup {0} :
        /\ rate' = [rate EXCEPT ![w] = r]
        /\ \/ r = 0 /\ Return(w, "failed")
           \/ r # 0 /\ r = fs[w] /\ Goto(w, "read")
           \/ r # 0 /\ r # fs[w] /\ Goto(w, IF fs[w] # 0 THEN "free" ELSE "create")
  BY DEF header
<1>b. /\ pc[w] = "format" /\ pos[w] = 0 /\ wpos[w] = 0 /\ xpos[w] = 0
      /\ UNCHANGED <<file, opened, pos, wpos, xpos, fs, n, x, noMemory>>
  BY DEF header, WindowInv, OwnedInv, NothingRead, Making, detector, memory
<1>1. RateIsOfFile'
  <2> SUFFICES ASSUME NEW v \in Worker
      PROVE (/\ pc[v] \in (Making \ {"format"}) \cup {"read", "detect"} /\ opened[v] =>
                     rate[v] = Rate[file[v]]
             /\ pc[v] \in {"read", "detect"} /\ ~noMemory[v] => fs[v] = rate[v]
             /\ pc[v] = "detect" => opened[v])'
    BY DEF RateIsOfFile, Making
  <2>1. CASE v # w
    BY WindowTypes, <1>a, <1>b, <2>1 DEF RateIsOfFile, Making, Goto, Return
  <2>2. CASE v = w
    <3>1. rate'[w] = r /\ pc'[w] # "detect" /\ (opened[w] => r = Rate[file[w]])
      BY WindowTypes, <1>a DEF Goto, Return
    <3>2. pc'[w] = "read" => r = fs[w]
      BY WindowTypes, <1>a DEF Goto, Return
    <3> QED BY <1>b, <2>2, <3>1, <3>2
  <2> QED BY <2>1, <2>2
<1>2. WindowFills'
  <2> SUFFICES ASSUME NEW v \in Worker
      PROVE (/\ pc[v] = "read" => wpos[v] + xpos[v] = pos[v] /\ Copied(v, xpos[v])
             /\ pc[v] = "detect" =>
                    wpos[v] >= 4 * n[v] /\ wpos[v] <= Length[file[v]] /\ Copied(v, n[v]))'
    BY DEF WindowFills
  <2>1. CASE v # w
    BY WindowTypes, <1>a, <1>b, <2>1 DEF WindowFills, Copied, Goto, Return
  <2>2. CASE v = w
    <3>1. pc'[w] # "detect"
      BY WindowTypes, <1>a DEF Goto, Return
    <3> QED BY <1>b, <2>2, <3>1 DEF Copied
  <2> QED BY <2>1, <2>2
<1> QED BY <1>1, <1>2

LEMMA Window_lock ==
    ASSUME WindowInv, NEW w \in Worker, lock(w)
    PROVE  RateIsOfFile' /\ WindowFills'
<1>1. RateIsOfFile'
  BY WindowTypes DEF RateIsOfFile, Making, lock, decoder, detector, memory, Goto, Locking
<1>2. WindowFills'
  BY WindowTypes DEF WindowFills, Copied, lock, decoder, detector, memory, Goto, Locking
<1> QED BY <1>1, <1>2

LEMMA Window_free_beat_detector_fields ==
    ASSUME WindowInv, NEW w \in Worker, free_beat_detector_fields(w)
    PROVE  RateIsOfFile' /\ WindowFills'
<1>1. RateIsOfFile'
  BY WindowTypes DEF RateIsOfFile, Making, free_beat_detector_fields, decoder, Goto
<1>2. WindowFills'
  BY WindowTypes DEF WindowFills, Copied, free_beat_detector_fields, decoder, Goto
<1> QED BY <1>1, <1>2

LEMMA Window_create_beat_detector ==
    ASSUME WindowInv, NEW w \in Worker, create_beat_detector(w)
    PROVE  RateIsOfFile' /\ WindowFills'
<1>a. /\ pc[w] = "creating" /\ pc' = [pc EXCEPT ![w] = "read"]
      /\ UNCHANGED <<file, opened, rate, pos, wpos, xpos>>
  BY DEF create_beat_detector, decoder, Goto
<1>b. PICK hz \in Rates \cup {0} :
        /\ fs' = [fs EXCEPT ![w] = hz] /\ n' = [n EXCEPT ![w] = Seconds * hz]
        /\ x' = [x EXCEPT ![w] = [i \in 0 .. Seconds * hz - 1 |-> Junk]]
        /\ \E got \in SUBSET Part :
              /\ noMemory' = [noMemory EXCEPT ![w] = got # Part]
              /\ got = Part => hz = rate[w]
  <2>1. PICK got \in SUBSET Part :
          LET hz == IF got = Part THEN rate[w] ELSE 0 IN
          /\ fs' = [fs EXCEPT ![w] = hz] /\ n' = [n EXCEPT ![w] = Seconds * hz]
          /\ x' = [x EXCEPT ![w] = [i \in 0 .. Seconds * hz - 1 |-> Junk]]
          /\ noMemory' = [noMemory EXCEPT ![w] = got # Part]
    BY DEF create_beat_detector
  <2>2. rate[w] \in Rates \cup {0}
    BY WindowTypes
  <2>3. CASE got = Part
    BY <2>1, <2>2, <2>3
  <2>4. CASE got # Part
    BY <2>1, <2>4
  <2> QED BY <2>3, <2>4
<1>1. RateIsOfFile'
  <2> SUFFICES ASSUME NEW v \in Worker
      PROVE (/\ pc[v] \in (Making \ {"format"}) \cup {"read", "detect"} /\ opened[v] =>
                     rate[v] = Rate[file[v]]
             /\ pc[v] \in {"read", "detect"} /\ ~noMemory[v] => fs[v] = rate[v]
             /\ pc[v] = "detect" => opened[v])'
    BY DEF RateIsOfFile, Making
  <2>1. CASE v # w
    BY WindowTypes, <1>a, <1>b, <2>1 DEF RateIsOfFile, Making
  <2>2. CASE v = w
    <3>1. opened[w] => rate[w] = Rate[file[w]]
      BY WindowTypes, <1>a DEF RateIsOfFile, Making
    <3>2. ~noMemory'[w] => fs'[w] = rate[w]
      BY WindowTypes, <1>b
    <3>3. pc'[w] = "read"
      BY WindowTypes, <1>a
    <3> QED BY <1>a, <2>2, <3>1, <3>2, <3>3
  <2> QED BY <2>1, <2>2
<1>2. WindowFills'
  <2> SUFFICES ASSUME NEW v \in Worker
      PROVE (/\ pc[v] = "read" => wpos[v] + xpos[v] = pos[v] /\ Copied(v, xpos[v])
             /\ pc[v] = "detect" =>
                    wpos[v] >= 4 * n[v] /\ wpos[v] <= Length[file[v]] /\ Copied(v, n[v]))'
    BY DEF WindowFills
  <2>1. CASE v # w
    BY WindowTypes, <1>a, <1>b, <2>1 DEF WindowFills, Copied
  <2>2. CASE v = w
    <3>1. pc'[w] = "read" /\ pos'[w] = 0 /\ wpos'[w] = 0 /\ xpos'[w] = 0
      BY WindowTypes DEF create_beat_detector, WindowInv, OwnedInv, NothingRead, Making,
         decoder, Goto
    <3> QED BY <2>2, <3>1 DEF Copied
  <2> QED BY <2>1, <2>2
<1> QED BY <1>1, <1>2

LEMMA Window_finished ==
    ASSUME WindowInv, NEW w \in Worker, finished(w)
    PROVE  RateIsOfFile' /\ WindowFills'
<1>1. RateIsOfFile'
  BY WindowTypes DEF RateIsOfFile, Making, finished, decoder, detector, memory, Goto, Return
<1>2. WindowFills'
  BY WindowTypes DEF WindowFills, Copied, finished, decoder, detector, memory, Goto, Return
<1> QED BY <1>1, <1>2

LEMMA Window_skip ==
    ASSUME WindowInv, NEW w \in Worker, skip(w)
    PROVE  RateIsOfFile' /\ WindowFills'
<1>1. RateIsOfFile'
  BY WindowTypes DEF RateIsOfFile, Making, skip, detector, memory, Goto, Return, After
<1>2. WindowFills'
  <2> SUFFICES ASSUME NEW v \in Worker
      PROVE (/\ pc[v] = "read" => wpos[v] + xpos[v] = pos[v] /\ Copied(v, xpos[v])
             /\ pc[v] = "detect" =>
                    wpos[v] >= 4 * n[v] /\ wpos[v] <= Length[file[v]] /\ Copied(v, n[v]))'
    BY DEF WindowFills
  <2>1. CASE v # w
    BY WindowTypes, <2>1 DEF WindowFills, Copied, skip, detector, memory, After, Goto, Return
  <2>2. CASE v = w
    <3>1. size(w) \in Nat /\ n[w] \in Nat
      BY SizeType, FieldsType DEF WindowInv, OwnedInv
    <3>2. wpos[w] + xpos[w] = pos[w] /\ xpos[w] = 0
      <4>1. wpos[w] < 4 * n[w] /\ wpos[w] + xpos[w] = pos[w] /\ (xpos[w] > 0 => wpos[w] >= 4 * n[w])
        BY WindowTypes DEF skip, isSkipping, WindowFills, Copied
      <4>2. wpos[w] \in Nat /\ xpos[w] \in Nat /\ pos[w] \in Nat
        BY WindowTypes
      <4> QED BY <3>1, <4>1, <4>2
    <3>3. /\ wpos'[w] = wpos[w] + size(w) /\ pos'[w] = pos[w] + size(w) /\ xpos'[w] = 0
          /\ pc'[w] # "detect"
      BY WindowTypes, <3>2 DEF skip, After, Goto, Return
    <3>4. wpos'[w] + xpos'[w] = pos'[w]
      BY WindowTypes, <3>1, <3>2, <3>3
    <3> QED BY <2>2, <3>3, <3>4 DEF Copied
  <2> QED BY <2>1, <2>2
<1> QED BY <1>1, <1>2

LEMMA Window_fill ==
    ASSUME WindowInv, NEW w \in Worker, fill(w)
    PROVE  RateIsOfFile' /\ WindowFills'
<1>a. /\ size(w) \in Nat /\ n[w] \in Nat /\ endOf(w) \in Nat /\ endOf(w) <= n[w]
      /\ endOf(w) <= xpos[w] + size(w) /\ (endOf(w) < n[w] => endOf(w) = xpos[w] + size(w))
      /\ Length[file[w]] \in Nat /\ pos[w] <= Length[file[w]] /\ xpos[w] <= n[w]
  BY SizeType, EndType, FieldsType DEF WindowInv, OwnedInv, TypeOK, BoundsOK, fill
<1>b. /\ pc[w] = "read" /\ wpos[w] >= 4 * n[w] /\ wpos[w] + xpos[w] = pos[w]
      /\ \A i \in 0 .. xpos[w] - 1 : x[w][i] = <<file[w], wpos[w] + i>>
  <2>1. pc[w] = "read" /\ wpos[w] + xpos[w] = pos[w] /\ Copied(w, xpos[w]) /\ ~(wpos[w] < 4 * n[w])
    BY WindowTypes DEF fill, WindowFills, isSkipping
  <2>2. wpos[w] >= 4 * n[w]
    BY WindowTypes, <1>a, <2>1
  <2> QED BY <2>1, <2>2 DEF Copied
<1>c. x'[w] = [i \in 0 .. n[w] - 1 |->
         IF i \in xpos[w] .. endOf(w) - 1 THEN <<file[w], pos[w] + i - xpos[w]>> ELSE x[w][i]]
  <2>1. DOMAIN x[w] = 0 .. n[w] - 1
    BY DEF WindowInv, OwnedInv, TypeOK, DetectorOK
  <2> QED BY WindowTypes, <2>1 DEF fill
<1>d. \A i \in 0 .. endOf(w) - 1 : x'[w][i] = <<file[w], wpos[w] + i>>
  <2> SUFFICES ASSUME NEW i \in 0 .. endOf(w) - 1
      PROVE x'[w][i] = <<file[w], wpos[w] + i>>
    OBVIOUS
  <2>1. i \in 0 .. n[w] - 1 /\ xpos[w] \in Nat /\ wpos[w] \in Nat /\ pos[w] \in Nat
    BY WindowTypes, <1>a
  <2>2. CASE i \in xpos[w] .. endOf(w) - 1
    <3>1. pos[w] + i - xpos[w] = wpos[w] + i
      BY <1>b, <2>1
    <3> QED BY <1>c, <2>1, <2>2, <3>1
  <2>3. CASE i \notin xpos[w] .. endOf(w) - 1
    <3>1. i \in 0 .. xpos[w] - 1
      BY <1>a, <2>1, <2>3
    <3> QED BY <1>b, <1>c, <2>1, <2>3, <3>1
  <2> QED BY <2>2, <2>3
<1>e. /\ xpos' = [xpos EXCEPT ![w] = endOf(w)] /\ pos' = [pos EXCEPT ![w] = @ + size(w)]
      /\ IF endOf(w) >= n[w] THEN Goto(w, "detect") ELSE After(w)
      /\ x' = [x EXCEPT ![w] = x'[w]] /\ size(w) > 0
      /\ UNCHANGED <<file, opened, rate, wpos, fs, n, noMemory>>
  BY WindowTypes DEF fill
<1>1. RateIsOfFile'
  <2> SUFFICES ASSUME NEW v \in Worker
      PROVE (/\ pc[v] \in (Making \ {"format"}) \cup {"read", "detect"} /\ opened[v] =>
                     rate[v] = Rate[file[v]]
             /\ pc[v] \in {"read", "detect"} /\ ~noMemory[v] => fs[v] = rate[v]
             /\ pc[v] = "detect" => opened[v])'
    BY DEF RateIsOfFile, Making
  <2>1. CASE v # w
    BY WindowTypes, <1>e, <2>1 DEF RateIsOfFile, Making, After, Goto, Return
  <2>2. CASE v = w
    <3>1. pc'[w] \in {"read", "detect", "ready"}
      BY WindowTypes, <1>b, <1>e DEF After, Goto, Return
    <3>2. opened[w] => rate[w] = Rate[file[w]]
      BY WindowTypes, <1>b DEF RateIsOfFile
    <3>3. ~noMemory[w] => fs[w] = rate[w]
      BY WindowTypes, <1>b DEF RateIsOfFile
    <3>4. opened[w]
      BY <1>e DEF size
    <3> QED BY <1>e, <2>2, <3>1, <3>2, <3>3, <3>4
  <2> QED BY <2>1, <2>2
<1>2. WindowFills'
  <2> SUFFICES ASSUME NEW v \in Worker
      PROVE (/\ pc[v] = "read" => wpos[v] + xpos[v] = pos[v] /\ Copied(v, xpos[v])
             /\ pc[v] = "detect" =>
                    wpos[v] >= 4 * n[v] /\ wpos[v] <= Length[file[v]] /\ Copied(v, n[v]))'
    BY DEF WindowFills
  <2>1. CASE v # w
    <3>1. x'[v] = x[v] /\ xpos'[v] = xpos[v] /\ pos'[v] = pos[v] /\ pc'[v] = pc[v]
      BY WindowTypes, <1>e, <2>1 DEF After, Goto, Return
    <3> QED BY WindowTypes, <1>e, <3>1 DEF WindowFills, Copied
  <2>2. CASE v = w
    <3>1. xpos'[w] = endOf(w) /\ pos'[w] = pos[w] + size(w) /\ wpos'[w] = wpos[w]
      BY WindowTypes, <1>e
    <3>2. wpos[w] <= Length[file[w]]
      BY WindowTypes, <1>a, <1>b
    <3>3. CASE endOf(w) >= n[w]
      <4>1. pc'[w] = "detect" /\ endOf(w) = n[w]
        BY WindowTypes, <1>a, <1>e, <3>3 DEF Goto
      <4> QED BY <1>b, <1>d, <1>e, <2>2, <3>1, <3>2, <4>1 DEF Copied
    <3>4. CASE endOf(w) < n[w]
      <4>1. ~(endOf(w) >= n[w]) /\ endOf(w) = xpos[w] + size(w)
        BY <1>a, <3>4
      <4>2. pc'[w] # "detect"
        BY WindowTypes, <1>b, <1>e, <4>1 DEF After, Goto, Return
      <4>3. wpos'[w] + xpos'[w] = pos'[w]
        BY WindowTypes, <1>a, <1>b, <3>1, <4>1
      <4> QED BY <1>b, <1>d, <1>e, <2>2, <3>1, <4>2, <4>3 DEF Copied
    <3> QED BY <1>a, <3>3, <3>4
  <2> QED BY <2>1, <2>2
<1> QED BY <1>1, <1>2

LEMMA Window_beatdetect ==
    ASSUME WindowInv, NEW w \in Worker, beatdetect(w)
    PROVE  RateIsOfFile' /\ WindowFills'
<1>1. RateIsOfFile'
  BY WindowTypes DEF RateIsOfFile, Making, beatdetect, decoder, Goto, Return
<1>2. WindowFills'
  BY WindowTypes DEF WindowFills, Copied, beatdetect, decoder, Goto, Return
<1> QED BY <1>1, <1>2

LEMMA Window_freeNativeStruct ==
    ASSUME WindowInv, NEW w \in Worker, freeNativeStruct(w)
    PROVE  RateIsOfFile' /\ WindowFills'
<1>1. RateIsOfFile'
  BY WindowTypes DEF RateIsOfFile, Making, freeNativeStruct, decoder, detector, memory, Goto
<1>2. WindowFills'
  BY WindowTypes DEF WindowFills, Copied, freeNativeStruct, decoder, detector, memory, Goto
<1> QED BY <1>1, <1>2

LEMMA Window_leave ==
    ASSUME WindowInv, NEW w \in Worker, leave(w)
    PROVE  RateIsOfFile' /\ WindowFills'
<1>1. RateIsOfFile'
  BY WindowTypes DEF RateIsOfFile, Making, leave, decoder, Goto
<1>2. WindowFills'
  BY WindowTypes DEF WindowFills, Copied, leave, decoder, Goto
<1> QED BY <1>1, <1>2

LEMMA WindowStep == WindowInv /\ [Next]_vars => WindowInv'
<1> SUFFICES ASSUME WindowInv, [Next]_vars PROVE RateIsOfFile' /\ WindowFills'
  BY OwnedStep DEF WindowInv
<1>1. CASE UNCHANGED vars
  BY <1>1 DEF WindowInv, RateIsOfFile, WindowFills, Copied, vars, decoder, detector, memory
<1>2. ASSUME NEW w \in Worker, Service(w) \/ lock(w) \/ Work(w)
      PROVE  RateIsOfFile' /\ WindowFills'
  BY <1>2, Window_createNativeStruct, Window_analyse_file, Window_analyse_nothing,
     Window_header, Window_lock, Window_free_beat_detector_fields,
     Window_create_beat_detector, Window_finished, Window_skip, Window_fill,
     Window_beatdetect, Window_freeNativeStruct, Window_leave DEF Service, Work
<1> QED BY <1>1, <1>2 DEF Next

LEMMA WindowAlways == Spec => []WindowInv
<1>1. Init => WindowInv
  BY OwnedInit, WindowInit DEF WindowInv
<1> QED BY <1>1, WindowStep, PTL DEF Spec

(* A tempo is computed from consecutive samples of the file it is for, by a *)
(* detector of that file's rate, whatever the worker analysed before.       *)
THEOREM WindowAlwaysOfThisFile == Spec => []WindowIsOfThisFile
<1>1. WindowInv => WindowIsOfThisFile
  <2> SUFFICES ASSUME WindowInv, NEW w \in Worker, pc[w] = "detect", ~noMemory[w]
      PROVE  /\ fs[w] = Rate[file[w]]
             /\ \E start \in 4 * n[w] .. Length[file[w]] :
                   \A i \in 0 .. n[w] - 1 : x[w][i] = <<file[w], start + i>>
    BY DEF WindowIsOfThisFile
  <2>1. fs[w] = Rate[file[w]]
    BY DEF WindowInv, RateIsOfFile
  <2>2. wpos[w] \in Nat /\ n[w] \in Nat /\ Length[file[w]] \in Nat
    BY FieldsType DEF WindowInv, OwnedInv, TypeOK, CountersOK
  <2>3. /\ wpos[w] >= 4 * n[w] /\ wpos[w] <= Length[file[w]]
        /\ \A i \in 0 .. n[w] - 1 : x[w][i] = <<file[w], wpos[w] + i>>
    BY DEF WindowInv, WindowFills, Copied
  <2>4. wpos[w] \in 4 * n[w] .. Length[file[w]]
    BY <2>2, <2>3
  <2> QED BY <2>1, <2>3, <2>4
<1> QED BY <1>1, WindowAlways, PTL

-----------------------------------------------------------------------------
(* The outcome.                                                             *)
(*                                                                          *)
(* While a file with more samples is read, what was skipped is a whole      *)
(* number of reads, and never more than the reads that four windows take,   *)
(* so skipping ends at Skipped(n).  The window is filled from there on: it  *)
(* is full exactly if the file has Skipped(n) + n samples.                  *)

Ended == {"ready", "none", "leave", "leaving"}

OutcomeOf(w) ==
    opened[w] /\ ~noMemory[w] =>
        /\ pc[w] \in Ended /\ outcome[w] # "none" =>
               (outcome[w] = "tempo" <=> HasWindow(file[w]))
        /\ pc[w] = "read" =>
               /\ fs[w] # 0 /\ xpos[w] < n[w] /\ wpos[w] <= Skipped(n[w])
               /\ pos[w] < Length[file[w]] => \E q \in Nat : wpos[w] = Chunk * q
        /\ pc[w] = "detect" => HasWindow(file[w])

OutcomeInv == WindowInv /\ \A w \in Worker : OutcomeOf(w)

LEMMA SkippedLength ==
    ASSUME NEW len \in Nat
    PROVE  /\ Skipped(len) \in Nat
           /\ \A q \in Nat : Chunk * q < 4 * len => Chunk * q + Chunk <= Skipped(len)
           /\ \A q \in Nat : Chunk * q >= 4 * len /\ Chunk * q <= Skipped(len) =>
                 Chunk * q = Skipped(len)
<1> DEFINE a == 4 * len + Chunk - 1
           m == a \div Chunk
<1>1. Chunk \in Nat \ {0} /\ a \in Nat
  BY SizeAssumption
<1>2. m \in Nat /\ Chunk * m <= a /\ a < Chunk * m + Chunk
  <2> HIDE DEF a
  <2> QED BY <1>1, SMT
<1>3. Skipped(len) = Chunk * m /\ Chunk * m \in Nat
  BY <1>1, <1>2 DEF Skipped
<1>4. a + 1 = 4 * len + Chunk
  BY <1>1
<1> HIDE DEF a, m
<1>5. ASSUME NEW q \in Nat, Chunk * q < 4 * len
      PROVE  Chunk * q + Chunk <= Skipped(len)
  <2>1. Chunk * q \in Nat /\ 4 * len \in Nat
    BY <1>1
  <2>2. Chunk * q < Chunk * m
    BY <1>1, <1>2, <1>3, <1>4, <1>5, <2>1
  <2>3. q * Chunk = Chunk * q /\ m * Chunk = Chunk * m
    BY <1>1, <1>2
  <2>4. q < m
    <3>1. q * Chunk < m * Chunk
      BY <2>2, <2>3
    <3> QED BY <1>1, <1>2, <3>1, Fewer
  <2>5. PICK c \in Nat : m = (q + 1) + c
    BY <1>2, <2>4
  <2>6. Chunk * m = Chunk * q + Chunk + Chunk * c /\ Chunk * c \in Nat
    BY <1>1, <2>5
  <2> QED BY <1>1, <1>3, <2>1, <2>6
<1>6. ASSUME NEW q \in Nat, Chunk * q >= 4 * len, Chunk * q <= Skipped(len)
      PROVE  Chunk * q = Skipped(len)
  <2>1. Chunk * q \in Nat /\ 4 * len \in Nat
    BY <1>1
  <2>2. Chunk * (q + 1) = Chunk * q + Chunk
    BY <1>1
  <2>3. m * Chunk < (q + 1) * Chunk
    <3>1. Chunk * m < Chunk * (q + 1)
      BY <1>1, <1>2, <1>3, <1>4, <1>6, <2>1, <2>2
    <3>2. m * Chunk = Chunk * m /\ (q + 1) * Chunk = Chunk * (q + 1)
      BY <1>1, <1>2
    <3> QED BY <3>1, <3>2
  <2>4. m < q + 1
    BY <1>1, <1>2, <2>3, Fewer
  <2>5. PICK c \in Nat : q = m + c
    BY <1>2, <2>4
  <2>6. Chunk * q = Chunk * m + Chunk * c /\ Chunk * c \in Nat
    BY <1>1, <1>2, <2>5
  <2> QED BY <1>3, <1>6, <2>1, <2>6
<1> QED BY <1>3, <1>5, <1>6

(* What another worker does leaves a worker alone. *)
Untouched(v) ==
    /\ pc'[v] = pc[v] /\ file'[v] = file[v] /\ opened'[v] = opened[v]
    /\ pos'[v] = pos[v] /\ wpos'[v] = wpos[v] /\ xpos'[v] = xpos[v]
    /\ fs'[v] = fs[v] /\ n'[v] = n[v]
    /\ outcome'[v] = outcome[v] /\ noMemory'[v] = noMemory[v]

LEMMA OutcomeUntouched ==
    ASSUME NEW v \in Worker, OutcomeOf(v), Untouched(v)
    PROVE  OutcomeOf(v)'
  BY DEF OutcomeOf, Untouched

LEMMA OutcomeType == WindowInv => outcome \in [Worker -> {"none", "tempo", "failed"}]
  BY DEF WindowInv, OwnedInv, TypeOK, ThreadsOK

LEMMA OthersUntouched ==
    ASSUME WindowInv, NEW w \in Worker, NEW v \in Worker, v # w,
           Service(w) \/ lock(w) \/ Work(w)
    PROVE  Untouched(v)
<1> USE WindowTypes, OutcomeType DEF Untouched, Goto, Return, decoder, detector, memory
<1>1. CASE Service(w)
  <2>1. CASE createNativeStruct(w)
    BY <2>1 DEF createNativeStruct
  <2>2. ASSUME NEW f \in File, analyse_file(w, f) PROVE Untouched(v)
    BY <2>2 DEF analyse_file
  <2>3. CASE analyse_nothing(w)
    BY <2>3 DEF analyse_nothing
  <2>4. CASE freeNativeStruct(w)
    BY <2>4 DEF freeNativeStruct
  <2> QED BY <1>1, <2>1, <2>2, <2>3, <2>4 DEF Service
<1>2. CASE lock(w)
  BY <1>2 DEF lock
<1>3. CASE Work(w)
  <2>1. CASE header(w)
    BY <2>1 DEF header
  <2>2. CASE free_beat_detector_fields(w)
    BY <2>2 DEF free_beat_detector_fields
  <2>3. CASE create_beat_detector(w)
    BY <2>3 DEF create_beat_detector
  <2>4. CASE finished(w)
    BY <2>4 DEF finished
  <2>5. CASE skip(w)
    BY <2>5 DEF skip, After
  <2>6. CASE fill(w)
    BY <2>6 DEF fill, After
  <2>7. CASE beatdetect(w)
    BY <2>7 DEF beatdetect
  <2>8. CASE leave(w)
    BY <2>8 DEF leave
  <2> QED BY <1>3, <2>1, <2>2, <2>3, <2>4, <2>5, <2>6, <2>7, <2>8 DEF Work
<1> QED BY <1>1, <1>2, <1>3

(* The worker's fields that no read changes, and what a window needs. *)
LEMMA ReadingTypes ==
    ASSUME OutcomeInv, NEW w \in Worker, pc[w] = "read", opened[w], ~noMemory[w]
    PROVE  /\ fs[w] = Rate[file[w]] /\ fs[w] # 0
           /\ n[w] = Seconds * Rate[file[w]] /\ n[w] \in Nat /\ Length[file[w]] \in Nat
           /\ HasWindow(file[w]) <=> Skipped(n[w]) + n[w] <= Length[file[w]]
           /\ pos[w] \in Nat /\ wpos[w] \in Nat /\ xpos[w] \in Nat
           /\ pos[w] <= Length[file[w]]
           /\ wpos[w] + xpos[w] = pos[w] /\ (xpos[w] > 0 => wpos[w] >= 4 * n[w])
           /\ xpos[w] < n[w] /\ wpos[w] <= Skipped(n[w]) /\ Skipped(n[w]) \in Nat
           /\ pos[w] < Length[file[w]] => \E q \in Nat : wpos[w] = Chunk * q
<1>1. WindowInv /\ TypeOK /\ OutcomeOf(w)
  BY DEF OutcomeInv, WindowInv, OwnedInv
<1>2. fs[w] = Rate[file[w]]
  BY <1>1, WindowTypes DEF RateIsOfFile
<1>3. n[w] = Seconds * fs[w] /\ n[w] \in Nat /\ Length[file[w]] \in Nat
  BY <1>1, FieldsType
<1>4. wpos[w] + xpos[w] = pos[w] /\ (xpos[w] > 0 => wpos[w] >= 4 * n[w])
  BY <1>1 DEF WindowInv, WindowFills, Copied
<1>5. pos[w] \in Nat /\ wpos[w] \in Nat /\ xpos[w] \in Nat /\ pos[w] <= Length[file[w]]
  BY <1>1 DEF TypeOK, CountersOK, BoundsOK
<1>6. Skipped(n[w]) \in Nat
  BY <1>3, SkippedLength
<1>7. /\ fs[w] # 0 /\ xpos[w] < n[w] /\ wpos[w] <= Skipped(n[w])
      /\ pos[w] < Length[file[w]] => \E q \in Nat : wpos[w] = Chunk * q
  BY <1>1 DEF OutcomeOf
<1>8. HasWindow(file[w]) <=> Skipped(n[w]) + n[w] <= Length[file[w]]
  BY <1>2, <1>3, <1>7 DEF HasWindow
<1> QED BY <1>2, <1>3, <1>4, <1>5, <1>6, <1>7, <1>8

LEMMA Outcome_createNativeStruct ==
    ASSUME OutcomeInv, NEW w \in Worker, createNativeStruct(w)
    PROVE  OutcomeOf(w)'
<1>1. WindowInv /\ OutcomeOf(w)
  BY DEF OutcomeInv
<1> QED BY <1>1, WindowTypes
  DEF OutcomeOf, Ended, createNativeStruct, decoder, detector, memory, Goto

LEMMA Outcome_analyse_file ==
    ASSUME OutcomeInv, NEW w \in Worker, NEW f \in File, analyse_file(w, f)
    PROVE  OutcomeOf(w)'
<1>1. WindowInv
  BY DEF OutcomeInv
<1>2. pc'[w] = "format"
  BY <1>1, WindowTypes DEF analyse_file, Goto
<1> QED BY <1>2 DEF OutcomeOf, Ended

LEMMA Outcome_analyse_nothing ==
    ASSUME OutcomeInv, NEW w \in Worker, analyse_nothing(w)
    PROVE  OutcomeOf(w)'
<1>1. WindowInv
  BY DEF OutcomeInv
<1>2. opened'[w] = FALSE
  BY <1>1, WindowTypes DEF analyse_nothing
<1> QED BY <1>2 DEF OutcomeOf

LEMMA Outcome_header ==
    ASSUME OutcomeInv, NEW w \in Worker, header(w)
    PROVE  OutcomeOf(w)'
<1>1. WindowInv /\ TypeOK /\ pc \in [Worker -> Labels]
      /\ outcome \in [Worker -> {"none", "tempo", "failed"}]
  BY WindowTypes, OutcomeType DEF OutcomeInv, WindowInv, OwnedInv
<1>2. PICK r \in IF opened[w] THEN {Rate[file[w]]} ELSE Rates \cup {0} :
        \/ r = 0 /\ Return(w, "failed")
        \/ r # 0 /\ r = fs[w] /\ Goto(w, "read")
        \/ r # 0 /\ r # fs[w] /\ Goto(w, IF fs[w] # 0 THEN "free" ELSE "create")
  BY DEF header
<1>3. /\ pc[w] = "format" /\ wpos[w] = 0 /\ xpos[w] = 0
      /\ UNCHANGED <<file, opened, pos, wpos, xpos, fs, n, noMemory>>
  BY <1>1 DEF header, WindowInv, OwnedInv, NothingRead, Making, detector, memory
<1> SUFFICES ASSUME opened[w] PROVE OutcomeOf(w)'
  BY <1>3 DEF OutcomeOf
<1>4. r = Rate[file[w]]
  BY <1>2
<1>5. CASE r = 0 /\ Return(w, "failed")
  <2>1. pc'[w] = "ready" /\ outcome'[w] = "failed"
    BY <1>1, <1>5 DEF Return, Goto
  <2>2. ~ HasWindow(file[w])
    BY <1>4, <1>5 DEF HasWindow
  <2>3. HasWindow(file[w])' <=> HasWindow(file[w])
    BY <1>3 DEF HasWindow, Skipped
  <2> QED BY <2>1, <2>2, <2>3 DEF OutcomeOf
<1>6. CASE r # 0 /\ r = fs[w] /\ Goto(w, "read")
  <2>1. pc'[w] = "read"
    BY <1>1, <1>6 DEF Goto
  <2>2. n[w] = Seconds * fs[w] /\ n[w] \in Nat /\ fs[w] \in Nat
    BY <1>1, FieldsType
  <2>3. 0 < n[w]
    BY <1>6, <2>2, SizeAssumption
  <2>4. Skipped(n[w]) \in Nat
    BY <2>2, SkippedLength
  <2>5. 0 = Chunk * 0
    BY SizeAssumption
  <2>6. /\ fs'[w] # 0 /\ xpos'[w] < n'[w] /\ wpos'[w] <= Skipped(n'[w])
        /\ \E q \in Nat : wpos'[w] = Chunk * q
    BY <1>3, <1>6, <2>3, <2>4, <2>5
  <2>7. pc'[w] \notin Ended /\ pc'[w] # "detect"
    BY <2>1 DEF Ended
  <2> QED BY <2>6, <2>7 DEF OutcomeOf
<1>7. CASE r # 0 /\ r # fs[w] /\ Goto(w, IF fs[w] # 0 THEN "free" ELSE "create")
  <2>1. pc'[w] \in {"free", "create"}
    BY <1>1, <1>7 DEF Goto
  <2> QED BY <2>1 DEF OutcomeOf, Ended
<1> QED BY <1>2, <1>5, <1>6, <1>7

LEMMA Outcome_lock ==
    ASSUME OutcomeInv, NEW w \in Worker, lock(w)
    PROVE  OutcomeOf(w)'
<1>1. WindowInv /\ OutcomeOf(w)
  BY DEF OutcomeInv
<1>2. /\ pc'[w] \in {"freeing", "creating", "leaving"} /\ (pc'[w] = "leaving" => pc[w] = "leave")
      /\ UNCHANGED <<file, opened, outcome, noMemory>>
  BY <1>1, WindowTypes DEF lock, Goto, Locking, decoder
<1> QED BY <1>1, <1>2 DEF OutcomeOf, Ended, HasWindow, Skipped

LEMMA Outcome_free_beat_detector_fields ==
    ASSUME OutcomeInv, NEW w \in Worker, free_beat_detector_fields(w)
    PROVE  OutcomeOf(w)'
<1>1. WindowInv
  BY DEF OutcomeInv
<1>2. pc'[w] = "create"
  BY <1>1, WindowTypes DEF free_beat_detector_fields, Goto
<1> QED BY <1>2 DEF OutcomeOf, Ended

LEMMA Outcome_create_beat_detector ==
    ASSUME OutcomeInv, NEW w \in Worker, create_beat_detector(w)
    PROVE  OutcomeOf(w)'
<1>1. WindowInv /\ TypeOK
  BY DEF OutcomeInv, WindowInv, OwnedInv
<1>2. /\ pc'[w] = "read" /\ wpos'[w] = 0 /\ xpos'[w] = 0
  BY <1>1, WindowTypes
  DEF create_beat_detector, Goto, WindowInv, OwnedInv, NothingRead, Making, decoder
<1>3. rate[w] # 0
  BY <1>1 DEF create_beat_detector, WindowInv, OwnedInv, RatesKnown
<1>4. CASE noMemory' = [noMemory EXCEPT ![w] = TRUE]
  BY <1>1, <1>4, WindowTypes DEF OutcomeOf
<1>5. CASE fs' = [fs EXCEPT ![w] = rate[w]] /\ n' = [n EXCEPT ![w] = Seconds * rate[w]]
  <2>1. fs'[w] = rate[w] /\ n'[w] = Seconds * rate[w]
    BY <1>1, <1>5, WindowTypes
  <2>2. rate[w] \in Nat /\ Seconds * rate[w] \in Nat
    BY <1>1, FieldsType
  <2>3. 0 < Seconds * rate[w]
    BY <1>3, <2>2, SizeAssumption
  <2>4. Skipped(Seconds * rate[w]) \in Nat
    BY <2>2, SkippedLength
  <2>5. 0 = Chunk * 0
    BY SizeAssumption
  <2>6. /\ fs'[w] # 0 /\ xpos'[w] < n'[w] /\ wpos'[w] <= Skipped(n'[w])
        /\ \E q \in Nat : wpos'[w] = Chunk * q
    BY <1>2, <1>3, <2>1, <2>3, <2>4, <2>5
  <2>7. pc'[w] \notin Ended /\ pc'[w] # "detect"
    BY <1>2 DEF Ended
  <2> QED BY <2>6, <2>7 DEF OutcomeOf
<1>6. \/ noMemory' = [noMemory EXCEPT ![w] = TRUE]
      \/ fs' = [fs EXCEPT ![w] = rate[w]] /\ n' = [n EXCEPT ![w] = Seconds * rate[w]]
  <2>1. PICK got \in SUBSET Part :
          LET hz == IF got = Part THEN rate[w] ELSE 0 IN
          /\ fs' = [fs EXCEPT ![w] = hz] /\ n' = [n EXCEPT ![w] = Seconds * hz]
          /\ noMemory' = [noMemory EXCEPT ![w] = got # Part]
    BY DEF create_beat_detector
  <2>2. CASE got = Part
    BY <2>1, <2>2
  <2>3. CASE got # Part
    <3>1. (got # Part) = TRUE
      BY <2>3
    <3> QED BY <2>1, <3>1
  <2> QED BY <2>2, <2>3
<1> QED BY <1>4, <1>5, <1>6

LEMMA Outcome_beatdetect ==
    ASSUME OutcomeInv, NEW w \in Worker, beatdetect(w)
    PROVE  OutcomeOf(w)'
<1>1. WindowInv /\ OutcomeOf(w) /\ pc \in [Worker -> Labels]
      /\ outcome \in [Worker -> {"none", "tempo", "failed"}]
  BY WindowTypes, OutcomeType DEF OutcomeInv
<1>2. /\ pc[w] = "detect" /\ pc'[w] = "ready" /\ outcome'[w] = "tempo"
      /\ UNCHANGED <<file, opened, noMemory>>
  BY <1>1 DEF beatdetect, Return, Goto, decoder
<1> QED BY <1>1, <1>2 DEF OutcomeOf, HasWindow, Skipped

LEMMA Outcome_freeNativeStruct ==
    ASSUME OutcomeInv, NEW w \in Worker, freeNativeStruct(w)
    PROVE  OutcomeOf(w)'
<1>1. WindowInv /\ OutcomeOf(w)
  BY DEF OutcomeInv
<1>2. /\ pc[w] = "ready" /\ pc'[w] \in {"leave", "none"}
      /\ UNCHANGED <<file, opened, outcome, noMemory>>
  BY <1>1, WindowTypes DEF freeNativeStruct, Goto, decoder
<1> QED BY <1>1, <1>2 DEF OutcomeOf, Ended, HasWindow, Skipped

LEMMA Outcome_leave ==
    ASSUME OutcomeInv, NEW w \in Worker, leave(w)
    PROVE  OutcomeOf(w)'
<1>1. WindowInv /\ OutcomeOf(w)
  BY DEF OutcomeInv
<1>2. /\ pc[w] = "leaving" /\ pc'[w] = "none"
      /\ UNCHANGED <<file, opened, outcome, noMemory>>
  BY <1>1, WindowTypes DEF leave, Goto, decoder
<1> QED BY <1>1, <1>2 DEF OutcomeOf, Ended, HasWindow, Skipped

(* A file that ends before the window is full has none. *)
LEMMA EndsWithoutWindow ==
    ASSUME OutcomeInv, NEW w \in Worker, pc[w] = "read",
           pc'[w] = "ready", outcome'[w] = "failed", UNCHANGED <<file, opened, noMemory>>,
           opened[w] /\ ~noMemory[w] => ~HasWindow(file[w])
    PROVE  OutcomeOf(w)'
  BY DEF OutcomeOf, HasWindow, Skipped

(* Reading goes on. *)
LEMMA ReadsOn ==
    ASSUME OutcomeInv, NEW w \in Worker, pc'[w] = "read",
           UNCHANGED <<file, opened, fs, n, noMemory>>,
           opened[w] /\ ~noMemory[w] =>
               /\ fs[w] # 0 /\ xpos'[w] < n[w] /\ wpos'[w] <= Skipped(n[w])
               /\ pos'[w] < Length[file[w]] => \E q \in Nat : wpos'[w] = Chunk * q
    PROVE  OutcomeOf(w)'
<1>1. pc'[w] \notin Ended /\ pc'[w] # "detect"
  BY DEF Ended
<1>2. /\ fs'[w] = fs[w] /\ n'[w] = n[w] /\ file'[w] = file[w]
      /\ opened'[w] = opened[w] /\ noMemory'[w] = noMemory[w]
  OBVIOUS
<1> QED BY <1>1, <1>2 DEF OutcomeOf

LEMMA Outcome_finished ==
    ASSUME OutcomeInv, NEW w \in Worker, finished(w)
    PROVE  OutcomeOf(w)'
<1>1. WindowInv /\ pc \in [Worker -> Labels]
      /\ outcome \in [Worker -> {"none", "tempo", "failed"}]
  BY WindowTypes, OutcomeType DEF OutcomeInv
<1>2. /\ pc[w] = "read" /\ size(w) = 0 /\ pc'[w] = "ready" /\ outcome'[w] = "failed"
      /\ UNCHANGED <<file, opened, noMemory>>
  BY <1>1 DEF finished, Return, Goto, decoder
<1>3. ASSUME opened[w], ~noMemory[w] PROVE ~HasWindow(file[w])
  <2>1. /\ n[w] \in Nat /\ Length[file[w]] \in Nat
        /\ HasWindow(file[w]) <=> Skipped(n[w]) + n[w] <= Length[file[w]]
        /\ pos[w] \in Nat /\ wpos[w] \in Nat /\ xpos[w] \in Nat /\ pos[w] <= Length[file[w]]
        /\ wpos[w] + xpos[w] = pos[w]
        /\ xpos[w] < n[w] /\ wpos[w] <= Skipped(n[w]) /\ Skipped(n[w]) \in Nat
    BY <1>2, <1>3, ReadingTypes
  <2>2. pos[w] = Length[file[w]]
    <3>1. LeastOf(Chunk, Length[file[w]] - pos[w]) = 0
      BY <1>2, <1>3 DEF size
    <3> QED BY <2>1, <3>1, SizeAssumption DEF LeastOf
  <2> QED BY <2>1, <2>2
<1> QED BY <1>2, <1>3, EndsWithoutWindow

(* What a read returns. *)
LEMMA ReadReturns ==
    ASSUME OutcomeInv, NEW w \in Worker, size(w) > 0, opened[w]
    PROVE  /\ size(w) \in Nat /\ size(w) <= Chunk /\ Chunk \in Nat
           /\ pos[w] < Length[file[w]] /\ pos[w] + size(w) <= Length[file[w]]
           /\ pos[w] + size(w) < Length[file[w]] => size(w) = Chunk
<1>1. size(w) \in Nat /\ pos[w] + size(w) <= Length[file[w]]
      /\ Length[file[w]] \in Nat /\ pos[w] \in Nat
  BY SizeType, FieldsType DEF OutcomeInv, WindowInv, OwnedInv, TypeOK, CountersOK
<1>2. size(w) = LeastOf(Chunk, Length[file[w]] - pos[w])
  BY DEF size
<1> QED BY <1>1, <1>2, SizeAssumption DEF LeastOf

LEMMA Outcome_skip ==
    ASSUME OutcomeInv, NEW w \in Worker, skip(w)
    PROVE  OutcomeOf(w)'
<1>1. /\ WindowInv /\ pc \in [Worker -> Labels]
      /\ outcome \in [Worker -> {"none", "tempo", "failed"}]
      /\ wpos \in [Worker -> Nat] /\ pos \in [Worker -> Nat]
  BY WindowTypes, OutcomeType DEF OutcomeInv
<1>2. /\ pc[w] = "read" /\ size(w) > 0 /\ wpos[w] < 4 * n[w] /\ opened[w]
      /\ wpos'[w] = wpos[w] + size(w) /\ pos'[w] = pos[w] + size(w)
      /\ UNCHANGED <<file, opened, xpos, fs, n, noMemory>>
  BY <1>1 DEF skip, isSkipping, size, detector, memory
<1>3. CASE noMemory[w]
  <2>1. noMemory'[w]
    BY <1>2, <1>3
  <2> QED BY <2>1 DEF OutcomeOf
<1>4. CASE ~noMemory[w]
  <2>1. /\ fs[w] # 0 /\ n[w] \in Nat /\ Length[file[w]] \in Nat
        /\ HasWindow(file[w]) <=> Skipped(n[w]) + n[w] <= Length[file[w]]
        /\ pos[w] \in Nat /\ wpos[w] \in Nat /\ xpos[w] \in Nat
        /\ wpos[w] + xpos[w] = pos[w] /\ (xpos[w] > 0 => wpos[w] >= 4 * n[w])
        /\ xpos[w] < n[w] /\ Skipped(n[w]) \in Nat
        /\ pos[w] < Length[file[w]] => \E q \in Nat : wpos[w] = Chunk * q
    BY <1>2, <1>4, ReadingTypes
  <2>2. /\ size(w) \in Nat /\ size(w) <= Chunk /\ Chunk \in Nat
        /\ pos[w] < Length[file[w]]
        /\ pos[w] + size(w) < Length[file[w]] => size(w) = Chunk
    BY <1>2, ReadReturns
  <2>3. xpos[w] = 0 /\ pos[w] = wpos[w]
    BY <1>2, <2>1
  <2>4. PICK q \in Nat : wpos[w] = Chunk * q
    BY <2>1, <2>2
  <2>5. Chunk * q + Chunk <= Skipped(n[w])
    BY <1>2, <2>1, <2>4, SkippedLength
  <2>6. wpos'[w] <= Skipped(n[w])
    BY <1>2, <2>1, <2>2, <2>4, <2>5
  <2>7. CASE fails(w)
    <3>1. pc'[w] = "ready" /\ outcome'[w] = "failed"
      BY <1>1, <2>7 DEF skip, After, Return, Goto
    <3>2. Length[file[w]] = wpos'[w]
      BY <1>2, <2>3, <2>7 DEF fails
    <3>3. ~HasWindow(file[w])
      BY <2>1, <2>6, <3>2
    <3> QED BY <1>2, <3>1, <3>3, EndsWithoutWindow
  <2>8. CASE ~fails(w)
    <3>1. pc'[w] = "read"
      BY <1>1, <1>2, <2>8 DEF skip, After
    <3>2. pos'[w] < Length[file[w]] => wpos'[w] = Chunk * (q + 1) /\ q + 1 \in Nat
      BY <1>2, <2>2, <2>4
    <3>3. xpos'[w] < n[w]
      BY <1>2, <2>1
    <3> QED BY <1>2, <2>1, <2>6, <3>1, <3>2, <3>3, ReadsOn
  <2> QED BY <2>7, <2>8
<1> QED BY <1>3, <1>4

LEMMA Outcome_fill ==
    ASSUME OutcomeInv, NEW w \in Worker, fill(w)
    PROVE  OutcomeOf(w)'
<1>1. /\ WindowInv /\ TypeOK /\ pc \in [Worker -> Labels]
      /\ outcome \in [Worker -> {"none", "tempo", "failed"}]
      /\ xpos \in [Worker -> Nat] /\ pos \in [Worker -> Nat]
  BY WindowTypes, OutcomeType DEF OutcomeInv, WindowInv, OwnedInv
<1>2. /\ pc[w] = "read" /\ size(w) > 0 /\ ~(wpos[w] < 4 * n[w]) /\ opened[w]
      /\ xpos'[w] = endOf(w) /\ pos'[w] = pos[w] + size(w)
      /\ UNCHANGED <<file, opened, wpos, fs, n, noMemory>>
      /\ IF endOf(w) >= n[w] THEN Goto(w, "detect") /\ UNCHANGED outcome ELSE After(w)
  BY <1>1 DEF fill, isSkipping, size
<1>3. CASE noMemory[w]
  <2>1. noMemory'[w]
    BY <1>2, <1>3
  <2> QED BY <2>1 DEF OutcomeOf
<1>4. CASE ~noMemory[w]
  <2>1. /\ fs[w] # 0 /\ n[w] \in Nat /\ Length[file[w]] \in Nat
        /\ HasWindow(file[w]) <=> Skipped(n[w]) + n[w] <= Length[file[w]]
        /\ pos[w] \in Nat /\ wpos[w] \in Nat /\ xpos[w] \in Nat
        /\ wpos[w] + xpos[w] = pos[w]
        /\ wpos[w] <= Skipped(n[w]) /\ Skipped(n[w]) \in Nat
        /\ pos[w] < Length[file[w]] => \E q \in Nat : wpos[w] = Chunk * q
    BY <1>2, <1>4, ReadingTypes
  <2>2. /\ size(w) \in Nat /\ pos[w] < Length[file[w]] /\ pos[w] + size(w) <= Length[file[w]]
    BY <1>2, ReadReturns
  <2>3. /\ endOf(w) \in Nat /\ endOf(w) <= xpos[w] + size(w)
        /\ endOf(w) < n[w] => endOf(w) = xpos[w] + size(w)
    BY <1>1, EndType
  <2>4. wpos[w] = Skipped(n[w])
    <3>1. PICK q \in Nat : wpos[w] = Chunk * q
      BY <2>1, <2>2
    <3>2. Chunk * q >= 4 * n[w]
      BY <1>2, <2>1, <3>1
    <3> QED BY <2>1, <3>1, <3>2, SkippedLength
  <2>5. CASE endOf(w) >= n[w]
    <3>1. pc'[w] = "detect"
      BY <1>1, <1>2, <2>5 DEF Goto
    <3>2. HasWindow(file[w])
      BY <2>1, <2>2, <2>3, <2>4, <2>5
    <3>3. HasWindow(file[w])'
      BY <1>2, <3>2 DEF HasWindow, Skipped
    <3> QED BY <3>1, <3>3 DEF OutcomeOf, Ended
  <2>6. CASE ~(endOf(w) >= n[w])
    <3>1. endOf(w) = xpos[w] + size(w) /\ endOf(w) < n[w]
      BY <2>1, <2>3, <2>6
    <3>2. CASE fails(w)
      <4>1. pc'[w] = "ready" /\ outcome'[w] = "failed"
        BY <1>1, <1>2, <2>6, <3>2 DEF After, Return, Goto
      <4>2. pos[w] + size(w) = Length[file[w]]
        BY <3>2 DEF fails
      <4>3. ~HasWindow(file[w])
        BY <2>1, <2>2, <2>4, <3>1, <4>2
      <4> QED BY <1>2, <4>1, <4>3, EndsWithoutWindow
    <3>3. CASE ~fails(w)
      <4>1. pc'[w] = "read"
        BY <1>1, <1>2, <2>6, <3>3 DEF After
      <4>2. \E q \in Nat : wpos'[w] = Chunk * q
        BY <1>2, <2>1, <2>2
      <4>3. xpos'[w] < n[w] /\ wpos'[w] <= Skipped(n[w])
        BY <1>2, <2>1, <3>1
      <4> QED BY <1>2, <2>1, <4>1, <4>2, <4>3, ReadsOn
    <3> QED BY <3>2, <3>3
  <2> QED BY <2>5, <2>6
<1> QED BY <1>3, <1>4

LEMMA OutcomeStep == OutcomeInv /\ [Next]_vars => OutcomeInv'
<1> SUFFICES ASSUME OutcomeInv, [Next]_vars, NEW v \in Worker PROVE OutcomeOf(v)'
  BY WindowStep DEF OutcomeInv
<1>1. OutcomeOf(v) /\ WindowInv
  BY DEF OutcomeInv
<1>2. CASE UNCHANGED vars
  BY <1>1, <1>2, OutcomeUntouched DEF vars, decoder, detector, memory, Untouched
<1>3. ASSUME NEW w \in Worker, Service(w) \/ lock(w) \/ Work(w)
      PROVE  OutcomeOf(v)'
  <2>1. CASE v # w
    BY <1>1, <1>3, <2>1, OthersUntouched, OutcomeUntouched
  <2>2. CASE v = w
    BY <1>3, <2>2, Outcome_createNativeStruct, Outcome_analyse_file, Outcome_analyse_nothing,
       Outcome_header, Outcome_lock, Outcome_free_beat_detector_fields,
       Outcome_create_beat_detector, Outcome_finished, Outcome_skip, Outcome_fill,
       Outcome_beatdetect, Outcome_freeNativeStruct, Outcome_leave DEF Service, Work
  <2> QED BY <2>1, <2>2
<1> QED BY <1>2, <1>3 DEF Next

(* For any files, rates, lengths and sizes of a read, a file that opened and *)
(* for which there was memory yields a tempo exactly when it has the        *)
(* samples of five windows, whatever was analysed before it.                *)
THEOREM OutcomeAlwaysOfThisFile == Spec => []OutcomeIsOfThisFile
<1>1. Init => OutcomeInv
  <2> SUFFICES ASSUME Init PROVE OutcomeInv
    OBVIOUS
  <2>1. WindowInv
    BY OwnedInit, WindowInit DEF WindowInv
  <2>2. \A w \in Worker : pc[w] = "none" /\ outcome[w] = "none"
    BY DEF Init
  <2> QED BY <2>1, <2>2 DEF OutcomeInv, OutcomeOf
<1>2. OutcomeInv => OutcomeIsOfThisFile
  BY DEF OutcomeInv, OutcomeOf, OutcomeIsOfThisFile, Ended
<1> QED BY <1>1, <1>2, OutcomeStep, PTL DEF Spec

-----------------------------------------------------------------------------
(* Progress: what AnalysisEnds rests on besides fairness.                   *)

(* The mutex is held by a worker that is between locking and unlocking it.  *)
HolderIsInside ==
    \A w \in Worker : planner = w => pc[w] \in {"freeing", "creating", "leaving"}

(* The steps an analysis has left at most: one for each sample not decoded, *)
(* and those before the first read.                                         *)
StepsBefore == [format |-> 6, free |-> 5, freeing |-> 4, create |-> 3, creating |-> 2,
                read |-> 1, detect |-> 0]
Analysing(w) == pc[w] \in DOMAIN StepsBefore
Remaining(w) == Length[file[w]] - pos[w] + StepsBefore[pc[w]]

Advances(w) ==
    Analysing(w) =>
        /\ Remaining(w) \in Nat
        /\ lock(w) \/ Work(w) =>
              \/ pc'[w] = "ready"
              \/ Analysing(w)' /\ Remaining(w)' < Remaining(w)
        /\ ~(lock(w) \/ Work(w)) => Untouched(w)

LEMMA AnalysingLabels ==
    ASSUME NEW w \in Worker
    PROVE  Analysing(w) <=> pc[w] \in {"format", "free", "freeing", "create", "creating",
                                       "read", "detect"}
  BY DEF Analysing, StepsBefore

LEMMA RemainingType ==
    ASSUME TypeOK, NEW w \in Worker, Analysing(w)
    PROVE  /\ Remaining(w) \in Nat /\ StepsBefore[pc[w]] \in 0 .. 6
           /\ pos[w] \in Nat /\ Length[file[w]] \in Nat /\ pos[w] <= Length[file[w]]
<1>1. /\ pos[w] \in Nat /\ pos[w] <= Length[file[w]] /\ Length[file[w]] \in Nat
  BY FieldsType DEF TypeOK, CountersOK, BoundsOK
<1>2. StepsBefore[pc[w]] \in 0 .. 6
  BY AnalysingLabels DEF StepsBefore
<1>3. Length[file[w]] - pos[w] \in Nat
  BY <1>1
<1> QED BY <1>1, <1>2, <1>3 DEF Remaining

(* A worker that goes from one label to another and has decoded more or has *)
(* fewer steps left.                                                        *)
LEMMA Nearer ==
    ASSUME TypeOK, NEW w \in Worker, Analysing(w), Analysing(w)',
           file'[w] = file[w], pos'[w] \in Nat, pos'[w] >= pos[w],
           StepsBefore[pc'[w]] + pos[w] < StepsBefore[pc[w]] + pos'[w]
    PROVE  Remaining(w)' < Remaining(w)
<1>1. StepsBefore[pc'[w]] \in 0 .. 6
  BY AnalysingLabels DEF Analysing, StepsBefore
<1> QED BY <1>1, RemainingType DEF Remaining

LEMMA WorkAdvances ==
    ASSUME OwnedInv, NEW w \in Worker, Analysing(w), lock(w) \/ Work(w)
    PROVE  pc'[w] = "ready" \/ (Analysing(w)' /\ Remaining(w)' < Remaining(w))
<1>0. TypeOK
  BY DEF OwnedInv
<1>1. /\ pc \in [Worker -> Labels] /\ file \in [Worker -> File] /\ pos \in [Worker -> Nat]
  BY <1>0 DEF TypeOK, ThreadsOK, CountersOK
<1>2. CASE lock(w) \/ header(w) \/ free_beat_detector_fields(w) \/ create_beat_detector(w)
  <2>1. file' = file /\ pos' = pos /\ pos[w] \in Nat
    BY <1>1, <1>2 DEF lock, header, free_beat_detector_fields, create_beat_detector, decoder
  <2>2. \/ pc'[w] = "ready"
        \/ /\ pc[w] \in {"format", "free", "freeing", "create", "creating"}
           /\ pc'[w] \in {"free", "freeing", "create", "creating", "read"}
           /\ StepsBefore[pc'[w]] < StepsBefore[pc[w]]
    <3>1. CASE lock(w)
      BY <1>1, <3>1, AnalysingLabels DEF lock, Goto, Locking, StepsBefore
    <3>2. CASE header(w)
      <4>1. PICK r \in IF opened[w] THEN {Rate[file[w]]} ELSE Rates \cup {0} :
              \/ r = 0 /\ Return(w, "failed")
              \/ r # 0 /\ r = fs[w] /\ Goto(w, "read")
              \/ r # 0 /\ r # fs[w] /\ Goto(w, IF fs[w] # 0 THEN "free" ELSE "create")
        BY <3>2 DEF header
      <4>2. pc[w] = "format" /\ pc'[w] \in {"ready", "read", "free", "create"}
        BY <1>1, <3>2, <4>1 DEF header, Goto, Return
      <4> QED BY <4>2 DEF StepsBefore
    <3>3. CASE free_beat_detector_fields(w)
      BY <1>1, <3>3 DEF free_beat_detector_fields, Goto, StepsBefore
    <3>4. CASE create_beat_detector(w)
      BY <1>1, <3>4 DEF create_beat_detector, Goto, StepsBefore
    <3> QED BY <1>2, <3>1, <3>2, <3>3, <3>4
  <2>3. CASE pc'[w] # "ready"
    <3>1. Analysing(w)'
      BY <2>2, <2>3 DEF Analysing, StepsBefore
    <3>2. StepsBefore[pc[w]] \in Nat /\ StepsBefore[pc'[w]] \in Nat
      BY <2>2, <2>3 DEF StepsBefore
    <3>3. /\ file'[w] = file[w] /\ pos'[w] \in Nat /\ pos'[w] >= pos[w]
          /\ StepsBefore[pc'[w]] + pos[w] < StepsBefore[pc[w]] + pos'[w]
      BY <2>1, <2>2, <2>3, <3>2
    <3> QED BY <1>0, <3>1, <3>3, Nearer
  <2> QED BY <2>3
<1>3. CASE skip(w) \/ fill(w)
  <2>1. /\ pc[w] = "read" /\ size(w) > 0 /\ file' = file /\ pos'[w] = pos[w] + size(w)
        /\ pc' = pc \/ pc'[w] \in {"ready", "detect"}
    BY <1>1, <1>3 DEF skip, fill, After, Goto, Return
  <2>2. pos[w] \in Nat /\ size(w) \in Nat /\ pos'[w] \in Nat /\ pos'[w] > pos[w]
    BY <1>0, <1>1, <2>1, SizeType
  <2>3. CASE pc'[w] # "ready"
    <3>1. Analysing(w)' /\ StepsBefore[pc'[w]] \in 0 .. 1 /\ StepsBefore[pc[w]] = 1
      BY <2>1, <2>3 DEF Analysing, StepsBefore
    <3>2. /\ file'[w] = file[w] /\ pos'[w] \in Nat /\ pos'[w] >= pos[w]
          /\ StepsBefore[pc'[w]] + pos[w] < StepsBefore[pc[w]] + pos'[w]
      BY <2>1, <2>2, <3>1
    <3> QED BY <1>0, <3>1, <3>2, Nearer
  <2> QED BY <2>3
<1>4. CASE finished(w) \/ beatdetect(w)
  <2>1. pc' = [pc EXCEPT ![w] = "ready"]
    BY <1>4 DEF finished, beatdetect, Return, Goto
  <2> QED BY <1>1, <2>1
<1>5. CASE leave(w)
  BY <1>5, AnalysingLabels DEF leave
<1> QED BY <1>2, <1>3, <1>4, <1>5 DEF Work

(* However many workers there are, each step of an analysis brings it       *)
(* nearer to its end, by at least one of the steps it has left, and nothing *)
(* else moves it: an analysis of a file of Length samples takes at most     *)
(* Length + 7 steps, lock waits aside (file_decoder_loop, header).          *)
THEOREM AnalysisAdvances == Spec => [][\A w \in Worker : Advances(w)]_vars
<1>1. WindowInv /\ [Next]_vars => [\A w \in Worker : Advances(w)]_vars
  <2> SUFFICES ASSUME WindowInv, NEW v \in Worker, Service(v) \/ lock(v) \/ Work(v),
                      NEW w \in Worker, Analysing(w)
               PROVE  /\ Remaining(w) \in Nat
                      /\ lock(w) \/ Work(w) =>
                            pc'[w] = "ready" \/ (Analysing(w)' /\ Remaining(w)' < Remaining(w))
                      /\ ~(lock(w) \/ Work(w)) => Untouched(w)
    BY DEF Next, Advances
  <2>1. Remaining(w) \in Nat
    BY RemainingType DEF WindowInv, OwnedInv
  <2>2. ~Service(w)
    BY AnalysingLabels DEF Service, createNativeStruct, analyse_file, analyse_nothing,
       freeNativeStruct
  <2>3. ~(lock(w) \/ Work(w)) => Untouched(w)
    BY <2>2, OthersUntouched
  <2> QED BY <2>1, <2>3, WorkAdvances DEF WindowInv
<1> QED BY <1>1, WindowAlways, PTL DEF Spec

LEMMA HolderStep ==
    ASSUME WindowInv, HolderIsInside, NEW w \in Worker, Service(w) \/ lock(w) \/ Work(w)
    PROVE  HolderIsInside'
<1>0. pc \in [Worker -> Labels]
  BY DEF WindowInv, OwnedInv, TypeOK, ThreadsOK
<1>1. CASE planner' = w
  <2>1. pc'[w] \in {"freeing", "creating", "leaving"}
    <3>1. CASE lock(w)
      BY <1>0, <3>1 DEF lock, Goto, Locking
    <3>2. CASE Service(w) \/ Work(w)
      BY <1>0, <1>1, <3>2, WorkerAssumption DEF HolderIsInside, Service, Work,
         createNativeStruct, analyse_file, analyse_nothing, freeNativeStruct, header,
         free_beat_detector_fields, create_beat_detector, finished, skip, fill, beatdetect,
         leave, Goto, Return, After
    <3> QED BY <3>1, <3>2
  <2> QED BY <1>1, <2>1 DEF HolderIsInside
<1>2. CASE planner' # w
  <2>1. planner' = planner \/ planner' = NoWorker
    BY <1>2 DEF Service, Work, createNativeStruct, analyse_file, analyse_nothing,
       freeNativeStruct, header, lock, free_beat_detector_fields, create_beat_detector,
       finished, skip, fill, beatdetect, leave
  <2>2. \A v \in Worker : v # w => pc'[v] = pc[v]
    BY OthersUntouched DEF Untouched
  <2> QED BY <1>2, <2>1, <2>2, WorkerAssumption DEF HolderIsInside
<1> QED BY <1>1, <1>2

(* However many threads analyse, wherever files end and memory runs out,    *)
(* the mutex of FFTW's planner is unlocked by whoever locked it: its holder *)
(* is between fftw_planner_lock and fftw_planner_unlock.                    *)
THEOREM PlannerAlwaysReleased == Spec => []HolderIsInside
<1>1. Init => HolderIsInside
  BY WorkerAssumption DEF Init, HolderIsInside
<1>2. WindowInv /\ HolderIsInside /\ [Next]_vars => HolderIsInside'
  <2> SUFFICES ASSUME WindowInv, HolderIsInside, [Next]_vars PROVE HolderIsInside'
    OBVIOUS
  <2>1. CASE UNCHANGED vars
    BY <2>1 DEF vars, HolderIsInside
  <2> QED BY <2>1, HolderStep DEF Next
<1> QED BY <1>1, <1>2, WindowAlways, PTL DEF Spec

=============================================================================
