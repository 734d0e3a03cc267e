------------------------------ MODULE Playback ------------------------------
(***************************************************************************)
(* What is heard: MultiPlayer's two media players, the play, pause and     *)
(* quit of MusicService, and PlaybackHandler opening tracks on them.       *)
(*                                                                         *)
(* The queue operations are those of PlayingQueue, which sees the two      *)
(* players only as closed, open or gapless; everything that opens, starts  *)
(* or releases a track is spelled out here, and Spec is checked to         *)
(* implement PlayingQueue's.  Audio focus is granted whenever asked for.   *)
(*                                                                         *)
(* Of android.media.MediaPlayer this uses: a track that completes starts   *)
(* the player set as next before its completion callback runs, and reset   *)
(* or release drops a callback that has not run.                           *)
(***************************************************************************)
EXTENDS Integers, Sequences

CONSTANTS Song, NoSong, Selections, MaxLen, MaxInbox, MaxEvents, MaxPosition

(* Those of PlayingQueue. *)
ASSUME SongAssumption == NoSong \notin Song
ASSUME SelectionsAssumption == Selections \subseteq Seq(Song)
ASSUME BoundsAssumption == {MaxLen, MaxInbox, MaxEvents, MaxPosition} \subseteq Nat

VARIABLES
    playingQueue, originalPlayingQueue, position, nextPosition, shuffleMode,
    repeatMode, inbox, call, thrown, ranAhead, skipped, chosen,
    track,          \* song open in mCurrentMediaPlayer, NoSong when not mIsInitialized
    sound,          \* state of mCurrentMediaPlayer
    next,           \* song prepared in mNextMediaPlayer, NoSong without one
    nextStarted,    \* whether the completed track has started mNextMediaPlayer
    completing,     \* whether a completion callback is on its way
    gapless,        \* the gapless playback preference
    pendingQuit,
    removing,       \* entry the queue view removes after its playNextSong call
    yielded,        \* history: the song playing was removed and another follows it
    outpaced        \* history: a track change overtook the preparation of the next track

(* What PlayingQueue sees of the player. *)
PlayerSeen ==
    IF track = NoSong THEN "closed" ELSE IF next # NoSong THEN "gapless" ELSE "open"

Queue == INSTANCE PlayingQueue WITH player <- PlayerSeen

queueVars == <<playingQueue, originalPlayingQueue, position, nextPosition, shuffleMode,
               repeatMode, inbox, call, thrown, ranAhead, skipped, chosen>>
players == <<track, sound, next, nextStarted, completing>>
vars == <<queueVars, players, gapless, pendingQuit, removing, yielded, outpaced>>

Sounds == {"idle", "paused", "started", "completed"}
None == -1

isPlaying == sound = "started"

(* Queue variables no handler step but the two track messages' touches. *)
QueueKept == UNCHANGED <<playingQueue, originalPlayingQueue, shuffleMode, repeatMode,
                         call, thrown, ranAhead, skipped, chosen>>

-----------------------------------------------------------------------------
Init ==
    /\ track = NoSong /\ sound = "idle"
    /\ next = NoSong /\ nextStarted = FALSE /\ completing = FALSE
    /\ gapless \in BOOLEAN /\ pendingQuit = FALSE
    /\ removing = None /\ yielded = FALSE /\ outpaced = FALSE
    /\ Queue!Init

-----------------------------------------------------------------------------
(* MultiPlayer *)

(* setNextDataSource(path): the next player is released, and another takes  *)
(* its place if gapless playback is on and the song can be prepared.        *)
setNextDataSource(song) ==
    /\ next' \in IF gapless /\ song # NoSong THEN {song, NoSong} ELSE {NoSong}
    /\ nextStarted' = FALSE

(* A player that has no track takes no next player. *)
prepareAfterCurrent(p) ==
    LET song == Queue!getSongAt(Queue!getNextPosition(playingQueue, position, repeatMode, FALSE)) IN
    setNextDataSource(IF track' = NoSong THEN NoSong ELSE song)
prepareNextSong(p) ==
    LET song == Queue!getSongAt(Queue!getNextPosition(playingQueue, p, repeatMode, FALSE)) IN
    setNextDataSource(IF track' = NoSong THEN NoSong ELSE song)

(* setDataSource: reset drops a completion callback that is on its way. *)
OpenTrack(song, start) ==
    /\ song # NoSong /\ track' = song
    /\ sound' = IF start THEN "started" ELSE "paused"
    /\ completing' = FALSE

FailToReset ==
    /\ track' = NoSong /\ UNCHANGED <<sound, completing, next, nextStarted>>
FailToOpen ==
    /\ track' = NoSong /\ sound' = "idle"
    /\ completing' = FALSE
    /\ UNCHANGED <<next, nextStarted>>

-----------------------------------------------------------------------------
(* Main thread *)

Listens == removing = None

(* Every queue operation, none of which touches the players. *)
UseQueue ==
    /\ Listens
    /\ UNCHANGED <<players, gapless, pendingQuit, removing, outpaced>>
    /\ yielded' = FALSE
    /\ Queue!Listener

(* play() on an open track; on a closed one it is PlayingQueue's            *)
(* PlayUnopened.                                                            *)
Play ==
    /\ Queue!Idle /\ Listens
    /\ track # NoSong /\ ~isPlaying
    /\ sound' = "started"
    /\ yielded' = FALSE
    /\ UNCHANGED <<queueVars, track, next, nextStarted, completing, gapless,
                   pendingQuit, removing, outpaced>>

Pause ==
    /\ Queue!Idle /\ Listens
    /\ isPlaying /\ sound' = "paused"
    /\ yielded' = FALSE
    /\ UNCHANGED <<queueVars, track, next, nextStarted, completing, gapless,
                   pendingQuit, removing, outpaced>>

(* onSharedPreferenceChanged(GAPLESS_PLAYBACK) *)
SetGapless(on) ==
    /\ Listens /\ gapless' = on /\ on # gapless
    /\ IF on THEN UNCHANGED <<next, nextStarted>> ELSE next' = NoSong /\ nextStarted' = FALSE
    /\ UNCHANGED <<track, sound, completing, pendingQuit, removing, outpaced>>
    /\ yielded' = FALSE
    /\ Queue!GaplessChanged(on)

(* ACTION_PENDING_QUIT, and the sleep timer dialog's cancel. *)
SetPendingQuit(on) ==
    /\ Queue!Idle /\ Listens
    /\ pendingQuit' = on
    /\ yielded' = FALSE
    /\ UNCHANGED <<queueVars, players, gapless, removing, outpaced>>

(* Removing the entry that plays from the queue view: playNextSong, then    *)
(* removeFromQueue, in one callback the handler may run in between.         *)
RemovePlaying(p) ==
    /\ Listens /\ isPlaying
    /\ p \in Queue!Positions(playingQueue) /\ playingQueue[p + 1] = Queue!CurrentSong
    /\ removing' = p
    /\ yielded' = (p = position /\ p < Queue!size - 1 /\ ~Queue!Unsettled /\ ~completing)
    /\ UNCHANGED <<players, gapless, pendingQuit, outpaced>>
    /\ Queue!PlayNextSong

FinishRemoving ==
    /\ removing # None /\ removing' = None
    /\ UNCHANGED <<players, gapless, pendingQuit, yielded, outpaced>>
    /\ \/ Queue!RemoveAtPosition(removing)
       \/ Queue!RemoveSong(playingQueue[removing + 1])

-----------------------------------------------------------------------------
(* The players *)

(* The track comes to its end; the next player, if one is set, starts.      *)
Complete ==
    /\ Queue!Running /\ isPlaying /\ ~completing
    /\ sound' = "completed" /\ completing' = TRUE
    /\ nextStarted' = (next # NoSong)
    /\ yielded' = FALSE
    /\ UNCHANGED <<queueVars, track, next, gapless, pendingQuit, removing, outpaced>>

(* onCompletion: a next player, if there is one by now, becomes current.    *)
onCompletion ==
    /\ completing /\ completing' = FALSE
    /\ IF next # NoSong
       THEN /\ track' = next /\ sound' = IF nextStarted THEN "started" ELSE "paused"
            /\ next' = NoSong /\ nextStarted' = FALSE
            /\ outpaced' = (outpaced \/ Queue!Pending(Queue!PositionKinds \cup {"PREPARE_NEXT"}))
            /\ UNCHANGED <<gapless, pendingQuit, removing, yielded>>
            /\ Queue!PlayerCallback("TRACK_WENT_TO_NEXT")
       ELSE /\ UNCHANGED <<track, sound, next, nextStarted, gapless, pendingQuit, removing,
                           yielded, outpaced>>
            /\ Queue!PlayerCallback("TRACK_ENDED")

(* onError, and the onCompletion that follows since it returns false: the   *)
(* current player is replaced, so the next one does not take over.          *)
onError ==
    /\ track # NoSong /\ ~completing
    /\ track' = NoSong /\ sound' = "idle"
    /\ yielded' = FALSE
    /\ UNCHANGED <<next, nextStarted, completing, gapless, pendingQuit, removing, outpaced>>
    /\ Queue!PlayerCallback("TRACK_ENDED")

-----------------------------------------------------------------------------
(* Handler thread *)

Takes(kinds) == Queue!Take /\ Head(inbox).what \in kinds /\ inbox' = Tail(inbox)

(* PLAY_SONG: playSongAtImpl plays the track it opened; SET_POSITION does   *)
(* not.                                                                     *)
HandlePosition ==
    /\ Takes(Queue!PositionKinds)
    /\ position' = Head(inbox).arg
    /\ \/ /\ OpenTrack(Queue!getSongAt(position'), Head(inbox).what = "PLAY_SONG")
          /\ prepareNextSong(position')
          /\ nextPosition' = Queue!getNextPosition(playingQueue, position', repeatMode, FALSE)
       \/ FailToOpen /\ UNCHANGED nextPosition
    /\ outpaced' = FALSE
    /\ yielded' = (yielded /\ track' = Queue!getSongAt(position'))
    /\ UNCHANGED <<gapless, pendingQuit, removing>> /\ QueueKept

HandlePrepareNext ==
    /\ Takes({"PREPARE_NEXT"})
    /\ nextPosition' = Queue!getNextPosition(playingQueue, position, repeatMode, FALSE)
    /\ UNCHANGED <<track, sound, completing>>
    /\ prepareNextSong(position)
    /\ UNCHANGED <<position, gapless, pendingQuit, removing, yielded, outpaced>> /\ QueueKept

(* At the end of the queue the same track was prepared again: it is paused. *)
HandleTrackWentToNext ==
    /\ Takes({"TRACK_WENT_TO_NEXT"})
    /\ IF Queue!AtEnd
       THEN /\ sound' = IF isPlaying THEN "paused" ELSE sound
            /\ UNCHANGED <<position, nextPosition, track, next, nextStarted>>
       ELSE /\ position' = nextPosition
            /\ nextPosition' =
                    Queue!getNextPosition(playingQueue, nextPosition, repeatMode, FALSE)
            /\ UNCHANGED <<track, sound>>
            /\ prepareNextSong(nextPosition)
    /\ UNCHANGED <<completing, gapless, pendingQuit, removing, yielded, outpaced>> /\ QueueKept

(* Nothing follows a track that ends the queue, or ends with a quit         *)
(* pending, which it carries out.                                           *)
isFollowedPastEnd == ~pendingQuit
isFollowed == ~pendingQuit /\ ~Queue!AtEnd

HandleTrackEnded ==
    /\ Queue!Take /\ Head(inbox).what = "TRACK_ENDED"
    /\ pendingQuit' = FALSE
    /\ sound' = IF pendingQuit /\ isPlaying THEN "paused" ELSE sound
    /\ inbox' = IF isFollowed
                THEN Queue!Post(Tail(inbox), "PLAY_SONG",
                        Queue!getNextPosition(playingQueue, position, repeatMode, FALSE))
                ELSE Tail(inbox)
    /\ UNCHANGED <<position, nextPosition, track, next, nextStarted, completing, gapless,
                   removing, yielded, outpaced>> /\ QueueKept

-----------------------------------------------------------------------------
Listener ==
    \/ UseQueue
    \/ Play \/ Pause
    \/ \E on \in BOOLEAN : SetGapless(on) \/ SetPendingQuit(on)
    \/ \E p \in 0 .. MaxLen : RemovePlaying(p)
    \/ FinishRemoving

Players == Complete \/ onCompletion \/ onError

Handler == HandlePosition \/ HandlePrepareNext \/ HandleTrackWentToNext \/ HandleTrackEnded

Next == Listener \/ Players \/ Handler

Spec == Init /\ [][Next]_vars

-----------------------------------------------------------------------------
(* Every variable has its type; only an open track has a sound or a        *)
(* completion on its way, and only a prepared player was started.          *)
TypeOK ==
    /\ track \in Song \cup {NoSong} /\ next \in Song \cup {NoSong}
    /\ sound \in Sounds
    /\ nextStarted \in BOOLEAN /\ completing \in BOOLEAN
    /\ gapless \in BOOLEAN /\ pendingQuit \in BOOLEAN
    /\ removing \in Nat \cup {None}
    /\ yielded \in BOOLEAN /\ outpaced \in BOOLEAN
    /\ (track = NoSong) = (sound = "idle")
    /\ completing => track # NoSong
    /\ nextStarted => next # NoSong

(* Opening, starting and releasing tracks on the two players never moves    *)
(* the queue in a way PlayingQueue does not describe.                       *)
ImplementsPlayingQueue == Queue!Spec

(* The song that is heard is the one the queue shows as current, once every *)
(* message about a position or a track is handled: neither an edit of the   *)
(* queue nor a gapless transition to a prepared track lets them diverge,    *)
(* unless one overtook the message of the other, or removeSong(Song) left a *)
(* copy of the song in one of the two lists only.                           *)
HeardSongIsShown ==
    /\ isPlaying /\ ~completing /\ ~Queue!Unsettled
    /\ ~ranAhead /\ ~outpaced /\ track \notin skipped
    => track = Queue!CurrentSong

(* PlayingQueueAdapter.java:207 and 262, "If song removed was the playing   *)
(* song, then play the next song".                                          *)
RemovedSongYieldsToNext ==
    yielded /\ removing = None /\ ~Queue!Unsettled /\ track # NoSong => isPlaying

=============================================================================
