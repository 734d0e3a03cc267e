---------------------------- MODULE PlayingQueue ----------------------------
(***************************************************************************)
(* The playing queue of MusicService: its two lists, the current and the   *)
(* next position, the shuffle and repeat modes, and the messages of        *)
(* PlaybackHandler that read or set them.                                  *)
(*                                                                         *)
(* Two threads share this state.  The main thread runs the queue           *)
(* operations (MusicPlayerRemote, notification, media session); it edits   *)
(* the lists at once but only posts a position for the handler thread to   *)
(* install.  The handler thread takes messages in order.  A method is one  *)
(* step, and setShuffleMode called right after openQueue is a second one.  *)
(* The player is seen through the callbacks it posts.                      *)
(***************************************************************************)
EXTENDS SongLists

CONSTANTS
    Song,       \* song ids
    NoSong,     \* Song.EMPTY_SONG
    Selections, \* the song lists a user can open or add
    MaxLen,     \* bound on the length of the queue
    MaxInbox,   \* bound on the messages waiting when the listener does anything
    MaxEvents,  \* bound on the messages waiting when the player posts another
    MaxPosition \* bound on the positions from which anything more is done

ASSUME SongAssumption == NoSong \notin Song
ASSUME SelectionsAssumption == Selections \subseteq Seq(Song)
ASSUME BoundsAssumption == {MaxLen, MaxInbox, MaxEvents, MaxPosition} \subseteq Nat

VARIABLES
    playingQueue, originalPlayingQueue, position, nextPosition,
    shuffleMode, repeatMode,
    player,         \* MultiPlayer: no track, a track, or a track and the one after it
    inbox,          \* messages waiting in playerHandler, oldest first
    call,           \* the setShuffleMode calls the running main-thread call still makes
    thrown,         \* the operation whose uncaught exception ended the process
    ranAhead,       \* history: a position was used while its correction was waiting
    skipped,        \* history: songs removeSong(Song) left a copy of
    chosen          \* history: the song the last openQueue asked for, until superseded

lists == <<playingQueue, originalPlayingQueue>>
modes == <<shuffleMode, repeatMode>>
vars == <<lists, position, nextPosition, modes, player, inbox, call, thrown,
          ranAhead, skipped, chosen>>

(* SHUFFLE_MODE_* and REPEAT_MODE_* *)
ShuffleModes == {"NONE", "SHUFFLE"}
RepeatModes == {"NONE", "ALL", "THIS"}

PlayerStates == {"closed", "open", "gapless"}

PositionKinds == {"PLAY_SONG", "SET_POSITION"}
EventKinds == {"TRACK_WENT_TO_NEXT", "TRACK_ENDED"}
MessageKinds == PositionKinds \cup EventKinds \cup {"PREPARE_NEXT"}

(* No position below -1, the one of an empty queue, is ever computed. *)
Places == Nat \cup {-1}
Message == [what : MessageKinds, arg : Places]

-----------------------------------------------------------------------------
(* Reading the queue *)

size == Len(playingQueue)

getSongAt(p) == IF p \in Positions(playingQueue) THEN playingQueue[p + 1] ELSE NoSong

CurrentSong == getSongAt(position)

isLastTrack(list, p) == p = Len(list) - 1

getNextPosition(list, p, repeat, force) ==
    CASE repeat = "ALL" \/ (repeat = "THIS" /\ force) ->
            IF isLastTrack(list, p) THEN 0 ELSE p + 1
      [] repeat = "THIS" /\ ~force -> p
      [] repeat = "NONE" -> IF isLastTrack(list, p) THEN p ELSE p + 1

previousUnclamped(list, p, repeat, force) ==
    CASE repeat = "ALL" \/ (repeat = "THIS" /\ force) ->
            IF p - 1 < 0 THEN Len(list) - 1 ELSE p - 1
      [] repeat = "THIS" /\ ~force -> p
      [] repeat = "NONE" -> p - 1
getPreviousPosition(list, p, repeat, force) ==
    CASE repeat = "ALL" \/ (repeat = "THIS" /\ force) ->
            IF p - 1 < 0 THEN Len(list) - 1 ELSE p - 1
      [] repeat = "THIS" /\ ~force -> p
      [] repeat = "NONE" -> IF p - 1 < 0 THEN 0 ELSE p - 1

-----------------------------------------------------------------------------
(* The handler's inbox *)

Pending(kinds) == \E i \in DOMAIN inbox : inbox[i].what \in kinds

Unsettled == Pending(PositionKinds \cup EventKinds)

(* removeMessages(what), then sendToTarget() *)
Post(box, what, arg) ==
    Append(Keep(box, { i \in DOMAIN box : box[i].what # what }), [what |-> what, arg |-> arg])

prepareNext(box) == Post(box, "PREPARE_NEXT", 0)

(* QUEUE_CHANGED prepares the next track of a queue that is not empty. *)
QueueChanged(box, list) == IF list # <<>> THEN prepareNext(box) ELSE box

-----------------------------------------------------------------------------
Init ==
    /\ playingQueue = <<>> /\ originalPlayingQueue = <<>>
    /\ position = -1 /\ nextPosition = -1
    /\ shuffleMode \in ShuffleModes /\ repeatMode \in RepeatModes
    /\ player = "closed"
    /\ inbox = <<>> /\ call = <<>> /\ thrown = "none"
    /\ ranAhead = FALSE /\ skipped = {} /\ chosen = NoSong

Running == thrown = "none"

(* The bounds: with a position past the end, every skip moves it further.   *)
Room(waiting) ==
    /\ Len(inbox) <= waiting
    /\ position <= MaxPosition
    /\ \A i \in DOMAIN inbox : inbox[i].arg <= MaxPosition

Idle == Running /\ call = <<>> /\ Room(MaxInbox)

(* An uncaught exception on the main thread ends the process. *)
Throw(operation) ==
    /\ thrown' = operation
    /\ UNCHANGED <<lists, position, nextPosition, modes, player, inbox, call,
                   ranAhead, skipped, chosen>>

(* What an operation that reads or moves positions, or one that replaces a  *)
(* PREPARE_NEXT already waiting, finds outdated.                            *)
Edited == ranAhead' = (ranAhead \/ Unsettled)
Reprepared == ranAhead' = (ranAhead \/ Pending({"TRACK_WENT_TO_NEXT"}))

-----------------------------------------------------------------------------
(* Main thread: opening a queue *)

(* The position openQueue posts: a shuffled queue starts with the chosen song. *)
openedUnshuffled(start) == start
openedPosition(start) == IF shuffleMode = "SHUFFLE" THEN 0 ELSE start

(* MusicPlayerRemote.openQueue and openAndShuffleQueue, the service's      *)
(* playSongs and ACTION_PLAY_PLAYLIST: all call openQueue; the first turns  *)
(* shuffle off unless rememberShuffle is set, the others may then turn it   *)
(* on.                                                                      *)
OpenQueue(songs, start, startPlaying, rememberShuffle, shuffleAll) ==
    /\ Idle
    /\ songs # <<>> /\ start \in Positions(songs)
    /\ originalPlayingQueue' = songs
    /\ playingQueue' \in IF shuffleMode = "SHUFFLE" THEN Shuffles(songs, start) ELSE {songs}
    /\ inbox' = QueueChanged(
                    Post(inbox, IF startPlaying THEN "PLAY_SONG" ELSE "SET_POSITION",
                         openedPosition(start)),
                    songs)
    /\ call' = (IF rememberShuffle THEN <<>> ELSE <<"NONE">>)
                  \o (IF shuffleAll THEN <<"SHUFFLE">> ELSE <<>>)
    /\ ranAhead' = Pending({"TRACK_ENDED"})
    /\ chosen' = IF Pending({"TRACK_ENDED"}) THEN NoSong ELSE songs[start + 1]
    /\ skipped' = {}
    /\ UNCHANGED <<position, nextPosition, modes, player, thrown>>

(* setShuffleMode(SHUFFLE_MODE_SHUFFLE) *)
ShuffleOn ==
    /\ playingQueue' \in Shuffles(playingQueue, position)
    /\ position' = 0
    /\ UNCHANGED originalPlayingQueue
    /\ chosen' = IF Pending(PositionKinds) THEN NoSong ELSE chosen

(* setShuffleMode(SHUFFLE_MODE_NONE): back to the original order, at the   *)
(* song that was current, or at 0.                                          *)
ShuffleOff ==
    /\ playingQueue' = originalPlayingQueue
    /\ position' = IF \E i \in DOMAIN originalPlayingQueue : originalPlayingQueue[i] = CurrentSong
                   THEN IndexOf(originalPlayingQueue, CurrentSong)
                   ELSE 0
    /\ UNCHANGED originalPlayingQueue
    /\ chosen' = IF Pending(PositionKinds) /\ shuffleMode = "SHUFFLE" THEN NoSong ELSE chosen

setShuffleMode(mode) ==
    /\ shuffleMode' = mode
    /\ IF mode = "SHUFFLE" THEN ShuffleOn ELSE ShuffleOff
    /\ inbox' = QueueChanged(inbox, playingQueue')
    /\ Edited
    /\ UNCHANGED <<nextPosition, repeatMode, player, thrown, skipped>>

(* makeShuffleList removes the entry at the current position. *)
ShuffleThrows(mode) == mode = "SHUFFLE" /\ playingQueue # <<>> /\ position >= size

ContinueCall ==
    /\ Running /\ call # <<>>
    /\ \/ ShuffleThrows(Head(call)) /\ Throw("setShuffleMode")
       \/ ~ShuffleThrows(Head(call)) /\ setShuffleMode(Head(call)) /\ call' = Tail(call)

toggleShuffle ==
    LET mode == IF shuffleMode = "NONE" THEN "SHUFFLE" ELSE "NONE" IN
    /\ Idle
    /\ \/ ShuffleThrows(mode) /\ Throw("setShuffleMode")
       \/ ~ShuffleThrows(mode) /\ setShuffleMode(mode) /\ UNCHANGED call

-----------------------------------------------------------------------------
(* Main thread: editing the queue *)

(* addSong(Song), addSongs(List): enqueue on a queue that is not empty. *)
Enqueue(songs) ==
    /\ Idle /\ playingQueue # <<>>
    /\ size + Len(songs) <= MaxLen
    /\ playingQueue' = playingQueue \o songs
    /\ originalPlayingQueue' = originalPlayingQueue \o songs
    /\ inbox' = QueueChanged(inbox, playingQueue')
    /\ chosen' = NoSong
    /\ Reprepared
    /\ UNCHANGED <<position, nextPosition, modes, player, call, thrown, skipped>>

(* addSong(int, Song), addSongs(int, List): neither touches the position. *)
AddAt(p, songs) ==
    IF p > size \/ p > Len(originalPlayingQueue)
    THEN Throw("addSong")
    ELSE /\ playingQueue' = InsertAll(playingQueue, p, songs)
         /\ originalPlayingQueue' = InsertAll(originalPlayingQueue, p, songs)
         /\ inbox' = QueueChanged(inbox, playingQueue')
         /\ chosen' = NoSong
         /\ Edited
         /\ UNCHANGED <<position, nextPosition, modes, player, call, thrown, skipped>>

PlayNext(songs) ==
    /\ Idle /\ playingQueue # <<>>
    /\ size + Len(songs) <= MaxLen
    /\ AddAt(position + 1, songs)

(* rePosition(deleted), with the list after the deletion.  The current      *)
(* entry's own deletion posts a position instead of setting one.            *)
steppedBackUnlessAlone(deleted, list) == IF list # <<>> THEN position ELSE position - 1
steppedBack(deleted, list) == IF Len(list) > deleted THEN position ELSE position - 1

notShifted(deleted) == position
shifted(deleted) == IF deleted < position THEN position - 1 ELSE position

rePosition(deleted, list) ==
    /\ position' = shifted(deleted)
    /\ inbox' = QueueChanged(
                    IF deleted # position THEN inbox
                    ELSE Post(inbox, "SET_POSITION", steppedBack(deleted, list)),
                    list)

(* removeSong(int) on the original list: by position, or by song when the   *)
(* two orders differ.                                                       *)
originalWithoutPosition(p) == Delete(originalPlayingQueue, p)
originalWithoutSong(p) == DeleteFirst(originalPlayingQueue, playingQueue[p + 1])
originalWithout(p) ==
    IF shuffleMode = "NONE" THEN Delete(originalPlayingQueue, p)
    ELSE DeleteFirst(originalPlayingQueue, playingQueue[p + 1])

RemoveAtPosition(p) ==
    /\ Idle /\ p \in Positions(playingQueue)
    /\ playingQueue' = Delete(playingQueue, p)
    /\ originalPlayingQueue' = originalWithout(p)
    /\ rePosition(p, playingQueue')
    /\ chosen' = NoSong
    /\ Edited
    /\ UNCHANGED <<nextPosition, modes, player, call, thrown, skipped>>

(* removeSong(Song): rePosition for every deletion, at the index the entry  *)
(* has by then.  Deletions before the current entry move the position; the  *)
(* current entry's own posts it.                                            *)
RemoveSong(song) ==
    LET deletes == LoopDeletes(playingQueue, song)
        before == Cardinality({ i \in deletes : i - 1 < position })
        rest == LoopDelete(playingQueue, song)
        restOriginal == LoopDelete(originalPlayingQueue, song)
    IN
    /\ Idle /\ \E i \in DOMAIN playingQueue : playingQueue[i] = song
    /\ playingQueue' = rest
    /\ originalPlayingQueue' = restOriginal
    /\ position' = position - before
    /\ inbox' = QueueChanged(
                    IF position + 1 \notin deletes THEN inbox
                    ELSE Post(inbox, "SET_POSITION",
                              IF position < size - 1 THEN position' ELSE position' - 1),
                    rest)
    /\ skipped' = IF song \in ToSet(rest) \cup ToSet(restOriginal)
                  THEN skipped \cup {song} ELSE skipped
    /\ chosen' = NoSong
    /\ Edited
    /\ UNCHANGED <<nextPosition, modes, player, call, thrown>>

(* moveSong(from, to), from the drag handles of the queue view *)
movedPastOnly(from, to) ==
    CASE from > position /\ to < position -> position + 1
      [] from < position /\ to > position -> position - 1
      [] from = position -> to
      [] OTHER -> position
movedPosition(from, to) ==
    CASE from > position /\ to <= position -> position + 1
      [] from < position /\ to >= position -> position - 1
      [] from = position -> to
      [] OTHER -> position

MoveSong(from, to) ==
    /\ Idle /\ from \in Positions(playingQueue) /\ to \in Positions(playingQueue) \ {from}
    /\ playingQueue' = Move(playingQueue, from, to)
    /\ originalPlayingQueue' = IF shuffleMode = "NONE"
                               THEN Move(originalPlayingQueue, from, to)
                               ELSE originalPlayingQueue
    /\ position' = movedPosition(from, to)
    /\ inbox' = QueueChanged(inbox, playingQueue')
    /\ chosen' = NoSong
    /\ Edited
    /\ UNCHANGED <<nextPosition, modes, player, call, thrown, skipped>>

ClearQueue ==
    /\ Idle
    /\ playingQueue' = <<>> /\ originalPlayingQueue' = <<>>
    /\ inbox' = Post(inbox, "SET_POSITION", -1)
    /\ chosen' = NoSong /\ skipped' = {}
    /\ ranAhead' = Pending({"TRACK_ENDED"})
    /\ UNCHANGED <<position, nextPosition, modes, player, call, thrown>>

-----------------------------------------------------------------------------
(* Main thread: moving through the queue *)

Steer(kind, p) ==
    /\ inbox' = Post(inbox, kind, p)
    /\ chosen' = NoSong
    /\ UNCHANGED <<lists, position, nextPosition, modes, player, call, thrown, skipped>>

(* A tap on an entry of the queue (tryToHandleOpenPlayingQueue) *)
PlaySongAt(p, startPlaying) ==
    /\ Idle /\ p \in Positions(playingQueue)
    /\ Steer(IF startPlaying THEN "PLAY_SONG" ELSE "SET_POSITION", p)
    /\ ranAhead' = Pending({"TRACK_ENDED"})

(* playNextSong(true), back(true), and play() with no track open *)
PlayNextSong ==
    /\ Idle
    /\ Steer("PLAY_SONG", getNextPosition(playingQueue, position, repeatMode, TRUE))
    /\ Edited

PlayPreviousSong ==
    /\ Idle
    /\ Steer("PLAY_SONG", getPreviousPosition(playingQueue, position, repeatMode, TRUE))
    /\ Edited

PlayUnopened ==
    /\ Idle /\ player = "closed"
    /\ Steer("PLAY_SONG", position)
    /\ Edited

cycleRepeatMode ==
    /\ Idle
    /\ repeatMode' = CASE repeatMode = "NONE" -> "ALL"
                       [] repeatMode = "ALL" -> "THIS"
                       [] OTHER -> "NONE"
    /\ inbox' = prepareNext(inbox)
    /\ Reprepared
    /\ UNCHANGED <<lists, position, nextPosition, shuffleMode, player, call, thrown,
                   skipped, chosen>>

(* onSharedPreferenceChanged(GAPLESS_PLAYBACK): on, the next track is to be *)
(* prepared; off, a prepared one is dropped.                                *)
GaplessChanged(on) ==
    /\ Idle
    /\ IF on
       THEN inbox' = prepareNext(inbox) /\ Reprepared /\ UNCHANGED player
       ELSE /\ player' = IF player = "gapless" THEN "open" ELSE player
            /\ UNCHANGED <<inbox, ranAhead>>
    /\ UNCHANGED <<lists, position, nextPosition, modes, call, thrown, skipped, chosen>>

-----------------------------------------------------------------------------
(* The player's callbacks, which only post; an error leaves no open track.  *)

PlayerCallback(kind) ==
    /\ Running /\ Room(MaxEvents)
    /\ \/ kind = "TRACK_WENT_TO_NEXT" /\ player = "gapless" /\ player' = "open"
       \/ kind = "TRACK_ENDED" /\ player = "open" /\ player' = "open"
       \/ kind = "TRACK_ENDED" /\ player # "closed" /\ player' = "closed"
    /\ inbox' = Append(inbox, [what |-> kind, arg |-> 0])
    /\ ranAhead' = \/ ranAhead
                   \/ kind = "TRACK_WENT_TO_NEXT" /\ Pending(PositionKinds)
    /\ chosen' = NoSong
    /\ UNCHANGED <<lists, position, nextPosition, modes, call, thrown, skipped>>

-----------------------------------------------------------------------------
(* Handler thread *)

Take == Running /\ inbox # <<>>

(* prepareNextImpl.  The player takes the next track if one is open, the    *)
(* gapless setting is on, and the file opens.                               *)
prepareNextImpl(p) ==
    LET next == getNextPosition(playingQueue, p, repeatMode, FALSE) IN
    /\ nextPosition' = next
    /\ player' \in IF getSongAt(next) = NoSong THEN {"open"} ELSE {"open", "gapless"}

(* openTrackAndPrepareNextAt: no track opens at a position outside the queue *)
HandlePosition ==
    /\ Take /\ Head(inbox).what \in PositionKinds
    /\ position' = Head(inbox).arg
    /\ \/ getSongAt(position') # NoSong /\ prepareNextImpl(position')
       \/ player' = "closed" /\ UNCHANGED nextPosition
    /\ inbox' = Tail(inbox)
    /\ UNCHANGED <<lists, modes, call, thrown, ranAhead, skipped, chosen>>

PrepareNext(p) ==
    IF player = "closed"
    THEN nextPosition' = getNextPosition(playingQueue, p, repeatMode, FALSE) /\ UNCHANGED player
    ELSE prepareNextImpl(p)

HandlePrepareNext ==
    /\ Take /\ Head(inbox).what = "PREPARE_NEXT"
    /\ PrepareNext(position)
    /\ inbox' = Tail(inbox)
    /\ UNCHANGED <<lists, position, modes, call, thrown, ranAhead, skipped, chosen>>

AtEnd == repeatMode = "NONE" /\ isLastTrack(playingQueue, position)

HandleTrackWentToNext ==
    /\ Take /\ Head(inbox).what = "TRACK_WENT_TO_NEXT"
    /\ IF AtEnd
       THEN UNCHANGED <<position, nextPosition, player>>
       ELSE position' = nextPosition /\ PrepareNext(nextPosition)
    /\ inbox' = Tail(inbox)
    /\ UNCHANGED <<lists, modes, call, thrown, ranAhead, skipped, chosen>>

(* Nothing follows the last track, nor one that ends with a quit pending.   *)
HandleTrackEnded ==
    /\ Take /\ Head(inbox).what = "TRACK_ENDED"
    /\ \/ inbox' = Tail(inbox)
       \/ /\ ~AtEnd
          /\ inbox' = Post(Tail(inbox), "PLAY_SONG",
                           getNextPosition(playingQueue, position, repeatMode, FALSE))
    /\ UNCHANGED <<lists, position, nextPosition, modes, player, call, thrown,
                   ranAhead, skipped, chosen>>

-----------------------------------------------------------------------------
Listener ==
    \/ \E songs \in Selections, start \in 0 .. MaxLen, play, remember, all \in BOOLEAN :
            OpenQueue(songs, start, play, remember, all)
    \/ ContinueCall
    \/ toggleShuffle
    \/ \E songs \in Selections : Enqueue(songs) \/ PlayNext(songs)
    \/ \E p \in 0 .. MaxLen : RemoveAtPosition(p)
    \/ \E song \in Song : RemoveSong(song)
    \/ \E from, to \in 0 .. MaxLen : MoveSong(from, to)
    \/ ClearQueue
    \/ \E p \in 0 .. MaxLen, play \in BOOLEAN : PlaySongAt(p, play)
    \/ PlayNextSong \/ PlayPreviousSong \/ PlayUnopened \/ cycleRepeatMode

Handler ==
    HandlePosition \/ HandlePrepareNext \/ HandleTrackWentToNext \/ HandleTrackEnded

Next ==
    \/ Handler
    \/ \E kind \in EventKinds : PlayerCallback(kind)
    \/ \E on \in BOOLEAN : GaplessChanged(on)
    \/ Listener

Spec == Init /\ [][Next]_vars

-----------------------------------------------------------------------------
(* Every variable has its type.  In particular every position, current,    *)
(* next or waiting in a message, is -1 or above.                            *)
TypeOK ==
    /\ playingQueue \in Seq(Song) /\ originalPlayingQueue \in Seq(Song)
    /\ position \in Places /\ nextPosition \in Places
    /\ shuffleMode \in ShuffleModes /\ repeatMode \in RepeatModes
    /\ player \in PlayerStates /\ ranAhead \in BOOLEAN
    /\ inbox \in Seq(Message)
    /\ call \in Seq(ShuffleModes)
    /\ thrown \in {"none", "setShuffleMode", "addSong"}
    /\ skipped \subseteq Song /\ chosen \in Song \cup {NoSong}

(* With shuffle off the queue on screen is the queue in its original order: *)
(* removeSong(int) and moveSong rely on it when they use one position for   *)
(* both lists.                                                              *)
UnshuffledListsAgree == shuffleMode = "NONE" => playingQueue = originalPlayingQueue

(* Shuffled or not, each song is in both lists equally often, unless        *)
(* removeSong(Song) met two copies in a row and left one: no edit adds to   *)
(* or takes from one list only, so turning shuffle off loses nothing.       *)
ListsHoldSameSongs ==
    \A song \in Song \ skipped :
        Copies(playingQueue, song) = Copies(originalPlayingQueue, song)

(* The position the queue will have once every waiting position is          *)
(* installed.                                                               *)
SettledPosition ==
    LET waiting == { i \in DOMAIN inbox : inbox[i].what \in PositionKinds } IN
    IF waiting = {} THEN position
    ELSE inbox[CHOOSE i \in waiting : \A j \in waiting : j <= i].arg

(* A position, once installed, points into the queue, through any sequence  *)
(* of edits, skips, track changes and failed opens, provided nobody used a  *)
(* position whose correction was still waiting in the inbox.                *)
SettlesInRange ==
    Running /\ ~ranAhead /\ playingQueue # <<>> => SettledPosition \in Positions(playingQueue)

(* An index out of bounds is thrown on the main thread only when it ran     *)
(* ahead of the handler (makeShuffleList and add(int, E) index with a       *)
(* position that openQueue or removeSong has outdated), or when a skipped   *)
(* copy made the original list the shorter one.                             *)
ThrowsOnlyAhead == thrown # "none" => ranAhead \/ Unsettled \/ skipped # {}

(* The song a listener picked is the current one once its position is       *)
(* installed, whether shuffle is on, being turned on or being turned off,   *)
(* unless setShuffleMode or the end of a track overtook the handler.        *)
ChosenSongBecomesCurrent ==
    chosen # NoSong /\ ~Pending(PositionKinds) => CurrentSong = chosen

(* An edit that posts no position (moving, adding, removing another entry,  *)
(* shuffling, unshuffling) leaves the current song current, although the    *)
(* song may change its place.                                               *)
EditsKeepCurrentSong ==
    [][/\ playingQueue' # playingQueue
       /\ position \in Positions(playingQueue) /\ CurrentSong \notin skipped
       /\ ~Pending(PositionKinds)'
       => CurrentSong' = CurrentSong]_vars

=============================================================================
