--------------------------- MODULE Playback_proofs ---------------------------
(***************************************************************************)
(* Theorems about Playback, for every set of songs, every selection and    *)
(* every bound: the players keep their types, what is done with them       *)
(* implements PlayingQueue, and the song that is heard is the one shown as *)
(* current.  What PlayingQueue_proofs shows of the queue holds of it here: *)
(* all its promises are kept with the players.                             *)
(***************************************************************************)
EXTENDS Playback, SequenceTheorems, TLAPS

(* PlayingQueue's theorems, about the queue Playback uses.                  *)
Proved == INSTANCE PlayingQueue_proofs WITH player <- PlayerSeen

-----------------------------------------------------------------------------
(* The instance with the theorems is the instance of the model: each       *)
(* definition of the one is, written out, that of the other.                *)

LEMMA SameReading ==
    /\ \A kinds : Proved!Pending(kinds) <=> Queue!Pending(kinds)
    /\ \A kinds : Proved!Pending(kinds)' <=> Queue!Pending(kinds)'
    /\ \A kinds : Proved!Waits(inbox, kinds) <=> Queue!Pending(kinds)
    /\ \A kinds : Proved!Waits(Tail(inbox), kinds) <=>
                    \E i \in DOMAIN Tail(inbox) : Tail(inbox)[i].what \in kinds
    /\ Proved!PositionKinds = Queue!PositionKinds
    /\ Proved!CurrentSong = Queue!CurrentSong /\ Proved!CurrentSong' = Queue!CurrentSong'
    /\ Proved!Take <=> Queue!Take
    /\ Proved!TypeOK <=> Queue!TypeOK
    /\ Proved!TypeOK' <=> Queue!TypeOK'
    /\ Proved!UnshuffledListsAgree <=> Queue!UnshuffledListsAgree
    /\ Proved!UnshuffledListsAgree' <=> Queue!UnshuffledListsAgree'
<1> USE DEF Proved!Pending, Queue!Pending, Proved!PositionKinds, Queue!PositionKinds
<1>1. /\ \A kinds : Proved!Pending(kinds) <=> Queue!Pending(kinds)
      /\ \A kinds : Proved!Pending(kinds)' <=> Queue!Pending(kinds)'
    OBVIOUS
<1>2. /\ \A kinds : Proved!Waits(inbox, kinds) <=> Queue!Pending(kinds)
      /\ \A kinds : Proved!Waits(Tail(inbox), kinds) <=>
                    \E i \in DOMAIN Tail(inbox) : Tail(inbox)[i].what \in kinds
    BY DEF Proved!Waits
<1>3. /\ Proved!PositionKinds = Queue!PositionKinds
      /\ Proved!CurrentSong = Queue!CurrentSong /\ Proved!CurrentSong' = Queue!CurrentSong'
      /\ Proved!Take <=> Queue!Take
    BY DEF Proved!CurrentSong, Queue!CurrentSong, Proved!getSongAt, Queue!getSongAt,
           Proved!Positions, Queue!Positions, Proved!Take, Queue!Take,
           Proved!Running, Queue!Running
<1>4. (Proved!TypeOK <=> Queue!TypeOK) /\ (Proved!TypeOK' <=> Queue!TypeOK')
    BY DEF Proved!TypeOK, Queue!TypeOK, Proved!Places, Queue!Places, Proved!Message,
           Queue!Message, Proved!MessageKinds, Queue!MessageKinds, Proved!EventKinds,
           Queue!EventKinds, Proved!PlayerStates, Queue!PlayerStates, Proved!ShuffleModes,
           Queue!ShuffleModes, Proved!RepeatModes, Queue!RepeatModes
<1>5. /\ Proved!UnshuffledListsAgree <=> Queue!UnshuffledListsAgree
      /\ Proved!UnshuffledListsAgree' <=> Queue!UnshuffledListsAgree'
    BY DEF Proved!UnshuffledListsAgree, Queue!UnshuffledListsAgree
<1>. QED
    BY <1>1, <1>2, <1>3, <1>4, <1>5

LEMMA SameOpening ==
    /\ \A songs, start, play, remember, all :
            Proved!OpenQueue(songs, start, play, remember, all) <=>
            Queue!OpenQueue(songs, start, play, remember, all)
    /\ Proved!ContinueCall <=> Queue!ContinueCall
    /\ Proved!toggleShuffle <=> Queue!toggleShuffle
<1> USE DEF Queue!Positions, Proved!Positions, Queue!Delete, Proved!Delete,
           Queue!InsertAll, Proved!InsertAll, Queue!Move, Proved!Move, Queue!IndexOf,
           Proved!IndexOf, Queue!DeleteFirst, Proved!DeleteFirst, Queue!Nth, Proved!Nth,
           Queue!Keep, Proved!Keep, Queue!LoopDeletes, Proved!LoopDeletes,
           Queue!LoopDelete, Proved!LoopDelete, Queue!Permutation, Proved!Permutation,
           Queue!Shuffles, Proved!Shuffles, Queue!Cardinality, Proved!Cardinality,
           Queue!IsFiniteSet, Proved!IsFiniteSet, Queue!RemoveAt, Proved!RemoveAt,
           Queue!IsInjective, Proved!IsInjective, Queue!ToSet, Proved!ToSet
<1> USE DEF Queue!lists, Proved!lists, Queue!modes, Proved!modes, Queue!size, Proved!size,
           Queue!getSongAt, Proved!getSongAt, Queue!CurrentSong, Proved!CurrentSong,
           Queue!isLastTrack, Proved!isLastTrack, Queue!getNextPosition,
           Proved!getNextPosition, Queue!Pending, Proved!Pending, Queue!Unsettled,
           Proved!Unsettled, Queue!Running, Proved!Running, Queue!Room, Proved!Room,
           Queue!Idle, Proved!Idle, Queue!Post, Proved!Post, Queue!prepareNext,
           Proved!prepareNext, Queue!QueueChanged, Proved!QueueChanged,
           Queue!PositionKinds, Proved!PositionKinds, Queue!EventKinds, Proved!EventKinds,
           Queue!Edited, Proved!Edited, Queue!Reprepared, Proved!Reprepared
<1>1. ASSUME NEW songs, NEW start, NEW play, NEW remember, NEW all
      PROVE  Proved!OpenQueue(songs, start, play, remember, all) <=>
             Queue!OpenQueue(songs, start, play, remember, all)
    BY DEF Proved!OpenQueue, Queue!OpenQueue, Proved!openedPosition, Queue!openedPosition
<1>2. /\ Proved!ContinueCall <=> Queue!ContinueCall
      /\ Proved!toggleShuffle <=> Queue!toggleShuffle
    BY DEF Proved!ContinueCall, Queue!ContinueCall, Proved!toggleShuffle, Queue!toggleShuffle,
           Proved!ShuffleThrows, Queue!ShuffleThrows, Proved!Throw, Queue!Throw,
           Proved!setShuffleMode, Queue!setShuffleMode, Proved!ShuffleOn, Queue!ShuffleOn,
           Proved!ShuffleOff, Queue!ShuffleOff
<1>. QED
    BY <1>1, <1>2

LEMMA SameEditing ==
    /\ \A songs : Proved!Enqueue(songs) <=> Queue!Enqueue(songs)
    /\ \A songs : Proved!PlayNext(songs) <=> Queue!PlayNext(songs)
    /\ \A p : Proved!RemoveAtPosition(p) <=> Queue!RemoveAtPosition(p)
    /\ \A song : Proved!RemoveSong(song) <=> Queue!RemoveSong(song)
    /\ \A from, to : Proved!MoveSong(from, to) <=> Queue!MoveSong(from, to)
    /\ Proved!ClearQueue <=> Queue!ClearQueue
<1> USE DEF Queue!Positions, Proved!Positions, Queue!Delete, Proved!Delete,
           Queue!InsertAll, Proved!InsertAll, Queue!Move, Proved!Move, Queue!IndexOf,
           Proved!IndexOf, Queue!DeleteFirst, Proved!DeleteFirst, Queue!Nth, Proved!Nth,
           Queue!Keep, Proved!Keep, Queue!LoopDeletes, Proved!LoopDeletes,
           Queue!LoopDelete, Proved!LoopDelete, Queue!Permutation, Proved!Permutation,
           Queue!Shuffles, Proved!Shuffles, Queue!Cardinality, Proved!Cardinality,
           Queue!IsFiniteSet, Proved!IsFiniteSet, Queue!RemoveAt, Proved!RemoveAt,
           Queue!IsInjective, Proved!IsInjective, Queue!ToSet, Proved!ToSet
<1> USE DEF Queue!lists, Proved!lists, Queue!modes, Proved!modes, Queue!size, Proved!size,
           Queue!getSongAt, Proved!getSongAt, Queue!CurrentSong, Proved!CurrentSong,
           Queue!isLastTrack, Proved!isLastTrack, Queue!getNextPosition,
           Proved!getNextPosition, Queue!Pending, Proved!Pending, Queue!Unsettled,
           Proved!Unsettled, Queue!Running, Proved!Running, Queue!Room, Proved!Room,
           Queue!Idle, Proved!Idle, Queue!Post, Proved!Post, Queue!prepareNext,
           Proved!prepareNext, Queue!QueueChanged, Proved!QueueChanged,
           Queue!PositionKinds, Proved!PositionKinds, Queue!EventKinds, Proved!EventKinds,
           Queue!Edited, Proved!Edited, Queue!Reprepared, Proved!Reprepared
<1>1. /\ \A songs : Proved!Enqueue(songs) <=> Queue!Enqueue(songs)
      /\ \A songs : Proved!PlayNext(songs) <=> Queue!PlayNext(songs)
      /\ Proved!ClearQueue <=> Queue!ClearQueue
    BY DEF Proved!Enqueue, Queue!Enqueue, Proved!PlayNext, Queue!PlayNext, Proved!AddAt,
           Queue!AddAt, Proved!Throw, Queue!Throw, Proved!ClearQueue, Queue!ClearQueue
<1>2. \A p : Proved!RemoveAtPosition(p) <=> Queue!RemoveAtPosition(p)
    BY DEF Proved!RemoveAtPosition, Queue!RemoveAtPosition, Proved!originalWithout,
           Queue!originalWithout, Proved!rePosition, Queue!rePosition, Proved!shifted,
           Queue!shifted, Proved!steppedBack, Queue!steppedBack
<1>3. \A song : Proved!RemoveSong(song) <=> Queue!RemoveSong(song)
    BY DEF Proved!RemoveSong, Queue!RemoveSong
<1>4. \A from, to : Proved!MoveSong(from, to) <=> Queue!MoveSong(from, to)
    BY DEF Proved!MoveSong, Queue!MoveSong, Proved!movedPosition, Queue!movedPosition
<1>. QED
    BY <1>1, <1>2, <1>3, <1>4

LEMMA SameMoving ==
    /\ \A p, play : Proved!PlaySongAt(p, play) <=> Queue!PlaySongAt(p, play)
    /\ Proved!PlayNextSong <=> Queue!PlayNextSong
    /\ Proved!PlayPreviousSong <=> Queue!PlayPreviousSong
    /\ Proved!PlayUnopened <=> Queue!PlayUnopened
    /\ Proved!cycleRepeatMode <=> Queue!cycleRepeatMode
    /\ \A on : Proved!GaplessChanged(on) <=> Queue!GaplessChanged(on)
    /\ \A kind : Proved!PlayerCallback(kind) <=> Queue!PlayerCallback(kind)
    /\ Proved!Handler <=> Queue!Handler
<1> USE DEF Queue!Positions, Proved!Positions, Queue!Delete, Proved!Delete,
           Queue!InsertAll, Proved!InsertAll, Queue!Move, Proved!Move, Queue!IndexOf,
           Proved!IndexOf, Queue!DeleteFirst, Proved!DeleteFirst, Queue!Nth, Proved!Nth,
           Queue!Keep, Proved!Keep, Queue!LoopDeletes, Proved!LoopDeletes,
           Queue!LoopDelete, Proved!LoopDelete, Queue!Permutation, Proved!Permutation,
           Queue!Shuffles, Proved!Shuffles, Queue!Cardinality, Proved!Cardinality,
           Queue!IsFiniteSet, Proved!IsFiniteSet, Queue!RemoveAt, Proved!RemoveAt,
           Queue!IsInjective, Proved!IsInjective, Queue!ToSet, Proved!ToSet
<1> USE DEF Queue!lists, Proved!lists, Queue!modes, Proved!modes, Queue!size, Proved!size,
           Queue!getSongAt, Proved!getSongAt, Queue!CurrentSong, Proved!CurrentSong,
           Queue!isLastTrack, Proved!isLastTrack, Queue!getNextPosition,
           Proved!getNextPosition, Queue!Pending, Proved!Pending, Queue!Unsettled,
           Proved!Unsettled, Queue!Running, Proved!Running, Queue!Room, Proved!Room,
           Queue!Idle, Proved!Idle, Queue!Post, Proved!Post, Queue!prepareNext,
           Proved!prepareNext, Queue!QueueChanged, Proved!QueueChanged,
           Queue!PositionKinds, Proved!PositionKinds, Queue!EventKinds, Proved!EventKinds,
           Queue!Edited, Proved!Edited, Queue!Reprepared, Proved!Reprepared
<1> USE DEF Proved!Steer, Queue!Steer, Proved!getPreviousPosition, Queue!getPreviousPosition
<1>1. /\ \A p, play : Proved!PlaySongAt(p, play) <=> Queue!PlaySongAt(p, play)
      /\ Proved!PlayNextSong <=> Queue!PlayNextSong
      /\ Proved!PlayPreviousSong <=> Queue!PlayPreviousSong
      /\ Proved!PlayUnopened <=> Queue!PlayUnopened
    BY DEF Proved!PlaySongAt, Queue!PlaySongAt, Proved!PlayNextSong, Queue!PlayNextSong,
           Proved!PlayPreviousSong, Queue!PlayPreviousSong, Proved!PlayUnopened,
           Queue!PlayUnopened
<1>2. /\ Proved!cycleRepeatMode <=> Queue!cycleRepeatMode
      /\ \A on : Proved!GaplessChanged(on) <=> Queue!GaplessChanged(on)
      /\ \A kind : Proved!PlayerCallback(kind) <=> Queue!PlayerCallback(kind)
    BY DEF Proved!cycleRepeatMode, Queue!cycleRepeatMode, Proved!GaplessChanged,
           Queue!GaplessChanged, Proved!PlayerCallback, Queue!PlayerCallback
<1>3. Proved!Handler <=> Queue!Handler
    BY DEF Proved!Handler, Queue!Handler, Proved!Take, Queue!Take, Proved!AtEnd, Queue!AtEnd,
           Proved!HandlePosition, Queue!HandlePosition, Proved!HandlePrepareNext,
           Queue!HandlePrepareNext, Proved!HandleTrackWentToNext,
           Queue!HandleTrackWentToNext, Proved!HandleTrackEnded, Queue!HandleTrackEnded,
           Proved!PrepareNext, Queue!PrepareNext, Proved!prepareNextImpl,
           Queue!prepareNextImpl
<1>. QED
    BY <1>1, <1>2, <1>3

LEMMA SameSteps ==
    /\ Proved!Init <=> Queue!Init
    /\ Proved!Listener <=> Queue!Listener
    /\ [Proved!Next]_Proved!vars <=> [Queue!Next]_Queue!vars
<1>1. Proved!Init <=> Queue!Init
    BY DEF Proved!Init, Queue!Init, Proved!ShuffleModes, Queue!ShuffleModes,
           Proved!RepeatModes, Queue!RepeatModes
<1>2. Proved!Listener <=> Queue!Listener
    BY SameOpening, SameEditing, SameMoving DEF Proved!Listener, Queue!Listener
<1>3. Proved!Next <=> Queue!Next
    BY <1>2, SameMoving DEF Proved!Next, Queue!Next, Proved!EventKinds, Queue!EventKinds
<1>4. Proved!vars = Queue!vars
    BY DEF Proved!vars, Queue!vars, Proved!lists, Queue!lists, Proved!modes, Queue!modes
<1>5. Proved!vars' = Queue!vars'
    BY DEF Proved!vars, Queue!vars, Proved!lists, Queue!lists, Proved!modes, Queue!modes
<1>. QED
    BY <1>1, <1>2, <1>3, <1>4, <1>5

-----------------------------------------------------------------------------
(* Every step is one of PlayingQueue's, or leaves the queue alone.         *)

LEMMA HandlerStepsQueue == Handler => Queue!Handler
<1> USE DEF QueueKept, Queue!lists, Queue!modes, Takes, prepareNextSong, setNextDataSource,
           PlayerSeen
<1>1. HandlePosition => Queue!HandlePosition
    <2>1. SUFFICES ASSUME HandlePosition PROVE Queue!HandlePosition
        OBVIOUS
    <2>2. /\ Queue!Take /\ Head(inbox).what \in Queue!PositionKinds /\ inbox' = Tail(inbox)
          /\ position' = Head(inbox).arg
          /\ UNCHANGED <<playingQueue, originalPlayingQueue, shuffleMode, repeatMode, call,
                         thrown, ranAhead, skipped, chosen>>
        BY <2>1 DEF HandlePosition
    <2>3. PICK p : p = position'
        OBVIOUS
    <2>4. CASE FailToOpen /\ UNCHANGED nextPosition
        <3>1. PlayerSeen' = "closed"
            BY <2>4 DEF FailToOpen
        <3>. QED
            BY <2>2, <2>4, <3>1 DEF Queue!HandlePosition
    <2>5. CASE /\ OpenTrack(Queue!getSongAt(position'), Head(inbox).what = "PLAY_SONG")
               /\ prepareNextSong(position')
               /\ nextPosition' =
                        Queue!getNextPosition(playingQueue, position', repeatMode, FALSE)
        <3>1. Queue!getSongAt(p) # NoSong /\ track' # NoSong
            BY <2>3, <2>5 DEF OpenTrack
        <3>2. /\ nextPosition' = Queue!getNextPosition(playingQueue, p, repeatMode, FALSE)
              /\ next' \in IF gapless /\ Queue!getSongAt(nextPosition') # NoSong
                           THEN {Queue!getSongAt(nextPosition'), NoSong} ELSE {NoSong}
            BY <2>3, <2>5, <3>1
        <3>3. PlayerSeen' \in IF Queue!getSongAt(nextPosition') = NoSong
                              THEN {"open"} ELSE {"open", "gapless"}
            BY <3>1, <3>2
        <3>4. Queue!prepareNextImpl(p)
            BY <3>2, <3>3 DEF Queue!prepareNextImpl
        <3>. QED
            BY <2>2, <2>3, <3>1, <3>4 DEF Queue!HandlePosition
    <2>. QED
        BY <2>1, <2>4, <2>5 DEF HandlePosition
<1>2. HandlePrepareNext => Queue!HandlePrepareNext
    BY DEF HandlePrepareNext, Queue!HandlePrepareNext, Queue!PrepareNext, Queue!prepareNextImpl
<1>3. HandleTrackWentToNext => Queue!HandleTrackWentToNext
    BY DEF HandleTrackWentToNext, Queue!HandleTrackWentToNext, Queue!PrepareNext,
           Queue!prepareNextImpl
<1>4. HandleTrackEnded => Queue!HandleTrackEnded
    BY DEF HandleTrackEnded, Queue!HandleTrackEnded, isFollowed
<1>. QED
    BY <1>1, <1>2, <1>3, <1>4 DEF Handler, Queue!Handler

(* The entry to be removed is one the queue view can show.                  *)
TypeInv ==
    /\ TypeOK /\ removing \in 0 .. MaxLen \cup {None}
    /\ Queue!TypeOK /\ Queue!UnshuffledListsAgree

LEMMA ListenerStepsQueue ==
    TypeInv /\ Listener =>
        \/ Queue!Listener
        \/ \E on \in BOOLEAN : Queue!GaplessChanged(on)
        \/ UNCHANGED queueVars /\ PlayerSeen' = PlayerSeen
<1> SUFFICES ASSUME TypeInv, Listener
             PROVE  \/ Queue!Listener
                    \/ \E on \in BOOLEAN : Queue!GaplessChanged(on)
                    \/ UNCHANGED queueVars /\ PlayerSeen' = PlayerSeen
    OBVIOUS
<1>1. CASE UseQueue
    BY <1>1 DEF UseQueue
<1>2. CASE Play \/ Pause \/ \E on \in BOOLEAN : SetPendingQuit(on)
    BY <1>2 DEF Play, Pause, SetPendingQuit, PlayerSeen, players
<1>3. CASE \E on \in BOOLEAN : SetGapless(on)
    BY <1>3 DEF SetGapless
<1>4. CASE \E p \in 0 .. MaxLen : RemovePlaying(p)
    BY <1>4 DEF RemovePlaying, Queue!Listener
<1>5. CASE FinishRemoving
    <2>1. removing \in 0 .. MaxLen
        BY <1>5 DEF FinishRemoving, TypeInv
    <2>2. CASE Queue!RemoveAtPosition(removing)
        BY <2>1, <2>2 DEF Queue!Listener
    <2>3. CASE Queue!RemoveSong(playingQueue[removing + 1])
        <3>1. \E i \in DOMAIN playingQueue : playingQueue[i] = playingQueue[removing + 1]
            BY <2>3 DEF Queue!RemoveSong
        <3>2. playingQueue[removing + 1] \in Song
            BY <3>1, ElementOfSeq DEF TypeInv, Queue!TypeOK
        <3>. QED
            BY <2>3, <3>2 DEF Queue!Listener
    <2>. QED
        BY <1>5, <2>2, <2>3 DEF FinishRemoving
<1>. QED
    BY <1>1, <1>2, <1>3, <1>4, <1>5 DEF Listener

LEMMA PlayersStepQueue ==
    Players => \/ \E kind \in Queue!EventKinds : Queue!PlayerCallback(kind)
               \/ UNCHANGED queueVars /\ PlayerSeen' = PlayerSeen
BY DEF Players, Complete, onCompletion, onError, Queue!EventKinds, PlayerSeen

LEMMA StepsQueue == TypeInv /\ [Next]_vars => [Queue!Next]_Queue!vars
<1> SUFFICES ASSUME TypeInv, [Next]_vars PROVE [Queue!Next]_Queue!vars
    OBVIOUS
<1>1. UNCHANGED queueVars /\ PlayerSeen' = PlayerSeen => UNCHANGED Queue!vars
    BY DEF queueVars, Queue!vars, Queue!lists, Queue!modes
<1>2. UNCHANGED vars => UNCHANGED queueVars /\ PlayerSeen' = PlayerSeen
    BY DEF vars, players, PlayerSeen
<1>. QED
    BY <1>1, <1>2, ListenerStepsQueue, PlayersStepQueue, HandlerStepsQueue
    DEF Next, Queue!Next

-----------------------------------------------------------------------------
(* Every variable keeps its type.                                          *)

(* A song read from the queue, and the one prepared after it.              *)
LEMMA SongRead ==
    ASSUME Queue!TypeOK, NEW p PROVE Queue!getSongAt(p) \in Song \cup {NoSong}
<1>1. CASE p \in Queue!Positions(playingQueue)
    <2>1. p + 1 \in 1 .. Len(playingQueue)
        BY <1>1, LenProperties DEF Queue!Positions, Queue!TypeOK
    <2>2. playingQueue[p + 1] \in Song
        BY <2>1, ElementOfSeq DEF Queue!TypeOK
    <2>. QED
        BY <1>1, <2>2 DEF Queue!getSongAt
<1>2. CASE p \notin Queue!Positions(playingQueue)
    BY <1>2 DEF Queue!getSongAt
<1>. QED
    BY <1>1, <1>2

LEMMA NextSetType ==
    ASSUME NEW song \in Song \cup {NoSong}, setNextDataSource(song)
    PROVE  next' \in Song \cup {NoSong} /\ nextStarted' = FALSE
BY DEF setNextDataSource

LEMMA NextPreparedType ==
    ASSUME Queue!TypeOK, NEW p, prepareNextSong(p)
    PROVE  next' \in Song \cup {NoSong} /\ nextStarted' = FALSE
<1> DEFINE song == Queue!getSongAt(Queue!getNextPosition(playingQueue, p, repeatMode, FALSE))
<1>1. song \in Song \cup {NoSong}
    BY SongRead
<1>2. setNextDataSource(IF track' = NoSong THEN NoSong ELSE song)
    BY DEF prepareNextSong
<1> HIDE DEF song
<1>. QED
    BY <1>1, <1>2, NextSetType

LEMMA TypeStep == TypeInv /\ [Next]_vars => TypeOK' /\ removing' \in 0 .. MaxLen \cup {None}
<1> SUFFICES ASSUME TypeInv, [Next]_vars
             PROVE  TypeOK' /\ removing' \in 0 .. MaxLen \cup {None}
    OBVIOUS
<1>0. 0 .. MaxLen \subseteq Nat
    BY BoundsAssumption
<1>a. TypeOK /\ removing \in 0 .. MaxLen \cup {None} /\ Queue!TypeOK
    BY DEF TypeInv
<1> USE DEF TypeOK, Sounds, None, players
<1>1. CASE UseQueue \/ FinishRemoving
    <2>1. /\ UNCHANGED <<track, sound, next, nextStarted, completing, gapless, pendingQuit,
                         outpaced>>
          /\ yielded' \in {yielded, FALSE} /\ removing' \in {removing, None}
        BY <1>1 DEF UseQueue, FinishRemoving
    <2>. QED
        BY <1>a, <2>1
<1>2. CASE Play \/ Pause \/ \E on \in BOOLEAN : SetPendingQuit(on)
    <2>1. /\ UNCHANGED <<track, next, nextStarted, completing, gapless, removing, outpaced>>
          /\ yielded' = FALSE /\ pendingQuit' \in BOOLEAN
          /\ \/ sound' = sound
             \/ sound' \in {"started", "paused"} /\ track # NoSong
        BY <1>a, <1>2 DEF Play, Pause, SetPendingQuit, isPlaying
    <2>. QED
        BY <1>a, <2>1
<1>3. CASE \E on \in BOOLEAN : SetGapless(on)
    BY <1>a, <1>3 DEF SetGapless
<1>4. CASE \E p \in 0 .. MaxLen : RemovePlaying(p)
    BY <1>0, <1>a, <1>4 DEF RemovePlaying
<1>5. CASE Players
    BY <1>a, <1>5 DEF Players, Complete, onCompletion, onError, isPlaying
<1>6. CASE HandlePosition
    <2>1. /\ yielded' \in BOOLEAN /\ outpaced' = FALSE
          /\ UNCHANGED <<gapless, pendingQuit, removing>>
        BY <1>6 DEF HandlePosition
    <2>2. CASE FailToOpen
        BY <1>a, <2>1, <2>2 DEF FailToOpen
    <2>3. CASE /\ OpenTrack(Queue!getSongAt(position'), Head(inbox).what = "PLAY_SONG")
               /\ prepareNextSong(position')
        <3>1. PICK p : p = position'
            OBVIOUS
        <3>2. prepareNextSong(p) /\ OpenTrack(Queue!getSongAt(p), Head(inbox).what = "PLAY_SONG")
            BY <2>3, <3>1
        <3>3. next' \in Song \cup {NoSong} /\ nextStarted' = FALSE
            BY <1>a, <3>2, NextPreparedType
        <3>4. Queue!getSongAt(p) \in Song \cup {NoSong}
            BY <1>a, SongRead
        <3>. QED
            BY <1>a, <2>1, <3>2, <3>3, <3>4 DEF OpenTrack
    <2>. QED
        BY <1>6, <2>2, <2>3 DEF HandlePosition
<1>7. CASE HandlePrepareNext
    <2>1. next' \in Song \cup {NoSong} /\ nextStarted' = FALSE
        BY <1>a, <1>7, NextPreparedType DEF HandlePrepareNext
    <2>. QED
        BY <1>a, <1>7, <2>1 DEF HandlePrepareNext
<1>8. CASE HandleTrackWentToNext
    <2>1. CASE Queue!AtEnd
        BY <1>a, <1>8, <2>1 DEF HandleTrackWentToNext, isPlaying
    <2>2. CASE ~ Queue!AtEnd
        <3>1. next' \in Song \cup {NoSong} /\ nextStarted' = FALSE
            BY <1>a, <1>8, <2>2, NextPreparedType DEF HandleTrackWentToNext
        <3>. QED
            BY <1>a, <1>8, <2>2, <3>1 DEF HandleTrackWentToNext
    <2>. QED
        BY <2>1, <2>2
<1>9. CASE HandleTrackEnded
    BY <1>a, <1>9 DEF HandleTrackEnded, isPlaying
<1>10. CASE UNCHANGED vars
    BY <1>a, <1>10 DEF vars
<1>. QED
    BY <1>1, <1>2, <1>3, <1>4, <1>5, <1>6, <1>7, <1>8, <1>9, <1>10 DEF Next, Listener, Handler

LEMMA TypeInvInit == Init => TypeInv
<1> SUFFICES ASSUME Init PROVE TypeInv
    OBVIOUS
<1>1. Proved!TypeOK /\ Proved!UnshuffledListsAgree
    BY Proved!TypeInit, Proved!UnshuffledInit, SameSteps, SongAssumption,
       SelectionsAssumption, BoundsAssumption DEF Init
<1>2. TypeOK /\ removing \in 0 .. MaxLen \cup {None}
    BY DEF Init, TypeOK, Sounds
<1>. QED
    BY <1>1, <1>2, SameReading DEF TypeInv

LEMMA TypeInvNext == TypeInv /\ [Next]_vars => TypeInv'
<1> SUFFICES ASSUME TypeInv, [Next]_vars PROVE TypeInv'
    OBVIOUS
<1>1. Proved!TypeOK /\ Proved!UnshuffledListsAgree /\ [Proved!Next]_Proved!vars
    BY StepsQueue, SameSteps, SameReading DEF TypeInv
<1>2. Proved!TypeOK' /\ Proved!UnshuffledListsAgree'
    BY <1>1, Proved!TypeNext, Proved!UnshuffledNext, SongAssumption,
       SelectionsAssumption, BoundsAssumption
<1>3. TypeOK' /\ removing' \in 0 .. MaxLen \cup {None}
    BY TypeStep
<1>. QED
    BY <1>2, <1>3, SameReading DEF TypeInv

LEMMA TypeAlways == Spec => []TypeInv
BY TypeInvInit, TypeInvNext, PTL DEF Spec

(* Every variable of the players keeps its type; only an open track has a   *)
(* sound or a completion on its way, and only a prepared player is started  *)
(* by the end of a track.                                                   *)
THEOREM TypeCorrect == Spec => []TypeOK
<1>1. TypeInv => TypeOK
    BY DEF TypeInv
<1>. QED
    BY <1>1, TypeAlways, PTL

(* Whatever the players do, the queue they play from is PlayingQueue's:     *)
(* nothing that opens, starts, prepares or releases a track, and no         *)
(* callback of theirs, moves the queue in a way it does not describe.       *)
THEOREM QueueImplemented == Spec => ImplementsPlayingQueue
<1>1. Init => Queue!Init
    BY DEF Init
<1>. QED
    BY <1>1, TypeAlways, StepsQueue, PTL DEF Spec, ImplementsPlayingQueue, Queue!Spec

-----------------------------------------------------------------------------
(* The song that is heard.                                                 *)
(*                                                                         *)
(* What has to hold while messages wait: before a track that went to the   *)
(* next one is handled, the track is the song at the next position (or the *)
(* current one, where the queue ends), nothing more is prepared and nothing *)
(* will be; otherwise the track is the current song, and a prepared one is *)
(* the song at the next position unless it will be prepared again.         *)

OneSwitch ==
    \A i, j \in DOMAIN inbox :
        inbox[i].what = "TRACK_WENT_TO_NEXT" /\ inbox[j].what = "TRACK_WENT_TO_NEXT" => i = j

Fresh == next = Queue!getSongAt(nextPosition) /\ (Queue!AtEnd => next = Queue!CurrentSong)

Switched ==
    /\ next = NoSong /\ ~ Queue!Pending({"PREPARE_NEXT"}) /\ OneSwitch
    /\ \/ track \in skipped
       \/ track = IF Queue!AtEnd THEN Queue!CurrentSong ELSE Queue!getSongAt(nextPosition)

Settled ==
    /\ track = Queue!CurrentSong \/ track \in skipped
    /\ next # NoSong => Queue!Pending({"PREPARE_NEXT"}) \/ Fresh \/ next \in skipped

Quiet == ~ ranAhead /\ ~ outpaced /\ ~ Queue!Pending(Queue!PositionKinds) /\ track # NoSong

HeardInv ==
    Quiet => IF Queue!Pending({"TRACK_WENT_TO_NEXT"}) THEN Switched ELSE Settled

LEMMA HeardShown == TypeOK /\ HeardInv => HeardSongIsShown
<1>1. Queue!Pending({"TRACK_WENT_TO_NEXT"}) => Queue!Unsettled
    BY DEF Queue!Pending, Queue!Unsettled, Queue!EventKinds
<1>2. Queue!Pending(Queue!PositionKinds) => Queue!Unsettled
    BY DEF Queue!Pending, Queue!Unsettled
<1>3. TypeOK /\ isPlaying => track # NoSong
    BY DEF TypeOK, isPlaying
<1>. QED
    BY <1>1, <1>2, <1>3 DEF HeardInv, Quiet, Settled, HeardSongIsShown

(* Taking a message, and posting one.                                      *)
LEMMA TakenPending ==
    ASSUME Queue!TypeOK, Queue!Take, inbox' = Tail(inbox)
    PROVE  /\ \A kinds : Queue!Pending(kinds)' => Queue!Pending(kinds)
           /\ \A kinds : Head(inbox).what \in kinds => Queue!Pending(kinds)
           /\ \A kinds : Head(inbox).what \notin kinds =>
                            (Queue!Pending(kinds)' <=> Queue!Pending(kinds))
           /\ OneSwitch => OneSwitch'
           /\ OneSwitch /\ Head(inbox).what = "TRACK_WENT_TO_NEXT" =>
                            ~ Queue!Pending({"TRACK_WENT_TO_NEXT"})'
<1>1. inbox \in Seq(Proved!Message) /\ inbox # <<>>
    BY SameReading DEF Proved!TypeOK, Queue!Take
<1>2. /\ Len(inbox) \in Nat /\ Len(inbox) > 0 /\ DOMAIN inbox = 1 .. Len(inbox)
      /\ Head(inbox) = inbox[1]
      /\ DOMAIN Tail(inbox) = 1 .. Len(inbox) - 1
      /\ \A i \in DOMAIN Tail(inbox) : i + 1 \in DOMAIN inbox /\ Tail(inbox)[i] = inbox[i + 1]
    BY <1>1, Proved!TailEntry, SongAssumption, SelectionsAssumption, BoundsAssumption
<1>3. PICK rest : rest = Tail(inbox)
    OBVIOUS
<1>4. /\ inbox' = rest /\ DOMAIN rest = 1 .. Len(inbox) - 1
      /\ \A i \in DOMAIN rest : i + 1 \in DOMAIN inbox /\ rest[i] = inbox[i + 1]
    BY <1>2, <1>3
<1>5. /\ 1 \in DOMAIN inbox
      /\ \A i \in DOMAIN inbox : i = 1 \/ (i - 1 \in DOMAIN rest /\ (i - 1) + 1 = i)
    BY <1>2, <1>4
<1>6. \A i \in DOMAIN inbox : i = 1 \/ inbox[i] = rest[i - 1]
    BY <1>4, <1>5
<1>7. ASSUME NEW kinds PROVE Queue!Pending(kinds)' => Queue!Pending(kinds)
    BY <1>4 DEF Queue!Pending
<1>8. ASSUME NEW kinds, Head(inbox).what \in kinds PROVE Queue!Pending(kinds)
    BY <1>2, <1>5, <1>8 DEF Queue!Pending
<1>9. ASSUME NEW kinds, Head(inbox).what \notin kinds, Queue!Pending(kinds)
      PROVE  Queue!Pending(kinds)'
    <2>1. PICK i \in DOMAIN inbox : inbox[i].what \in kinds
        BY <1>9 DEF Queue!Pending
    <2>2. i # 1
        BY <1>2, <1>9, <2>1
    <2>3. i - 1 \in DOMAIN rest /\ rest[i - 1].what \in kinds
        BY <1>5, <1>6, <2>1, <2>2
    <2>. QED
        BY <1>4, <2>3 DEF Queue!Pending
<1>10. ASSUME OneSwitch PROVE OneSwitch'
    <2>1. SUFFICES ASSUME NEW i \in DOMAIN rest, NEW j \in DOMAIN rest,
                          rest[i].what = "TRACK_WENT_TO_NEXT",
                          rest[j].what = "TRACK_WENT_TO_NEXT"
                   PROVE  i = j
        BY <1>4 DEF OneSwitch
    <2>2. i + 1 = j + 1
        BY <1>4, <1>10, <2>1 DEF OneSwitch
    <2>3. i \in Int /\ j \in Int
        BY <1>4, <2>1
    <2>. QED
        BY <2>2, <2>3
<1>11. ASSUME OneSwitch, Head(inbox).what = "TRACK_WENT_TO_NEXT",
              Queue!Pending({"TRACK_WENT_TO_NEXT"})'
       PROVE  FALSE
    <2>1. PICK i \in DOMAIN rest : rest[i].what = "TRACK_WENT_TO_NEXT"
        BY <1>4, <1>11 DEF Queue!Pending
    <2>2. i + 1 \in DOMAIN inbox /\ inbox[i + 1].what = "TRACK_WENT_TO_NEXT"
        BY <1>4, <2>1
    <2>3. i + 1 = 1
        BY <1>2, <1>5, <1>11, <2>2 DEF OneSwitch
    <2>4. i \in 1 .. Len(inbox) - 1
        BY <1>4
    <2>. QED
        BY <1>2, <2>3, <2>4
<1>. QED
    BY <1>7, <1>8, <1>9, <1>10, <1>11

LEMMA AppendedPending ==
    ASSUME Queue!TypeOK, NEW message, inbox' = Append(inbox, message)
    PROVE  /\ \A kinds : Queue!Pending(kinds)' <=> Queue!Pending(kinds) \/ message.what \in kinds
           /\ \/ ~ Queue!Pending({"TRACK_WENT_TO_NEXT"})
              \/ OneSwitch /\ message.what # "TRACK_WENT_TO_NEXT"
              => OneSwitch'
<1>1. inbox \in Seq(Queue!Message)
    BY DEF Queue!TypeOK
<1>2. PICK n \in Nat : n = Len(inbox)
    BY <1>1, LenProperties
<1>3. DOMAIN inbox = 1 .. n
    BY <1>1, <1>2, LenProperties
<1>4. PICK box : box = Append(inbox, message)
    OBVIOUS
<1>5. /\ inbox' = box /\ DOMAIN box = 1 .. n + 1
      /\ \A i \in 1 .. n : box[i] = inbox[i]
      /\ box[n + 1] = message
    <2>1. inbox \in Seq(Queue!Message \cup {message}) /\ message \in Queue!Message \cup {message}
        BY <1>1, SeqMonotonic
    <2>. QED
        BY <1>2, <1>4, <2>1, AppendProperties, LenProperties
<1>6. /\ \A i \in DOMAIN box : i = n + 1 \/ i \in DOMAIN inbox
      /\ n + 1 \in DOMAIN box /\ DOMAIN inbox \subseteq DOMAIN box
      /\ \A i \in DOMAIN inbox : box[i] = inbox[i]
    BY <1>3, <1>5
<1>7. ASSUME NEW kinds
      PROVE  Queue!Pending(kinds)' <=> Queue!Pending(kinds) \/ message.what \in kinds
    BY <1>5, <1>6 DEF Queue!Pending
<1>8. ASSUME \/ ~ Queue!Pending({"TRACK_WENT_TO_NEXT"})
             \/ OneSwitch /\ message.what # "TRACK_WENT_TO_NEXT"
      PROVE  OneSwitch'
    <2>1. SUFFICES ASSUME NEW i \in DOMAIN box, NEW j \in DOMAIN box,
                          box[i].what = "TRACK_WENT_TO_NEXT",
                          box[j].what = "TRACK_WENT_TO_NEXT"
                   PROVE  i = j
        BY <1>5 DEF OneSwitch
    <2>2. CASE ~ Queue!Pending({"TRACK_WENT_TO_NEXT"})
        BY <1>6, <2>1, <2>2 DEF Queue!Pending
    <2>3. CASE OneSwitch /\ message.what # "TRACK_WENT_TO_NEXT"
        <3>1. i \in DOMAIN inbox /\ j \in DOMAIN inbox
            BY <1>5, <1>6, <2>1, <2>3
        <3>. QED
            BY <1>6, <2>1, <2>3, <3>1 DEF OneSwitch
    <2>. QED
        BY <1>8, <2>2, <2>3
<1>. QED
    BY <1>7, <1>8

(* Preparing the next track of the position that is installed.             *)
LEMMA PreparedFresh ==
    ASSUME NEW p, prepareNextSong(p), track' # NoSong, position' = p,
           nextPosition' = Queue!getNextPosition(playingQueue, p, repeatMode, FALSE),
           UNCHANGED <<playingQueue, repeatMode>>
    PROVE  next' # NoSong => Fresh'
<1>1. SUFFICES ASSUME next' # NoSong PROVE Fresh'
    OBVIOUS
<1>2. PICK q : q = nextPosition'
    OBVIOUS
<1>3. next' = Queue!getSongAt(q)
    BY <1>1, <1>2 DEF prepareNextSong, setNextDataSource
<1>4. /\ Queue!getSongAt(nextPosition)' = Queue!getSongAt(q)
      /\ Queue!CurrentSong' = Queue!getSongAt(p)
    BY <1>2 DEF Queue!getSongAt, Queue!CurrentSong
<1>5. Queue!AtEnd' => q = p
    BY <1>2 DEF Queue!AtEnd, Queue!getNextPosition, Queue!isLastTrack
<1>. QED
    BY <1>3, <1>4, <1>5 DEF Fresh

(* What an operation on the queue leaves: PlayingQueue_proofs shows that    *)
(* it spares the tracks.                                                    *)
LEMMA HeardListener ==
    ASSUME TypeInv, Proved!SameSongs, Proved!RangeInv, HeardInv, Quiet',
           Queue!Listener \/ \E on \in BOOLEAN : Queue!GaplessChanged(on),
           UNCHANGED <<track, outpaced>>, next' \in {next, NoSong}
    PROVE  HeardInv'
<1>1. Proved!SparesTracks
    <2>1. Proved!TypeOK
        BY SameReading DEF TypeInv
    <2>2. ~ ranAhead' /\ ~ Proved!Pending(Proved!PositionKinds)'
        BY SameReading DEF Quiet
    <2>3. Proved!Listener \/ \E on \in BOOLEAN : Proved!GaplessChanged(on)
        BY SameSteps, SameMoving
    <2>. QED
        BY <2>1, <2>2, <2>3, Proved!ListenerSpares, SongAssumption, SelectionsAssumption,
           BoundsAssumption
<1>2. /\ ~ ranAhead /\ ~ Queue!Pending(Queue!PositionKinds)
      /\ skipped \subseteq skipped'
      /\ Queue!CurrentSong' = Queue!CurrentSong \/ Queue!CurrentSong \in skipped
            \/ Queue!CurrentSong = NoSong
      /\ Queue!Pending({"TRACK_WENT_TO_NEXT"}) =>
            UNCHANGED <<playingQueue, position, nextPosition, repeatMode, inbox>>
      /\ Queue!Pending({"TRACK_WENT_TO_NEXT"})' => Queue!Pending({"TRACK_WENT_TO_NEXT"})
      /\ \/ UNCHANGED <<playingQueue, position, nextPosition, repeatMode, inbox>>
         \/ Queue!Pending({"PREPARE_NEXT"})'
         \/ /\ playingQueue' = <<>> /\ inbox' = inbox
            /\ \A i \in DOMAIN playingQueue : playingQueue[i] \in skipped'
    BY <1>1, SameReading DEF Proved!SparesTracks, Proved!NextTrackKept
<1>3. Quiet
    BY <1>2 DEF Quiet
<1>4. UNCHANGED <<playingQueue, position, nextPosition, repeatMode, inbox>> =>
        /\ Queue!CurrentSong' = Queue!CurrentSong
        /\ Queue!getSongAt(nextPosition)' = Queue!getSongAt(nextPosition)
        /\ Queue!AtEnd' <=> Queue!AtEnd
        /\ \A kinds : Queue!Pending(kinds)' <=> Queue!Pending(kinds)
        /\ OneSwitch' <=> OneSwitch
    BY DEF Queue!CurrentSong, Queue!getSongAt, Queue!AtEnd, Queue!Pending, Queue!Positions,
           Queue!isLastTrack, OneSwitch
<1>5. CASE Queue!Pending({"TRACK_WENT_TO_NEXT"})
    <2>1. Switched
        BY <1>3, <1>5 DEF HeardInv
    <2>2. Switched' /\ Queue!Pending({"TRACK_WENT_TO_NEXT"})'
        BY <1>2, <1>4, <1>5, <2>1 DEF Switched
    <2>. QED
        BY <2>2 DEF HeardInv
<1>6. CASE ~ Queue!Pending({"TRACK_WENT_TO_NEXT"})
    <2>1. Settled /\ track # NoSong
        BY <1>3, <1>6 DEF HeardInv, Quiet
    <2>2. track' = Queue!CurrentSong' \/ track' \in skipped'
        BY <1>2, <2>1 DEF Settled
    <2>3. next' # NoSong => Queue!Pending({"PREPARE_NEXT"})' \/ Fresh' \/ next' \in skipped'
        <3>1. SUFFICES ASSUME next' # NoSong, ~ Queue!Pending({"PREPARE_NEXT"})'
                       PROVE  Fresh' \/ next' \in skipped'
            OBVIOUS
        <3>2. next' = next /\ next # NoSong
            BY <3>1
        <3>3. CASE UNCHANGED <<playingQueue, position, nextPosition, repeatMode, inbox>>
            BY <1>2, <1>4, <2>1, <3>1, <3>2, <3>3 DEF Settled, Fresh
        <3>4. CASE /\ playingQueue' = <<>> /\ inbox' = inbox
                   /\ \A i \in DOMAIN playingQueue : playingQueue[i] \in skipped'
            <4>1. ~ Queue!Pending({"PREPARE_NEXT"})
                BY <3>1, <3>4 DEF Queue!Pending
            <4>2. Fresh \/ next \in skipped
                BY <2>1, <3>2, <4>1 DEF Settled
            <4>3. CASE Fresh
                <5>1. /\ nextPosition \in Queue!Positions(playingQueue)
                      /\ next = playingQueue[nextPosition + 1]
                    BY <3>2, <4>3 DEF Fresh, Queue!getSongAt
                <5>2. nextPosition + 1 \in DOMAIN playingQueue
                    BY <5>1, LenProperties DEF Queue!Positions, TypeInv, Queue!TypeOK
                <5>. QED
                    BY <3>2, <3>4, <5>1, <5>2
            <4>. QED
                BY <1>2, <3>2, <4>2, <4>3
        <3>. QED
            BY <1>2, <3>1, <3>3, <3>4
    <2>4. ~ Queue!Pending({"TRACK_WENT_TO_NEXT"})'
        BY <1>2, <1>6
    <2>. QED
        BY <2>2, <2>3, <2>4 DEF HeardInv, Settled
<1>. QED
    BY <1>5, <1>6

(* A step that neither touches the queue nor opens a track.                *)
LEMMA HeardKept ==
    ASSUME HeardInv, Quiet', UNCHANGED <<queueVars, track, next, outpaced>> PROVE HeardInv'
BY DEF HeardInv, Quiet, Switched, Settled, Fresh, OneSwitch, queueVars, Queue!CurrentSong,
       Queue!getSongAt, Queue!AtEnd, Queue!Pending, Queue!Positions, Queue!isLastTrack

(* A prepared track becomes the track.                                     *)
LEMMA HeardCompletion ==
    ASSUME TypeInv, HeardInv, Quiet', onCompletion PROVE HeardInv'
<1>1. /\ Queue!TypeOK /\ completing /\ track # NoSong
    BY DEF TypeInv, TypeOK, onCompletion
<1>2. PICK kind \in {"TRACK_WENT_TO_NEXT", "TRACK_ENDED"} :
        /\ Queue!PlayerCallback(kind)
        /\ IF next # NoSong
           THEN /\ kind = "TRACK_WENT_TO_NEXT" /\ track' = next /\ next' = NoSong
                /\ outpaced' = \/ outpaced
                               \/ Queue!Pending(Queue!PositionKinds \cup {"PREPARE_NEXT"})
           ELSE kind = "TRACK_ENDED" /\ UNCHANGED <<track, next, outpaced>>
    BY DEF onCompletion
<1>3. PICK message : message = [what |-> kind, arg |-> 0]
    OBVIOUS
<1>4. /\ inbox' = Append(inbox, message) /\ message.what = kind
      /\ UNCHANGED <<playingQueue, position, nextPosition, repeatMode, skipped>>
      /\ ranAhead => ranAhead'
    BY <1>2, <1>3 DEF Queue!PlayerCallback, Queue!lists, Queue!modes
<1>5. /\ \A kinds : Queue!Pending(kinds)' <=> Queue!Pending(kinds) \/ kind \in kinds
      /\ \/ ~ Queue!Pending({"TRACK_WENT_TO_NEXT"})
         \/ OneSwitch /\ kind # "TRACK_WENT_TO_NEXT"
         => OneSwitch'
    BY <1>1, <1>4, AppendedPending
<1>6. /\ Queue!CurrentSong' = Queue!CurrentSong
      /\ Queue!getSongAt(nextPosition)' = Queue!getSongAt(nextPosition)
      /\ Queue!AtEnd' <=> Queue!AtEnd
    BY <1>4 DEF Queue!CurrentSong, Queue!getSongAt, Queue!AtEnd, Queue!Positions,
           Queue!isLastTrack
<1>7. Quiet
    BY <1>1, <1>2, <1>4, <1>5 DEF Quiet
<1>8. CASE next # NoSong
    <2>1. ~ Queue!Pending({"TRACK_WENT_TO_NEXT"}) /\ Settled
        BY <1>7, <1>8 DEF HeardInv, Switched
    <2>2. ~ Queue!Pending({"PREPARE_NEXT"})
        BY <1>2, <1>8 DEF Quiet, Queue!Pending
    <2>3. Fresh \/ next \in skipped
        BY <1>8, <2>1, <2>2 DEF Settled
    <2>4. /\ Queue!Pending({"TRACK_WENT_TO_NEXT"})' /\ ~ Queue!Pending({"PREPARE_NEXT"})'
          /\ OneSwitch'
        BY <1>2, <1>5, <1>8, <2>1, <2>2
    <2>5. Switched'
        BY <1>2, <1>4, <1>6, <1>8, <2>3, <2>4 DEF Switched, Fresh
    <2>. QED
        BY <2>4, <2>5 DEF HeardInv
<1>9. CASE next = NoSong
    <2>1. UNCHANGED <<track, next, outpaced, skipped>> /\ kind = "TRACK_ENDED"
        BY <1>2, <1>4, <1>9
    <2>2. \A kinds : "TRACK_ENDED" \notin kinds =>
                        (Queue!Pending(kinds)' <=> Queue!Pending(kinds))
        BY <1>5, <2>1
    <2>3. CASE Queue!Pending({"TRACK_WENT_TO_NEXT"})
        <3>1. Switched
            BY <1>7, <2>3 DEF HeardInv
        <3>2. Switched'
            BY <1>5, <1>6, <2>1, <2>2, <3>1 DEF Switched
        <3>. QED
            BY <2>2, <2>3, <3>2 DEF HeardInv
    <2>4. CASE ~ Queue!Pending({"TRACK_WENT_TO_NEXT"})
        <3>1. Settled
            BY <1>7, <2>4 DEF HeardInv
        <3>2. Settled'
            BY <1>6, <1>9, <2>1, <3>1 DEF Settled
        <3>. QED
            BY <2>2, <2>4, <3>2 DEF HeardInv
    <2>. QED
        BY <2>3, <2>4
<1>. QED
    BY <1>8, <1>9

(* What each message of the handler leaves.                                *)
LEMMA HeardPosition ==
    ASSUME TypeInv, Proved!RangeInv, Quiet', HandlePosition PROVE HeardInv'
<1>1. /\ Queue!Take /\ Head(inbox).what \in Queue!PositionKinds /\ inbox' = Tail(inbox)
      /\ UNCHANGED <<playingQueue, repeatMode, ranAhead, skipped>>
    BY DEF HandlePosition, Takes, QueueKept
<1>2. PICK p : p = position'
    OBVIOUS
<1>3. track' = Queue!getSongAt(p) /\ track' # NoSong /\ prepareNextSong(p)
      /\ nextPosition' = Queue!getNextPosition(playingQueue, p, repeatMode, FALSE)
    BY <1>2 DEF HandlePosition, FailToOpen, OpenTrack, Quiet
<1>4. Queue!CurrentSong' = track'
    BY <1>1, <1>2, <1>3 DEF Queue!CurrentSong, Queue!getSongAt
<1>5. next' # NoSong => Fresh'
    BY <1>1, <1>2, <1>3, PreparedFresh
<1>6. ~ Queue!Pending({"TRACK_WENT_TO_NEXT"})'
    <2>1. Proved!TypeOK /\ Proved!Take /\ Head(inbox).what \in Proved!PositionKinds
        BY <1>1, SameReading DEF TypeInv
    <2>2. ~ ranAhead /\ playingQueue # <<>>
        <3>1. p \in Queue!Positions(playingQueue)
            BY <1>3 DEF Queue!getSongAt
        <3>. QED
            BY <1>1, <3>1 DEF Quiet, Queue!Positions
    <2>3. ~ Proved!Waits(Tail(inbox), Proved!PositionKinds)
        BY <1>1, SameReading DEF Quiet, Queue!Pending
    <2>4. ~ Proved!Waits(Tail(inbox), {"TRACK_WENT_TO_NEXT"})
        BY <2>1, <2>2, <2>3, Proved!LastPositionSettles, SongAssumption, SelectionsAssumption,
           BoundsAssumption
    <2>. QED
        BY <1>1, <2>4, SameReading DEF Queue!Pending
<1>. QED
    BY <1>4, <1>5, <1>6 DEF HeardInv, Settled

LEMMA HeardPrepareNext ==
    ASSUME TypeInv, HeardInv, Quiet', HandlePrepareNext PROVE HeardInv'
<1>1. /\ Queue!TypeOK /\ Queue!Take /\ Head(inbox).what = "PREPARE_NEXT" /\ inbox' = Tail(inbox)
      /\ UNCHANGED <<playingQueue, repeatMode, position, track, ranAhead, outpaced, skipped>>
      /\ prepareNextSong(position)
      /\ nextPosition' = Queue!getNextPosition(playingQueue, position, repeatMode, FALSE)
    BY DEF HandlePrepareNext, Takes, QueueKept, TypeInv
<1>2. /\ Queue!Pending({"PREPARE_NEXT"})
      /\ Queue!Pending({"TRACK_WENT_TO_NEXT"})' <=> Queue!Pending({"TRACK_WENT_TO_NEXT"})
      /\ Queue!Pending(Queue!PositionKinds)' <=> Queue!Pending(Queue!PositionKinds)
    BY <1>1, TakenPending DEF Queue!PositionKinds
<1>3. Quiet
    BY <1>1, <1>2 DEF Quiet, Queue!PositionKinds
<1>4. ~ Queue!Pending({"TRACK_WENT_TO_NEXT"}) /\ Settled
    BY <1>2, <1>3 DEF HeardInv, Switched
<1>5. next' # NoSong => Fresh'
    BY <1>1, <1>3, PreparedFresh DEF Quiet
<1>6. Queue!CurrentSong' = Queue!CurrentSong
    BY <1>1 DEF Queue!CurrentSong, Queue!getSongAt
<1>7. Settled'
    BY <1>1, <1>4, <1>5, <1>6 DEF Settled
<1>. QED
    BY <1>2, <1>4, <1>7 DEF HeardInv

LEMMA HeardTrackWentToNext ==
    ASSUME TypeInv, HeardInv, Quiet', HandleTrackWentToNext PROVE HeardInv'
<1>1. /\ Queue!TypeOK /\ Queue!Take /\ Head(inbox).what = "TRACK_WENT_TO_NEXT"
      /\ inbox' = Tail(inbox)
      /\ UNCHANGED <<playingQueue, repeatMode, track, ranAhead, outpaced, skipped>>
    BY DEF HandleTrackWentToNext, Takes, QueueKept, TypeInv
<1>2. /\ Queue!Pending({"TRACK_WENT_TO_NEXT"})
      /\ Queue!Pending(Queue!PositionKinds)' <=> Queue!Pending(Queue!PositionKinds)
      /\ OneSwitch => ~ Queue!Pending({"TRACK_WENT_TO_NEXT"})'
    BY <1>1, TakenPending DEF Queue!PositionKinds
<1>3. Quiet
    BY <1>1, <1>2 DEF Quiet, Queue!PositionKinds
<1>4. Switched /\ track # NoSong
    BY <1>2, <1>3 DEF HeardInv, Quiet
<1>5. ~ Queue!Pending({"TRACK_WENT_TO_NEXT"})'
    BY <1>2, <1>4 DEF Switched
<1>6. CASE Queue!AtEnd
    <2>1. UNCHANGED <<position, nextPosition, next>>
        BY <1>6 DEF HandleTrackWentToNext
    <2>2. Queue!CurrentSong' = Queue!CurrentSong
        BY <1>1, <2>1 DEF Queue!CurrentSong, Queue!getSongAt
    <2>3. Settled'
        BY <1>1, <1>4, <1>6, <2>1, <2>2 DEF Switched, Settled
    <2>. QED
        BY <1>5, <2>3 DEF HeardInv
<1>7. CASE ~ Queue!AtEnd
    <2>1. /\ position' = nextPosition /\ prepareNextSong(nextPosition)
          /\ nextPosition' = Queue!getNextPosition(playingQueue, nextPosition, repeatMode, FALSE)
        BY <1>7 DEF HandleTrackWentToNext
    <2>2. Queue!CurrentSong' = Queue!getSongAt(nextPosition)
        BY <1>1, <2>1 DEF Queue!CurrentSong, Queue!getSongAt
    <2>3. next' # NoSong => Fresh'
        BY <1>1, <1>4, <2>1, PreparedFresh
    <2>4. Settled'
        BY <1>1, <1>4, <1>7, <2>2, <2>3 DEF Switched, Settled
    <2>. QED
        BY <1>5, <2>4 DEF HeardInv
<1>. QED
    BY <1>6, <1>7

LEMMA HeardTrackEnded ==
    ASSUME TypeInv, HeardInv, Quiet', HandleTrackEnded PROVE HeardInv'
<1>1. /\ Queue!TypeOK /\ Queue!Take /\ Head(inbox).what = "TRACK_ENDED"
      /\ UNCHANGED <<playingQueue, repeatMode, position, nextPosition, track, next, ranAhead,
                     outpaced, skipped>>
    BY DEF HandleTrackEnded, QueueKept, TypeInv
<1>2. inbox' = Tail(inbox)
    <2>1. SUFFICES ASSUME inbox' # Tail(inbox) PROVE FALSE
        OBVIOUS
    <2>2. PICK arg : /\ arg = Queue!getNextPosition(playingQueue, position, repeatMode, FALSE)
                     /\ inbox' = Queue!Post(Tail(inbox), "PLAY_SONG", arg)
        BY <2>1 DEF HandleTrackEnded
    <2>3. inbox \in Seq(Proved!Message) /\ inbox # <<>>
        BY <1>1, SameReading DEF Proved!TypeOK, Queue!Take
    <2>4. Tail(inbox) \in Seq(Proved!Message)
        BY <2>3, Proved!TailEntry, SongAssumption, SelectionsAssumption, BoundsAssumption
    <2>5. "PLAY_SONG" \in Proved!MessageKinds /\ "PLAY_SONG" \in Proved!PositionKinds
        BY DEF Proved!MessageKinds, Proved!PositionKinds
    <2>6. arg \in Proved!Places
        <3>1. arg = Proved!getNextPosition(playingQueue, position, repeatMode, FALSE)
            BY <2>2 DEF Queue!getNextPosition, Proved!getNextPosition, Queue!isLastTrack,
                        Proved!isLastTrack
        <3>2. /\ playingQueue \in Seq(Song) /\ position \in Proved!Places
              /\ repeatMode \in Proved!RepeatModes
            BY <1>1, SameReading DEF Proved!TypeOK
        <3>. QED
            BY <3>1, <3>2, Proved!NextPositionType, SongAssumption, SelectionsAssumption,
               BoundsAssumption
    <2>7. Proved!Waits(Proved!Post(Tail(inbox), "PLAY_SONG", arg), Proved!PositionKinds)
        BY <2>4, <2>5, <2>6, Proved!PostWaits, SongAssumption, SelectionsAssumption,
           BoundsAssumption
    <2>8. Proved!Post(Tail(inbox), "PLAY_SONG", arg) = inbox'
        BY <2>2 DEF Proved!Post, Queue!Post, Proved!Keep, Queue!Keep, Proved!Nth, Queue!Nth,
           Proved!Cardinality, Queue!Cardinality, Proved!IsFiniteSet, Queue!IsFiniteSet
    <2>9. Queue!Pending(Queue!PositionKinds)'
        BY <2>7, <2>8 DEF Proved!Waits, Queue!Pending, Proved!PositionKinds,
                          Queue!PositionKinds
    <2>. QED
        BY <2>9 DEF Quiet
<1>3. /\ Queue!Pending({"TRACK_WENT_TO_NEXT"})' <=> Queue!Pending({"TRACK_WENT_TO_NEXT"})
      /\ Queue!Pending({"PREPARE_NEXT"})' <=> Queue!Pending({"PREPARE_NEXT"})
      /\ Queue!Pending(Queue!PositionKinds)' <=> Queue!Pending(Queue!PositionKinds)
      /\ OneSwitch => OneSwitch'
    BY <1>1, <1>2, TakenPending DEF Queue!PositionKinds
<1>4. Quiet
    BY <1>1, <1>3 DEF Quiet, Queue!PositionKinds
<1>5. /\ Queue!CurrentSong' = Queue!CurrentSong
      /\ Queue!getSongAt(nextPosition)' = Queue!getSongAt(nextPosition)
      /\ Queue!AtEnd' <=> Queue!AtEnd
    BY <1>1 DEF Queue!CurrentSong, Queue!getSongAt, Queue!AtEnd, Queue!Positions,
           Queue!isLastTrack
<1>6. Switched => Switched'
    BY <1>1, <1>3, <1>5 DEF Switched
<1>7. Settled => Settled'
    BY <1>1, <1>3, <1>5 DEF Settled, Fresh
<1>. QED
    BY <1>3, <1>4, <1>6, <1>7 DEF HeardInv

LEMMA HeardInit == Init => HeardInv
BY DEF Init, HeardInv, Quiet

LEMMA HeardStep ==
    TypeInv /\ Proved!SameSongs /\ Proved!RangeInv /\ HeardInv /\ [Next]_vars => HeardInv'
<1> SUFFICES ASSUME TypeInv, Proved!SameSongs, Proved!RangeInv, HeardInv, [Next]_vars, Quiet'
             PROVE  HeardInv'
    BY DEF HeardInv
<1>1. CASE UseQueue \/ FinishRemoving \/ (\E p \in 0 .. MaxLen : RemovePlaying(p))
            \/ \E on \in BOOLEAN : SetGapless(on)
    <2>1. UNCHANGED <<track, outpaced>> /\ next' \in {next, NoSong}
        BY <1>1 DEF UseQueue, FinishRemoving, RemovePlaying, SetGapless, players
    <2>2. CASE Queue!Listener \/ \E on \in BOOLEAN : Queue!GaplessChanged(on)
        BY <2>1, <2>2, HeardListener
    <2>3. CASE UNCHANGED queueVars /\ PlayerSeen' = PlayerSeen
        <3>1. UNCHANGED next
            BY <2>1, <2>3 DEF PlayerSeen, Quiet
        <3>. QED
            BY <2>1, <2>3, <3>1, HeardKept
    <2>. QED
        BY <1>1, <2>2, <2>3, ListenerStepsQueue DEF Listener
<1>2. CASE Play \/ Pause \/ (\E on \in BOOLEAN : SetPendingQuit(on)) \/ Complete
            \/ UNCHANGED vars
    <2>1. UNCHANGED <<queueVars, track, next, outpaced>>
        BY <1>2 DEF Play, Pause, SetPendingQuit, Complete, vars, players
    <2>. QED
        BY <2>1, HeardKept
<1>3. CASE onCompletion
    BY <1>3, HeardCompletion
<1>4. CASE onError
    BY <1>4 DEF onError, Quiet
<1>5. CASE Handler
    BY <1>5, HeardPosition, HeardPrepareNext, HeardTrackWentToNext, HeardTrackEnded DEF Handler
<1>. QED
    BY <1>1, <1>2, <1>3, <1>4, <1>5 DEF Next, Listener, Players

LEMMA ImplementsProved == Spec => Proved!Spec
<1>1. Init => Proved!Init
    BY SameSteps DEF Init
<1>2. TypeInv /\ [Next]_vars => [Proved!Next]_Proved!vars
    BY StepsQueue, SameSteps
<1>. QED
    BY <1>1, <1>2, TypeAlways, PTL DEF Spec, Proved!Spec

(* What PlayingQueue_proofs shows of every execution of the queue.         *)
LEMMA QueueAlways == Spec => [](Proved!SameSongs /\ Proved!RangeInv)
<1>1. Proved!Spec => []Proved!SameSongs /\ []Proved!RangeInv
    BY Proved!SameSongsAlways, Proved!RangeAlways, SongAssumption, SelectionsAssumption,
       BoundsAssumption
<1>. QED
    BY <1>1, ImplementsProved, PTL

(* In every execution the song that is heard is the one the queue shows as  *)
(* current, once every message about a position or a track is handled:      *)
(* neither an edit of the queue nor a gapless transition to a prepared      *)
(* track lets them diverge, unless one overtook the message of the other,   *)
(* or the song heard is one removeSong(Song) left a copy of.                *)
THEOREM HeardSongAlwaysShown == Spec => []HeardSongIsShown
<1>. QED
    BY HeardInit, HeardStep, HeardShown, TypeAlways, QueueAlways, TypeCorrect, PTL DEF Spec

-----------------------------------------------------------------------------
LEMMA SamePromises ==
    /\ Proved!UnshuffledListsAgree <=> Queue!UnshuffledListsAgree
    /\ Proved!ListsHoldSameSongs <=> Queue!ListsHoldSameSongs
    /\ Proved!SettlesInRange <=> Queue!SettlesInRange
    /\ Proved!ThrowsOnlyAhead <=> Queue!ThrowsOnlyAhead
    /\ Proved!ChosenSongBecomesCurrent <=> Queue!ChosenSongBecomesCurrent
<1>1. Proved!ListsHoldSameSongs <=> Queue!ListsHoldSameSongs
    BY DEF Proved!ListsHoldSameSongs, Queue!ListsHoldSameSongs, Proved!Copies, Queue!Copies,
           Proved!Cardinality, Queue!Cardinality
<1>2. Proved!SettlesInRange <=> Queue!SettlesInRange
    BY SameReading DEF Proved!SettlesInRange, Queue!SettlesInRange, Proved!SettledPosition,
           Queue!SettledPosition, Proved!Running, Queue!Running, Proved!Positions,
           Queue!Positions
<1>3. Proved!ThrowsOnlyAhead <=> Queue!ThrowsOnlyAhead
    BY DEF Proved!ThrowsOnlyAhead, Queue!ThrowsOnlyAhead, Proved!Unsettled, Queue!Unsettled,
           Proved!Pending, Queue!Pending, Proved!PositionKinds, Queue!PositionKinds,
           Proved!EventKinds, Queue!EventKinds
<1>4. Proved!ChosenSongBecomesCurrent <=> Queue!ChosenSongBecomesCurrent
    BY SameReading DEF Proved!ChosenSongBecomesCurrent, Queue!ChosenSongBecomesCurrent
<1>. QED
    BY <1>1, <1>2, <1>3, <1>4, SameReading

(* Everything PlayingQueue promises holds with the two media players of     *)
(* MultiPlayer behind it: their callbacks, gapless transitions and failed   *)
(* opens do nothing to the queue that its own operations do not.            *)
THEOREM QueueKeepsItsPromises ==
    Spec => /\ []Queue!UnshuffledListsAgree /\ []Queue!ListsHoldSameSongs
            /\ []Queue!SettlesInRange /\ []Queue!ThrowsOnlyAhead
            /\ []Queue!ChosenSongBecomesCurrent
            /\ Queue!EditsKeepCurrentSong
<1>1. Proved!Spec => /\ []Proved!UnshuffledListsAgree /\ []Proved!ListsHoldSameSongs
                     /\ []Proved!SettlesInRange /\ []Proved!ThrowsOnlyAhead
                     /\ []Proved!ChosenSongBecomesCurrent
                     /\ Proved!EditsKeepCurrentSong
    BY Proved!UnshuffledAgreement, Proved!SameSongsInBoth, Proved!PositionsSettleInRange,
       Proved!ThrowsOnlyWhenAhead, Proved!ChosenBecomesCurrent,
       Proved!EditsKeepTheCurrentSong, SongAssumption, SelectionsAssumption,
       BoundsAssumption
<1>2. [/\ playingQueue' # playingQueue
       /\ position \in Proved!Positions(playingQueue) /\ Proved!CurrentSong \notin skipped
       /\ ~Proved!Pending(Proved!PositionKinds)'
       => Proved!CurrentSong' = Proved!CurrentSong]_Proved!vars
      => [/\ playingQueue' # playingQueue
          /\ position \in Queue!Positions(playingQueue) /\ Queue!CurrentSong \notin skipped
          /\ ~Queue!Pending(Queue!PositionKinds)'
          => Queue!CurrentSong' = Queue!CurrentSong]_Queue!vars
    <2>1. Proved!vars = Queue!vars /\ Proved!vars' = Queue!vars'
        BY DEF Proved!vars, Queue!vars, Proved!lists, Queue!lists, Proved!modes, Queue!modes
    <2>2. Proved!Positions(playingQueue) = Queue!Positions(playingQueue)
        BY DEF Proved!Positions, Queue!Positions
    <2>3. Proved!Pending(Proved!PositionKinds)' <=> Queue!Pending(Queue!PositionKinds)'
        BY SameReading
    <2>. QED
        BY <2>1, <2>2, <2>3, SameReading
<1>. QED
    BY <1>1, <1>2, ImplementsProved, SamePromises, PTL
    DEF Proved!EditsKeepCurrentSong, Queue!EditsKeepCurrentSong

=============================================================================
