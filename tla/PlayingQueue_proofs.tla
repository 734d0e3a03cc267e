------------------------ MODULE PlayingQueue_proofs ------------------------
(***************************************************************************)
(* Theorems about PlayingQueue, for every set of songs, every selection    *)
(* and every bound.                                                        *)
(***************************************************************************)
EXTENDS PlayingQueue, SongLists_proofs

-----------------------------------------------------------------------------
(* With shuffle off both lists agree.  The invariant is inductive as it    *)
(* stands: an operation either applies one function to both lists, or      *)
(* leaves them alone, or runs with shuffle on afterwards.                  *)

LEMMA UnshuffledInit == Init => UnshuffledListsAgree
BY DEF Init, UnshuffledListsAgree

LEMMA UnshuffledListener ==
    UnshuffledListsAgree /\ Listener => UnshuffledListsAgree'
<1> SUFFICES ASSUME UnshuffledListsAgree, Listener PROVE UnshuffledListsAgree'
    OBVIOUS
<1> USE DEF UnshuffledListsAgree, lists, modes
<1>1. ASSUME NEW songs, NEW start, NEW play, NEW remember, NEW all,
             OpenQueue(songs, start, play, remember, all)
      PROVE UnshuffledListsAgree'
    BY <1>1 DEF OpenQueue
<1>2. ASSUME NEW mode \in ShuffleModes, setShuffleMode(mode) PROVE UnshuffledListsAgree'
    BY <1>2 DEF setShuffleMode, ShuffleModes, ShuffleOff, ShuffleOn
<1>3. ASSUME NEW operation, Throw(operation) PROVE UnshuffledListsAgree'
    BY <1>3 DEF Throw
<1>4. CASE ContinueCall
    BY <1>4, <1>3 DEF ContinueCall, setShuffleMode, ShuffleOn, ShuffleOff
<1>5. CASE toggleShuffle
    BY <1>5, <1>2, <1>3 DEF toggleShuffle, ShuffleModes
<1>6. ASSUME NEW songs, Enqueue(songs) \/ PlayNext(songs) PROVE UnshuffledListsAgree'
    <2>1. CASE Enqueue(songs)
        BY <2>1 DEF Enqueue
    <2>2. CASE PlayNext(songs)
        <3>1. CASE Throw("addSong")
            BY <3>1, <1>3
        <3>2. CASE ~Throw("addSong")
            BY <2>2, <3>2 DEF PlayNext, AddAt
        <3>. QED BY <3>1, <3>2
    <2>. QED BY <1>6, <2>1, <2>2
<1>7. ASSUME NEW p, RemoveAtPosition(p) PROVE UnshuffledListsAgree'
    BY <1>7 DEF RemoveAtPosition, originalWithout
<1>8. ASSUME NEW song, RemoveSong(song) PROVE UnshuffledListsAgree'
    BY <1>8 DEF RemoveSong
<1>9. ASSUME NEW from, NEW to, MoveSong(from, to) PROVE UnshuffledListsAgree'
    BY <1>9 DEF MoveSong
<1>10. CASE ClearQueue
    BY <1>10 DEF ClearQueue
<1>11. CASE (\E p \in 0 .. MaxLen, play \in BOOLEAN : PlaySongAt(p, play))
            \/ PlayNextSong \/ PlayPreviousSong \/ PlayUnopened
    BY <1>11 DEF PlaySongAt, PlayNextSong, PlayPreviousSong, PlayUnopened, Steer
<1>12. CASE cycleRepeatMode
    BY <1>12 DEF cycleRepeatMode
<1>. QED
    BY <1>1, <1>4, <1>5, <1>6, <1>7, <1>8, <1>9, <1>10, <1>11, <1>12 DEF Listener

LEMMA UnshuffledElsewhere ==
    ASSUME UnshuffledListsAgree,
           \/ \E on \in BOOLEAN : GaplessChanged(on)
           \/ \E kind \in EventKinds : PlayerCallback(kind)
           \/ Handler
           \/ UNCHANGED vars
    PROVE  UnshuffledListsAgree'
<1> USE DEF UnshuffledListsAgree, lists, modes
<1>1. ASSUME NEW kind \in EventKinds, PlayerCallback(kind) PROVE UnshuffledListsAgree'
    BY <1>1 DEF PlayerCallback
<1>2. CASE Handler
    BY <1>2 DEF Handler, HandlePosition, HandlePrepareNext, HandleTrackWentToNext,
                HandleTrackEnded
<1>3. CASE UNCHANGED vars
    BY <1>3 DEF vars
<1>4. ASSUME NEW on \in BOOLEAN, GaplessChanged(on) PROVE UnshuffledListsAgree'
    BY <1>4 DEF GaplessChanged
<1>. QED
    BY <1>1, <1>2, <1>3, <1>4

LEMMA UnshuffledNext == UnshuffledListsAgree /\ [Next]_vars => UnshuffledListsAgree'
BY UnshuffledListener, UnshuffledElsewhere DEF Next

(* In every execution the two lists are equal whenever shuffle is off, so   *)
(* that removeSong(int) and moveSong may use one position for both.         *)
THEOREM UnshuffledAgreement == Spec => []UnshuffledListsAgree
BY UnshuffledInit, UnshuffledNext, PTL DEF Spec

-----------------------------------------------------------------------------
(* Every variable keeps its type, and no position falls below -1.          *)

LEMMA PostType ==
    ASSUME NEW box \in Seq(Message), NEW what \in MessageKinds, NEW arg \in Places
    PROVE  Post(box, what, arg) \in Seq(Message)
<1> DEFINE kept == { i \in DOMAIN box : box[i].what # what }
<1>1. Keep(box, kept) \in Seq(Message)
    BY KeepType
<1>2. [what |-> what, arg |-> arg] \in Message
    BY DEF Message
<1>. QED
    BY <1>1, <1>2, AppendProperties DEF Post

LEMMA QueueChangedType ==
    ASSUME NEW box \in Seq(Message), NEW list
    PROVE  QueueChanged(box, list) \in Seq(Message)
BY PostType DEF QueueChanged, prepareNext, MessageKinds, Places

LEMMA PrepareNextType ==
    ASSUME NEW box \in Seq(Message) PROVE prepareNext(box) \in Seq(Message)
BY PostType DEF prepareNext, MessageKinds, Places

LEMMA NextPositionType ==
    ASSUME NEW list \in Seq(Song), NEW p \in Places, NEW repeat \in RepeatModes,
           NEW force \in BOOLEAN
    PROVE  getNextPosition(list, p, repeat, force) \in Places
BY DEF getNextPosition, Places, RepeatModes

LEMMA PreviousPositionType ==
    ASSUME NEW list \in Seq(Song), NEW p \in Places, NEW repeat \in RepeatModes,
           NEW force \in BOOLEAN
    PROVE  getPreviousPosition(list, p, repeat, force) \in Places
<1>1. Len(list) - 1 \in Places
    BY LenProperties DEF Places
<1>2. p - 1 < 0 \/ p - 1 \in Places
    BY DEF Places
<1>. QED
    BY <1>1, <1>2 DEF getPreviousPosition, Places, RepeatModes

LEMMA PositionIsPlace ==
    ASSUME NEW list \in Seq(Song), NEW p \in Positions(list)
    PROVE  p \in Nat /\ p < Len(list) /\ p \in Places /\ p - 1 \in Places
BY LenProperties DEF Positions, Places

LEMMA TypeInit == Init => TypeOK
<1> SUFFICES ASSUME Init PROVE TypeOK
    OBVIOUS
<1>1. <<>> \in Seq(Song) /\ <<>> \in Seq(Message) /\ <<>> \in Seq(ShuffleModes)
    BY EmptySeq
<1>. QED
    BY <1>1 DEF Init, TypeOK, Places, PlayerStates

LEMMA HistoryType ==
    ASSUME TypeOK, Edited \/ Reprepared
    PROVE  ranAhead' \in BOOLEAN
BY DEF TypeOK, Edited, Reprepared, Unsettled, Pending

LEMMA CurrentSongType ==
    ASSUME TypeOK PROVE CurrentSong \in Song \cup {NoSong}
<1>1. ASSUME NEW p \in Positions(playingQueue) PROVE playingQueue[p + 1] \in Song
    <2>1. p + 1 \in 1 .. Len(playingQueue)
        BY PositionIsPlace DEF TypeOK
    <2>. QED
        BY <2>1, ElementOfSeq DEF TypeOK
<1>. QED
    BY <1>1 DEF CurrentSong, getSongAt

LEMMA TypeThrow ==
    ASSUME TypeOK, NEW operation \in {"setShuffleMode", "addSong"}, Throw(operation)
    PROVE  TypeOK'
BY DEF TypeOK, Throw, lists, modes

LEMMA TypeOpenQueue ==
    ASSUME TypeOK, NEW songs \in Selections, NEW start, NEW play \in BOOLEAN,
           NEW remember \in BOOLEAN, NEW all \in BOOLEAN,
           OpenQueue(songs, start, play, remember, all)
    PROVE  TypeOK'
<1> USE DEF OpenQueue
<1>1. songs \in Seq(Song) /\ start \in Positions(songs)
    BY SelectionsAssumption
<1>2. playingQueue' \in Seq(Song) /\ originalPlayingQueue' \in Seq(Song)
    BY <1>1, ShufflesType
<1>3. inbox' \in Seq(Message)
    <2>1. openedPosition(start) \in Places
        BY <1>1, PositionIsPlace DEF openedPosition, Places
    <2> DEFINE kind == IF play THEN "PLAY_SONG" ELSE "SET_POSITION"
    <2>2. kind \in MessageKinds
        BY DEF MessageKinds, PositionKinds
    <2>3. Post(inbox, kind, openedPosition(start)) \in Seq(Message)
        BY <2>1, <2>2, PostType DEF TypeOK
    <2>4. inbox' = QueueChanged(Post(inbox, kind, openedPosition(start)), songs)
        OBVIOUS
    <2> HIDE DEF kind
    <2>. QED
        BY <2>3, <2>4, QueueChangedType
<1>4. call' \in Seq(ShuffleModes)
    <2>1. <<>> \in Seq(ShuffleModes) /\ <<"NONE">> \in Seq(ShuffleModes)
            /\ <<"SHUFFLE">> \in Seq(ShuffleModes)
        BY DEF ShuffleModes
    <2> DEFINE off == IF remember THEN <<>> ELSE <<"NONE">>
               on == IF all THEN <<"SHUFFLE">> ELSE <<>>
    <2>2. off \in Seq(ShuffleModes)
        BY <2>1
    <2>3. on \in Seq(ShuffleModes)
        BY <2>1
    <2>4. call' = off \o on
        OBVIOUS
    <2> HIDE DEF off, on
    <2>. QED
        BY <2>2, <2>3, <2>4, ConcatProperties
<1>5. chosen' \in Song \cup {NoSong}
    <2>1. start + 1 \in 1 .. Len(songs)
        BY <1>1, PositionIsPlace
    <2>2. songs[start + 1] \in Song
        BY <1>1, <2>1, ElementOfSeq
    <2>. QED
        BY <2>2
<1>6. ranAhead' \in BOOLEAN
    BY DEF Pending
<1>. QED
    BY <1>2, <1>3, <1>4, <1>5, <1>6 DEF TypeOK, modes

LEMMA TypeSetShuffleMode ==
    ASSUME TypeOK, NEW mode \in ShuffleModes, setShuffleMode(mode),
           call' \in Seq(ShuffleModes)
    PROVE  TypeOK'
<1> USE DEF setShuffleMode
<1>1. CASE mode = "SHUFFLE"
    <2>1. playingQueue' \in Seq(Song)
        BY <1>1, ShufflesType DEF ShuffleOn, TypeOK
    <2>2. inbox' \in Seq(Message)
        BY QueueChangedType DEF TypeOK
    <2>3. ranAhead' \in BOOLEAN
        BY HistoryType
    <2>4. position' \in Places /\ chosen' \in Song \cup {NoSong}
        BY <1>1 DEF ShuffleOn, TypeOK, Places
    <2>. QED
        BY <1>1, <2>1, <2>2, <2>3, <2>4 DEF TypeOK, ShuffleOn
<1>2. CASE mode # "SHUFFLE"
    <2>1. playingQueue' \in Seq(Song)
        BY <1>2 DEF ShuffleOff, TypeOK
    <2>2. inbox' \in Seq(Message)
        BY QueueChangedType DEF TypeOK
    <2>3. ranAhead' \in BOOLEAN
        BY HistoryType
    <2>4. position' \in Places
        <3>1. ASSUME \E i \in DOMAIN originalPlayingQueue : originalPlayingQueue[i] = CurrentSong
              PROVE  IndexOf(originalPlayingQueue, CurrentSong) \in Places
            BY <3>1, IndexOfFound, PositionIsPlace DEF TypeOK
        <3>2. 0 \in Places
            BY DEF Places
        <3>. QED
            BY <1>2, <3>1, <3>2 DEF ShuffleOff
    <2>5. chosen' \in Song \cup {NoSong}
        BY <1>2 DEF ShuffleOff, TypeOK
    <2>. QED
        BY <1>2, <2>1, <2>2, <2>3, <2>4, <2>5 DEF TypeOK, ShuffleOff
<1>. QED
    BY <1>1, <1>2

LEMMA TypeContinueCall == TypeOK /\ ContinueCall => TypeOK'
<1> SUFFICES ASSUME TypeOK, ContinueCall PROVE TypeOK'
    OBVIOUS
<1>1. Head(call) \in ShuffleModes /\ Tail(call) \in Seq(ShuffleModes)
    BY HeadTailProperties DEF ContinueCall, TypeOK
<1>2. CASE Throw("setShuffleMode")
    BY <1>2, TypeThrow
<1>3. CASE setShuffleMode(Head(call)) /\ call' = Tail(call)
    BY <1>1, <1>3, TypeSetShuffleMode
<1>. QED
    BY <1>2, <1>3 DEF ContinueCall

LEMMA TypeToggleShuffle == TypeOK /\ toggleShuffle => TypeOK'
<1> SUFFICES ASSUME TypeOK, toggleShuffle PROVE TypeOK'
    OBVIOUS
<1> DEFINE mode == IF shuffleMode = "NONE" THEN "SHUFFLE" ELSE "NONE"
<1>1. mode \in ShuffleModes
    BY DEF ShuffleModes
<1>2. CASE Throw("setShuffleMode")
    BY <1>2, TypeThrow
<1>3. CASE setShuffleMode(mode) /\ UNCHANGED call
    <2>1. call' \in Seq(ShuffleModes)
        BY <1>3 DEF TypeOK
    <2> HIDE DEF mode
    <2>. QED
        BY <1>1, <1>3, <2>1, TypeSetShuffleMode
<1>. QED
    BY <1>2, <1>3 DEF toggleShuffle

LEMMA TypeEnqueue ==
    ASSUME TypeOK, NEW songs \in Selections, Enqueue(songs)
    PROVE  TypeOK'
<1>1. songs \in Seq(Song)
    BY SelectionsAssumption
<1>2. playingQueue' \in Seq(Song) /\ originalPlayingQueue' \in Seq(Song)
    BY <1>1, ConcatProperties DEF Enqueue, TypeOK
<1>3. inbox' \in Seq(Message)
    BY QueueChangedType DEF Enqueue, TypeOK
<1>4. ranAhead' \in BOOLEAN
    BY HistoryType DEF Enqueue
<1>. QED
    BY <1>2, <1>3, <1>4 DEF Enqueue, TypeOK, modes

(* What PlayNext does when it does not throw: neither index is out of bounds. *)
LEMMA PlayNextLists ==
    ASSUME TypeOK, NEW songs \in Selections, PlayNext(songs), ~ Throw("addSong")
    PROVE  /\ songs \in Seq(Song)
           /\ position + 1 \in 0 .. Len(playingQueue)
           /\ position + 1 \in 0 .. Len(originalPlayingQueue)
           /\ playingQueue' = InsertAll(playingQueue, position + 1, songs)
           /\ originalPlayingQueue' = InsertAll(originalPlayingQueue, position + 1, songs)
           /\ inbox' = QueueChanged(inbox, playingQueue')
           /\ chosen' = NoSong
           /\ Edited
           /\ UNCHANGED <<position, nextPosition, modes, player, call, thrown, skipped>>
<1> DEFINE p == position + 1
<1>1. AddAt(p, songs) /\ p \in Nat
    BY DEF PlayNext, TypeOK, Places
<1> HIDE DEF p
<1>2. ~ (p > size \/ p > Len(originalPlayingQueue))
    BY <1>1 DEF AddAt
<1>3. /\ playingQueue' = InsertAll(playingQueue, p, songs)
      /\ originalPlayingQueue' = InsertAll(originalPlayingQueue, p, songs)
      /\ inbox' = QueueChanged(inbox, playingQueue')
      /\ chosen' = NoSong
      /\ Edited
      /\ UNCHANGED <<position, nextPosition, modes, player, call, thrown, skipped>>
    BY <1>1, <1>2 DEF AddAt
<1>4. p \in 0 .. Len(playingQueue) /\ p \in 0 .. Len(originalPlayingQueue)
    BY <1>1, <1>2, LenProperties DEF size, TypeOK
<1>5. songs \in Seq(Song)
    BY SelectionsAssumption
<1>. QED
    BY <1>3, <1>4, <1>5 DEF p

LEMMA TypePlayNext ==
    ASSUME TypeOK, NEW songs \in Selections, PlayNext(songs)
    PROVE  TypeOK'
<1>1. CASE Throw("addSong")
    BY <1>1, TypeThrow
<1>2. CASE ~ Throw("addSong")
    <2>1. /\ songs \in Seq(Song)
          /\ position + 1 \in 0 .. Len(playingQueue)
          /\ position + 1 \in 0 .. Len(originalPlayingQueue)
          /\ playingQueue' = InsertAll(playingQueue, position + 1, songs)
          /\ originalPlayingQueue' = InsertAll(originalPlayingQueue, position + 1, songs)
          /\ inbox' = QueueChanged(inbox, playingQueue')
          /\ chosen' = NoSong
          /\ Edited
          /\ UNCHANGED <<position, nextPosition, modes, player, call, thrown, skipped>>
        BY <1>2, PlayNextLists
    <2>2. playingQueue' \in Seq(Song) /\ originalPlayingQueue' \in Seq(Song)
        BY <2>1, InsertAllType DEF TypeOK
    <2>3. inbox' \in Seq(Message)
        BY <2>1, QueueChangedType DEF TypeOK
    <2>4. ranAhead' \in BOOLEAN
        BY <2>1, HistoryType
    <2>. QED
        BY <2>1, <2>2, <2>3, <2>4 DEF TypeOK, modes
<1>. QED
    BY <1>1, <1>2

(* With shuffle off, removeSong(int) and moveSong index the original list  *)
(* with a position of the playing queue: here the type invariant rests on   *)
(* UnshuffledListsAgree.                                                    *)
LEMMA TypeRemoveAtPosition ==
    ASSUME TypeOK, UnshuffledListsAgree, NEW p, RemoveAtPosition(p)
    PROVE  TypeOK'
<1> USE DEF RemoveAtPosition
<1>1. p \in Positions(playingQueue) /\ p \in Nat
    BY PositionIsPlace DEF TypeOK
<1>2. playingQueue' \in Seq(Song)
    BY <1>1, DeleteType DEF TypeOK
<1>3. originalPlayingQueue' \in Seq(Song)
    <2>1. CASE shuffleMode = "NONE"
        BY <2>1, <1>1, DeleteType DEF originalWithout, UnshuffledListsAgree, TypeOK
    <2>2. CASE shuffleMode # "NONE"
        BY <2>2, DeleteFirstType DEF originalWithout, TypeOK
    <2>. QED
        BY <2>1, <2>2
<1>4. position' \in Places
    BY <1>1 DEF rePosition, shifted, TypeOK, Places
<1>5. inbox' \in Seq(Message)
    <2> DEFINE box == IF p # position THEN inbox
                      ELSE Post(inbox, "SET_POSITION", steppedBack(p, playingQueue'))
    <2>1. p = position => steppedBack(p, playingQueue') \in Places
        BY <1>1 DEF steppedBack, Places
    <2>2. box \in Seq(Message)
        BY <2>1, PostType DEF TypeOK, MessageKinds, PositionKinds
    <2>3. inbox' = QueueChanged(box, playingQueue')
        BY DEF rePosition
    <2> HIDE DEF box
    <2>. QED
        BY <2>2, <2>3, QueueChangedType
<1>6. ranAhead' \in BOOLEAN
    BY HistoryType
<1>. QED
    BY <1>2, <1>3, <1>4, <1>5, <1>6 DEF TypeOK, modes

LEMMA TypeRemoveSong ==
    ASSUME TypeOK, NEW song \in Song, RemoveSong(song)
    PROVE  TypeOK'
<1> USE DEF RemoveSong
<1> DEFINE deletes == LoopDeletes(playingQueue, song)
           earlier == { i \in deletes : i - 1 < position }
           before == Cardinality(earlier)
<1>1. playingQueue' \in Seq(Song) /\ originalPlayingQueue' \in Seq(Song)
    BY LoopDeleteType DEF TypeOK
<1>2. \A i \in deletes : i \in 1 .. Len(playingQueue) /\ Len(playingQueue) \in Nat
    BY LoopDeletesDomain, LenProperties DEF TypeOK
<1>3. position \in Int /\ position >= -1
    BY DEF TypeOK, Places
<1>4. before \in Nat /\ before <= (IF 1 > position THEN 0 ELSE position)
    <2>1. \A i \in earlier : i \in 1 .. position
        BY <1>2, <1>3
    <2>2. earlier \in SUBSET (1 .. position)
        <3> HIDE DEF earlier
        <3>. QED
            BY <2>1
    <2>3. /\ IsFiniteSet(1 .. position)
          /\ Cardinality(1 .. position) = IF 1 > position THEN 0 ELSE position
        BY <1>3, FS_Interval
    <2> HIDE DEF earlier
    <2>4. IsFiniteSet(earlier) /\ Cardinality(earlier) <= Cardinality(1 .. position)
        BY <2>2, <2>3, FS_Subset
    <2>5. Cardinality(earlier) \in Nat
        BY <2>4, FS_CardinalityType
    <2>. QED
        BY <2>3, <2>4, <2>5
<1>5. position' = position - before
    OBVIOUS
<1>6. position + 1 \in deletes => position >= 0
    BY <1>2, <1>3
<1>7. inbox' \in Seq(Message)
    <2> DEFINE posted == IF position < size - 1 THEN position' ELSE position' - 1
               box == IF position + 1 \notin deletes THEN inbox
                      ELSE Post(inbox, "SET_POSITION", posted)
    <2>1. inbox' = QueueChanged(box, LoopDelete(playingQueue, song))
        OBVIOUS
    <2>2. position + 1 \in deletes => posted \in Places
        <3> HIDE DEF deletes, before
        <3>. QED
            BY <1>3, <1>4, <1>5, <1>6 DEF Places
    <2>3. box \in Seq(Message)
        <3> HIDE DEF deletes, posted
        <3>. QED
            BY <2>2, PostType DEF TypeOK, MessageKinds, PositionKinds
    <2> HIDE DEF box
    <2>. QED
        BY <2>1, <2>3, QueueChangedType
<1>8. position' \in Places
    <2> HIDE DEF before
    <2>. QED
        BY <1>3, <1>4, <1>5 DEF Places
<1>9. ranAhead' \in BOOLEAN
    BY HistoryType
<1>10. skipped' \subseteq Song
    BY DEF TypeOK
<1>. QED
    BY <1>1, <1>7, <1>8, <1>9, <1>10 DEF TypeOK, modes

LEMMA TypeMoveSong ==
    ASSUME TypeOK, UnshuffledListsAgree, NEW from, NEW to, MoveSong(from, to)
    PROVE  TypeOK'
<1> USE DEF MoveSong
<1>1. from \in Positions(playingQueue) /\ to \in Positions(playingQueue)
    OBVIOUS
<1>2. from \in Nat /\ to \in Nat
    BY <1>1, PositionIsPlace DEF TypeOK
<1>3. playingQueue' \in Seq(Song)
    BY <1>1, MoveType DEF TypeOK
<1>4. originalPlayingQueue' \in Seq(Song)
    BY <1>1, MoveType DEF TypeOK, UnshuffledListsAgree
<1>5. position' \in Places
    BY <1>2 DEF movedPosition, TypeOK, Places
<1>6. inbox' \in Seq(Message)
    BY QueueChangedType DEF TypeOK
<1>7. ranAhead' \in BOOLEAN
    BY HistoryType
<1>. QED
    BY <1>3, <1>4, <1>5, <1>6, <1>7 DEF TypeOK, modes

LEMMA TypeClearQueue == TypeOK /\ ClearQueue => TypeOK'
<1> SUFFICES ASSUME TypeOK, ClearQueue PROVE TypeOK'
    OBVIOUS
<1>1. inbox' \in Seq(Message)
    BY PostType DEF ClearQueue, TypeOK, MessageKinds, PositionKinds, Places
<1>2. <<>> \in Seq(Song)
    BY EmptySeq
<1>. QED
    BY <1>1, <1>2 DEF ClearQueue, TypeOK, modes, Pending

LEMMA TypeSteer ==
    ASSUME TypeOK, NEW kind \in PositionKinds, NEW p \in Places, Steer(kind, p),
           ranAhead' \in BOOLEAN
    PROVE  TypeOK'
<1>1. inbox' \in Seq(Message)
    BY PostType DEF Steer, TypeOK, MessageKinds
<1>. QED
    BY <1>1 DEF Steer, TypeOK, lists, modes

LEMMA TypeMoveThrough ==
    ASSUME TypeOK,
           \/ \E p \in 0 .. MaxLen, play \in BOOLEAN : PlaySongAt(p, play)
           \/ PlayNextSong \/ PlayPreviousSong \/ PlayUnopened
    PROVE  TypeOK'
<1>1. ASSUME NEW p, NEW play \in BOOLEAN, PlaySongAt(p, play) PROVE TypeOK'
    <2> DEFINE kind == IF play THEN "PLAY_SONG" ELSE "SET_POSITION"
    <2>1. p \in Places
        BY <1>1, PositionIsPlace DEF PlaySongAt, TypeOK
    <2>2. kind \in PositionKinds
        BY DEF PositionKinds
    <2>3. Steer(kind, p) /\ ranAhead' \in BOOLEAN
        BY <1>1 DEF PlaySongAt, Pending
    <2> HIDE DEF kind
    <2>. QED
        BY <2>1, <2>2, <2>3, TypeSteer
<1>2. ASSUME NEW p \in Places, Steer("PLAY_SONG", p), Edited PROVE TypeOK'
    BY <1>2, HistoryType, TypeSteer DEF PositionKinds
<1>3. CASE PlayNextSong
    BY <1>2, <1>3, NextPositionType DEF PlayNextSong, TypeOK
<1>4. CASE PlayPreviousSong
    BY <1>2, <1>4, PreviousPositionType DEF PlayPreviousSong, TypeOK
<1>5. CASE PlayUnopened
    BY <1>2, <1>5 DEF PlayUnopened, TypeOK
<1>. QED
    BY <1>1, <1>3, <1>4, <1>5

LEMMA TypeCycleRepeatMode == TypeOK /\ cycleRepeatMode => TypeOK'
<1> SUFFICES ASSUME TypeOK, cycleRepeatMode PROVE TypeOK'
    OBVIOUS
<1>1. inbox' \in Seq(Message)
    BY PrepareNextType DEF cycleRepeatMode, TypeOK
<1>2. ranAhead' \in BOOLEAN
    BY HistoryType DEF cycleRepeatMode
<1>3. repeatMode' \in RepeatModes
    BY DEF cycleRepeatMode, RepeatModes
<1>. QED
    BY <1>1, <1>2, <1>3 DEF cycleRepeatMode, TypeOK, lists

LEMMA TypeGaplessChanged ==
    ASSUME TypeOK, NEW on \in BOOLEAN, GaplessChanged(on)
    PROVE  TypeOK'
<1>1. inbox' \in Seq(Message)
    BY PrepareNextType DEF GaplessChanged, TypeOK
<1>2. ranAhead' \in BOOLEAN
    BY HistoryType DEF GaplessChanged, TypeOK
<1>3. player' \in PlayerStates
    BY DEF GaplessChanged, TypeOK, PlayerStates
<1>. QED
    BY <1>1, <1>2, <1>3 DEF GaplessChanged, TypeOK, lists, modes

LEMMA TypePlayerCallback ==
    ASSUME TypeOK, NEW kind \in EventKinds, PlayerCallback(kind)
    PROVE  TypeOK'
<1>1. [what |-> kind, arg |-> 0] \in Message
    BY DEF Message, MessageKinds, Places
<1>2. inbox' \in Seq(Message)
    BY <1>1, AppendProperties DEF PlayerCallback, TypeOK
<1>3. ranAhead' \in BOOLEAN
    BY DEF PlayerCallback, TypeOK, Pending
<1>4. player' \in PlayerStates
    BY DEF PlayerCallback, PlayerStates
<1>. QED
    BY <1>2, <1>3, <1>4 DEF PlayerCallback, TypeOK, lists, modes

LEMMA TypeHandler == TypeOK /\ Handler => TypeOK'
<1> SUFFICES ASSUME TypeOK, Handler PROVE TypeOK'
    OBVIOUS
<1>1. Take
    BY DEF Handler, HandlePosition, HandlePrepareNext, HandleTrackWentToNext, HandleTrackEnded
<1>2. Head(inbox) \in Message /\ Tail(inbox) \in Seq(Message)
    BY <1>1, HeadTailProperties DEF Take, TypeOK
<1>3. \A p \in Places : getNextPosition(playingQueue, p, repeatMode, FALSE) \in Places
    BY NextPositionType DEF TypeOK
<1>4. ASSUME NEW p \in Places, prepareNextImpl(p)
      PROVE  nextPosition' \in Places /\ player' \in PlayerStates
    BY <1>3, <1>4 DEF prepareNextImpl, PlayerStates
<1>5. ASSUME NEW p \in Places, PrepareNext(p)
      PROVE  nextPosition' \in Places /\ player' \in PlayerStates
    BY <1>3, <1>4, <1>5 DEF PrepareNext, TypeOK
<1>6. CASE HandlePosition
    <2>1. position' \in Places /\ inbox' \in Seq(Message)
        BY <1>2, <1>6 DEF HandlePosition, Message
    <2>2. nextPosition' \in Places /\ player' \in PlayerStates
        <3>1. CASE prepareNextImpl(position')
            BY <2>1, <3>1, <1>3 DEF prepareNextImpl, PlayerStates
        <3>2. CASE player' = "closed" /\ UNCHANGED nextPosition
            BY <3>2 DEF TypeOK, PlayerStates
        <3>. QED
            BY <1>6, <3>1, <3>2 DEF HandlePosition
    <2>. QED
        BY <1>6, <2>1, <2>2 DEF HandlePosition, TypeOK, lists, modes
<1>7. CASE HandlePrepareNext
    <2>1. nextPosition' \in Places /\ player' \in PlayerStates
        BY <1>5, <1>7 DEF HandlePrepareNext, TypeOK
    <2>. QED
        BY <1>2, <1>7, <2>1 DEF HandlePrepareNext, TypeOK, lists, modes
<1>8. CASE HandleTrackWentToNext
    <2>1. position' \in Places /\ nextPosition' \in Places /\ player' \in PlayerStates
        BY <1>5, <1>8 DEF HandleTrackWentToNext, TypeOK
    <2>. QED
        BY <1>2, <1>8, <2>1 DEF HandleTrackWentToNext, TypeOK, lists, modes
<1>9. CASE HandleTrackEnded
    <2>1. inbox' \in Seq(Message)
        BY <1>2, <1>3, <1>9, PostType DEF HandleTrackEnded, TypeOK, MessageKinds, PositionKinds
    <2>. QED
        BY <1>9, <2>1 DEF HandleTrackEnded, TypeOK, lists, modes
<1>. QED
    BY <1>6, <1>7, <1>8, <1>9 DEF Handler

LEMMA TypeListener == TypeOK /\ UnshuffledListsAgree /\ Listener => TypeOK'
<1> SUFFICES ASSUME TypeOK, UnshuffledListsAgree, Listener PROVE TypeOK'
    OBVIOUS
<1>. QED
    BY TypeOpenQueue, TypeContinueCall, TypeToggleShuffle, TypeEnqueue, TypePlayNext,
       TypeRemoveAtPosition, TypeRemoveSong, TypeMoveSong, TypeClearQueue, TypeMoveThrough,
       TypeCycleRepeatMode
    DEF Listener

LEMMA TypeNext == TypeOK /\ UnshuffledListsAgree /\ [Next]_vars => TypeOK'
<1> SUFFICES ASSUME TypeOK, UnshuffledListsAgree, [Next]_vars PROVE TypeOK'
    OBVIOUS
<1>1. CASE Listener
    BY <1>1, TypeListener
<1>2. CASE \E kind \in EventKinds : PlayerCallback(kind)
    BY <1>2, TypePlayerCallback
<1>3. CASE Handler
    BY <1>3, TypeHandler
<1>4. CASE UNCHANGED vars
    BY <1>4 DEF vars, TypeOK, lists, modes
<1>5. CASE \E on \in BOOLEAN : GaplessChanged(on)
    BY <1>5, TypeGaplessChanged
<1>. QED
    BY <1>1, <1>2, <1>3, <1>4, <1>5 DEF Next

(* Every variable has its type in every execution, so no position below -1  *)
(* is computed, stored or posted, whatever the listener, the player and the *)
(* handler do in whatever order.                                            *)
THEOREM TypeCorrect == Spec => []TypeOK
BY TypeInit, TypeNext, UnshuffledAgreement, PTL DEF Spec

-----------------------------------------------------------------------------
(* Both lists hold the same songs.                                         *)
(*                                                                         *)
(* Inductive with the two facts above: with shuffle off one operation is   *)
(* applied to two equal lists; with shuffle on each list loses or gains    *)
(* the same songs, wherever it has them.  The lengths follow only while    *)
(* no copy was left behind, and only then may both be indexed alike.       *)

(* While no copy was left behind, both lists are equally long.             *)
LengthsAgree == skipped = {} => Len(playingQueue) = Len(originalPlayingQueue)
SameSongs == ListsHoldSameSongs /\ LengthsAgree

LEMMA SameSongsInit == Init => SameSongs
<1> SUFFICES ASSUME Init PROVE SameSongs
    OBVIOUS
<1>1. playingQueue = originalPlayingQueue
    BY DEF Init
<1>. QED
    BY <1>1 DEF SameSongs, ListsHoldSameSongs, LengthsAgree

LEMMA SameSongsKept ==
    ASSUME SameSongs, UNCHANGED <<lists, skipped>>
    PROVE  SameSongs'
BY DEF SameSongs, ListsHoldSameSongs, LengthsAgree, lists

LEMMA SameSongsOpenQueue ==
    ASSUME NEW songs \in Selections, NEW start, NEW play, NEW remember, NEW all,
           OpenQueue(songs, start, play, remember, all)
    PROVE  SameSongs'
<1>1. songs \in Seq(Song)
    BY SelectionsAssumption
<1>2. originalPlayingQueue' = songs
    BY DEF OpenQueue
<1>3. playingQueue' = songs \/ playingQueue' \in Shuffles(songs, start)
    BY DEF OpenQueue
<1>4. Len(playingQueue') = Len(songs) /\ \A x : Copies(playingQueue', x) = Copies(songs, x)
    BY <1>1, <1>3, ShufflesCopies
<1>. QED
    BY <1>2, <1>4 DEF SameSongs, ListsHoldSameSongs, LengthsAgree

LEMMA SameSongsSetShuffleMode ==
    ASSUME TypeOK, SameSongs, NEW mode, setShuffleMode(mode)
    PROVE  SameSongs'
<1>1. UNCHANGED <<originalPlayingQueue, skipped>>
    BY DEF setShuffleMode, ShuffleOn, ShuffleOff
<1>2. playingQueue' \in Shuffles(playingQueue, position) \/ playingQueue' = originalPlayingQueue
    BY DEF setShuffleMode, ShuffleOn, ShuffleOff
<1>3. CASE playingQueue' \in Shuffles(playingQueue, position)
    <2>1. /\ Len(playingQueue') = Len(playingQueue)
          /\ \A x : Copies(playingQueue', x) = Copies(playingQueue, x)
        BY <1>3, ShufflesCopies DEF TypeOK
    <2>. QED
        BY <1>1, <2>1 DEF SameSongs, ListsHoldSameSongs, LengthsAgree
<1>4. CASE playingQueue' = originalPlayingQueue
    BY <1>1, <1>4 DEF SameSongs, ListsHoldSameSongs, LengthsAgree
<1>. QED
    BY <1>2, <1>3, <1>4

LEMMA SameSongsShuffles ==
    ASSUME TypeOK, SameSongs, ContinueCall \/ toggleShuffle
    PROVE  SameSongs'
<1>1. ASSUME Throw("setShuffleMode") PROVE SameSongs'
    BY <1>1, SameSongsKept DEF Throw
<1>2. ASSUME NEW mode, setShuffleMode(mode) PROVE SameSongs'
    BY <1>2, SameSongsSetShuffleMode
<1>. QED
    BY <1>1, <1>2 DEF ContinueCall, toggleShuffle

(* Both lists get the same songs. *)
LEMMA SameSongsAdded ==
    ASSUME SameSongs, TypeOK, NEW songs \in Seq(Song), UNCHANGED skipped,
           /\ Len(playingQueue') = Len(playingQueue) + Len(songs)
           /\ \A x : Copies(playingQueue', x) = Copies(playingQueue, x) + Copies(songs, x),
           /\ Len(originalPlayingQueue') = Len(originalPlayingQueue) + Len(songs)
           /\ \A x : Copies(originalPlayingQueue', x) =
                        Copies(originalPlayingQueue, x) + Copies(songs, x)
    PROVE  SameSongs'
BY DEF SameSongs, ListsHoldSameSongs, LengthsAgree

LEMMA SameSongsEnqueue ==
    ASSUME SameSongs, TypeOK, NEW songs \in Selections, Enqueue(songs)
    PROVE  SameSongs'
<1>1. songs \in Seq(Song)
    BY SelectionsAssumption
<1>2. /\ playingQueue' = playingQueue \o songs /\ UNCHANGED skipped
      /\ originalPlayingQueue' = originalPlayingQueue \o songs
    BY DEF Enqueue
<1>3. ASSUME NEW list \in Seq(Song)
      PROVE  /\ Len(list \o songs) = Len(list) + Len(songs)
             /\ \A x : Copies(list \o songs, x) = Copies(list, x) + Copies(songs, x)
    BY <1>1, ConcatProperties, CopiesConcat
<1>. QED
    BY <1>1, <1>2, <1>3, SameSongsAdded DEF TypeOK

LEMMA SameSongsPlayNext ==
    ASSUME SameSongs, TypeOK, NEW songs \in Selections, PlayNext(songs)
    PROVE  SameSongs'
<1>1. CASE Throw("addSong")
    BY <1>1, SameSongsKept DEF Throw
<1>2. CASE ~ Throw("addSong")
    <2>1. /\ songs \in Seq(Song)
          /\ position + 1 \in 0 .. Len(playingQueue)
          /\ position + 1 \in 0 .. Len(originalPlayingQueue)
          /\ playingQueue' = InsertAll(playingQueue, position + 1, songs)
          /\ originalPlayingQueue' = InsertAll(originalPlayingQueue, position + 1, songs)
          /\ UNCHANGED skipped
        BY <1>2, PlayNextLists
    <2>2. playingQueue \in Seq(Song) /\ originalPlayingQueue \in Seq(Song)
        BY DEF TypeOK
    <2>3. ASSUME NEW list \in Seq(Song), position + 1 \in 0 .. Len(list)
          PROVE  /\ Len(InsertAll(list, position + 1, songs)) = Len(list) + Len(songs)
                 /\ \A x : Copies(InsertAll(list, position + 1, songs), x) =
                            Copies(list, x) + Copies(songs, x)
        BY <2>1, <2>3, InsertAllEntry
    <2>. QED
        BY <2>1, <2>2, <2>3, SameSongsAdded
<1>. QED
    BY <1>1, <1>2

LEMMA SameSongsRemoveAtPosition ==
    ASSUME TypeOK, UnshuffledListsAgree, SameSongs, NEW p, RemoveAtPosition(p)
    PROVE  SameSongs'
<1> DEFINE song == playingQueue[p + 1]
<1>1. /\ p \in Positions(playingQueue) /\ UNCHANGED skipped
      /\ playingQueue' = Delete(playingQueue, p)
      /\ originalPlayingQueue' = originalWithout(p)
    BY DEF RemoveAtPosition
<1>2. playingQueue \in Seq(Song) /\ originalPlayingQueue \in Seq(Song)
    BY DEF TypeOK
<1>3. CASE shuffleMode = "NONE"
    <2>1. playingQueue' = originalPlayingQueue'
        BY <1>1, <1>3 DEF UnshuffledListsAgree, originalWithout
    <2>. QED
        BY <2>1 DEF SameSongs, ListsHoldSameSongs, LengthsAgree
<1>4. CASE shuffleMode # "NONE"
    <2>1. originalPlayingQueue' = DeleteFirst(originalPlayingQueue, song)
        BY <1>1, <1>4 DEF originalWithout
    <2>2. /\ Len(playingQueue') = Len(playingQueue) - 1
          /\ \A x : Copies(playingQueue, x) =
                        Copies(playingQueue', x) + (IF song = x THEN 1 ELSE 0)
        BY <1>1, <1>2, DeleteType, DeleteEntry
    <2>3. playingQueue' \in Seq(Song) /\ originalPlayingQueue' \in Seq(Song)
        BY <1>1, <1>2, <2>1, DeleteType, DeleteFirstType
    <2>4. \A x : /\ Copies(playingQueue, x) \in Nat /\ Copies(playingQueue', x) \in Nat
                 /\ Copies(originalPlayingQueue, x) \in Nat
                 /\ Copies(originalPlayingQueue', x) \in Nat
        BY <1>2, <2>3, CopiesType
    <2>5. song \in Song
        <3>1. p + 1 \in 1 .. Len(playingQueue)
            BY <1>1, <1>2, LenProperties DEF Positions
        <3>. QED
            BY <1>2, <3>1, ElementOfSeq
    <2> HIDE DEF song
    <2>6. CASE \E i \in DOMAIN originalPlayingQueue : originalPlayingQueue[i] = song
        <3>1. /\ Len(originalPlayingQueue') = Len(originalPlayingQueue) - 1
              /\ \A x : Copies(originalPlayingQueue, x) =
                            Copies(originalPlayingQueue', x) + (IF song = x THEN 1 ELSE 0)
            BY <1>2, <2>1, <2>6, DeleteFirstCopies
        <3>2. LengthsAgree'
            BY <1>1, <2>2, <3>1 DEF SameSongs, LengthsAgree
        <3>3. ListsHoldSameSongs'
            <4>1. ASSUME NEW x \in Song \ skipped
                  PROVE  Copies(playingQueue', x) = Copies(originalPlayingQueue', x)
                <5>1. Copies(playingQueue, x) = Copies(originalPlayingQueue, x)
                    BY DEF SameSongs, ListsHoldSameSongs
                <5>. QED
                    BY <5>1, <2>2, <2>4, <3>1
            <4>. QED
                BY <1>1, <4>1 DEF ListsHoldSameSongs
        <3>. QED
            BY <3>2, <3>3 DEF SameSongs
    <2>7. CASE ~ \E i \in DOMAIN originalPlayingQueue : originalPlayingQueue[i] = song
        <3>1. originalPlayingQueue' = originalPlayingQueue
            BY <2>1, <2>7 DEF DeleteFirst
        <3>2. Copies(originalPlayingQueue, song) = 0
            <4>1. ~ (Copies(originalPlayingQueue, song) > 0)
                BY <1>2, <2>7, CopiesType
            <4>. QED
                BY <2>4, <4>1
        <3>3. Copies(playingQueue, song) # 0
            BY <2>2, <2>4
        <3>4. song \in skipped
            BY <2>5, <3>2, <3>3 DEF SameSongs, ListsHoldSameSongs
        <3>5. ASSUME NEW x \in Song \ skipped
              PROVE  Copies(playingQueue', x) = Copies(originalPlayingQueue', x)
            <4>1. Copies(playingQueue, x) = Copies(originalPlayingQueue, x) /\ song # x
                BY <3>4 DEF SameSongs, ListsHoldSameSongs
            <4>2. Copies(playingQueue, x) = Copies(playingQueue', x) + 0
                BY <4>1, <2>2
            <4>. QED
                BY <2>4, <3>1, <4>1, <4>2
        <3>. QED
            BY <1>1, <3>4, <3>5 DEF SameSongs, ListsHoldSameSongs, LengthsAgree
    <2>. QED
        BY <2>6, <2>7
<1>. QED
    BY <1>3, <1>4
(* Every copy that both loops delete is gone from both lists, and the song *)
(* whose copy one of them leaves is skipped.                               *)
LEMMA LoopDeleteCopies ==
    ASSUME NEW S, NEW list \in Seq(S), NEW song
    PROVE  /\ \A x : x # song => Copies(LoopDelete(list, song), x) = Copies(list, x)
           /\ song \notin ToSet(LoopDelete(list, song)) =>
                 /\ Copies(LoopDelete(list, song), song) = 0
                 /\ Len(LoopDelete(list, song)) = Len(list) - Copies(list, song)
<1> DEFINE D == LoopDeletes(list, song)
           K == DOMAIN list \ D
           rest == LoopDelete(list, song)
<1>1. DOMAIN list = 1 .. Len(list) /\ Len(list) \in Nat
    BY LenProperties
<1>2. rest = Keep(list, K) /\ K \in SUBSET DOMAIN list
    BY DEF LoopDelete
<1>3. \A i \in D : i \in DOMAIN list /\ list[i] = song
    BY DEF LoopDeletes
<1>4. rest \in Seq(S) /\ Len(rest) = Cardinality(K)
    BY <1>2, KeepType
<1>5. ASSUME NEW x, x # song PROVE Copies(rest, x) = Copies(list, x)
    <2>1. \A i \in DOMAIN list : list[i] = x => i \in K
        BY <1>3, <1>5
    <2> HIDE DEF K, rest
    <2>. QED
        BY <1>2, <2>1, KeepCopies
<1>6. ASSUME song \notin ToSet(rest)
      PROVE  Copies(rest, song) = 0 /\ Len(rest) = Len(list) - Copies(list, song)
    <2>1. \A i \in DOMAIN rest : rest[i] # song
        BY <1>6 DEF ToSet
    <2>2. Copies(rest, song) \in Nat /\ ~ (Copies(rest, song) > 0)
        <3> HIDE DEF rest
        <3>. QED
            BY <1>4, <2>1, CopiesType
    <2>3. \A i \in DOMAIN list : list[i] = song => i \in D
        <3> SUFFICES ASSUME NEW i \in K, list[i] = song PROVE FALSE
            OBVIOUS
        <3>1. Rank(K, i) \in DOMAIN rest /\ rest[Rank(K, i)] = song
            <4> HIDE DEF K, rest
            <4>. QED
                BY <1>2, KeepEntry
        <3>. QED
            BY <2>1, <3>1
    <2>4. D = { i \in DOMAIN list : list[i] = song }
        BY <1>3, <2>3
    <2>5. IsFiniteSet(D) /\ Cardinality(D) = Copies(list, song) /\ Cardinality(D) \in Nat
        <3> HIDE DEF D
        <3>. QED
            BY <2>4, CopiesType DEF Copies
    <2>6. IsFiniteSet(K) /\ Cardinality(K) \in Nat
        <3>1. K \in SUBSET (1 .. Len(list))
            BY <1>1
        <3> HIDE DEF K
        <3>. QED
            BY <1>1, <3>1, PositionsFinite
    <2>7. K \cup D = 1 .. Len(list) /\ K \cap D = {}
        BY <1>1, <1>3
    <2>8. Cardinality(1 .. Len(list)) = Len(list)
        BY <1>1, FS_Interval
    <2> HIDE DEF K, D, rest
    <2>9. Cardinality(K \cup D) = Cardinality(K) + Cardinality(D) - Cardinality(K \cap D)
        BY <2>5, <2>6, FS_Union
    <2>10. Cardinality(K \cap D) = 0
        BY <2>7, FS_EmptySet
    <2>11. Cardinality(K) = Len(list) - Copies(list, song)
        <3>1. Cardinality(K \cup D) = Len(list)
            BY <2>7, <2>8
        <3>. QED
            BY <2>5, <2>6, <2>9, <2>10, <3>1
    <2>12. Copies(rest, song) = 0
        BY <2>2
    <2>. QED
        BY <1>4, <2>11, <2>12
<1>. QED
    BY <1>5, <1>6

LEMMA SameSongsRemoveSong ==
    ASSUME TypeOK, SameSongs, NEW song \in Song, RemoveSong(song)
    PROVE  SameSongs'
<1> DEFINE rest == LoopDelete(playingQueue, song)
           restOriginal == LoopDelete(originalPlayingQueue, song)
<1>1. /\ playingQueue' = rest /\ originalPlayingQueue' = restOriginal
      /\ skipped' = IF song \in ToSet(rest) \cup ToSet(restOriginal)
                    THEN skipped \cup {song} ELSE skipped
    BY DEF RemoveSong
<1>2. /\ \A x : x # song => Copies(rest, x) = Copies(playingQueue, x)
      /\ song \notin ToSet(rest) => /\ Copies(rest, song) = 0
                                    /\ Len(rest) = Len(playingQueue) - Copies(playingQueue, song)
    BY LoopDeleteCopies DEF TypeOK
<1>3. /\ \A x : x # song => Copies(restOriginal, x) = Copies(originalPlayingQueue, x)
      /\ song \notin ToSet(restOriginal) =>
            /\ Copies(restOriginal, song) = 0
            /\ Len(restOriginal) = Len(originalPlayingQueue) - Copies(originalPlayingQueue, song)
    BY LoopDeleteCopies DEF TypeOK
<1> HIDE DEF rest, restOriginal
<1>4. ListsHoldSameSongs'
    <2> SUFFICES ASSUME NEW x \in Song \ skipped'
                 PROVE  Copies(rest, x) = Copies(restOriginal, x)
        BY <1>1 DEF ListsHoldSameSongs
    <2>1. CASE x = song
        BY <1>1, <1>2, <1>3, <2>1
    <2>2. CASE x # song
        <3>1. x \notin skipped
            BY <1>1
        <3>. QED
            BY <1>2, <1>3, <2>2, <3>1 DEF SameSongs, ListsHoldSameSongs
    <2>. QED
        BY <2>1, <2>2
<1>5. LengthsAgree'
    <2> SUFFICES ASSUME skipped' = {} PROVE Len(rest) = Len(restOriginal)
        BY <1>1 DEF LengthsAgree
    <2>1. song \notin ToSet(rest) /\ song \notin ToSet(restOriginal) /\ skipped = {}
        BY <1>1
    <2>2. Copies(playingQueue, song) = Copies(originalPlayingQueue, song)
        BY <2>1 DEF SameSongs, ListsHoldSameSongs
    <2>. QED
        BY <1>2, <1>3, <2>1, <2>2 DEF SameSongs, LengthsAgree
<1>. QED
    BY <1>4, <1>5 DEF SameSongs

LEMMA SameSongsMoveSong ==
    ASSUME TypeOK, UnshuffledListsAgree, SameSongs, NEW from, NEW to, MoveSong(from, to)
    PROVE  SameSongs'
<1>1. /\ from \in Positions(playingQueue) /\ to \in Positions(playingQueue)
      /\ playingQueue' = Move(playingQueue, from, to) /\ UNCHANGED skipped
      /\ originalPlayingQueue' = IF shuffleMode = "NONE"
                                 THEN Move(originalPlayingQueue, from, to)
                                 ELSE originalPlayingQueue
    BY DEF MoveSong
<1>2. CASE shuffleMode = "NONE"
    <2>1. playingQueue' = originalPlayingQueue'
        BY <1>1, <1>2 DEF UnshuffledListsAgree
    <2>. QED
        BY <2>1 DEF SameSongs, ListsHoldSameSongs, LengthsAgree
<1>3. CASE shuffleMode # "NONE"
    <2>1. /\ Len(playingQueue') = Len(playingQueue)
          /\ \A x : Copies(playingQueue', x) = Copies(playingQueue, x)
        BY <1>1, MoveEntry DEF TypeOK
    <2>2. UNCHANGED originalPlayingQueue
        BY <1>1, <1>3
    <2>. QED
        BY <1>1, <2>1, <2>2 DEF SameSongs, ListsHoldSameSongs, LengthsAgree
<1>. QED
    BY <1>2, <1>3

LEMMA SameSongsNext ==
    TypeOK /\ UnshuffledListsAgree /\ SameSongs /\ [Next]_vars => SameSongs'
<1> SUFFICES ASSUME TypeOK, UnshuffledListsAgree, SameSongs, [Next]_vars PROVE SameSongs'
    OBVIOUS
<1>1. CASE ClearQueue
    <2>1. playingQueue' = originalPlayingQueue'
        BY <1>1 DEF ClearQueue
    <2>. QED
        BY <2>1 DEF SameSongs, ListsHoldSameSongs, LengthsAgree
<1>2. CASE \/ \E p \in 0 .. MaxLen, play \in BOOLEAN : PlaySongAt(p, play)
           \/ PlayNextSong \/ PlayPreviousSong \/ PlayUnopened \/ cycleRepeatMode
    BY <1>2, SameSongsKept
    DEF PlaySongAt, PlayNextSong, PlayPreviousSong, PlayUnopened, Steer, cycleRepeatMode
<1>3. CASE Listener
    BY <1>1, <1>2, <1>3, SameSongsOpenQueue, SameSongsShuffles, SameSongsEnqueue,
       SameSongsPlayNext, SameSongsRemoveAtPosition, SameSongsRemoveSong, SameSongsMoveSong
    DEF Listener
<1>4. CASE Handler
    BY <1>4, SameSongsKept DEF Handler, HandlePosition, HandlePrepareNext,
                               HandleTrackWentToNext, HandleTrackEnded
<1>5. CASE \E kind \in EventKinds : PlayerCallback(kind)
    BY <1>5, SameSongsKept DEF PlayerCallback
<1>6. CASE \E on \in BOOLEAN : GaplessChanged(on)
    BY <1>6, SameSongsKept DEF GaplessChanged
<1>7. CASE UNCHANGED vars
    BY <1>7, SameSongsKept DEF vars
<1>. QED
    BY <1>3, <1>4, <1>5, <1>6, <1>7 DEF Next

LEMMA SameSongsAlways == Spec => []SameSongs
BY SameSongsInit, SameSongsNext, TypeCorrect, UnshuffledAgreement, PTL DEF Spec

(* In every execution both lists hold each song equally often, except songs *)
(* of which removeSong(Song) left a copy.                                   *)
THEOREM SameSongsInBoth == Spec => []ListsHoldSameSongs
<1>1. SameSongs => ListsHoldSameSongs
    BY DEF SameSongs
<1>. QED
    BY <1>1, SameSongsAlways, PTL

-----------------------------------------------------------------------------
(* What a Post does to the messages: those of other kinds stay in their    *)
(* order, the posted one is last.  place gives each its new index.         *)

Others(box, what) == { i \in DOMAIN box : box[i].what # what }

Waits(box, kinds) == \E i \in DOMAIN box : box[i].what \in kinds

PostedAs(box, what, arg, place) ==
    LET posted == Post(box, what, arg) IN
    /\ DOMAIN posted = 1 .. Len(posted) /\ Len(posted) \in Nat \ {0}
    /\ posted[Len(posted)] = [what |-> what, arg |-> arg]
    /\ \A i \in Others(box, what) :
            place[i] \in 1 .. Len(posted) - 1 /\ posted[place[i]] = box[i]
    /\ \A k \in 1 .. Len(posted) - 1 : \E i \in Others(box, what) : place[i] = k
    /\ \A i, j \in Others(box, what) : i < j <=> place[i] < place[j]

LEMMA PostShape ==
    ASSUME NEW box \in Seq(Message), NEW what \in MessageKinds, NEW arg \in Places
    PROVE  \E place : PostedAs(box, what, arg, place)
<1> DEFINE K == Others(box, what)
           place == [i \in K |-> Rank(K, i)]
           kept == Keep(box, K)
           m == [what |-> what, arg |-> arg]
           posted == Post(box, what, arg)
<1>1. DOMAIN box = 1 .. Len(box) /\ Len(box) \in Nat
    BY LenProperties
<1>2. K \in SUBSET (1 .. Len(box)) /\ K \in SUBSET DOMAIN box
    BY <1>1 DEF Others
<1>3. posted = Append(kept, m)
    BY DEF Post, Others
<1>4. m \in Message
    BY DEF Message
<1> HIDE DEF K, kept, m, posted
<1>5. kept \in Seq(Message) /\ Len(kept) = Cardinality(K) /\ Cardinality(K) \in Nat
    BY <1>1, <1>2, KeepType, PositionsFinite DEF kept
<1>6. /\ posted \in Seq(Message) /\ Len(posted) = Len(kept) + 1
      /\ \A i \in 1 .. Len(kept) : posted[i] = kept[i]
      /\ posted[Len(kept) + 1] = m
    BY <1>3, <1>4, <1>5, AppendProperties
<1>7. DOMAIN posted = 1 .. Len(posted) /\ Len(posted) \in Nat \ {0} /\ posted[Len(posted)] = m
    BY <1>5, <1>6, LenProperties
<1>8. ASSUME NEW i \in K PROVE place[i] \in 1 .. Len(posted) - 1 /\ posted[place[i]] = box[i]
    <2>1. place[i] \in 1 .. Cardinality(K)
        BY <1>1, <1>2, NthRank
    <2>2. kept[place[i]] = box[i]
        BY <1>2, KeepEntry DEF kept
    <2>. QED
        BY <1>5, <1>6, <2>1, <2>2
<1>9. ASSUME NEW k \in 1 .. Len(posted) - 1 PROVE \E i \in K : place[i] = k
    <2>1. k \in 1 .. Cardinality(K)
        BY <1>5, <1>6
    <2>2. Nth(K, k) \in K /\ Cardinality({ j \in K : j < Nth(K, k) }) = k - 1
        BY <1>1, <1>2, <2>1, NthExists
    <2>3. Rank(K, Nth(K, k)) = k
        BY <1>5, <2>1, <2>2 DEF Rank
    <2>. QED
        BY <2>2, <2>3
<1>10. ASSUME NEW i \in K, NEW j \in K PROVE i < j <=> place[i] < place[j]
    <2>1. i \in Nat /\ j \in Nat
        BY <1>2
    <2>2. place[i] \in Nat /\ place[j] \in Nat
        BY <1>5, <1>6, <1>8
    <2>3. (i < j => Rank(K, i) < Rank(K, j)) /\ (j < i => Rank(K, j) < Rank(K, i))
        <3>1. /\ Len(box) \in Nat /\ K \in SUBSET (1 .. Len(box))
              /\ i \in K /\ j \in K /\ i \in Int /\ j \in Int
            BY <1>1, <1>2, <2>1
        <3>2. i < j => Rank(K, i) < Rank(K, j)
            BY <3>1, RankIncreases
        <3>3. j < i => Rank(K, j) < Rank(K, i)
            BY <3>1, RankIncreases
        <3>. QED
            BY <3>2, <3>3
    <2>4. place[i] = Rank(K, i) /\ place[j] = Rank(K, j)
        OBVIOUS
    <2>. QED
        BY <2>1, <2>2, <2>3, <2>4
<1> HIDE DEF place
<1>11. PostedAs(box, what, arg, place)
    BY <1>7, <1>8, <1>9, <1>10 DEF PostedAs, K, m, posted
<1>. QED
    BY <1>11

LEMMA PostWaits ==
    ASSUME NEW box \in Seq(Message), NEW what \in MessageKinds, NEW arg \in Places, NEW kinds
    PROVE  /\ what \in kinds => Waits(Post(box, what, arg), kinds)
           /\ what \notin kinds => (Waits(Post(box, what, arg), kinds) <=> Waits(box, kinds))
<1>1. PICK place : PostedAs(box, what, arg, place)
    BY PostShape
<1> DEFINE posted == Post(box, what, arg)
<1>2. /\ DOMAIN posted = 1 .. Len(posted) /\ Len(posted) \in Nat \ {0}
      /\ posted[Len(posted)].what = what
    BY <1>1 DEF PostedAs
<1>3. \A i \in DOMAIN box : box[i].what # what =>
            place[i] \in DOMAIN posted /\ posted[place[i]].what = box[i].what
    BY <1>1 DEF PostedAs, Others
<1>4. ASSUME NEW k \in DOMAIN posted
      PROVE  posted[k].what = what \/ \E i \in DOMAIN box : box[i].what = posted[k].what
    <2>1. k = Len(posted) \/ k \in 1 .. Len(posted) - 1
        BY <1>2
    <2>2. \A l \in 1 .. Len(posted) - 1 : \E i \in DOMAIN box : place[i] = l /\ box[i].what # what
        BY <1>1 DEF PostedAs, Others
    <2>. QED
        BY <1>2, <1>3, <2>1, <2>2
<1>5. Len(posted) \in DOMAIN posted
    BY <1>2
<1> HIDE DEF posted
<1>6. what \in kinds => Waits(posted, kinds)
    BY <1>2, <1>5 DEF Waits
<1>7. what \notin kinds => (Waits(posted, kinds) <=> Waits(box, kinds))
    BY <1>3, <1>4 DEF Waits
<1>. QED
    BY <1>6, <1>7 DEF posted

LEMMA QueueChangedWaits ==
    ASSUME NEW box \in Seq(Message), NEW list, NEW kinds, "PREPARE_NEXT" \notin kinds
    PROVE  Waits(QueueChanged(box, list), kinds) <=> Waits(box, kinds)
<1>1. 0 \in Places /\ "PREPARE_NEXT" \in MessageKinds
    BY DEF Places, MessageKinds
<1>. QED
    BY <1>1, PostWaits DEF QueueChanged, prepareNext

-----------------------------------------------------------------------------
(* An edit that posts no position keeps the current song.                  *)

InQueue(p) == p \in Positions(playingQueue)

LEMMA CurrentSongAt ==
    ASSUME TypeOK, InQueue(position)
    PROVE  /\ position \in Nat /\ position + 1 \in 1 .. Len(playingQueue)
           /\ CurrentSong = playingQueue[position + 1] /\ CurrentSong \in Song
<1>1. position \in Nat /\ position + 1 \in 1 .. Len(playingQueue)
    BY LenProperties DEF InQueue, Positions, TypeOK
<1>2. playingQueue[position + 1] \in Song
    BY <1>1, ElementOfSeq DEF TypeOK
<1>. QED
    BY <1>1, <1>2 DEF InQueue, CurrentSong, getSongAt

LEMMA NextCurrentSong ==
    ASSUME playingQueue' \in Seq(Song), position' \in Nat,
           position' + 1 \in 1 .. Len(playingQueue')
    PROVE  /\ InQueue(position)' /\ CurrentSong' = playingQueue'[position' + 1]
<1>1. Len(playingQueue') \in Nat
    BY LenProperties
<1>. QED
    BY <1>1 DEF CurrentSong, getSongAt, Positions, InQueue

LEMMA KeepsOnShuffle ==
    ASSUME TypeOK, SameSongs, InQueue(position), CurrentSong \notin skipped,
           NEW mode, setShuffleMode(mode)
    PROVE  CurrentSong' = CurrentSong /\ InQueue(position)'
<1>1. /\ position \in Nat /\ position + 1 \in 1 .. Len(playingQueue)
      /\ CurrentSong = playingQueue[position + 1] /\ CurrentSong \in Song
    BY CurrentSongAt
<1>2. playingQueue \in Seq(Song) /\ originalPlayingQueue \in Seq(Song)
    BY DEF TypeOK
<1>3. CASE ShuffleOn
    <2>1. playingQueue' \in Shuffles(playingQueue, position) /\ position' = 0
        BY <1>3 DEF ShuffleOn
    <2>2. playingQueue # <<>> /\ Len(playingQueue) \in Nat /\ Len(playingQueue) > 0
        BY <1>1, <1>2, EmptySeq, LenProperties
    <2>3. playingQueue' \in Seq(Song)
        BY <1>2, <2>1, ShufflesType
    <2>4. Len(playingQueue') = Len(playingQueue) /\ playingQueue'[1] = playingQueue[position + 1]
        BY <1>1, <1>2, <2>1, <2>2, ShufflesCopies
    <2>. QED
        BY <1>1, <2>1, <2>2, <2>3, <2>4, NextCurrentSong
<1>4. CASE ShuffleOff
    <2>1. playingQueue' = originalPlayingQueue
        BY <1>4 DEF ShuffleOff
    <2>2. Copies(playingQueue, CurrentSong) > 0
        BY <1>1, <1>2, CopiesType, LenProperties
    <2>3. Copies(originalPlayingQueue, CurrentSong) > 0
        BY <1>1, <2>2 DEF SameSongs, ListsHoldSameSongs
    <2>4. \E i \in DOMAIN originalPlayingQueue : originalPlayingQueue[i] = CurrentSong
        BY <1>2, <2>3, CopiesType
    <2>5. position' = IndexOf(originalPlayingQueue, CurrentSong)
        BY <1>4, <2>4 DEF ShuffleOff
    <2>6. /\ position' \in Positions(originalPlayingQueue)
          /\ originalPlayingQueue[position' + 1] = CurrentSong
        BY <1>2, <2>4, <2>5, IndexOfFound
    <2>7. position' \in Nat /\ position' + 1 \in 1 .. Len(originalPlayingQueue)
        <3>1. \A p \in Positions(originalPlayingQueue) :
                p \in Nat /\ p + 1 \in 1 .. Len(originalPlayingQueue)
            BY <1>2, LenProperties DEF Positions
        <3>. QED
            BY <2>6, <3>1
    <2>. QED
        BY <1>2, <2>1, <2>6, <2>7, NextCurrentSong
<1>. QED
    BY <1>3, <1>4 DEF setShuffleMode

LEMMA KeepsOnEnqueue ==
    ASSUME TypeOK, InQueue(position), NEW songs \in Selections, Enqueue(songs)
    PROVE  CurrentSong' = CurrentSong /\ InQueue(position)'
<1>1. /\ position \in Nat /\ position + 1 \in 1 .. Len(playingQueue)
      /\ CurrentSong = playingQueue[position + 1]
    BY CurrentSongAt
<1>2. playingQueue \in Seq(Song) /\ songs \in Seq(Song)
    BY SelectionsAssumption DEF TypeOK
<1>3. playingQueue' = playingQueue \o songs /\ position' = position
    BY DEF Enqueue
<1>4. /\ playingQueue \o songs \in Seq(Song)
      /\ Len(playingQueue \o songs) = Len(playingQueue) + Len(songs)
      /\ \A i \in 1 .. Len(playingQueue) + Len(songs) :
            i <= Len(playingQueue) => (playingQueue \o songs)[i] = playingQueue[i]
    BY <1>2, ConcatEntry
<1>5. Len(playingQueue) \in Nat /\ Len(songs) \in Nat
    BY <1>2, LenProperties
<1>6. position + 1 \in 1 .. Len(playingQueue) + Len(songs) /\ position + 1 <= Len(playingQueue)
    BY <1>1, <1>5
<1>7. playingQueue'[position' + 1] = CurrentSong
    BY <1>1, <1>3, <1>4, <1>6
<1>. QED
    BY <1>1, <1>3, <1>4, <1>6, <1>7, NextCurrentSong

LEMMA KeepsOnPlayNext ==
    ASSUME TypeOK, InQueue(position), NEW songs \in Selections, PlayNext(songs),
           ~ Throw("addSong")
    PROVE  CurrentSong' = CurrentSong /\ InQueue(position)'
<1>1. /\ position \in Nat /\ position + 1 \in 1 .. Len(playingQueue)
      /\ CurrentSong = playingQueue[position + 1]
    BY CurrentSongAt
<1>2. /\ songs \in Seq(Song) /\ position + 1 \in 0 .. Len(playingQueue)
      /\ playingQueue' = InsertAll(playingQueue, position + 1, songs) /\ position' = position
    BY PlayNextLists
<1>3. playingQueue \in Seq(Song)
    BY DEF TypeOK
<1>4. /\ Len(playingQueue') = Len(playingQueue) + Len(songs)
      /\ \A i \in 1 .. Len(playingQueue) + Len(songs) :
            playingQueue'[i] = IF i <= position + 1 THEN playingQueue[i]
                               ELSE IF i <= position + 1 + Len(songs)
                                    THEN songs[i - (position + 1)]
                               ELSE playingQueue[i - Len(songs)]
    BY <1>2, <1>3, InsertAllEntry
<1>5. playingQueue' \in Seq(Song)
    BY <1>2, <1>3, InsertAllType
<1>6. position + 1 \in 1 .. Len(playingQueue) + Len(songs)
    BY <1>1, <1>2, <1>3, LenProperties
<1>7. position + 1 <= position + 1
    BY <1>1
<1>8. playingQueue'[position' + 1] = CurrentSong
    BY <1>1, <1>2, <1>4, <1>6, <1>7
<1>. QED
    BY <1>1, <1>2, <1>4, <1>5, <1>6, <1>8, NextCurrentSong

LEMMA KeepsOnRemoveAtPosition ==
    ASSUME TypeOK, InQueue(position), NEW p, RemoveAtPosition(p), p # position
    PROVE  CurrentSong' = CurrentSong /\ InQueue(position)'
<1>1. /\ position \in Nat /\ position + 1 \in 1 .. Len(playingQueue)
      /\ CurrentSong = playingQueue[position + 1]
    BY CurrentSongAt
<1>2. /\ p \in Positions(playingQueue)
      /\ playingQueue' = Delete(playingQueue, p)
      /\ position' = IF p < position THEN position - 1 ELSE position
    BY DEF RemoveAtPosition, rePosition, shifted
<1>3. playingQueue \in Seq(Song)
    BY DEF TypeOK
<1>4. p \in Nat /\ p < Len(playingQueue) /\ Len(playingQueue) \in Nat
    BY <1>2, <1>3, PositionIsPlace, LenProperties
<1>5. /\ playingQueue' \in Seq(Song) /\ Len(playingQueue') = Len(playingQueue) - 1
      /\ \A i \in 1 .. Len(playingQueue) - 1 :
            playingQueue'[i] = IF i <= p THEN playingQueue[i] ELSE playingQueue[i + 1]
    BY <1>2, <1>3, DeleteType, DeleteEntry
<1>6. CASE p < position
    <2>1. /\ position' = position - 1 /\ position' + 1 = position /\ ~ (position <= p)
          /\ position \in 1 .. Len(playingQueue) - 1
        BY <1>1, <1>2, <1>4, <1>6
    <2>2. playingQueue'[position' + 1] = CurrentSong
        BY <1>1, <1>5, <2>1
    <2>. QED
        BY <1>1, <1>5, <1>6, <2>1, <2>2, NextCurrentSong
<1>7. CASE position < p
    <2>1. /\ position' = position /\ position + 1 <= p
          /\ position + 1 \in 1 .. Len(playingQueue) - 1
        BY <1>1, <1>2, <1>4, <1>7
    <2>2. playingQueue'[position' + 1] = CurrentSong
        BY <1>1, <1>5, <2>1
    <2>. QED
        BY <1>1, <1>5, <2>1, <2>2, NextCurrentSong
<1>8. p < position \/ position < p
    BY <1>1, <1>4
<1>. QED
    BY <1>6, <1>7, <1>8

LEMMA KeepsOnRemoveSong ==
    ASSUME TypeOK, InQueue(position), NEW song \in Song, RemoveSong(song),
           position + 1 \notin LoopDeletes(playingQueue, song)
    PROVE  CurrentSong' = CurrentSong /\ InQueue(position)'
<1>1. /\ position \in Nat /\ position + 1 \in 1 .. Len(playingQueue)
      /\ CurrentSong = playingQueue[position + 1]
    BY CurrentSongAt
<1>2. playingQueue \in Seq(Song) /\ DOMAIN playingQueue = 1 .. Len(playingQueue)
    BY LenProperties DEF TypeOK
<1>3. /\ playingQueue' = LoopDelete(playingQueue, song)
      /\ position' =
            position - Cardinality({ i \in LoopDeletes(playingQueue, song) : i - 1 < position })
    BY DEF RemoveSong
<1>4. playingQueue' \in Seq(Song)
    BY <1>2, <1>3, LoopDeleteType
<1>5. /\ position' \in Nat /\ position' + 1 \in 1 .. Len(playingQueue')
      /\ playingQueue'[position' + 1] = CurrentSong
    BY <1>1, <1>2, <1>3, KeptEntry
<1>. QED
    BY <1>4, <1>5, NextCurrentSong

LEMMA KeepsOnMoveSong ==
    ASSUME TypeOK, InQueue(position), NEW from, NEW to, MoveSong(from, to)
    PROVE  CurrentSong' = CurrentSong /\ InQueue(position)'
<1>1. /\ position \in Nat /\ position + 1 \in 1 .. Len(playingQueue)
      /\ CurrentSong = playingQueue[position + 1]
    BY CurrentSongAt
<1>2. /\ from \in Positions(playingQueue) /\ to \in Positions(playingQueue)
      /\ playingQueue' = Move(playingQueue, from, to)
      /\ position' = movedPosition(from, to)
    BY DEF MoveSong
<1>3. playingQueue \in Seq(Song) /\ Len(playingQueue) \in Nat
    BY LenProperties DEF TypeOK
<1>4. /\ from \in Nat /\ from < Len(playingQueue) /\ to \in Nat /\ to < Len(playingQueue)
    BY <1>2, <1>3, PositionIsPlace
<1>5. playingQueue' \in Seq(Song)
    BY <1>2, <1>3, MoveType
<1>6. /\ Len(playingQueue') = Len(playingQueue)
      /\ \A i \in 1 .. Len(playingQueue) :
            playingQueue'[i] =
                IF i <= to THEN (IF i <= from THEN playingQueue[i] ELSE playingQueue[i + 1])
                ELSE IF i = to + 1 THEN playingQueue[from + 1]
                ELSE (IF i - 1 <= from THEN playingQueue[i - 1] ELSE playingQueue[i])
    BY <1>2, <1>3, MoveEntry
<1>7. position' \in Nat /\ position' + 1 \in 1 .. Len(playingQueue)
    BY <1>1, <1>2, <1>3, <1>4 DEF movedPosition
<1>8. playingQueue'[position' + 1] = playingQueue[position + 1]
    <2>1. CASE from > position /\ to <= position
        <3>1. /\ position' = position + 1 /\ ~ (position' + 1 <= to) /\ position' + 1 # to + 1
              /\ (position' + 1) - 1 <= from /\ (position' + 1) - 1 = position + 1
            BY <1>1, <1>2, <1>4, <2>1 DEF movedPosition
        <3>. QED
            BY <1>6, <1>7, <3>1
    <2>2. CASE from < position /\ to >= position
        <3>1. /\ position' = position - 1 /\ position' + 1 <= to /\ ~ (position' + 1 <= from)
              /\ (position' + 1) + 1 = position + 1
            BY <1>1, <1>2, <1>4, <2>2 DEF movedPosition
        <3>. QED
            BY <1>6, <1>7, <3>1
    <2>3. CASE from = position
        <3>1. position' = to /\ ~ (position' + 1 <= to)
            BY <1>1, <1>2, <1>4, <2>3 DEF movedPosition
        <3>. QED
            BY <1>6, <1>7, <2>3, <3>1
    <2>4. CASE /\ ~ (from > position /\ to <= position)
               /\ ~ (from < position /\ to >= position)
               /\ from # position
        <3>1. position' = position
            BY <1>1, <1>2, <1>4, <2>4 DEF movedPosition
        <3>2. \/ position + 1 <= to /\ position + 1 <= from
              \/ /\ ~ (position + 1 <= to) /\ position + 1 # to + 1
                 /\ ~ ((position + 1) - 1 <= from)
            BY <1>1, <1>4, <2>4
        <3>. QED
            BY <1>6, <1>7, <3>1, <3>2
    <2>. QED
        BY <2>1, <2>2, <2>3, <2>4
<1>. QED
    BY <1>1, <1>5, <1>6, <1>7, <1>8, NextCurrentSong

(* The edits that change the queue and post no position leave the current  *)
(* song current.                                                           *)
LEMMA EditsKeepStep ==
    ASSUME TypeOK, SameSongs, [Next]_vars,
           playingQueue' # playingQueue, InQueue(position), CurrentSong \notin skipped,
           ~ Pending(PositionKinds)'
    PROVE  CurrentSong' = CurrentSong
<1>1. inbox \in Seq(Message) /\ position \in Nat /\ Len(playingQueue) \in Nat
    BY CurrentSongAt, LenProperties DEF TypeOK
<1>2. ~ Waits(inbox', PositionKinds)
    BY DEF Pending, Waits
<1>3. "PREPARE_NEXT" \notin PositionKinds
    BY DEF PositionKinds
<1>4. ASSUME NEW kind \in PositionKinds, NEW arg \in Places, NEW list,
             inbox' = QueueChanged(Post(inbox, kind, arg), list)
      PROVE  FALSE
    <2>1. kind \in MessageKinds
        BY DEF MessageKinds
    <2>2. Post(inbox, kind, arg) \in Seq(Message) /\ Waits(Post(inbox, kind, arg), PositionKinds)
        BY <1>1, <2>1, PostType, PostWaits
    <2>. QED
        BY <1>2, <1>3, <1>4, <2>2, QueueChangedWaits
<1>5. CASE \E songs \in Selections, start \in 0 .. MaxLen, play, remember, all \in BOOLEAN :
                OpenQueue(songs, start, play, remember, all)
    <2>1. PICK songs \in Selections, start \in 0 .. MaxLen, play \in BOOLEAN :
            \E remember, all \in BOOLEAN : OpenQueue(songs, start, play, remember, all)
        BY <1>5
    <2>2. start \in Nat /\ openedPosition(start) \in Places
        <3>1. start \in 0 .. MaxLen
            BY <2>1
        <3>. QED
            BY <3>1, BoundsAssumption DEF openedPosition, Places
    <2> DEFINE kind == IF play THEN "PLAY_SONG" ELSE "SET_POSITION"
    <2>3. kind \in PositionKinds
        BY DEF PositionKinds
    <2>4. inbox' = QueueChanged(Post(inbox, kind, openedPosition(start)), songs)
        BY <2>1 DEF OpenQueue
    <2> HIDE DEF kind
    <2>. QED
        BY <1>4, <2>2, <2>3, <2>4
<1>6. CASE ContinueCall \/ toggleShuffle
    BY <1>6, KeepsOnShuffle DEF ContinueCall, toggleShuffle, Throw, lists
<1>7. CASE \E songs \in Selections : Enqueue(songs) \/ PlayNext(songs)
    BY <1>7, KeepsOnEnqueue, KeepsOnPlayNext DEF Throw, lists
<1>8. CASE \E p \in 0 .. MaxLen : RemoveAtPosition(p)
    <2>1. PICK p \in 0 .. MaxLen : RemoveAtPosition(p)
        BY <1>8
    <2>2. CASE p = position
        <3>1. /\ inbox' = QueueChanged(Post(inbox, "SET_POSITION", steppedBack(p, playingQueue')),
                                       playingQueue')
              /\ steppedBack(p, playingQueue') \in {position, position - 1}
            BY <2>1, <2>2 DEF RemoveAtPosition, rePosition, steppedBack
        <3>2. steppedBack(p, playingQueue') \in Places /\ "SET_POSITION" \in PositionKinds
            BY <1>1, <3>1 DEF Places, PositionKinds
        <3>. QED
            BY <1>4, <3>1, <3>2
    <2>. QED
        BY <2>1, <2>2, KeepsOnRemoveAtPosition
<1>9. CASE \E song \in Song : RemoveSong(song)
    <2>1. PICK song \in Song : RemoveSong(song)
        BY <1>9
    <2>2. CASE position + 1 \in LoopDeletes(playingQueue, song)
        <3> DEFINE arg == IF position < size - 1 THEN position' ELSE position' - 1
                   rest == LoopDelete(playingQueue, song)
        <3>1. inbox' = QueueChanged(Post(inbox, "SET_POSITION", arg), rest)
            BY <2>1, <2>2 DEF RemoveSong
        <3>2. arg \in Places
            <4>1. position' = position - Cardinality({ i \in LoopDeletes(playingQueue, song) :
                                                            i - 1 < position })
                BY <2>1 DEF RemoveSong
            <4>2. position' \in Nat
                BY <1>1, <2>2, <4>1, DeletedEntry DEF TypeOK
            <4>3. \A p \in Nat : p \in Places /\ p - 1 \in Places
                BY DEF Places
            <4>. QED
                BY <4>2, <4>3
        <3>. QED
            BY <1>4, <3>1, <3>2 DEF PositionKinds
    <2>. QED
        BY <2>1, <2>2, KeepsOnRemoveSong
<1>10. CASE \E from, to \in 0 .. MaxLen : MoveSong(from, to)
    BY <1>10, KeepsOnMoveSong
<1>11. CASE ClearQueue
    <2>1. inbox' = Post(inbox, "SET_POSITION", -1) /\ -1 \in Places
        BY <1>11 DEF ClearQueue, Places
    <2>. QED
        BY <1>1, <1>2, <2>1, PostWaits DEF PositionKinds, MessageKinds
<1>12. ASSUME UNCHANGED playingQueue PROVE FALSE
    BY <1>12
<1>13. CASE \/ \E p \in 0 .. MaxLen, play \in BOOLEAN : PlaySongAt(p, play)
            \/ PlayNextSong \/ PlayPreviousSong \/ PlayUnopened \/ cycleRepeatMode
    BY <1>12, <1>13
    DEF PlaySongAt, PlayNextSong, PlayPreviousSong, PlayUnopened, Steer, cycleRepeatMode, lists
<1>14. CASE Listener
    BY <1>5, <1>6, <1>7, <1>8, <1>9, <1>10, <1>11, <1>13, <1>14 DEF Listener
<1>15. CASE Handler
    BY <1>12, <1>15 DEF Handler, HandlePosition, HandlePrepareNext,
                        HandleTrackWentToNext, HandleTrackEnded, lists
<1>16. CASE \E kind \in EventKinds : PlayerCallback(kind)
    BY <1>12, <1>16 DEF PlayerCallback, lists
<1>17. CASE \E on \in BOOLEAN : GaplessChanged(on)
    BY <1>12, <1>17 DEF GaplessChanged, lists
<1>18. CASE UNCHANGED vars
    BY <1>12, <1>18 DEF vars, lists
<1>. QED
    BY <1>14, <1>15, <1>16, <1>17, <1>18 DEF Next

(* In every execution, an edit that posts no position keeps the current    *)
(* song, provided its position is one of the queue and no copy of it was    *)
(* left in one list only.                                                  *)
THEOREM EditsKeepTheCurrentSong == Spec => EditsKeepCurrentSong
<1>1. TypeOK /\ SameSongs /\ [Next]_vars =>
        [/\ playingQueue' # playingQueue
         /\ position \in Positions(playingQueue) /\ CurrentSong \notin skipped
         /\ ~ Pending(PositionKinds)'
         => CurrentSong' = CurrentSong]_vars
    BY EditsKeepStep DEF InQueue
<1>. QED
    BY <1>1, TypeCorrect, SameSongsAlways, PTL DEF Spec, EditsKeepCurrentSong

-----------------------------------------------------------------------------
(* Positions settle in the queue.                                          *)
(*                                                                         *)
(* RightFrom says from which point on the handler only sees positions of a *)
(* queue of n entries: from the waiting message b, or, if b is 0, from the *)
(* current position.  The end of a track computes a position, so it must   *)
(* not be waiting before that point; a switch to the next track installs    *)
(* nextPosition, so it may wait only where a position installed later        *)
(* replaces it (before b), or, with nothing to replace it, where             *)
(* nextPosition is right or is made right by a PREPARE_NEXT before it, and  *)
(* no waiting position comes before it.                                     *)

NextReady(box, n, next, i) ==
    \/ next \in 0 .. n - 1
    \/ \E j \in DOMAIN box : j < i /\ box[j].what = "PREPARE_NEXT"

RightFrom(box, n, p, next, b) ==
    /\ b = 0 => p \in 0 .. n - 1
    /\ b > 0 => box[b].what \in PositionKinds
    /\ \A i \in DOMAIN box :
            i >= b /\ box[i].what \in PositionKinds => box[i].arg \in 0 .. n - 1
    /\ \A i \in DOMAIN box : box[i].what = "TRACK_ENDED" => b < i
    /\ \A i \in DOMAIN box : box[i].what = "TRACK_WENT_TO_NEXT" =>
            \/ b > 0 /\ i < b
            \/ /\ b = 0 /\ NextReady(box, n, next, i)
               /\ \A j \in DOMAIN box : j < i => box[j].what \notin PositionKinds

(* A gapless player may switch at any time, so nextPosition must be right by *)
(* the time the waiting messages are handled.                               *)
Settles(box, n, p, next, track) ==
    /\ \E b \in 0 .. Len(box) : RightFrom(box, n, p, next, b)
    /\ track = "gapless" /\ ~ Waits(box, PositionKinds) => NextReady(box, n, next, Len(box) + 1)

RangeInv ==
    Running /\ ~ ranAhead /\ playingQueue # <<>> =>
        Settles(inbox, Len(playingQueue), position, nextPosition, player)

(* Only PREPARE_NEXT is waiting: the position itself is right.             *)
Quiet(box) == \A i \in DOMAIN box : box[i].what = "PREPARE_NEXT"

LEMMA QuietRight ==
    ASSUME NEW box, Quiet(box), NEW n \in Nat, NEW p \in 0 .. n - 1, NEW next
    PROVE  RightFrom(box, n, p, next, 0)
BY DEF Quiet, RightFrom, PositionKinds

LEMMA QuietPosition ==
    ASSUME NEW box \in Seq(Message), Quiet(box), NEW n, NEW p, NEW next, NEW track,
           Settles(box, n, p, next, track)
    PROVE  p \in 0 .. n - 1
<1>1. PICK b \in 0 .. Len(box) : RightFrom(box, n, p, next, b)
    BY DEF Settles
<1>2. DOMAIN box = 1 .. Len(box) /\ Len(box) \in Nat
    BY LenProperties
<1>3. b = 0
    <2>1. b \in DOMAIN box => box[b].what = "PREPARE_NEXT"
        BY DEF Quiet
    <2>2. b # 0 => b \in DOMAIN box /\ b > 0
        BY <1>2
    <2>. QED
        BY <1>1, <2>1, <2>2 DEF RightFrom, PositionKinds
<1>. QED
    BY <1>1, <1>3 DEF RightFrom

(* A longer queue has the positions of a shorter one. *)
LEMMA RightInLonger ==
    ASSUME NEW box \in Seq(Message), NEW m \in Nat, NEW n \in Nat, m <= n, NEW p, NEW next, NEW b,
           RightFrom(box, m, p, next, b)
    PROVE  RightFrom(box, n, p, next, b)
<1>1. \A x \in 0 .. m - 1 : x \in 0 .. n - 1
    OBVIOUS
<1>. QED
    BY <1>1 DEF RightFrom, NextReady

(* Posting PREPARE_NEXT again, when nothing waits for the one it replaces. *)
LEMMA PrepareSettles ==
    ASSUME NEW box \in Seq(Message), NEW n, NEW p, NEW next, NEW b \in 0 .. Len(box),
           RightFrom(box, n, p, next, b),
           b > 0 \/ ~ Waits(box, {"TRACK_WENT_TO_NEXT"}),
           NEW new, NEW track
    PROVE  Settles(prepareNext(box), n, p, new, track)
<1> DEFINE posted == prepareNext(box)
<1>1. PICK place : PostedAs(box, "PREPARE_NEXT", 0, place)
    BY PostShape DEF MessageKinds, Places
<1>2. DOMAIN box = 1 .. Len(box) /\ Len(box) \in Nat
    BY LenProperties
<1>3. /\ DOMAIN posted = 1 .. Len(posted) /\ Len(posted) \in Nat /\ Len(posted) > 0
      /\ posted[Len(posted)].what = "PREPARE_NEXT"
      /\ \A i \in DOMAIN box : box[i].what # "PREPARE_NEXT" =>
            place[i] \in 1 .. Len(posted) - 1 /\ posted[place[i]] = box[i]
      /\ \A k \in 1 .. Len(posted) - 1 :
            \E i \in DOMAIN box : box[i].what # "PREPARE_NEXT" /\ place[i] = k
      /\ \A i, j \in DOMAIN box :
            box[i].what # "PREPARE_NEXT" /\ box[j].what # "PREPARE_NEXT" =>
                (i < j <=> place[i] < place[j])
    BY <1>1 DEF PostedAs, Others, prepareNext
<1> HIDE DEF posted
<1>4. ASSUME NEW k \in DOMAIN posted, posted[k].what # "PREPARE_NEXT"
      PROVE  \E i \in DOMAIN box :
                box[i].what # "PREPARE_NEXT" /\ place[i] = k /\ posted[k] = box[i]
    <2>1. k \in 1 .. Len(posted) - 1
        BY <1>3, <1>4
    <2>. QED
        BY <1>3, <2>1
<1> DEFINE c == IF b = 0 THEN 0 ELSE place[b]
<1>5. b > 0 => b \in DOMAIN box /\ box[b].what \in PositionKinds /\ box[b].what # "PREPARE_NEXT"
    BY <1>2 DEF RightFrom, PositionKinds
<1>6. c \in 0 .. Len(posted) /\ (c > 0 <=> b > 0) /\ (c = 0 <=> b = 0)
    BY <1>2, <1>3, <1>5
<1>7. RightFrom(posted, n, p, new, c)
    <2>1. c = 0 => p \in 0 .. n - 1
        BY <1>6 DEF RightFrom
    <2>2. c > 0 => posted[c].what \in PositionKinds
        BY <1>3, <1>5, <1>6
    <2>3. ASSUME NEW k \in DOMAIN posted, NEW i \in DOMAIN box, box[i].what # "PREPARE_NEXT",
                 place[i] = k
          PROVE  /\ k >= c => i >= b
                 /\ b < i => c < k
                 /\ i < b => k < c
        <3>1. i \in Nat /\ k \in Nat /\ b \in Nat
            BY <1>2, <1>3
        <3>2. b > 0 => (b < i <=> c < k) /\ (i < b <=> k < c) /\ c \in Nat
            BY <1>3, <1>5, <1>6, <2>3
        <3>3. b = 0 => c = 0 /\ i > 0 /\ k > 0
            BY <1>2, <1>3
        <3>. QED
            BY <3>1, <3>2, <3>3
    <2>4. ASSUME NEW k \in DOMAIN posted, k >= c, posted[k].what \in PositionKinds
          PROVE  posted[k].arg \in 0 .. n - 1
        <3>1. posted[k].what # "PREPARE_NEXT"
            BY <2>4 DEF PositionKinds
        <3>. QED
            BY <1>4, <2>3, <2>4, <3>1 DEF RightFrom
    <2>5. ASSUME NEW k \in DOMAIN posted, posted[k].what = "TRACK_ENDED"
          PROVE  c < k
        BY <1>4, <2>3, <2>5 DEF RightFrom
    <2>6. ASSUME NEW k \in DOMAIN posted, posted[k].what = "TRACK_WENT_TO_NEXT"
          PROVE  c > 0 /\ k < c
        <3>1. PICK i \in DOMAIN box : /\ box[i].what # "PREPARE_NEXT" /\ place[i] = k
                                      /\ posted[k] = box[i]
            BY <1>4, <2>6
        <3>2. b > 0
            BY <2>6, <3>1 DEF Waits
        <3>3. i < b
            BY <2>6, <3>1, <3>2 DEF RightFrom
        <3>. QED
            BY <1>6, <2>3, <3>1, <3>2, <3>3
    <2> HIDE DEF c
    <2>. QED
        BY <2>1, <2>2, <2>4, <2>5, <2>6 DEF RightFrom
<1>8. NextReady(posted, n, new, Len(posted) + 1)
    <2>1. Len(posted) \in DOMAIN posted /\ Len(posted) < Len(posted) + 1
        BY <1>3
    <2>. QED
        BY <1>3, <2>1 DEF NextReady
<1> HIDE DEF c
<1>. QED
    BY <1>6, <1>7, <1>8 DEF Settles, posted

(* A posted position settles, unless the end of a track waits to overtake it. *)
LEMMA PostRight ==
    ASSUME NEW box \in Seq(Message), NEW kind \in PositionKinds,
           NEW n \in Nat, NEW arg \in 0 .. n - 1, ~ Waits(box, {"TRACK_ENDED"}),
           NEW p, NEW next
    PROVE  LET posted == Post(box, kind, arg) IN
           /\ posted \in Seq(Message) /\ Len(posted) \in 0 .. Len(posted) /\ Len(posted) > 0
           /\ RightFrom(posted, n, p, next, Len(posted))
           /\ Waits(posted, PositionKinds)
<1> DEFINE posted == Post(box, kind, arg)
<1>1. kind \in MessageKinds /\ arg \in Places
    BY DEF MessageKinds, Places
<1>2. PICK place : PostedAs(box, kind, arg, place)
    BY <1>1, PostShape
<1>3. /\ DOMAIN posted = 1 .. Len(posted) /\ Len(posted) \in Nat /\ Len(posted) > 0
      /\ posted[Len(posted)].what = kind /\ posted[Len(posted)].arg = arg
    BY <1>2 DEF PostedAs
<1>4. posted \in Seq(Message) /\ Waits(posted, PositionKinds)
      /\ ~ Waits(posted, {"TRACK_ENDED"})
    <2>1. posted \in Seq(Message)
        BY <1>1, PostType
    <2>2. Waits(posted, PositionKinds)
        BY <1>1, PostWaits
    <2>3. kind \notin {"TRACK_ENDED"}
        BY DEF PositionKinds
    <2>4. Waits(posted, {"TRACK_ENDED"}) <=> Waits(box, {"TRACK_ENDED"})
        BY <1>1, <2>3, PostWaits
    <2>. QED
        BY <2>1, <2>2, <2>4
<1> HIDE DEF posted
<1>5. RightFrom(posted, n, p, next, Len(posted))
    <2>1. \A i \in DOMAIN posted : posted[i].what # "TRACK_ENDED"
        BY <1>4 DEF Waits
    <2>2. \A i \in DOMAIN posted : i >= Len(posted) => i = Len(posted)
        BY <1>3
    <2>3. \A i \in DOMAIN posted : posted[i].what = "TRACK_WENT_TO_NEXT" => i < Len(posted)
        <3>1. kind # "TRACK_WENT_TO_NEXT"
            BY DEF PositionKinds
        <3>. QED
            BY <1>3, <3>1
    <2>4. Len(posted) # 0
        BY <1>3
    <2>. QED
        BY <1>3, <2>1, <2>2, <2>3, <2>4 DEF RightFrom
<1>. QED
    BY <1>3, <1>4, <1>5 DEF posted

LEMMA PostSettles ==
    ASSUME NEW box \in Seq(Message), NEW kind \in PositionKinds,
           NEW n \in Nat, NEW arg \in 0 .. n - 1, ~ Waits(box, {"TRACK_ENDED"}),
           NEW p, NEW next, NEW track
    PROVE  /\ Settles(Post(box, kind, arg), n, p, next, track)
           /\ Settles(prepareNext(Post(box, kind, arg)), n, p, next, track)
<1> DEFINE posted == Post(box, kind, arg)
<1>1. /\ posted \in Seq(Message) /\ Len(posted) \in 0 .. Len(posted) /\ Len(posted) > 0
      /\ RightFrom(posted, n, p, next, Len(posted))
      /\ Waits(posted, PositionKinds)
    BY PostRight
<1> HIDE DEF posted
<1>2. Settles(posted, n, p, next, track)
    BY <1>1 DEF Settles
<1>3. Settles(prepareNext(posted), n, p, next, track)
    BY <1>1, PrepareSettles
<1>. QED
    BY <1>2, <1>3 DEF posted

LEMMA TailEntry ==
    ASSUME NEW box \in Seq(Message), box # <<>>
    PROVE  /\ Len(box) \in Nat /\ Len(box) > 0 /\ DOMAIN box = 1 .. Len(box)
           /\ Head(box) = box[1] /\ box[1] \in Message
           /\ Tail(box) \in Seq(Message) /\ Len(Tail(box)) = Len(box) - 1
           /\ DOMAIN Tail(box) = 1 .. Len(box) - 1
           /\ \A i \in DOMAIN Tail(box) : i + 1 \in DOMAIN box /\ Tail(box)[i] = box[i + 1]
<1>1. /\ Tail(box) \in Seq(Message) /\ Head(box) \in Message
      /\ Len(Tail(box)) = Len(box) - 1
      /\ \A i \in 1 .. Len(Tail(box)) : Tail(box)[i] = box[i + 1]
    BY HeadTailProperties
<1>2. Len(box) \in Nat /\ DOMAIN box = 1 .. Len(box) /\ Len(box) # 0
    BY LenProperties, EmptySeq
<1>3. DOMAIN Tail(box) = 1 .. Len(Tail(box))
    BY <1>1, LenProperties
<1>. QED
    BY <1>1, <1>2, <1>3

(* A message is handled: what follows stays right, if the handler leaves    *)
(* the position and nextPosition right where the next messages need them.   *)
LEMMA TailRight ==
    ASSUME NEW box \in Seq(Message), box # <<>>, NEW n, NEW p, NEW next,
           NEW b \in 0 .. Len(box), RightFrom(box, n, p, next, b),
           box[1].what = "TRACK_ENDED" => b = 0,
           NEW p2, NEW next2, b \in {0, 1} => p2 \in 0 .. n - 1,
           b = 0 => \/ next2 \in 0 .. n - 1
                    \/ box[1].what \in PositionKinds
                    \/ next2 = next /\ box[1].what = "TRACK_ENDED",
           NEW c, c = IF b = 0 THEN 0 ELSE b - 1
    PROVE  c \in 0 .. Len(Tail(box)) /\ RightFrom(Tail(box), n, p2, next2, c)
<1> DEFINE rest == Tail(box)
<1>1. /\ Len(box) \in Nat /\ Len(box) > 0 /\ DOMAIN box = 1 .. Len(box)
      /\ Len(rest) = Len(box) - 1 /\ DOMAIN rest = 1 .. Len(box) - 1
      /\ \A i \in DOMAIN rest : i + 1 \in DOMAIN box /\ rest[i] = box[i + 1]
    BY TailEntry
<1> HIDE DEF rest
<1>2. /\ c \in 0 .. Len(rest) /\ (c = 0 <=> b \in {0, 1})
      /\ c > 0 => b = c + 1 /\ c \in DOMAIN rest
    BY <1>1
<1>3. c = 0 => p2 \in 0 .. n - 1
    BY <1>2
<1>4. c > 0 => rest[c].what \in PositionKinds
    BY <1>1, <1>2 DEF RightFrom
<1>5. ASSUME NEW i \in DOMAIN rest, i >= c, rest[i].what \in PositionKinds
      PROVE  rest[i].arg \in 0 .. n - 1
    <2>1. i + 1 >= b
        BY <1>1, <1>2, <1>5
    <2>. QED
        BY <1>1, <1>5, <2>1 DEF RightFrom
<1>6. ASSUME NEW i \in DOMAIN rest, rest[i].what = "TRACK_ENDED"
      PROVE  c < i
    <2>1. b < i + 1
        BY <1>1, <1>6 DEF RightFrom
    <2>. QED
        BY <1>1, <1>2, <2>1
<1>7. ASSUME NEW i \in DOMAIN rest, rest[i].what = "TRACK_WENT_TO_NEXT"
      PROVE  \/ c > 0 /\ i < c
             \/ /\ c = 0 /\ NextReady(rest, n, next2, i)
                /\ \A j \in DOMAIN rest : j < i => rest[j].what \notin PositionKinds
    <2>1. i + 1 \in DOMAIN box /\ box[i + 1].what = "TRACK_WENT_TO_NEXT" /\ i \in Nat /\ i > 0
        BY <1>1, <1>7
    <2>2. CASE b > 0
        <3>1. i + 1 < b
            BY <2>1, <2>2 DEF RightFrom
        <3>. QED
            BY <1>1, <1>2, <2>1, <3>1
    <2>3. CASE b = 0
        <3>1. /\ NextReady(box, n, next, i + 1)
              /\ \A j \in DOMAIN box : j < i + 1 => box[j].what \notin PositionKinds
            BY <2>1, <2>3 DEF RightFrom
        <3>2. \A j \in DOMAIN rest : j < i => rest[j].what \notin PositionKinds
            BY <1>1, <2>1, <3>1
        <3>3. box[1].what \notin PositionKinds
            BY <1>1, <2>1, <3>1
        <3>4. NextReady(rest, n, next2, i)
            <4>1. CASE next2 \in 0 .. n - 1
                BY <4>1 DEF NextReady
            <4>2. CASE next2 = next /\ next2 \notin 0 .. n - 1 /\ box[1].what = "TRACK_ENDED"
                <5>1. PICK j \in DOMAIN box : j < i + 1 /\ box[j].what = "PREPARE_NEXT"
                    BY <3>1, <4>2 DEF NextReady
                <5>2. j # 1
                    BY <4>2, <5>1
                <5>3. j - 1 \in DOMAIN rest /\ j - 1 < i /\ (j - 1) + 1 = j
                    BY <1>1, <2>1, <5>1, <5>2
                <5>4. rest[j - 1].what = "PREPARE_NEXT"
                    BY <1>1, <5>1, <5>3
                <5>. QED
                    BY <5>3, <5>4 DEF NextReady
            <4>. QED
                BY <2>3, <3>3, <4>1, <4>2
        <3>. QED
            BY <2>3, <3>2, <3>4
    <2>. QED
        BY <1>1, <2>2, <2>3
<1>8. RightFrom(rest, n, p2, next2, c)
    BY <1>3, <1>4, <1>5, <1>6, <1>7 DEF RightFrom
<1>. QED
    BY <1>2, <1>8 DEF rest

(* Nothing installs a position before the messages after b = 0, so one     *)
(* computed now may be posted after them.                                  *)
LEMMA PostedLaterSettles ==
    ASSUME NEW box \in Seq(Message), NEW kind \in PositionKinds,
           NEW n \in Nat, NEW arg \in 0 .. n - 1, NEW p, NEW next,
           RightFrom(box, n, p, next, 0), NEW track
    PROVE  Settles(Post(box, kind, arg), n, p, next, track)
<1> DEFINE posted == Post(box, kind, arg)
<1>1. kind \in MessageKinds /\ arg \in Places
    BY DEF MessageKinds, Places
<1>2. PICK place : PostedAs(box, kind, arg, place)
    BY <1>1, PostShape
<1>3. DOMAIN box = 1 .. Len(box) /\ Len(box) \in Nat
    BY LenProperties
<1>4. /\ DOMAIN posted = 1 .. Len(posted) /\ Len(posted) \in Nat /\ Len(posted) > 0
      /\ posted[Len(posted)].what = kind /\ posted[Len(posted)].arg = arg
      /\ \A i \in DOMAIN box : box[i].what # kind =>
            place[i] \in 1 .. Len(posted) - 1 /\ posted[place[i]] = box[i]
      /\ \A k \in 1 .. Len(posted) - 1 :
            \E i \in DOMAIN box : box[i].what # kind /\ place[i] = k
      /\ \A i, j \in DOMAIN box : box[i].what # kind /\ box[j].what # kind =>
                (i < j <=> place[i] < place[j])
    BY <1>2 DEF PostedAs, Others
<1>5. Waits(posted, PositionKinds)
    BY <1>1, PostWaits
<1> HIDE DEF posted
<1>6. ASSUME NEW k \in DOMAIN posted, k # Len(posted)
      PROVE  \E i \in DOMAIN box : box[i].what # kind /\ place[i] = k /\ posted[k] = box[i]
    <2>1. k \in 1 .. Len(posted) - 1
        BY <1>4, <1>6
    <2>. QED
        BY <1>4, <2>1
<1>7. ASSUME NEW k \in DOMAIN posted, posted[k].what \in PositionKinds
      PROVE  posted[k].arg \in 0 .. n - 1
    <2>1. CASE k = Len(posted)
        BY <1>4, <2>1
    <2>2. CASE k # Len(posted)
        <3>1. PICK i \in DOMAIN box : posted[k] = box[i]
            BY <1>6, <2>2
        <3>2. i >= 0
            BY <1>3
        <3>. QED
            BY <1>7, <3>1, <3>2 DEF RightFrom
    <2>. QED
        BY <2>1, <2>2
<1>8. ASSUME NEW k \in DOMAIN posted, posted[k].what = "TRACK_WENT_TO_NEXT"
      PROVE  /\ NextReady(posted, n, next, k)
             /\ \A l \in DOMAIN posted : l < k => posted[l].what \notin PositionKinds
    <2>1. k # Len(posted)
        BY <1>4, <1>8 DEF PositionKinds
    <2>2. PICK i \in DOMAIN box : box[i].what # kind /\ place[i] = k /\ posted[k] = box[i]
        BY <1>6, <2>1
    <2>3. /\ NextReady(box, n, next, i)
          /\ \A j \in DOMAIN box : j < i => box[j].what \notin PositionKinds
        BY <1>8, <2>2 DEF RightFrom
    <2>4. NextReady(posted, n, next, k)
        <3>1. CASE next \in 0 .. n - 1
            BY <3>1 DEF NextReady
        <3>2. CASE \E j \in DOMAIN box : j < i /\ box[j].what = "PREPARE_NEXT"
            <4>1. PICK j \in DOMAIN box : j < i /\ box[j].what = "PREPARE_NEXT"
                BY <3>2
            <4>2. box[j].what # kind
                BY <4>1 DEF PositionKinds
            <4>3. place[j] < k /\ place[j] \in DOMAIN posted /\ posted[place[j]] = box[j]
                BY <1>4, <2>2, <4>1, <4>2
            <4>. QED
                BY <4>1, <4>3 DEF NextReady
        <3>. QED
            BY <2>3, <3>1, <3>2 DEF NextReady
    <2>5. ASSUME NEW l \in DOMAIN posted, l < k PROVE posted[l].what \notin PositionKinds
        <3>1. l # Len(posted)
            BY <1>4, <2>5
        <3>2. PICK j \in DOMAIN box : box[j].what # kind /\ place[j] = l /\ posted[l] = box[j]
            BY <1>6, <3>1
        <3>3. j < i
            BY <1>4, <2>2, <2>5, <3>2
        <3>. QED
            BY <2>3, <3>2, <3>3
    <2>. QED
        BY <2>4, <2>5
<1>9. RightFrom(posted, n, p, next, 0)
    <2>1. \A k \in DOMAIN posted : 0 < k
        BY <1>4
    <2>2. p \in 0 .. n - 1
        BY DEF RightFrom
    <2>. QED
        BY <1>7, <1>8, <2>1, <2>2 DEF RightFrom
<1>10. 0 \in 0 .. Len(posted)
    BY <1>4
<1>. QED
    BY <1>5, <1>9, <1>10 DEF Settles, posted

(* The player posts: the end of a track after everything waiting, a switch *)
(* to the next one only where nextPosition is right by then.               *)
LEMMA AppendRight ==
    ASSUME NEW box \in Seq(Message), NEW n, NEW p, NEW next, NEW b \in 0 .. Len(box),
           RightFrom(box, n, p, next, b), NEW kind \in EventKinds,
           kind = "TRACK_WENT_TO_NEXT" =>
                ~ Waits(box, PositionKinds) /\ NextReady(box, n, next, Len(box) + 1)
    PROVE  LET new == Append(box, [what |-> kind, arg |-> 0]) IN
           b \in 0 .. Len(new) /\ RightFrom(new, n, p, next, b)
<1> DEFINE m == [what |-> kind, arg |-> 0]
           new == Append(box, m)
<1>1. DOMAIN box = 1 .. Len(box) /\ Len(box) \in Nat
    BY LenProperties
<1>2. m \in Message /\ m.what = kind
    BY DEF Message, MessageKinds, Places
<1>3. /\ new \in Seq(Message) /\ Len(new) = Len(box) + 1
      /\ \A i \in 1 .. Len(box) : new[i] = box[i]
      /\ new[Len(box) + 1] = m
    BY <1>2, AppendProperties
<1>4. DOMAIN new = 1 .. Len(box) + 1
    BY <1>3, LenProperties
<1> HIDE DEF new, m
<1>5. ASSUME NEW i \in DOMAIN new
      PROVE  i = Len(box) + 1 \/ (i \in DOMAIN box /\ new[i] = box[i])
    <2>1. i \in 1 .. Len(box) + 1
        BY <1>4
    <2>2. i = Len(box) + 1 \/ i \in 1 .. Len(box)
        BY <1>1, <2>1
    <2>. QED
        BY <1>1, <1>3, <2>2
<1>6. \A i \in DOMAIN box : i \in DOMAIN new /\ new[i] = box[i]
    BY <1>1, <1>3, <1>4
<1>7. kind \notin PositionKinds /\ kind # "PREPARE_NEXT"
    BY DEF EventKinds, PositionKinds
<1>8. b > 0 => b \in DOMAIN box /\ new[b].what \in PositionKinds
    BY <1>1, <1>6 DEF RightFrom
<1>9. ASSUME NEW i \in DOMAIN new, i >= b, new[i].what \in PositionKinds
      PROVE  new[i].arg \in 0 .. n - 1
    BY <1>2, <1>3, <1>5, <1>7, <1>9 DEF RightFrom
<1>10. ASSUME NEW i \in DOMAIN new, new[i].what = "TRACK_ENDED" PROVE b < i
    BY <1>1, <1>5, <1>10 DEF RightFrom
<1>11. \A i : NextReady(box, n, next, i) => NextReady(new, n, next, i)
    BY <1>6 DEF NextReady
<1>12. ASSUME NEW i \in DOMAIN new, new[i].what = "TRACK_WENT_TO_NEXT"
       PROVE  \/ b > 0 /\ i < b
              \/ /\ b = 0 /\ NextReady(new, n, next, i)
                 /\ \A j \in DOMAIN new : j < i => new[j].what \notin PositionKinds
    <2>1. CASE i = Len(box) + 1
        <3>1. kind = "TRACK_WENT_TO_NEXT"
            BY <1>2, <1>3, <1>12, <2>1
        <3>2. ~ Waits(box, PositionKinds) /\ NextReady(box, n, next, i)
            BY <2>1, <3>1
        <3>3. ~ (b > 0)
            BY <1>6, <1>8, <3>2 DEF Waits
        <3>4. b = 0
            BY <1>1, <3>3
        <3>5. \A j \in DOMAIN new : j < i => new[j].what \notin PositionKinds
            BY <1>1, <1>5, <2>1, <3>2 DEF Waits
        <3>. QED
            BY <1>11, <3>2, <3>4, <3>5
    <2>2. CASE i \in DOMAIN box /\ new[i] = box[i]
        <3>1. \/ b > 0 /\ i < b
              \/ /\ b = 0 /\ NextReady(box, n, next, i)
                 /\ \A j \in DOMAIN box : j < i => box[j].what \notin PositionKinds
            BY <1>12, <2>2 DEF RightFrom
        <3>2. \A j \in DOMAIN new : j < i => j \in DOMAIN box /\ new[j] = box[j]
            BY <1>1, <1>5, <2>2
        <3>. QED
            BY <1>11, <3>1, <3>2
    <2>. QED
        BY <1>5, <2>1, <2>2
<1>13. b = 0 => p \in 0 .. n - 1
    BY DEF RightFrom
<1>14. RightFrom(new, n, p, next, b)
    BY <1>8, <1>9, <1>10, <1>12, <1>13 DEF RightFrom
<1>15. b \in 0 .. Len(new)
    BY <1>1, <1>3
<1>. QED
    BY <1>14, <1>15 DEF new, m

-----------------------------------------------------------------------------
(* Every action keeps RangeInv. *)

LEMMA NextInRange ==
    ASSUME NEW list \in Seq(Song), NEW p \in 0 .. Len(list) - 1, NEW repeat \in RepeatModes,
           NEW force \in BOOLEAN
    PROVE  /\ getNextPosition(list, p, repeat, force) \in 0 .. Len(list) - 1
           /\ getPreviousPosition(list, p, repeat, force) \in 0 .. Len(list) - 1
<1>1. Len(list) \in Nat
    BY LenProperties
<1>2. p \in Nat /\ p < Len(list)
    BY <1>1
<1>3. getNextPosition(list, p, repeat, force) \in 0 .. Len(list) - 1
    BY <1>1, <1>2 DEF getNextPosition, isLastTrack, RepeatModes
<1>4. getPreviousPosition(list, p, repeat, force) \in 0 .. Len(list) - 1
    BY <1>1, <1>2 DEF getPreviousPosition, RepeatModes
<1>. QED
    BY <1>3, <1>4

(* With no position and no event of the player waiting, the position is right. *)
LEMMA SettledIsQuiet ==
    ASSUME TypeOK, ~ Unsettled
    PROVE  Quiet(inbox) /\ ~ Waits(inbox, EventKinds)
<1>1. \A i \in DOMAIN inbox : inbox[i].what \notin PositionKinds \cup EventKinds
    BY DEF Unsettled, Pending
<1>2. \A i \in DOMAIN inbox : inbox[i].what \in MessageKinds
    <2>1. \A i \in DOMAIN inbox : inbox[i] \in Message
        BY ElementOfSeq, LenProperties DEF TypeOK
    <2>. QED
        BY <2>1 DEF Message
<1>. QED
    BY <1>1, <1>2 DEF Quiet, Waits, MessageKinds

LEMMA SettledInRange ==
    ASSUME TypeOK, RangeInv, Running, playingQueue # <<>>, ~ ranAhead, ~ Unsettled
    PROVE  InQueue(position)
<1>1. Settles(inbox, Len(playingQueue), position, nextPosition, player)
    BY DEF RangeInv
<1>. QED
    BY <1>1, SettledIsQuiet, QuietPosition DEF TypeOK, InQueue, Positions

(* An edit that kept ranAhead FALSE read such a position. *)
LEMMA EditedQuietly ==
    ASSUME TypeOK, Edited, ~ ranAhead'
    PROVE  ~ ranAhead /\ ~ Unsettled /\ Quiet(inbox) /\ ~ Waits(inbox, EventKinds)
<1>1. ~ ranAhead /\ ~ Unsettled
    BY DEF Edited
<1>. QED
    BY <1>1, SettledIsQuiet

LEMMA EditedInRange ==
    ASSUME TypeOK, RangeInv, Running, playingQueue # <<>>, Edited, ~ ranAhead'
    PROVE  InQueue(position)
BY EditedQuietly, SettledInRange

LEMMA QuietSettles ==
    ASSUME TypeOK, Quiet(inbox), NEW n \in Nat, NEW p \in 0 .. n - 1, NEW next, NEW track
    PROVE  Settles(prepareNext(inbox), n, p, next, track)
<1>1. RightFrom(inbox, n, p, next, 0) /\ inbox \in Seq(Message)
    BY QuietRight DEF TypeOK
<1>2. ~ Waits(inbox, {"TRACK_WENT_TO_NEXT"})
    BY DEF Quiet, Waits
<1>3. 0 \in 0 .. Len(inbox)
    BY <1>1, LenProperties
<1>. QED
    BY <1>1, <1>2, <1>3, PrepareSettles

(* The common ends of an edit: the position is right at once, or is posted. *)
LEMMA RangeEdited ==
    ASSUME TypeOK, Edited, playingQueue' \in Seq(Song), UNCHANGED <<nextPosition, player>>,
           inbox' = QueueChanged(inbox, playingQueue'),
           playingQueue' # <<>> /\ ~ ranAhead' => position' \in 0 .. Len(playingQueue') - 1
    PROVE  RangeInv'
<1> SUFFICES ASSUME ~ ranAhead', playingQueue' # <<>>
             PROVE  Settles(inbox', Len(playingQueue'), position', nextPosition', player')
    BY DEF RangeInv
<1>1. Len(playingQueue') \in Nat
    BY LenProperties
<1>2. Quiet(inbox)
    BY EditedQuietly
<1>3. inbox' = prepareNext(inbox)
    BY DEF QueueChanged
<1>4. \A n \in Nat : \A p \in 0 .. n - 1 : \A next, track :
            Settles(prepareNext(inbox), n, p, next, track)
    BY <1>2, QuietSettles
<1>. QED
    BY <1>1, <1>3, <1>4

LEMMA RangePosted ==
    ASSUME TypeOK, playingQueue' \in Seq(Song), ~ Waits(inbox, {"TRACK_ENDED"}),
           NEW kind \in PositionKinds, NEW arg, arg \in 0 .. Len(playingQueue') - 1,
           \/ inbox' = Post(inbox, kind, arg)
           \/ inbox' = QueueChanged(Post(inbox, kind, arg), playingQueue')
    PROVE  RangeInv'
<1> SUFFICES ASSUME playingQueue' # <<>>
             PROVE  Settles(inbox', Len(playingQueue'), position', nextPosition', player')
    BY DEF RangeInv
<1>1. Len(playingQueue') \in Nat /\ inbox \in Seq(Message)
    BY LenProperties DEF TypeOK
<1>2. inbox' = Post(inbox, kind, arg) \/ inbox' = prepareNext(Post(inbox, kind, arg))
    BY DEF QueueChanged
<1>3. \A p, next, track :
        /\ Settles(Post(inbox, kind, arg), Len(playingQueue'), p, next, track)
        /\ Settles(prepareNext(Post(inbox, kind, arg)), Len(playingQueue'), p, next, track)
    BY <1>1, PostSettles
<1>. QED
    BY <1>2, <1>3

(* PREPARE_NEXT is posted again for a queue that did not get shorter. *)
LEMMA RangeReprepared ==
    ASSUME TypeOK, RangeInv, Running, Reprepared, playingQueue' \in Seq(Song),
           playingQueue # <<>> \/ playingQueue' = <<>>,
           Len(playingQueue) <= Len(playingQueue'), UNCHANGED <<position, nextPosition>>,
           inbox' = prepareNext(inbox)
    PROVE  RangeInv'
<1> SUFFICES ASSUME ~ ranAhead', playingQueue' # <<>>
             PROVE  Settles(inbox', Len(playingQueue'), position', nextPosition', player')
    BY DEF RangeInv
<1>1. ~ ranAhead /\ ~ Waits(inbox, {"TRACK_WENT_TO_NEXT"})
    BY DEF Reprepared, Pending, Waits
<1>2. Len(playingQueue) \in Nat /\ Len(playingQueue') \in Nat /\ inbox \in Seq(Message)
    BY LenProperties DEF TypeOK
<1>3. PICK b \in 0 .. Len(inbox) : RightFrom(inbox, Len(playingQueue), position, nextPosition, b)
    BY <1>1 DEF RangeInv, Settles
<1>4. RightFrom(inbox, Len(playingQueue'), position, nextPosition, b)
    BY <1>2, <1>3, RightInLonger
<1>5. \A track : Settles(prepareNext(inbox), Len(playingQueue'), position, nextPosition, track)
    BY <1>1, <1>2, <1>3, <1>4, PrepareSettles
<1>. QED
    BY <1>5

LEMMA RangeOpenQueue ==
    ASSUME TypeOK, TypeOK', NEW songs \in Selections, NEW start, NEW play, NEW remember, NEW all,
           OpenQueue(songs, start, play, remember, all)
    PROVE  RangeInv'
<1> SUFFICES ASSUME ~ ranAhead' PROVE RangeInv'
    BY DEF RangeInv
<1>1. songs \in Seq(Song) /\ start \in Positions(songs)
    BY SelectionsAssumption DEF OpenQueue
<1>2. playingQueue' = songs \/ playingQueue' \in Shuffles(songs, start)
    BY DEF OpenQueue
<1>3. Len(playingQueue') = Len(songs) /\ Len(songs) \in Nat
    BY <1>1, <1>2, ShufflesCopies, LenProperties
<1>4. ~ Waits(inbox, {"TRACK_ENDED"})
    BY DEF OpenQueue, Pending, Waits
<1>5. openedPosition(start) \in 0 .. Len(playingQueue') - 1
    BY <1>1, <1>3 DEF openedPosition, Positions
<1> DEFINE kind == IF play THEN "PLAY_SONG" ELSE "SET_POSITION"
<1>6. kind \in PositionKinds
    BY DEF PositionKinds
<1>7. inbox' = QueueChanged(Post(inbox, kind, openedPosition(start)), playingQueue')
    <2>1. playingQueue' # <<>> /\ songs # <<>>
        BY <1>1, <1>3, EmptySeq DEF OpenQueue
    <2>2. inbox' = QueueChanged(Post(inbox, kind, openedPosition(start)), songs)
        BY DEF OpenQueue
    <2>. QED
        BY <2>1, <2>2 DEF QueueChanged
<1>8. playingQueue' \in Seq(Song)
    BY DEF TypeOK
<1> HIDE DEF kind
<1>. QED
    BY <1>4, <1>5, <1>6, <1>7, <1>8, RangePosted

LEMMA RangeSetShuffleMode ==
    ASSUME TypeOK, TypeOK', NEW mode, setShuffleMode(mode)
    PROVE  RangeInv'
<1>1. playingQueue' \in Seq(Song) /\ originalPlayingQueue \in Seq(Song)
    BY DEF TypeOK
<1>2. ASSUME playingQueue' # <<>> PROVE position' \in 0 .. Len(playingQueue') - 1
    <2>1. 0 \in 0 .. Len(playingQueue') - 1
        <3>1. Len(playingQueue') \in Nat /\ Len(playingQueue') # 0
            BY <1>1, <1>2, LenProperties, EmptySeq
        <3>. QED
            BY <3>1
    <2>2. CASE mode = "SHUFFLE"
        BY <2>1, <2>2 DEF setShuffleMode, ShuffleOn
    <2>3. CASE mode # "SHUFFLE"
        <3>1. playingQueue' = originalPlayingQueue
            BY <2>3 DEF setShuffleMode, ShuffleOff
        <3>2. position' = IF \E i \in DOMAIN originalPlayingQueue :
                                    originalPlayingQueue[i] = CurrentSong
                          THEN IndexOf(originalPlayingQueue, CurrentSong)
                          ELSE 0
            BY <2>3 DEF setShuffleMode, ShuffleOff
        <3>3. CASE \E i \in DOMAIN originalPlayingQueue : originalPlayingQueue[i] = CurrentSong
            BY <1>1, <3>1, <3>2, <3>3, IndexOfFound DEF Positions
        <3>. QED
            BY <2>1, <3>2, <3>3
    <2>. QED
        BY <2>2, <2>3
<1>3. /\ inbox' = QueueChanged(inbox, playingQueue') /\ Edited
      /\ UNCHANGED <<nextPosition, player>>
    BY DEF setShuffleMode
<1>. QED
    BY <1>1, <1>2, <1>3, RangeEdited

LEMMA RangeShuffles ==
    ASSUME TypeOK, TypeOK', ContinueCall \/ toggleShuffle
    PROVE  RangeInv'
<1>1. ASSUME Throw("setShuffleMode") PROVE RangeInv'
    BY <1>1 DEF Throw, RangeInv, Running
<1>. QED
    BY <1>1, RangeSetShuffleMode DEF ContinueCall, toggleShuffle

LEMMA RangeEnqueue ==
    ASSUME TypeOK, TypeOK', RangeInv, NEW songs \in Selections, Enqueue(songs)
    PROVE  RangeInv'
<1>1. songs \in Seq(Song) /\ playingQueue \in Seq(Song) /\ playingQueue' \in Seq(Song)
    BY SelectionsAssumption DEF TypeOK
<1>2. /\ Running /\ Reprepared /\ playingQueue # <<>>
      /\ playingQueue' = playingQueue \o songs
      /\ UNCHANGED <<position, nextPosition>>
      /\ inbox' = QueueChanged(inbox, playingQueue')
    BY DEF Enqueue, Idle
<1>3. Len(playingQueue') = Len(playingQueue) + Len(songs) /\ Len(songs) \in Nat
      /\ Len(playingQueue) \in Nat /\ Len(playingQueue) # 0
    BY <1>1, <1>2, ConcatProperties, LenProperties, EmptySeq
<1>4. Len(playingQueue) <= Len(playingQueue')
    BY <1>3
<1>5. playingQueue' # <<>>
    BY <1>3, EmptySeq
<1>6. inbox' = prepareNext(inbox)
    BY <1>2, <1>5 DEF QueueChanged
<1>. QED
    BY <1>1, <1>2, <1>4, <1>6, RangeReprepared

LEMMA RangePlayNext ==
    ASSUME TypeOK, TypeOK', RangeInv, NEW songs \in Selections, PlayNext(songs)
    PROVE  RangeInv'
<1>1. CASE Throw("addSong")
    BY <1>1 DEF Throw, RangeInv, Running
<1>2. CASE ~ Throw("addSong")
    <2>1. /\ Edited /\ UNCHANGED <<nextPosition, player>>
          /\ inbox' = QueueChanged(inbox, playingQueue')
        BY <1>2, PlayNextLists
    <2>2. Running /\ playingQueue # <<>> /\ playingQueue' \in Seq(Song)
        BY DEF PlayNext, Idle, TypeOK
    <2>3. ASSUME ~ ranAhead' PROVE position' \in 0 .. Len(playingQueue') - 1
        <3>1. InQueue(position)
            BY <2>1, <2>2, <2>3, EditedInRange
        <3>2. InQueue(position)'
            BY <1>2, <3>1, KeepsOnPlayNext
        <3>. QED
            BY <3>2 DEF InQueue, Positions
    <2>. QED
        BY <2>1, <2>2, <2>3, RangeEdited
<1>. QED
    BY <1>1, <1>2

LEMMA RangeMoveSong ==
    ASSUME TypeOK, TypeOK', RangeInv, NEW from, NEW to, MoveSong(from, to)
    PROVE  RangeInv'
<1>1. /\ Edited /\ UNCHANGED <<nextPosition, player>>
      /\ inbox' = QueueChanged(inbox, playingQueue')
    BY DEF MoveSong
<1>2. Running /\ playingQueue # <<>> /\ playingQueue' \in Seq(Song)
    <2>1. from \in Positions(playingQueue) /\ playingQueue \in Seq(Song)
        BY DEF MoveSong, TypeOK
    <2>2. Len(playingQueue) # 0
        BY <2>1 DEF Positions
    <2>3. playingQueue # <<>>
        BY <2>2, EmptySeq
    <2>. QED
        BY <2>3 DEF MoveSong, Idle, TypeOK
<1>3. ASSUME ~ ranAhead' PROVE position' \in 0 .. Len(playingQueue') - 1
    <2>1. InQueue(position)
        BY <1>1, <1>2, <1>3, EditedInRange
    <2>2. InQueue(position)'
        BY <2>1, KeepsOnMoveSong
    <2>. QED
        BY <2>2 DEF InQueue, Positions
<1>. QED
    BY <1>1, <1>2, <1>3, RangeEdited

LEMMA RangeRemoveAtPosition ==
    ASSUME TypeOK, TypeOK', RangeInv, NEW p, RemoveAtPosition(p)
    PROVE  RangeInv'
<1> SUFFICES ASSUME ~ ranAhead', playingQueue' # <<>> PROVE RangeInv'
    BY DEF RangeInv
<1>1. /\ Edited /\ UNCHANGED <<nextPosition, player>> /\ Running
      /\ p \in Positions(playingQueue)
      /\ playingQueue' = Delete(playingQueue, p)
      /\ inbox' = QueueChanged(
                    IF p # position THEN inbox
                    ELSE Post(inbox, "SET_POSITION", steppedBack(p, playingQueue')),
                    playingQueue')
    BY DEF RemoveAtPosition, rePosition, Idle
<1>2. playingQueue \in Seq(Song) /\ playingQueue' \in Seq(Song)
      /\ Len(playingQueue) \in Nat /\ Len(playingQueue') \in Nat
    BY LenProperties DEF TypeOK
<1>3. p \in Nat /\ p < Len(playingQueue)
    BY <1>1, <1>2, PositionIsPlace
<1>4. playingQueue # <<>>
    BY <1>2, <1>3, EmptySeq
<1>5. CASE p # position
    <2>1. InQueue(position)
        BY <1>1, <1>4, EditedInRange
    <2>2. InQueue(position)'
        BY <1>5, <2>1, KeepsOnRemoveAtPosition
    <2>3. position' \in 0 .. Len(playingQueue') - 1
        BY <2>2 DEF InQueue, Positions
    <2>4. inbox' = QueueChanged(inbox, playingQueue')
        BY <1>1, <1>5
    <2>. QED
        BY <1>1, <1>2, <2>3, <2>4, RangeEdited
<1>6. CASE p = position
    <2>1. ~ Waits(inbox, {"TRACK_ENDED"})
        BY <1>1, EditedQuietly DEF Waits, EventKinds
    <2>2. Len(playingQueue') = Len(playingQueue) - 1
        BY <1>1, <1>2, DeleteType
    <2>3. Len(playingQueue') # 0
        BY <1>2, EmptySeq
    <2>4. steppedBack(p, playingQueue') \in 0 .. Len(playingQueue') - 1
        BY <1>2, <1>3, <1>6, <2>2, <2>3 DEF steppedBack
    <2>5. "SET_POSITION" \in PositionKinds
        BY DEF PositionKinds
    <2>6. inbox' = QueueChanged(Post(inbox, "SET_POSITION", steppedBack(p, playingQueue')),
                                playingQueue')
        BY <1>1, <1>6
    <2>. QED
        BY <1>2, <2>1, <2>4, <2>5, <2>6, RangePosted
<1>. QED
    BY <1>5, <1>6

LEMMA RangeRemoveSong ==
    ASSUME TypeOK, TypeOK', RangeInv, NEW song \in Song, RemoveSong(song)
    PROVE  RangeInv'
<1> SUFFICES ASSUME ~ ranAhead', playingQueue' # <<>> PROVE RangeInv'
    BY DEF RangeInv
<1> DEFINE deletes == LoopDeletes(playingQueue, song)
           arg == IF position < size - 1 THEN position' ELSE position' - 1
<1>1. /\ Edited /\ UNCHANGED <<nextPosition, player>> /\ Running
      /\ \E i \in DOMAIN playingQueue : playingQueue[i] = song
      /\ playingQueue' = LoopDelete(playingQueue, song)
      /\ position' = position - Cardinality({ i \in deletes : i - 1 < position })
      /\ inbox' = QueueChanged(
                    IF position + 1 \notin deletes THEN inbox
                    ELSE Post(inbox, "SET_POSITION", arg),
                    playingQueue')
    BY DEF RemoveSong, Idle
<1>2. playingQueue \in Seq(Song) /\ playingQueue' \in Seq(Song)
      /\ Len(playingQueue) \in Nat /\ Len(playingQueue') \in Nat
    BY LenProperties DEF TypeOK
<1>3. playingQueue # <<>>
    BY <1>1
<1>4. InQueue(position)
    BY <1>1, <1>3, EditedInRange
<1>5. CASE position + 1 \notin deletes
    <2>1. InQueue(position)'
        BY <1>4, <1>5, KeepsOnRemoveSong
    <2>2. position' \in 0 .. Len(playingQueue') - 1
        BY <2>1 DEF InQueue, Positions
    <2>3. inbox' = QueueChanged(inbox, playingQueue')
        BY <1>1, <1>5
    <2>. QED
        BY <1>1, <1>2, <2>2, <2>3, RangeEdited
<1>6. CASE position + 1 \in deletes
    <2>1. ~ Waits(inbox, {"TRACK_ENDED"})
        BY <1>1, EditedQuietly DEF Waits, EventKinds
    <2>2. Len(playingQueue') # 0
        BY <1>2, EmptySeq
    <2>3. position \in Nat
        BY <1>4, CurrentSongAt
    <2>4. /\ position' \in Nat
          /\ position + 1 < Len(playingQueue) => position' < Len(playingQueue')
          /\ ~ (position + 1 < Len(playingQueue)) => position' = Len(playingQueue')
        BY <1>1, <1>2, <1>6, <2>3, DeletedEntry
    <2>5. \A p \in Nat :
              /\ position + 1 < Len(playingQueue) => p < Len(playingQueue')
              /\ ~ (position + 1 < Len(playingQueue)) => p = Len(playingQueue')
              => (IF position < size - 1 THEN p ELSE p - 1) \in 0 .. Len(playingQueue') - 1
        BY <1>2, <2>2, <2>3 DEF size
    <2>6. arg \in 0 .. Len(playingQueue') - 1
        BY <2>4, <2>5
    <2>7. "SET_POSITION" \in PositionKinds
        BY DEF PositionKinds
    <2>8. inbox' = QueueChanged(Post(inbox, "SET_POSITION", arg), playingQueue')
        BY <1>1, <1>6
    <2> HIDE DEF arg, deletes
    <2>. QED
        BY <1>2, <2>1, <2>6, <2>7, <2>8, RangePosted
<1>. QED
    BY <1>5, <1>6

LEMMA RangeClearQueue == ClearQueue => RangeInv'
BY DEF ClearQueue, RangeInv

LEMMA RangeSteer ==
    ASSUME TypeOK, TypeOK', RangeInv,
           \/ \E p \in 0 .. MaxLen, play \in BOOLEAN : PlaySongAt(p, play)
           \/ PlayNextSong \/ PlayPreviousSong \/ PlayUnopened
    PROVE  RangeInv'
<1> SUFFICES ASSUME ~ ranAhead', playingQueue' # <<>> PROVE RangeInv'
    BY DEF RangeInv
<1>1. playingQueue' = playingQueue /\ playingQueue \in Seq(Song) /\ Running
      /\ repeatMode \in RepeatModes
    BY DEF PlaySongAt, PlayNextSong, PlayPreviousSong, PlayUnopened, Steer, lists, Idle, TypeOK
<1>2. "PLAY_SONG" \in PositionKinds /\ "SET_POSITION" \in PositionKinds
    BY DEF PositionKinds
<1>3. CASE \E p \in 0 .. MaxLen, play \in BOOLEAN : PlaySongAt(p, play)
    <2>1. PICK p \in 0 .. MaxLen, play \in BOOLEAN : PlaySongAt(p, play)
        BY <1>3
    <2> DEFINE kind == IF play THEN "PLAY_SONG" ELSE "SET_POSITION"
    <2>2. /\ kind \in PositionKinds /\ inbox' = Post(inbox, kind, p)
          /\ p \in 0 .. Len(playingQueue') - 1
        BY <1>1, <1>2, <2>1 DEF PlaySongAt, Steer, Positions
    <2>3. ~ Waits(inbox, {"TRACK_ENDED"})
        BY <2>1 DEF PlaySongAt, Pending, Waits
    <2> HIDE DEF kind
    <2>. QED
        BY <1>1, <2>2, <2>3, RangePosted
<1>4. CASE PlayNextSong \/ PlayPreviousSong \/ PlayUnopened
    <2>1. Edited
        BY <1>4 DEF PlayNextSong, PlayPreviousSong, PlayUnopened
    <2>2. InQueue(position)
        BY <1>1, <2>1, EditedInRange
    <2>3. ~ Waits(inbox, {"TRACK_ENDED"})
        BY <2>1, EditedQuietly DEF Waits, EventKinds
    <2>4. PICK arg \in 0 .. Len(playingQueue) - 1 : inbox' = Post(inbox, "PLAY_SONG", arg)
        <3>1. position \in 0 .. Len(playingQueue) - 1
            BY <2>2 DEF InQueue, Positions
        <3>2. /\ getNextPosition(playingQueue, position, repeatMode, TRUE)
                    \in 0 .. Len(playingQueue) - 1
              /\ getPreviousPosition(playingQueue, position, repeatMode, TRUE)
                    \in 0 .. Len(playingQueue) - 1
            BY <1>1, <3>1, NextInRange
        <3>. QED
            BY <1>4, <3>1, <3>2 DEF PlayNextSong, PlayPreviousSong, PlayUnopened, Steer
    <2>. QED
        BY <1>1, <1>2, <2>3, <2>4, RangePosted
<1>. QED
    BY <1>3, <1>4

LEMMA RangeCycleRepeatMode ==
    ASSUME TypeOK, TypeOK', RangeInv, cycleRepeatMode
    PROVE  RangeInv'
<1>1. /\ Running /\ Reprepared /\ playingQueue' = playingQueue
      /\ UNCHANGED <<position, nextPosition>> /\ inbox' = prepareNext(inbox)
    BY DEF cycleRepeatMode, Idle, lists
<1>2. playingQueue' \in Seq(Song) /\ Len(playingQueue) <= Len(playingQueue')
    BY <1>1, LenProperties DEF TypeOK
<1>3. playingQueue # <<>> \/ playingQueue' = <<>>
    BY <1>1
<1>. QED
    BY <1>1, <1>2, <1>3, RangeReprepared

LEMMA RangeGaplessChanged ==
    ASSUME TypeOK, TypeOK', RangeInv, NEW on \in BOOLEAN, GaplessChanged(on)
    PROVE  RangeInv'
<1>1. /\ Running /\ Running' /\ playingQueue' = playingQueue
      /\ UNCHANGED <<position, nextPosition>>
    BY DEF GaplessChanged, Idle, lists, Running
<1>2. CASE on
    <2>1. Reprepared /\ inbox' = prepareNext(inbox)
        BY <1>2 DEF GaplessChanged
    <2>2. playingQueue' \in Seq(Song) /\ Len(playingQueue) <= Len(playingQueue')
        BY <1>1, LenProperties DEF TypeOK
    <2>3. playingQueue # <<>> \/ playingQueue' = <<>>
        BY <1>1
    <2>. QED
        BY <1>1, <2>1, <2>2, <2>3, RangeReprepared
<1>3. CASE ~ on
    <2>1. UNCHANGED <<inbox, ranAhead>> /\ player' # "gapless"
        BY <1>3 DEF GaplessChanged
    <2>2. Settles(inbox, Len(playingQueue), position, nextPosition, player) =>
            Settles(inbox, Len(playingQueue), position, nextPosition, player')
        BY <2>1 DEF Settles
    <2>. QED
        BY <1>1, <2>1, <2>2 DEF RangeInv
<1>. QED
    BY <1>2, <1>3

LEMMA RangePlayerCallback ==
    ASSUME TypeOK, RangeInv, NEW kind \in EventKinds, PlayerCallback(kind)
    PROVE  RangeInv'
<1> DEFINE m == [what |-> kind, arg |-> 0]
           new == Append(inbox, m)
           n == Len(playingQueue)
<1> SUFFICES ASSUME ~ ranAhead', playingQueue' # <<>>
             PROVE  Settles(inbox', Len(playingQueue'), position', nextPosition', player')
    BY DEF RangeInv
<1>1. /\ inbox' = new /\ playingQueue' = playingQueue /\ Running
      /\ UNCHANGED <<position, nextPosition>> /\ player' # "gapless"
      /\ ~ ranAhead
      /\ kind = "TRACK_WENT_TO_NEXT" => player = "gapless" /\ ~ Waits(inbox, PositionKinds)
    BY DEF PlayerCallback, lists, Pending, Waits
<1>2. Settles(inbox, n, position, nextPosition, player)
    BY <1>1 DEF RangeInv
<1>3. PICK b \in 0 .. Len(inbox) : RightFrom(inbox, n, position, nextPosition, b)
    BY <1>2 DEF Settles
<1>4. kind = "TRACK_WENT_TO_NEXT" =>
            ~ Waits(inbox, PositionKinds) /\ NextReady(inbox, n, nextPosition, Len(inbox) + 1)
    BY <1>1, <1>2 DEF Settles
<1>5. b \in 0 .. Len(new) /\ RightFrom(new, n, position, nextPosition, b)
    BY <1>3, <1>4, AppendRight DEF TypeOK
<1> HIDE DEF new
<1>6. Settles(new, n, position, nextPosition, player')
    BY <1>1, <1>5 DEF Settles
<1>. QED
    BY <1>1, <1>6

-----------------------------------------------------------------------------
(* The handler takes a message. *)

LEMMA HandledMessage ==
    ASSUME TypeOK, RangeInv, Handler, ~ ranAhead', playingQueue' # <<>>
    PROVE  /\ playingQueue' = playingQueue /\ playingQueue \in Seq(Song)
           /\ repeatMode \in RepeatModes
           /\ inbox \in Seq(Message) /\ inbox # <<>>
           /\ Settles(inbox, Len(playingQueue), position, nextPosition, player)
<1> USE DEF HandlePosition, HandlePrepareNext, HandleTrackWentToNext, HandleTrackEnded
<1>1. /\ playingQueue' = playingQueue /\ ranAhead' = ranAhead /\ Take
    BY DEF Handler, lists
<1>. QED
    BY <1>1 DEF RangeInv, Take, TypeOK

(* What TailRight needs, for the messages the handler takes. *)
LEMMA TailSettles ==
    ASSUME NEW box \in Seq(Message), box # <<>>, NEW n, NEW p, NEW next,
           NEW b \in 0 .. Len(box), RightFrom(box, n, p, next, b),
           box[1].what = "TRACK_ENDED" => b = 0,
           NEW p2, NEW next2, b \in {0, 1} => p2 \in 0 .. n - 1,
           b = 0 => \/ next2 \in 0 .. n - 1
                    \/ box[1].what \in PositionKinds
                    \/ next2 = next /\ box[1].what = "TRACK_ENDED",
           NEW track,
           track = "gapless" /\ ~ Waits(Tail(box), PositionKinds) =>
                NextReady(Tail(box), n, next2, Len(Tail(box)) + 1)
    PROVE  Settles(Tail(box), n, p2, next2, track)
<1> DEFINE c == IF b = 0 THEN 0 ELSE b - 1
<1>1. c \in 0 .. Len(Tail(box)) /\ RightFrom(Tail(box), n, p2, next2, c)
    BY TailRight
<1> HIDE DEF c
<1>. QED
    BY <1>1 DEF Settles

(* A position waiting behind the taken message is waiting still. *)
LEMMA StillWaits ==
    ASSUME NEW box \in Seq(Message), box # <<>>, NEW b \in 0 .. Len(box), b > 1,
           NEW n, NEW p, NEW next, RightFrom(box, n, p, next, b)
    PROVE  Waits(Tail(box), PositionKinds)
<1>1. /\ DOMAIN Tail(box) = 1 .. Len(box) - 1 /\ Len(box) \in Nat
      /\ \A i \in DOMAIN Tail(box) : Tail(box)[i] = box[i + 1]
    BY TailEntry
<1>2. b - 1 \in DOMAIN Tail(box) /\ (b - 1) + 1 = b
    BY <1>1
<1>3. box[b].what \in PositionKinds
    BY DEF RightFrom
<1>. QED
    BY <1>1, <1>2, <1>3 DEF Waits

LEMMA RangeHandlePosition ==
    ASSUME TypeOK, RangeInv, HandlePosition
    PROVE  RangeInv'
<1> DEFINE n == Len(playingQueue)
<1> SUFFICES ASSUME ~ ranAhead', playingQueue' # <<>>
             PROVE  Settles(inbox', Len(playingQueue'), position', nextPosition', player')
    BY DEF RangeInv
<1>1. /\ playingQueue' = playingQueue /\ playingQueue \in Seq(Song)
      /\ repeatMode \in RepeatModes
      /\ inbox \in Seq(Message) /\ inbox # <<>>
      /\ Settles(inbox, n, position, nextPosition, player)
    BY HandledMessage DEF Handler
<1>2. /\ Head(inbox) = inbox[1] /\ DOMAIN inbox = 1 .. Len(inbox)
      /\ Len(inbox) \in Nat /\ Len(inbox) > 0
    BY <1>1, TailEntry
<1>3. /\ inbox[1].what \in PositionKinds /\ position' = inbox[1].arg
      /\ inbox' = Tail(inbox)
    BY <1>2 DEF HandlePosition
<1>4. inbox[1].what # "TRACK_ENDED"
    BY <1>3 DEF PositionKinds
<1>5. player' = "gapless" => nextPosition' \in 0 .. n - 1
    <2>1. CASE getSongAt(position') # NoSong /\ prepareNextImpl(position')
        <3>1. position' \in 0 .. n - 1
            BY <2>1 DEF getSongAt, Positions
        <3>2. nextPosition' = getNextPosition(playingQueue, position', repeatMode, FALSE)
            BY <2>1 DEF prepareNextImpl
        <3>. QED
            BY <1>1, <3>1, <3>2, NextInRange
    <2>. QED
        BY <2>1 DEF HandlePosition
<1>6. player' = "gapless" /\ ~ Waits(inbox', PositionKinds) =>
            NextReady(inbox', n, nextPosition', Len(inbox') + 1)
    BY <1>5 DEF NextReady
<1>7. PICK b \in 0 .. Len(inbox) : RightFrom(inbox, n, position, nextPosition, b)
    BY <1>1 DEF Settles
<1>8. b \in {0, 1} => position' \in 0 .. n - 1
    <2>1. 1 \in DOMAIN inbox
        BY <1>2
    <2>2. b \in {0, 1} => 1 >= b
        OBVIOUS
    <2>. QED
        BY <1>3, <1>7, <2>1, <2>2 DEF RightFrom
<1>9. Settles(Tail(inbox), n, position', nextPosition', player')
    BY <1>1, <1>3, <1>4, <1>6, <1>7, <1>8, TailSettles
<1>. QED
    BY <1>1, <1>3, <1>9

LEMMA RangeHandlePrepareNext ==
    ASSUME TypeOK, RangeInv, HandlePrepareNext
    PROVE  RangeInv'
<1> DEFINE n == Len(playingQueue)
<1> SUFFICES ASSUME ~ ranAhead', playingQueue' # <<>>
             PROVE  Settles(inbox', Len(playingQueue'), position', nextPosition', player')
    BY DEF RangeInv
<1>1. /\ playingQueue' = playingQueue /\ playingQueue \in Seq(Song)
      /\ repeatMode \in RepeatModes
      /\ inbox \in Seq(Message) /\ inbox # <<>>
      /\ Settles(inbox, n, position, nextPosition, player)
    BY HandledMessage DEF Handler
<1>2. Head(inbox) = inbox[1]
    BY <1>1, TailEntry
<1>3. /\ inbox[1].what = "PREPARE_NEXT" /\ position' = position /\ inbox' = Tail(inbox)
      /\ nextPosition' = getNextPosition(playingQueue, position, repeatMode, FALSE)
    BY <1>2 DEF HandlePrepareNext, PrepareNext, prepareNextImpl
<1>4. PICK b \in 0 .. Len(inbox) : RightFrom(inbox, n, position, nextPosition, b)
    BY <1>1 DEF Settles
<1>5. b # 1
    BY <1>3, <1>4 DEF RightFrom, PositionKinds
<1>6. b = 0 => position \in 0 .. n - 1 /\ nextPosition' \in 0 .. n - 1
    <2>1. b = 0 => position \in 0 .. n - 1
        BY <1>4 DEF RightFrom
    <2>. QED
        BY <1>1, <1>3, <2>1, NextInRange
<1>7. player' = "gapless" /\ ~ Waits(Tail(inbox), PositionKinds) =>
            NextReady(Tail(inbox), n, nextPosition', Len(Tail(inbox)) + 1)
    <2>1. CASE b = 0
        BY <1>6, <2>1 DEF NextReady
    <2>2. CASE b > 1
        BY <1>1, <1>4, <2>2, StillWaits
    <2>3. b = 0 \/ b > 1
        BY <1>1, <1>5, LenProperties
    <2>. QED
        BY <2>1, <2>2, <2>3
<1>8. inbox[1].what # "TRACK_ENDED" /\ (b \in {0, 1} => position \in 0 .. n - 1)
    BY <1>3, <1>5, <1>6
<1>9. Settles(Tail(inbox), n, position, nextPosition', player')
    BY <1>1, <1>4, <1>6, <1>7, <1>8, TailSettles
<1>. QED
    BY <1>1, <1>3, <1>9

LEMMA RangeHandleTrackWentToNext ==
    ASSUME TypeOK, RangeInv, HandleTrackWentToNext
    PROVE  RangeInv'
<1> DEFINE n == Len(playingQueue)
<1> SUFFICES ASSUME ~ ranAhead', playingQueue' # <<>>
             PROVE  Settles(inbox', Len(playingQueue'), position', nextPosition', player')
    BY DEF RangeInv
<1>1. /\ playingQueue' = playingQueue /\ playingQueue \in Seq(Song)
      /\ repeatMode \in RepeatModes
      /\ inbox \in Seq(Message) /\ inbox # <<>>
      /\ Settles(inbox, n, position, nextPosition, player)
    BY HandledMessage DEF Handler
<1>2. /\ Head(inbox) = inbox[1] /\ DOMAIN inbox = 1 .. Len(inbox)
      /\ Len(inbox) \in Nat /\ Len(inbox) > 0
    BY <1>1, TailEntry
<1>3. inbox[1].what = "TRACK_WENT_TO_NEXT" /\ inbox' = Tail(inbox)
    BY <1>2 DEF HandleTrackWentToNext
<1>4. \/ UNCHANGED <<position, nextPosition>>
      \/ /\ position' = nextPosition
         /\ nextPosition' = getNextPosition(playingQueue, nextPosition, repeatMode, FALSE)
    BY DEF HandleTrackWentToNext, PrepareNext, prepareNextImpl
<1>5. PICK b \in 0 .. Len(inbox) : RightFrom(inbox, n, position, nextPosition, b)
    BY <1>1 DEF Settles
<1>6. b = 0 \/ b > 1
    <2>1. b # 1
        BY <1>3, <1>5 DEF RightFrom, PositionKinds
    <2>. QED
        BY <1>2, <2>1
<1>7. b = 0 => position' \in 0 .. n - 1 /\ nextPosition' \in 0 .. n - 1
    <2> SUFFICES ASSUME b = 0
                 PROVE  position' \in 0 .. n - 1 /\ nextPosition' \in 0 .. n - 1
        OBVIOUS
    <2>1. position \in 0 .. n - 1 /\ NextReady(inbox, n, nextPosition, 1)
        BY <1>2, <1>3, <1>5 DEF RightFrom
    <2>2. nextPosition \in 0 .. n - 1
        BY <1>2, <2>1 DEF NextReady
    <2>. QED
        BY <1>1, <1>4, <2>1, <2>2, NextInRange
<1>8. player' = "gapless" /\ ~ Waits(Tail(inbox), PositionKinds) =>
            NextReady(Tail(inbox), n, nextPosition', Len(Tail(inbox)) + 1)
    <2>1. CASE b = 0
        BY <1>7, <2>1 DEF NextReady
    <2>2. CASE b > 1
        BY <1>1, <1>5, <2>2, StillWaits
    <2>. QED
        BY <1>6, <2>1, <2>2
<1>9. inbox[1].what # "TRACK_ENDED" /\ (b \in {0, 1} => position' \in 0 .. n - 1)
    BY <1>3, <1>6, <1>7
<1>10. Settles(Tail(inbox), n, position', nextPosition', player')
    BY <1>1, <1>5, <1>7, <1>8, <1>9, TailSettles
<1>. QED
    BY <1>1, <1>3, <1>10

LEMMA RangeHandleTrackEnded ==
    ASSUME TypeOK, RangeInv, HandleTrackEnded
    PROVE  RangeInv'
<1> DEFINE n == Len(playingQueue)
           rest == Tail(inbox)
<1> SUFFICES ASSUME ~ ranAhead', playingQueue' # <<>>
             PROVE  Settles(inbox', Len(playingQueue'), position', nextPosition', player')
    BY DEF RangeInv
<1>1. /\ playingQueue' = playingQueue /\ playingQueue \in Seq(Song)
      /\ repeatMode \in RepeatModes
      /\ inbox \in Seq(Message) /\ inbox # <<>>
      /\ Settles(inbox, n, position, nextPosition, player)
    BY HandledMessage DEF Handler
<1>2. /\ Head(inbox) = inbox[1] /\ DOMAIN inbox = 1 .. Len(inbox)
      /\ Len(inbox) \in Nat /\ Len(inbox) > 0
      /\ rest \in Seq(Message) /\ Len(rest) = Len(inbox) - 1
      /\ DOMAIN rest = 1 .. Len(inbox) - 1
      /\ \A i \in DOMAIN rest : i + 1 \in DOMAIN inbox /\ rest[i] = inbox[i + 1]
    BY <1>1, TailEntry
<1>3. /\ inbox[1].what = "TRACK_ENDED"
      /\ UNCHANGED <<position, nextPosition, player>>
      /\ \/ inbox' = rest
         \/ inbox' = Post(rest, "PLAY_SONG",
                          getNextPosition(playingQueue, position, repeatMode, FALSE))
    BY <1>2 DEF HandleTrackEnded
<1>4. PICK b \in 0 .. Len(inbox) : RightFrom(inbox, n, position, nextPosition, b)
    BY <1>1 DEF Settles
<1>5. b = 0
    BY <1>2, <1>3, <1>4 DEF RightFrom
<1>6. position \in 0 .. n - 1
    BY <1>4, <1>5 DEF RightFrom
<1>7. RightFrom(rest, n, position, nextPosition, 0)
    BY <1>1, <1>3, <1>4, <1>5, <1>6, TailRight
<1>8. CASE inbox' = rest
    <2>1. ASSUME player = "gapless", ~ Waits(rest, PositionKinds)
          PROVE  NextReady(rest, n, nextPosition, Len(rest) + 1)
        <3>1. ~ Waits(inbox, PositionKinds)
            <4>1. \A i \in DOMAIN inbox : i # 1 => i - 1 \in DOMAIN rest /\ (i - 1) + 1 = i
                BY <1>2
            <4>2. \A i \in DOMAIN inbox : inbox[i].what \notin PositionKinds
                BY <1>2, <1>3, <2>1, <4>1 DEF Waits, PositionKinds
            <4>. QED
                BY <4>2 DEF Waits
        <3>2. NextReady(inbox, n, nextPosition, Len(inbox) + 1)
            BY <1>1, <2>1, <3>1 DEF Settles
        <3>3. CASE \E j \in DOMAIN inbox : j < Len(inbox) + 1 /\ inbox[j].what = "PREPARE_NEXT"
            <4>1. PICK j \in DOMAIN inbox : inbox[j].what = "PREPARE_NEXT"
                BY <3>3
            <4>2. j # 1
                BY <1>3, <4>1
            <4>3. j - 1 \in DOMAIN rest /\ j - 1 < Len(rest) + 1 /\ (j - 1) + 1 = j
                BY <1>2, <4>1, <4>2
            <4>4. rest[j - 1].what = "PREPARE_NEXT"
                BY <1>2, <4>1, <4>3
            <4> HIDE DEF rest
            <4>. QED
                BY <4>3, <4>4 DEF NextReady
        <3>. QED
            BY <3>2, <3>3 DEF NextReady
    <2>2. 0 \in 0 .. Len(rest)
        BY <1>2
    <2> HIDE DEF rest
    <2>. QED
        BY <1>1, <1>3, <1>7, <1>8, <2>1, <2>2 DEF Settles
<1>9. CASE inbox' # rest
    <2>1. getNextPosition(playingQueue, position, repeatMode, FALSE) \in 0 .. n - 1
        BY <1>1, <1>6, NextInRange
    <2>2. "PLAY_SONG" \in PositionKinds /\ n \in Nat
        BY <1>1, LenProperties DEF PositionKinds
    <2> HIDE DEF rest
    <2>. QED
        BY <1>1, <1>2, <1>3, <1>7, <1>9, <2>1, <2>2, PostedLaterSettles
<1>. QED
    BY <1>8, <1>9

LEMMA RangeInit == Init => RangeInv
BY DEF Init, RangeInv

LEMMA RangeNext ==
    TypeOK /\ TypeOK' /\ RangeInv /\ [Next]_vars => RangeInv'
<1> SUFFICES ASSUME TypeOK, TypeOK', RangeInv, [Next]_vars PROVE RangeInv'
    OBVIOUS
<1>1. CASE Listener
    BY <1>1, RangeOpenQueue, RangeShuffles, RangeEnqueue, RangePlayNext,
       RangeRemoveAtPosition, RangeRemoveSong, RangeMoveSong, RangeClearQueue,
       RangeSteer, RangeCycleRepeatMode
    DEF Listener
<1>2. CASE Handler
    BY <1>2, RangeHandlePosition, RangeHandlePrepareNext, RangeHandleTrackWentToNext,
       RangeHandleTrackEnded
    DEF Handler
<1>3. CASE UNCHANGED vars
    BY <1>3 DEF vars, lists, RangeInv, Running
<1>4. CASE \/ \E on \in BOOLEAN : GaplessChanged(on)
           \/ \E kind \in EventKinds : PlayerCallback(kind)
    BY <1>4, RangeGaplessChanged, RangePlayerCallback
<1>. QED
    BY <1>1, <1>2, <1>3, <1>4 DEF Next

LEMMA RangeAlways == Spec => []RangeInv
BY RangeInit, RangeNext, TypeCorrect, PTL DEF Spec

LEMMA RangeSettles == TypeOK /\ RangeInv => SettlesInRange
<1> SUFFICES ASSUME TypeOK, RangeInv, Running, ~ ranAhead, playingQueue # <<>>
             PROVE  SettledPosition \in Positions(playingQueue)
    BY DEF SettlesInRange
<1> DEFINE waiting == { i \in DOMAIN inbox : inbox[i].what \in PositionKinds }
<1>1. PICK b \in 0 .. Len(inbox) :
            RightFrom(inbox, Len(playingQueue), position, nextPosition, b)
    BY DEF RangeInv, Settles
<1>2. DOMAIN inbox = 1 .. Len(inbox) /\ Len(inbox) \in Nat
    BY LenProperties DEF TypeOK
<1>3. CASE waiting = {}
    <2>1. b = 0
        BY <1>1, <1>2, <1>3 DEF RightFrom
    <2>2. position \in 0 .. Len(playingQueue) - 1
        BY <1>1, <2>1 DEF RightFrom
    <2>. QED
        BY <1>3, <2>2 DEF SettledPosition, Positions
<1>4. CASE waiting # {}
    <2>1. waiting \subseteq 0 .. Len(inbox) /\ Len(inbox) \in Nat
        BY <1>2
    <2>2. \E i \in waiting : \A j \in waiting : j <= i
        <3> HIDE DEF waiting
        <3>. QED
            BY <1>4, <2>1, GreatestElement
    <2> DEFINE last == CHOOSE i \in waiting : \A j \in waiting : j <= i
    <2>3. last \in waiting /\ \A j \in waiting : j <= last
        BY <2>2
    <2> HIDE DEF last
    <2>4. last >= b
        <3>1. b > 0 => b \in waiting
            BY <1>1, <1>2 DEF RightFrom
        <3>. QED
            BY <1>2, <2>3, <3>1
    <2>5. inbox[last].arg \in 0 .. Len(playingQueue) - 1
        BY <1>1, <2>3, <2>4 DEF RightFrom
    <2>. QED
        BY <1>4, <2>5 DEF SettledPosition, Positions, last
<1>. QED
    BY <1>3, <1>4

(* In every execution a position, once installed, points into the queue,    *)
(* unless a position was used while its correction was still waiting.       *)
THEOREM PositionsSettleInRange == Spec => []SettlesInRange
BY RangeAlways, RangeSettles, TypeCorrect, PTL

-----------------------------------------------------------------------------
(* Exceptions.  A thrown one ends the process, so what was so when it was   *)
(* thrown stays so; with nothing waiting, the position is in the queue and  *)
(* both lists are equally long, so no index is out of bounds.               *)

LEMMA OnlyRunningSteps == Next => Running
BY DEF Next, Listener, Handler, OpenQueue, ContinueCall, toggleShuffle, Enqueue, PlayNext,
       RemoveAtPosition, RemoveSong, MoveSong, ClearQueue, PlaySongAt, PlayNextSong,
       PlayPreviousSong, PlayUnopened, cycleRepeatMode, GaplessChanged, PlayerCallback,
       HandlePosition, HandlePrepareNext, HandleTrackWentToNext, HandleTrackEnded, Idle, Take

LEMMA ShuffleThrowsAhead ==
    ASSUME TypeOK, RangeInv, Running, NEW mode, ShuffleThrows(mode)
    PROVE  ranAhead \/ Unsettled
<1> SUFFICES ASSUME ~ ranAhead, ~ Unsettled PROVE FALSE
    OBVIOUS
<1>1. playingQueue # <<>> /\ position >= size
    BY DEF ShuffleThrows
<1>2. InQueue(position)
    BY <1>1, SettledInRange
<1>3. position \in 0 .. Len(playingQueue) - 1 /\ Len(playingQueue) \in Nat
    BY <1>2, LenProperties DEF InQueue, Positions, TypeOK
<1>. QED
    BY <1>1, <1>3 DEF size

LEMMA PlayNextThrowsAhead ==
    ASSUME TypeOK, RangeInv, SameSongs, NEW songs, PlayNext(songs), thrown' # "none"
    PROVE  ranAhead \/ Unsettled \/ skipped # {}
<1> SUFFICES ASSUME ~ ranAhead, ~ Unsettled, skipped = {} PROVE FALSE
    OBVIOUS
<1>1. /\ Running /\ playingQueue # <<>>
      /\ position + 1 > size \/ position + 1 > Len(originalPlayingQueue)
    BY DEF PlayNext, Idle, AddAt, Running
<1>2. InQueue(position)
    BY <1>1, SettledInRange
<1>3. position \in 0 .. Len(playingQueue) - 1 /\ Len(playingQueue) \in Nat
    BY <1>2, LenProperties DEF InQueue, Positions, TypeOK
<1>4. Len(originalPlayingQueue) = Len(playingQueue)
    BY DEF SameSongs, LengthsAgree
<1>. QED
    BY <1>1, <1>3, <1>4 DEF size

LEMMA ThrowsNext ==
    TypeOK /\ RangeInv /\ SameSongs /\ ThrowsOnlyAhead /\ [Next]_vars => ThrowsOnlyAhead'
<1> SUFFICES ASSUME TypeOK, RangeInv, SameSongs, ThrowsOnlyAhead, [Next]_vars,
                    thrown' # "none"
             PROVE  (ranAhead \/ Unsettled \/ skipped # {})'
    BY DEF ThrowsOnlyAhead
<1>1. CASE UNCHANGED vars
    BY <1>1 DEF ThrowsOnlyAhead, vars, Unsettled, Pending
<1>2. CASE Next
    <2>1. Running
        BY <1>2, OnlyRunningSteps
    <2>2. UNCHANGED <<ranAhead, inbox, skipped>> /\ (ranAhead \/ Unsettled \/ skipped # {})
        <3>1. ASSUME ContinueCall
              PROVE  UNCHANGED <<ranAhead, inbox, skipped>> /\ (ranAhead \/ Unsettled)
            <4>1. ShuffleThrows(Head(call)) /\ Throw("setShuffleMode")
                BY <2>1, <3>1 DEF ContinueCall, setShuffleMode, Running
            <4>. QED
                BY <2>1, <4>1, ShuffleThrowsAhead DEF Throw
        <3>2. ASSUME toggleShuffle
              PROVE  UNCHANGED <<ranAhead, inbox, skipped>> /\ (ranAhead \/ Unsettled)
            <4>1. \E mode : ShuffleThrows(mode) /\ Throw("setShuffleMode")
                BY <2>1, <3>2 DEF toggleShuffle, setShuffleMode, Running
            <4>. QED
                BY <2>1, <4>1, ShuffleThrowsAhead DEF Throw
        <3>3. ASSUME NEW songs, PlayNext(songs)
              PROVE  UNCHANGED <<ranAhead, inbox, skipped>>
                        /\ (ranAhead \/ Unsettled \/ skipped # {})
            <4>1. Throw("addSong")
                BY <2>1, <3>3 DEF PlayNext, AddAt, Running
            <4>. QED
                BY <3>3, <4>1, PlayNextThrowsAhead DEF Throw
        <3>4. ContinueCall \/ toggleShuffle \/ \E songs \in Selections : PlayNext(songs)
            <4>1. thrown' # thrown
                BY <2>1 DEF Running
            <4>2. ~ Handler
                BY <4>1 DEF Handler, HandlePosition, HandlePrepareNext, HandleTrackWentToNext,
                            HandleTrackEnded
            <4>3. /\ ~ \E kind \in EventKinds : PlayerCallback(kind)
                  /\ ~ \E on \in BOOLEAN : GaplessChanged(on)
                BY <4>1 DEF PlayerCallback, GaplessChanged
            <4>4. Listener
                BY <1>2, <4>2, <4>3 DEF Next
            <4>. QED
                BY <4>1, <4>4 DEF Listener, OpenQueue, Enqueue, RemoveAtPosition, RemoveSong,
                    MoveSong, ClearQueue, PlaySongAt, PlayNextSong, PlayPreviousSong,
                    PlayUnopened, Steer, cycleRepeatMode
        <3>. QED
            BY <3>1, <3>2, <3>3, <3>4
    <2>. QED
        BY <2>2 DEF Unsettled, Pending
<1>. QED
    BY <1>1, <1>2

(* In every execution an index out of bounds is thrown on the main thread   *)
(* only when it ran ahead of the handler or after a copy was skipped.       *)
THEOREM ThrowsOnlyWhenAhead == Spec => []ThrowsOnlyAhead
<1>1. Init => ThrowsOnlyAhead
    BY DEF Init, ThrowsOnlyAhead
<1>. QED
    BY <1>1, ThrowsNext, RangeAlways, SameSongsAlways, TypeCorrect, PTL DEF Spec

-----------------------------------------------------------------------------
(* The song a listener picked.  Either it is current and only PREPARE_NEXT  *)
(* waits, or the last position waiting is one of its places, with only      *)
(* PREPARE_NEXT after it.                                                   *)

Asked(box, arg) ==
    \E b \in DOMAIN box :
        /\ box[b].what \in PositionKinds /\ box[b].arg = arg
        /\ \A i \in DOMAIN box : b < i => box[i].what = "PREPARE_NEXT"

ChosenInv ==
    chosen # NoSong =>
        /\ skipped = {} /\ ~ Waits(inbox, {"TRACK_ENDED"})
        /\ \/ Quiet(inbox) /\ CurrentSong = chosen
           \/ \E arg \in Places : Asked(inbox, arg) /\ getSongAt(arg) = chosen

LEMMA AskedWaits ==
    ASSUME NEW box, NEW arg, Asked(box, arg) PROVE Waits(box, PositionKinds)
BY DEF Asked, Waits

LEMMA QuietWaits ==
    ASSUME NEW box, Quiet(box)
    PROVE  ~ Waits(box, PositionKinds) /\ ~ Waits(box, EventKinds)
BY DEF Quiet, Waits, PositionKinds, EventKinds

LEMMA PrepareAsked ==
    ASSUME NEW box \in Seq(Message)
    PROVE  /\ Quiet(box) => Quiet(prepareNext(box))
           /\ \A arg : Asked(box, arg) => Asked(prepareNext(box), arg)
           /\ ~ Waits(box, {"TRACK_ENDED"}) => ~ Waits(prepareNext(box), {"TRACK_ENDED"})
<1> DEFINE posted == prepareNext(box)
<1>0. "PREPARE_NEXT" \in MessageKinds /\ 0 \in Places
    BY DEF MessageKinds, Places
<1>1. PICK place : PostedAs(box, "PREPARE_NEXT", 0, place)
    BY <1>0, PostShape
<1>2. /\ DOMAIN posted = 1 .. Len(posted) /\ Len(posted) \in Nat /\ Len(posted) > 0
      /\ posted[Len(posted)].what = "PREPARE_NEXT"
      /\ \A i \in DOMAIN box : box[i].what # "PREPARE_NEXT" =>
            place[i] \in 1 .. Len(posted) - 1 /\ posted[place[i]] = box[i]
      /\ \A k \in 1 .. Len(posted) - 1 :
            \E i \in DOMAIN box : box[i].what # "PREPARE_NEXT" /\ place[i] = k
      /\ \A i, j \in DOMAIN box :
            box[i].what # "PREPARE_NEXT" /\ box[j].what # "PREPARE_NEXT" =>
                (i < j <=> place[i] < place[j])
    BY <1>1 DEF PostedAs, Others, prepareNext
<1>3. "PREPARE_NEXT" \notin {"TRACK_ENDED"}
    OBVIOUS
<1>4. Waits(posted, {"TRACK_ENDED"}) <=> Waits(box, {"TRACK_ENDED"})
    BY <1>0, <1>3, PostWaits DEF prepareNext
<1> HIDE DEF posted
<1>5. ASSUME NEW k \in DOMAIN posted, posted[k].what # "PREPARE_NEXT"
      PROVE  \E i \in DOMAIN box :
                box[i].what # "PREPARE_NEXT" /\ place[i] = k /\ posted[k] = box[i]
    <2>1. k \in 1 .. Len(posted) - 1
        BY <1>2, <1>5
    <2>. QED
        BY <1>2, <2>1
<1>6. Quiet(box) => Quiet(posted)
    BY <1>5 DEF Quiet
<1>7. ASSUME NEW arg, Asked(box, arg) PROVE Asked(posted, arg)
    <2>1. PICK b \in DOMAIN box :
            /\ box[b].what \in PositionKinds /\ box[b].arg = arg
            /\ \A i \in DOMAIN box : b < i => box[i].what = "PREPARE_NEXT"
        BY <1>7 DEF Asked
    <2>2. box[b].what # "PREPARE_NEXT"
        BY <2>1 DEF PositionKinds
    <2>3. place[b] \in DOMAIN posted /\ posted[place[b]] = box[b]
        BY <1>2, <2>2
    <2>4. ASSUME NEW k \in DOMAIN posted, place[b] < k, posted[k].what # "PREPARE_NEXT"
          PROVE  FALSE
        <3>1. PICK i \in DOMAIN box : box[i].what # "PREPARE_NEXT" /\ place[i] = k
            BY <1>5, <2>4
        <3>2. b < i
            BY <1>2, <2>2, <2>4, <3>1
        <3>. QED
            BY <2>1, <3>1, <3>2
    <2>. QED
        BY <2>1, <2>3, <2>4 DEF Asked
<1>. QED
    BY <1>4, <1>6, <1>7 DEF posted

LEMMA PostAsked ==
    ASSUME NEW box \in Seq(Message), NEW kind \in PositionKinds, NEW arg \in Places
    PROVE  Asked(Post(box, kind, arg), arg)
<1> DEFINE posted == Post(box, kind, arg)
<1>1. kind \in MessageKinds
    BY DEF MessageKinds
<1>2. PICK place : PostedAs(box, kind, arg, place)
    BY <1>1, PostShape
<1>3. /\ DOMAIN posted = 1 .. Len(posted) /\ Len(posted) \in Nat /\ Len(posted) > 0
      /\ posted[Len(posted)].what = kind /\ posted[Len(posted)].arg = arg
    BY <1>2 DEF PostedAs
<1> HIDE DEF posted
<1>4. Len(posted) \in DOMAIN posted /\ \A i \in DOMAIN posted : ~ (Len(posted) < i)
    BY <1>3
<1>5. Asked(posted, arg)
    BY <1>3, <1>4 DEF Asked
<1>. QED
    BY <1>5 DEF posted

LEMMA TailAsked ==
    ASSUME NEW box \in Seq(Message), box # <<>>
    PROVE  /\ Quiet(box) => Quiet(Tail(box)) /\ box[1].what = "PREPARE_NEXT"
           /\ \A arg : Asked(box, arg) =>
                 \/ box[1].what \in PositionKinds /\ box[1].arg = arg /\ Quiet(Tail(box))
                 \/ Asked(Tail(box), arg)
           /\ \A kinds : ~ Waits(box, kinds) =>
                 ~ Waits(Tail(box), kinds) /\ box[1].what \notin kinds
<1> DEFINE rest == Tail(box)
<1>1. /\ Len(box) \in Nat /\ Len(box) > 0 /\ DOMAIN box = 1 .. Len(box)
      /\ DOMAIN rest = 1 .. Len(box) - 1
      /\ \A i \in DOMAIN rest : i + 1 \in DOMAIN box /\ rest[i] = box[i + 1]
    BY TailEntry
<1> HIDE DEF rest
<1>2. 1 \in DOMAIN box
    BY <1>1
<1>3. Quiet(box) => Quiet(rest) /\ box[1].what = "PREPARE_NEXT"
    BY <1>1, <1>2 DEF Quiet
<1>4. \A kinds : ~ Waits(box, kinds) => ~ Waits(rest, kinds) /\ box[1].what \notin kinds
    BY <1>1, <1>2 DEF Waits
<1>5. ASSUME NEW arg, Asked(box, arg)
      PROVE  \/ box[1].what \in PositionKinds /\ box[1].arg = arg /\ Quiet(rest)
             \/ Asked(rest, arg)
    <2>1. PICK b \in DOMAIN box :
            /\ box[b].what \in PositionKinds /\ box[b].arg = arg
            /\ \A i \in DOMAIN box : b < i => box[i].what = "PREPARE_NEXT"
        BY <1>5 DEF Asked
    <2>2. CASE b = 1
        <3>1. \A i \in DOMAIN rest : 1 < i + 1
            BY <1>1
        <3>. QED
            BY <1>1, <2>1, <2>2, <3>1 DEF Quiet
    <2>3. CASE b # 1
        <3>1. b - 1 \in DOMAIN rest /\ (b - 1) + 1 = b
            BY <1>1, <2>3
        <3>2. \A i \in DOMAIN rest : b - 1 < i => b < i + 1
            BY <1>1
        <3>3. rest[b - 1] = box[b]
            BY <1>1, <3>1
        <3>4. \A i \in DOMAIN rest : b - 1 < i => rest[i].what = "PREPARE_NEXT"
            BY <1>1, <2>1, <3>2
        <3>. QED
            BY <2>1, <3>1, <3>3, <3>4 DEF Asked
    <2>. QED
        BY <2>2, <2>3
<1>. QED
    BY <1>3, <1>4, <1>5 DEF rest

LEMMA QueueChangedAsked ==
    ASSUME NEW box \in Seq(Message), NEW list
    PROVE  /\ Quiet(box) => Quiet(QueueChanged(box, list))
           /\ \A arg : Asked(box, arg) => Asked(QueueChanged(box, list), arg)
           /\ ~ Waits(box, {"TRACK_ENDED"}) => ~ Waits(QueueChanged(box, list), {"TRACK_ENDED"})
BY PrepareAsked DEF QueueChanged

LEMMA ChosenOpenQueue ==
    ASSUME TypeOK, NEW songs \in Selections, NEW start, NEW play, NEW remember, NEW all,
           OpenQueue(songs, start, play, remember, all)
    PROVE  ChosenInv'
<1> SUFFICES ASSUME chosen' # NoSong PROVE ChosenInv'
    BY DEF ChosenInv
<1> DEFINE kind == IF play THEN "PLAY_SONG" ELSE "SET_POSITION"
<1> PICK arg : arg = openedPosition(start)
    OBVIOUS
<1> DEFINE posted == Post(inbox, kind, arg)
<1>1. songs \in Seq(Song) /\ start \in Positions(songs) /\ inbox \in Seq(Message)
    BY SelectionsAssumption DEF OpenQueue, TypeOK
<1>2. ~ Waits(inbox, {"TRACK_ENDED"}) /\ chosen' = songs[start + 1] /\ skipped' = {}
    BY DEF OpenQueue, Pending, Waits
<1>3. inbox' = QueueChanged(posted, songs)
    BY DEF OpenQueue
<1>4. kind \in PositionKinds /\ kind \in MessageKinds /\ kind \notin {"TRACK_ENDED"}
    BY DEF PositionKinds, MessageKinds
<1>5. start \in Nat /\ start < Len(songs) /\ Len(songs) \in Nat /\ songs # <<>>
    BY <1>1, PositionIsPlace, LenProperties DEF OpenQueue
<1>6. arg \in Places /\ arg \in Positions(songs)
    BY <1>5 DEF openedPosition, Positions, Places
<1> HIDE DEF kind, posted
<1>7. posted \in Seq(Message) /\ Asked(posted, arg) /\ ~ Waits(posted, {"TRACK_ENDED"})
    BY <1>1, <1>2, <1>4, <1>6, PostType, PostAsked, PostWaits
    DEF posted
<1>8. Asked(inbox', arg) /\ ~ Waits(inbox', {"TRACK_ENDED"})
    BY <1>3, <1>7, QueueChangedAsked
<1>9. Len(playingQueue') = Len(songs) /\ playingQueue'[arg + 1] = songs[start + 1]
    <2>1. CASE shuffleMode = "SHUFFLE"
        <3>1. playingQueue' \in Shuffles(songs, start) /\ arg = 0
            BY <2>1 DEF OpenQueue, openedPosition
        <3>2. Len(playingQueue') = Len(songs) /\ playingQueue'[1] = songs[start + 1]
            BY <1>1, <1>5, <3>1, ShufflesCopies
        <3>. QED
            BY <3>1, <3>2
    <2>2. CASE shuffleMode # "SHUFFLE"
        BY <2>2 DEF OpenQueue, openedPosition
    <2>. QED
        BY <2>1, <2>2
<1>10. getSongAt(arg)' = chosen'
    <2>1. arg \in Positions(playingQueue')
        BY <1>6, <1>9 DEF Positions
    <2>2. getSongAt(arg)' = playingQueue'[arg + 1]
        BY <2>1 DEF getSongAt
    <2>. QED
        BY <1>2, <1>9, <2>2
<1>. QED
    BY <1>2, <1>6, <1>8, <1>10 DEF ChosenInv

LEMMA ChosenSetShuffleMode ==
    ASSUME TypeOK, UnshuffledListsAgree, SameSongs, ChosenInv, NEW mode, setShuffleMode(mode)
    PROVE  ChosenInv'
<1> SUFFICES ASSUME chosen' # NoSong PROVE ChosenInv'
    BY DEF ChosenInv
<1>1. /\ chosen' = chosen
      /\ ShuffleOn \/ ShuffleOff
      /\ Waits(inbox, PositionKinds) => ShuffleOff /\ shuffleMode # "SHUFFLE"
    BY DEF setShuffleMode, ShuffleOn, ShuffleOff, Pending, Waits
<1>2. /\ inbox' = QueueChanged(inbox, playingQueue') /\ skipped' = skipped
      /\ inbox \in Seq(Message)
    BY DEF setShuffleMode, TypeOK
<1>3. chosen # NoSong /\ skipped = {} /\ ~ Waits(inbox, {"TRACK_ENDED"})
    BY <1>1 DEF ChosenInv
<1>4. ~ Waits(inbox', {"TRACK_ENDED"})
    BY <1>2, <1>3, QueueChangedAsked
<1>5. CASE Quiet(inbox) /\ CurrentSong = chosen
    <2>1. InQueue(position) /\ CurrentSong \notin skipped
        BY <1>3, <1>5 DEF CurrentSong, getSongAt, InQueue
    <2>2. CurrentSong' = CurrentSong
        BY <2>1, KeepsOnShuffle
    <2>3. Quiet(inbox')
        BY <1>2, <1>5, QueueChangedAsked
    <2>4. chosen' = chosen
        BY <1>1
    <2>. QED
        BY <1>2, <1>3, <1>4, <1>5, <2>2, <2>3, <2>4 DEF ChosenInv
<1>6. CASE \E arg \in Places : Asked(inbox, arg) /\ getSongAt(arg) = chosen
    <2>1. PICK arg \in Places : Asked(inbox, arg) /\ getSongAt(arg) = chosen
        BY <1>6
    <2>2. ShuffleOff /\ shuffleMode # "SHUFFLE"
        BY <1>1, <2>1, AskedWaits
    <2>3. playingQueue' = playingQueue
        BY <2>2 DEF ShuffleOff, UnshuffledListsAgree, TypeOK, ShuffleModes
    <2>4. getSongAt(arg)' = getSongAt(arg)
        BY <2>3 DEF getSongAt
    <2>5. Asked(inbox', arg)
        BY <1>2, <2>1, QueueChangedAsked
    <2>6. chosen' = chosen
        BY <1>1
    <2>. QED
        BY <1>2, <1>3, <1>4, <2>1, <2>4, <2>5, <2>6 DEF ChosenInv
<1>. QED
    BY <1>3, <1>5, <1>6 DEF ChosenInv

(* PREPARE_NEXT is posted again, or nothing of concern changes. *)
LEMMA ChosenKept ==
    ASSUME TypeOK, ChosenInv, UNCHANGED <<playingQueue, position, skipped, chosen>>,
           inbox' = inbox \/ inbox' = prepareNext(inbox)
    PROVE  ChosenInv'
<1> SUFFICES ASSUME chosen # NoSong PROVE ChosenInv'
    BY DEF ChosenInv
<1>1. /\ Quiet(inbox) => Quiet(inbox')
      /\ \A arg : Asked(inbox, arg) => Asked(inbox', arg)
      /\ ~ Waits(inbox, {"TRACK_ENDED"}) => ~ Waits(inbox', {"TRACK_ENDED"})
    BY PrepareAsked DEF TypeOK
<1>2. /\ skipped' = {} /\ ~ Waits(inbox', {"TRACK_ENDED"})
      /\ \/ Quiet(inbox) /\ CurrentSong = chosen
         \/ \E arg \in Places : Asked(inbox, arg) /\ getSongAt(arg) = chosen
    BY <1>1 DEF ChosenInv
<1>3. CASE Quiet(inbox) /\ CurrentSong = chosen
    <2>1. CurrentSong' = chosen'
        BY <1>3 DEF CurrentSong, getSongAt
    <2>. QED
        BY <1>1, <1>2, <1>3, <2>1 DEF ChosenInv
<1>4. CASE \E arg \in Places : Asked(inbox, arg) /\ getSongAt(arg) = chosen
    <2>1. PICK arg \in Places : Asked(inbox, arg) /\ getSongAt(arg) = chosen
        BY <1>4
    <2>2. getSongAt(arg)' = chosen'
        BY <2>1 DEF getSongAt
    <2>3. Asked(inbox', arg)
        BY <1>1, <2>1
    <2>. QED
        BY <1>2, <2>2, <2>3 DEF ChosenInv
<1>. QED
    BY <1>2, <1>3, <1>4

LEMMA ChosenShuffles ==
    ASSUME TypeOK, UnshuffledListsAgree, SameSongs, ChosenInv, ContinueCall \/ toggleShuffle
    PROVE  ChosenInv'
<1>1. ASSUME Throw("setShuffleMode") PROVE ChosenInv'
    BY <1>1, ChosenKept DEF Throw, lists
<1>. QED
    BY <1>1, ChosenSetShuffleMode DEF ContinueCall, toggleShuffle

LEMMA ChosenHandler ==
    ASSUME TypeOK, ChosenInv, Handler
    PROVE  ChosenInv'
<1> USE DEF HandlePosition, HandlePrepareNext, HandleTrackWentToNext, HandleTrackEnded
<1> SUFFICES ASSUME chosen # NoSong PROVE ChosenInv'
    BY DEF Handler, ChosenInv
<1>1. /\ UNCHANGED <<playingQueue, skipped, chosen>> /\ inbox # <<>>
      /\ inbox \in Seq(Message)
    BY DEF Handler, lists, Take, TypeOK
<1>2. Head(inbox) = inbox[1]
    BY <1>1, TailEntry
<1>3. /\ Quiet(inbox) => Quiet(Tail(inbox)) /\ inbox[1].what = "PREPARE_NEXT"
      /\ \A arg : Asked(inbox, arg) =>
            \/ inbox[1].what \in PositionKinds /\ inbox[1].arg = arg /\ Quiet(Tail(inbox))
            \/ Asked(Tail(inbox), arg)
      /\ \A kinds : ~ Waits(inbox, kinds) =>
            ~ Waits(Tail(inbox), kinds) /\ inbox[1].what \notin kinds
    BY <1>1, TailAsked
<1>4. ~ Waits(inbox, {"TRACK_ENDED"}) /\ skipped = {}
    BY DEF ChosenInv
<1>5. inbox[1].what # "TRACK_ENDED" /\ ~ Waits(Tail(inbox), {"TRACK_ENDED"})
    BY <1>3, <1>4
<1>6. /\ inbox' = Tail(inbox)
      /\ inbox[1].what \in PositionKinds => position' = inbox[1].arg
      /\ inbox[1].what = "PREPARE_NEXT" => position' = position
    BY <1>2, <1>5 DEF Handler, PositionKinds
<1>7. CASE Quiet(inbox) /\ CurrentSong = chosen
    <2>1. position' = position /\ Quiet(inbox')
        BY <1>3, <1>6, <1>7
    <2>2. CurrentSong' = chosen'
        BY <1>1, <1>7, <2>1 DEF CurrentSong, getSongAt
    <2>. QED
        BY <1>1, <1>4, <1>5, <1>6, <2>1, <2>2 DEF ChosenInv
<1>8. CASE \E arg \in Places : Asked(inbox, arg) /\ getSongAt(arg) = chosen
    <2>1. PICK arg \in Places : Asked(inbox, arg) /\ getSongAt(arg) = chosen
        BY <1>8
    <2>2. CASE position' = arg /\ Quiet(inbox')
        <3>1. CurrentSong' = chosen'
            BY <1>1, <2>1, <2>2 DEF CurrentSong, getSongAt
        <3>. QED
            BY <1>1, <1>4, <1>5, <1>6, <2>2, <3>1 DEF ChosenInv
    <2>3. CASE Asked(inbox', arg)
        <3>1. getSongAt(arg)' = chosen'
            BY <1>1, <2>1 DEF getSongAt
        <3>. QED
            BY <1>1, <1>4, <1>5, <1>6, <2>3, <3>1 DEF ChosenInv
    <2>. QED
        BY <1>3, <1>6, <2>1, <2>2, <2>3
<1>. QED
    BY <1>7, <1>8 DEF ChosenInv

LEMMA ChosenNext ==
    TypeOK /\ UnshuffledListsAgree /\ SameSongs /\ ChosenInv /\ [Next]_vars => ChosenInv'
<1> SUFFICES ASSUME TypeOK, UnshuffledListsAgree, SameSongs, ChosenInv, [Next]_vars
             PROVE  ChosenInv'
    OBVIOUS
<1>1. CASE UNCHANGED vars
    BY <1>1, ChosenKept DEF vars, lists
<1>2. CASE Handler
    BY <1>2, ChosenHandler
<1>3. CASE \E kind \in EventKinds : PlayerCallback(kind)
    BY <1>3 DEF PlayerCallback, ChosenInv
<1>4. CASE \E on \in BOOLEAN : GaplessChanged(on)
    BY <1>4, ChosenKept DEF GaplessChanged, lists
<1>5. CASE cycleRepeatMode
    BY <1>5, ChosenKept DEF cycleRepeatMode, lists
<1>6. ASSUME NEW songs \in Selections, PlayNext(songs) PROVE ChosenInv'
    <2>1. CASE Throw("addSong")
        BY <2>1, ChosenKept DEF Throw, lists
    <2>2. CASE ~ Throw("addSong")
        <3>1. chosen' = NoSong
            BY <1>6, <2>2, PlayNextLists
        <3>. QED
            BY <3>1 DEF ChosenInv
    <2>. QED
        BY <2>1, <2>2
<1>7. CASE \/ \E songs \in Selections : Enqueue(songs)
           \/ \E p \in 0 .. MaxLen : RemoveAtPosition(p)
           \/ \E song \in Song : RemoveSong(song)
           \/ \E from, to \in 0 .. MaxLen : MoveSong(from, to)
           \/ ClearQueue
           \/ \E p \in 0 .. MaxLen, play \in BOOLEAN : PlaySongAt(p, play)
           \/ PlayNextSong \/ PlayPreviousSong \/ PlayUnopened
    <2>1. chosen' = NoSong
        BY <1>7 DEF Enqueue, RemoveAtPosition, RemoveSong, MoveSong, ClearQueue, PlaySongAt,
            PlayNextSong, PlayPreviousSong, PlayUnopened, Steer
    <2>. QED
        BY <2>1 DEF ChosenInv
<1>8. CASE Listener
    BY <1>5, <1>6, <1>7, <1>8, ChosenOpenQueue, ChosenShuffles DEF Listener
<1>. QED
    BY <1>1, <1>2, <1>3, <1>4, <1>8 DEF Next

(* In every execution the song a listener picked is the current one once    *)
(* its position is installed.                                               *)
THEOREM ChosenBecomesCurrent == Spec => []ChosenSongBecomesCurrent
<1>1. Init => ChosenInv
    BY DEF Init, ChosenInv
<1>2. ChosenInv => ChosenSongBecomesCurrent
    <2> SUFFICES ASSUME ChosenInv, chosen # NoSong, ~ Waits(inbox, PositionKinds)
                 PROVE  CurrentSong = chosen
        BY DEF ChosenSongBecomesCurrent, Pending, Waits
    <2>. QED
        BY AskedWaits DEF ChosenInv
<1>. QED
    BY <1>1, <1>2, ChosenNext, UnshuffledAgreement, SameSongsAlways, TypeCorrect, PTL DEF Spec

-----------------------------------------------------------------------------
(* What the listener leaves of a track.                                    *)
(*                                                                         *)
(* A module that puts tracks on players needs to know what a queue         *)
(* operation may do to the position they were opened for, when it neither  *)
(* posts another nor ran ahead of the handler: the current song stays, and *)
(* either nothing else that the next track was prepared from has changed,  *)
(* or the handler is asked to prepare it again, or the queue is gone, with *)
(* all that deletions by song had left of it.                              *)

NextTrackKept == UNCHANGED <<playingQueue, position, nextPosition, repeatMode, inbox>>

SparesTracks ==
    /\ ~ ranAhead /\ ~ Pending(PositionKinds)
    /\ skipped \subseteq skipped'
    /\ CurrentSong' = CurrentSong \/ CurrentSong \in skipped \/ CurrentSong = NoSong
    /\ Pending({"TRACK_WENT_TO_NEXT"}) => NextTrackKept
    /\ Pending({"TRACK_WENT_TO_NEXT"})' => Pending({"TRACK_WENT_TO_NEXT"})
    /\ \/ NextTrackKept
       \/ Pending({"PREPARE_NEXT"})'
       \/ /\ playingQueue' = <<>> /\ inbox' = inbox
          /\ \A i \in DOMAIN playingQueue : playingQueue[i] \in skipped'

LEMMA PendingWaits ==
    ASSUME NEW kinds
    PROVE  /\ Pending(kinds) <=> Waits(inbox, kinds)
           /\ Pending(kinds)' <=> Waits(inbox', kinds)
BY DEF Pending, Waits

(* An edit that has the next track prepared again.                         *)
LEMMA PreparingSpares ==
    ASSUME TypeOK, inbox' = prepareNext(inbox), Edited \/ Reprepared,
           ~ ranAhead', ~ Pending(PositionKinds)', skipped \subseteq skipped',
           CurrentSong' = CurrentSong \/ CurrentSong \in skipped \/ CurrentSong = NoSong
    PROVE  SparesTracks
<1>1. ~ ranAhead /\ ~ Pending({"TRACK_WENT_TO_NEXT"})
    BY DEF Edited, Reprepared, Unsettled, Pending, EventKinds
<1>2. /\ "PREPARE_NEXT" \in MessageKinds /\ 0 \in Places /\ inbox \in Seq(Message)
      /\ "PREPARE_NEXT" \in {"PREPARE_NEXT"}
      /\ "PREPARE_NEXT" \notin {"TRACK_WENT_TO_NEXT"} /\ "PREPARE_NEXT" \notin PositionKinds
    BY DEF MessageKinds, Places, TypeOK, PositionKinds
<1>3. inbox' = Post(inbox, "PREPARE_NEXT", 0)
    BY DEF prepareNext
<1>4. /\ Waits(inbox', {"PREPARE_NEXT"})
      /\ Waits(inbox', {"TRACK_WENT_TO_NEXT"}) <=> Waits(inbox, {"TRACK_WENT_TO_NEXT"})
      /\ Waits(inbox', PositionKinds) <=> Waits(inbox, PositionKinds)
    BY <1>2, <1>3, PostWaits
<1>5. ~ Pending(PositionKinds) /\ Pending({"PREPARE_NEXT"})' /\ ~ Pending({"TRACK_WENT_TO_NEXT"})'
    BY <1>1, <1>4, PendingWaits
<1>. QED
    BY <1>1, <1>5 DEF SparesTracks

LEMMA NothingSpares ==
    ASSUME NextTrackKept, UNCHANGED <<ranAhead, skipped>>, ~ ranAhead', ~ Pending(PositionKinds)'
    PROVE  SparesTracks
BY DEF SparesTracks, NextTrackKept, Pending, CurrentSong, getSongAt

LEMMA PositionInQueue ==
    ASSUME TypeOK, RangeInv, Running, ~ ranAhead, ~ Pending(PositionKinds), playingQueue # <<>>
    PROVE  InQueue(position)
<1>1. SettlesInRange
    BY RangeSettles
<1>. QED
    BY <1>1 DEF SettlesInRange, SettledPosition, InQueue, Pending

(* A posted position waits.                                                *)
LEMMA PostingPends ==
    ASSUME TypeOK, NEW kind \in PositionKinds, NEW arg \in Places, NEW list,
           \/ inbox' = Post(inbox, kind, arg)
           \/ inbox' = QueueChanged(Post(inbox, kind, arg), list)
    PROVE  Pending(PositionKinds)'
<1>1. inbox \in Seq(Message) /\ kind \in MessageKinds /\ "PREPARE_NEXT" \notin PositionKinds
    BY DEF TypeOK, MessageKinds, PositionKinds
<1>2. Post(inbox, kind, arg) \in Seq(Message) /\ Waits(Post(inbox, kind, arg), PositionKinds)
    BY <1>1, PostType, PostWaits
<1>3. Waits(inbox', PositionKinds)
    BY <1>1, <1>2, QueueChangedWaits
<1>. QED
    BY <1>3, PendingWaits

LEMMA ShuffleSpares ==
    ASSUME TypeOK, SameSongs, RangeInv, Running, NEW mode, setShuffleMode(mode),
           ~ ranAhead', ~ Pending(PositionKinds)'
    PROVE  SparesTracks
<1>1. /\ Edited /\ inbox' = QueueChanged(inbox, playingQueue')
      /\ UNCHANGED <<nextPosition, repeatMode, skipped>>
    BY DEF setShuffleMode
<1>2. ~ ranAhead /\ ~ Pending(PositionKinds) /\ ~ Pending({"TRACK_WENT_TO_NEXT"})
    BY <1>1 DEF Edited, Unsettled, Pending, EventKinds
<1>3. CurrentSong' = CurrentSong \/ CurrentSong \in skipped \/ CurrentSong = NoSong
    <2>1. CASE InQueue(position)
        BY <2>1, KeepsOnShuffle
    <2>2. CASE ~ InQueue(position)
        BY <2>2 DEF InQueue, CurrentSong, getSongAt
    <2>. QED
        BY <2>1, <2>2
<1>4. CASE playingQueue' # <<>>
    <2>1. inbox' = prepareNext(inbox)
        BY <1>1, <1>4 DEF QueueChanged
    <2>. QED
        BY <1>1, <1>3, <2>1, PreparingSpares
<1>5. CASE playingQueue' = <<>>
    <2>1. inbox' = inbox
        BY <1>1, <1>5 DEF QueueChanged
    <2>2. ASSUME NEW i \in DOMAIN playingQueue PROVE playingQueue[i] \in skipped
        <3>1. playingQueue \in Seq(Song) /\ i \in 1 .. Len(playingQueue) /\ playingQueue[i] \in Song
            BY <2>2, LenProperties, ElementOfSeq DEF TypeOK
        <3>2. CASE ShuffleOn
            <4>1. playingQueue' \in Shuffles(playingQueue, position)
                BY <3>2 DEF ShuffleOn
            <4>2. Len(playingQueue') = Len(playingQueue)
                BY <3>1, <4>1, ShufflesCopies
            <4>. QED
                BY <1>5, <3>1, <4>2
        <3>3. CASE ShuffleOff
            <4>1. originalPlayingQueue = <<>>
                BY <1>5, <3>3 DEF ShuffleOff
            <4>2. SUFFICES ASSUME playingQueue[i] \notin skipped PROVE FALSE
                OBVIOUS
            <4>3. Copies(playingQueue, playingQueue[i]) > 0
                BY <3>1, CopiesType, LenProperties
            <4>4. Copies(originalPlayingQueue, playingQueue[i]) > 0
                BY <3>1, <4>2, <4>3 DEF SameSongs, ListsHoldSameSongs
            <4>5. originalPlayingQueue \in Seq(Song)
                BY DEF TypeOK
            <4>6. \E j \in DOMAIN originalPlayingQueue :
                        originalPlayingQueue[j] = playingQueue[i]
                BY <4>4, <4>5, CopiesType
            <4>. QED
                BY <4>1, <4>6
        <3>. QED
            BY <3>2, <3>3 DEF setShuffleMode
    <2>3. ~ Pending({"TRACK_WENT_TO_NEXT"})'
        BY <1>2, <2>1, PendingWaits
    <2>. QED
        BY <1>1, <1>2, <1>3, <1>5, <2>1, <2>2, <2>3 DEF SparesTracks
<1>. QED
    BY <1>4, <1>5

LEMMA ListenerSpares ==
    ASSUME TypeOK, SameSongs, RangeInv, ~ ranAhead', ~ Pending(PositionKinds)',
           Listener \/ \E on \in BOOLEAN : GaplessChanged(on)
    PROVE  SparesTracks
<1> USE DEF lists, modes
<1>1. Running
    BY OnlyRunningSteps DEF Next
<1>2. position \in Places /\ inbox \in Seq(Message) /\ playingQueue \in Seq(Song)
    BY DEF TypeOK
<1>3. ASSUME NEW operation, Throw(operation) PROVE SparesTracks
    BY <1>3, NothingSpares DEF Throw, NextTrackKept
<1>4. ASSUME NEW kind \in PositionKinds, NEW arg \in Places, NEW list,
             \/ inbox' = Post(inbox, kind, arg)
             \/ inbox' = QueueChanged(Post(inbox, kind, arg), list)
      PROVE  FALSE
    BY <1>4, PostingPends
<1>5. "PLAY_SONG" \in PositionKinds /\ "SET_POSITION" \in PositionKinds
    BY DEF PositionKinds
(* With a queue that is not empty the position is in it.                   *)
<1>6. ASSUME Edited \/ Reprepared, inbox' = QueueChanged(inbox, playingQueue'),
             playingQueue # <<>>, UNCHANGED nextPosition, skipped \subseteq skipped',
             InQueue(position) => CurrentSong' = CurrentSong /\ InQueue(position)'
      PROVE  SparesTracks
    <2>1. ~ ranAhead
        BY <1>6 DEF Edited, Reprepared
    <2>2. ~ Pending(PositionKinds)
        BY <1>2, <1>6, QueueChangedWaits, PendingWaits DEF PositionKinds
    <2>3. InQueue(position) /\ CurrentSong' = CurrentSong /\ InQueue(position)'
        BY <1>1, <1>6, <2>1, <2>2, PositionInQueue
    <2>4. playingQueue' # <<>>
        BY <2>3 DEF InQueue, Positions
    <2>5. inbox' = prepareNext(inbox)
        BY <1>6, <2>4 DEF QueueChanged
    <2>. QED
        BY <1>6, <2>3, <2>5, PreparingSpares
<1>7. ASSUME NEW songs \in Selections, NEW start \in 0 .. MaxLen, NEW play \in BOOLEAN,
             NEW remember \in BOOLEAN, NEW all \in BOOLEAN,
             OpenQueue(songs, start, play, remember, all)
      PROVE  SparesTracks
    <2>1. start \in Nat /\ openedPosition(start) \in Places
        <3>1. start \in 0 .. MaxLen
            BY <1>7
        <3>. QED
            BY <3>1, BoundsAssumption DEF openedPosition, Places
    <2> DEFINE kind == IF play THEN "PLAY_SONG" ELSE "SET_POSITION"
    <2>2. kind \in PositionKinds
        BY <1>5
    <2>3. inbox' = QueueChanged(Post(inbox, kind, openedPosition(start)), songs)
        BY <1>7 DEF OpenQueue
    <2> HIDE DEF kind
    <2>. QED
        BY <1>4, <2>1, <2>2, <2>3
<1>8. CASE ContinueCall \/ toggleShuffle
    BY <1>1, <1>3, <1>8, ShuffleSpares DEF ContinueCall, toggleShuffle
<1>9. ASSUME NEW songs \in Selections, Enqueue(songs) PROVE SparesTracks
    <2>1. /\ Reprepared /\ inbox' = QueueChanged(inbox, playingQueue') /\ playingQueue # <<>>
          /\ UNCHANGED <<nextPosition, skipped>>
        BY <1>9 DEF Enqueue
    <2>. QED
        BY <1>6, <1>9, <2>1, KeepsOnEnqueue
<1>10. ASSUME NEW songs \in Selections, PlayNext(songs) PROVE SparesTracks
    <2>1. CASE Throw("addSong")
        BY <1>3, <2>1
    <2>2. CASE ~ Throw("addSong")
        <3>1. /\ Edited /\ inbox' = QueueChanged(inbox, playingQueue') /\ playingQueue # <<>>
              /\ UNCHANGED <<nextPosition, skipped>>
            BY <1>10, <2>2, PlayNextLists DEF PlayNext
        <3>. QED
            BY <1>6, <1>10, <2>2, <3>1, KeepsOnPlayNext
    <2>. QED
        BY <2>1, <2>2
<1>11. ASSUME NEW p \in 0 .. MaxLen, RemoveAtPosition(p) PROVE SparesTracks
    <2>1. /\ p \in Positions(playingQueue) /\ Edited
          /\ UNCHANGED <<nextPosition, skipped>>
        BY <1>11 DEF RemoveAtPosition
    <2>2. playingQueue # <<>> /\ p \in Nat
        BY <2>1 DEF Positions
    <2>3. CASE p = position
        <3>1. /\ inbox' = QueueChanged(Post(inbox, "SET_POSITION", steppedBack(p, playingQueue')),
                                       playingQueue')
              /\ steppedBack(p, playingQueue') \in {position, position - 1}
            BY <1>11, <2>3 DEF RemoveAtPosition, rePosition, steppedBack
        <3>2. steppedBack(p, playingQueue') \in Places
            BY <2>2, <2>3, <3>1 DEF Places
        <3>. QED
            BY <1>4, <1>5, <3>1, <3>2
    <2>4. CASE p # position
        <3>1. inbox' = QueueChanged(inbox, playingQueue')
            BY <1>11, <2>4 DEF RemoveAtPosition, rePosition
        <3>. QED
            BY <1>6, <1>11, <2>1, <2>2, <2>4, <3>1, KeepsOnRemoveAtPosition
    <2>. QED
        BY <2>3, <2>4
<1>12. ASSUME NEW song \in Song, RemoveSong(song) PROVE SparesTracks
    <2>1. Edited /\ UNCHANGED nextPosition /\ skipped \subseteq skipped'
        BY <1>12 DEF RemoveSong
    <2>2. playingQueue # <<>>
        BY <1>12 DEF RemoveSong
    <2>3. CASE position + 1 \in LoopDeletes(playingQueue, song)
        <3> DEFINE arg == IF position < size - 1 THEN position' ELSE position' - 1
                   rest == LoopDelete(playingQueue, song)
        <3>1. inbox' = QueueChanged(Post(inbox, "SET_POSITION", arg), rest)
            BY <1>12, <2>3 DEF RemoveSong
        <3>2. arg \in Places
            <4>1. position' = position - Cardinality({ i \in LoopDeletes(playingQueue, song) :
                                                            i - 1 < position })
                BY <1>12 DEF RemoveSong
            <4>2. position + 1 \in 1 .. Len(playingQueue) /\ Len(playingQueue) \in Nat
                BY <1>2, <2>3, LoopDeletesDomain, LenProperties
            <4>3. position \in Nat
                BY <1>2, <4>2 DEF Places
            <4>4. position' \in Nat
                BY <1>2, <2>3, <4>1, <4>3, DeletedEntry
            <4>5. \A p \in Nat : p \in Places /\ p - 1 \in Places
                BY DEF Places
            <4>. QED
                BY <4>4, <4>5
        <3> HIDE DEF arg, rest
        <3>. QED
            BY <1>4, <1>5, <3>1, <3>2
    <2>4. CASE position + 1 \notin LoopDeletes(playingQueue, song)
        <3>1. inbox' = QueueChanged(inbox, playingQueue')
            BY <1>12, <2>4 DEF RemoveSong
        <3>. QED
            BY <1>6, <1>12, <2>1, <2>2, <2>4, <3>1, KeepsOnRemoveSong
    <2>. QED
        BY <2>3, <2>4
<1>13. ASSUME NEW from, NEW to, MoveSong(from, to) PROVE SparesTracks
    <2>1. /\ Edited /\ inbox' = QueueChanged(inbox, playingQueue')
          /\ from \in Positions(playingQueue) /\ UNCHANGED <<nextPosition, skipped>>
        BY <1>13 DEF MoveSong
    <2>2. playingQueue # <<>>
        BY <2>1 DEF Positions
    <2>. QED
        BY <1>6, <1>13, <2>1, <2>2, KeepsOnMoveSong
<1>14. CASE ClearQueue
    <2>1. inbox' = Post(inbox, "SET_POSITION", -1) /\ -1 \in Places
        BY <1>14 DEF ClearQueue, Places
    <2>. QED
        BY <1>4, <1>5, <2>1
<1>15. CASE \/ \E p \in 0 .. MaxLen, play \in BOOLEAN : PlaySongAt(p, play)
            \/ PlayNextSong \/ PlayPreviousSong \/ PlayUnopened
    <2>1. \E kind \in PositionKinds : \E arg \in Places : inbox' = Post(inbox, kind, arg)
        <3>1. ASSUME NEW p \in 0 .. MaxLen, NEW play \in BOOLEAN, PlaySongAt(p, play)
              PROVE  \E kind \in PositionKinds : \E arg \in Places : inbox' = Post(inbox, kind, arg)
            <4>1. p \in Places
                BY <3>1, BoundsAssumption DEF Places
            <4>. QED
                BY <1>5, <3>1, <4>1 DEF PlaySongAt, Steer
        <3>2. CASE PlayNextSong
            <4>1. getNextPosition(playingQueue, position, repeatMode, TRUE) \in Places
                BY NextPositionType DEF TypeOK
            <4>. QED
                BY <1>5, <3>2, <4>1 DEF PlayNextSong, Steer
        <3>3. CASE PlayPreviousSong
            <4>1. getPreviousPosition(playingQueue, position, repeatMode, TRUE) \in Places
                BY PreviousPositionType DEF TypeOK
            <4>. QED
                BY <1>5, <3>3, <4>1 DEF PlayPreviousSong, Steer
        <3>4. CASE PlayUnopened
            BY <1>2, <1>5, <3>4 DEF PlayUnopened, Steer
        <3>. QED
            BY <1>15, <3>1, <3>2, <3>3, <3>4
    <2>. QED
        BY <1>4, <2>1
<1>16. CASE cycleRepeatMode
    <2>1. /\ inbox' = prepareNext(inbox) /\ Reprepared
          /\ UNCHANGED <<playingQueue, position, nextPosition, skipped>>
        BY <1>16 DEF cycleRepeatMode
    <2>2. CurrentSong' = CurrentSong
        BY <2>1 DEF CurrentSong, getSongAt
    <2>. QED
        BY <2>1, <2>2, PreparingSpares
<1>17. ASSUME NEW on \in BOOLEAN, GaplessChanged(on) PROVE SparesTracks
    <2>1. UNCHANGED <<playingQueue, position, nextPosition, repeatMode, skipped>>
        BY <1>17 DEF GaplessChanged
    <2>2. CurrentSong' = CurrentSong
        BY <2>1 DEF CurrentSong, getSongAt
    <2>3. CASE inbox' = prepareNext(inbox) /\ Reprepared
        BY <2>1, <2>2, <2>3, PreparingSpares
    <2>4. CASE UNCHANGED <<inbox, ranAhead>>
        BY <2>1, <2>4, NothingSpares DEF NextTrackKept
    <2>. QED
        BY <1>17, <2>3, <2>4 DEF GaplessChanged
<1>. QED
    BY <1>7, <1>8, <1>9, <1>10, <1>11, <1>12, <1>13, <1>14, <1>15, <1>16, <1>17 DEF Listener

(* Once the last waiting position is taken, no switch to the next track     *)
(* waits.                                                                   *)
LEMMA LastPositionSettles ==
    ASSUME TypeOK, RangeInv, Take, ~ ranAhead, playingQueue # <<>>,
           Head(inbox).what \in PositionKinds, ~ Waits(Tail(inbox), PositionKinds)
    PROVE  ~ Waits(Tail(inbox), {"TRACK_WENT_TO_NEXT"})
<1>1. /\ Len(inbox) \in Nat /\ Len(inbox) > 0 /\ DOMAIN inbox = 1 .. Len(inbox)
      /\ Head(inbox) = inbox[1]
      /\ DOMAIN Tail(inbox) = 1 .. Len(inbox) - 1
      /\ \A i \in DOMAIN Tail(inbox) : i + 1 \in DOMAIN inbox /\ Tail(inbox)[i] = inbox[i + 1]
    BY TailEntry DEF TypeOK, Take
<1>2. PICK b \in 0 .. Len(inbox) :
            RightFrom(inbox, Len(playingQueue), position, nextPosition, b)
    BY DEF RangeInv, Settles, Take
<1>3. b = 0 \/ b = 1
    <2>1. SUFFICES ASSUME b > 1 PROVE FALSE
        BY <1>1, <1>2
    <2>2. b - 1 \in DOMAIN Tail(inbox) /\ (b - 1) + 1 = b
        BY <1>1, <1>2, <2>1
    <2>3. inbox[b].what \in PositionKinds
        BY <1>2, <2>1 DEF RightFrom
    <2>. QED
        BY <1>1, <2>2, <2>3 DEF Waits
<1>4. SUFFICES ASSUME NEW i \in DOMAIN Tail(inbox), Tail(inbox)[i].what = "TRACK_WENT_TO_NEXT"
               PROVE  FALSE
    BY DEF Waits
<1>5. i + 1 \in DOMAIN inbox /\ inbox[i + 1].what = "TRACK_WENT_TO_NEXT" /\ i \in Nat /\ i > 0
    BY <1>1, <1>4
<1>6. 1 \in DOMAIN inbox /\ 1 < i + 1 /\ inbox[1].what \in PositionKinds
    BY <1>1, <1>5
<1>. QED
    BY <1>2, <1>3, <1>5, <1>6 DEF RightFrom

=============================================================================
