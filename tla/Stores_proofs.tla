--------------------------- MODULE Stores_proofs ---------------------------
(***************************************************************************)
(* Theorems about the two stores that outlive the process.                 *)
(*                                                                         *)
(* PlayCount, for any songs, lengths, weeks and bounds: a song the handler *)
(* started is counted once more than half of it was heard; what the score  *)
(* of a row is; and that the rows of the store are the plays that were     *)
(* counted, whatever weeks pass between two updates.                       *)
(*                                                                         *)
(* QueueStore, for any songs, bounds and size of a transaction: what is    *)
(* stored at rest is the queue and the position of the running process,    *)
(* and every transaction brings a save nearer to its end.                  *)
(***************************************************************************)
EXTENDS PlayCount, QueueStore, SongLists_proofs

-----------------------------------------------------------------------------
(* Times.                                                                   *)

(* A sum of times is a time, at least either, and grows with each.          *)
LEMMA PlusOfTimes ==
    ASSUME NEW t \in Times, NEW u \in Times
    PROVE  /\ Plus(t, u) \in Times /\ t <= Plus(t, u) /\ u <= Plus(t, u)
           /\ Plus(t, 0) = t
           /\ \A v \in Times : v <= Plus(t, u) => Plus(v, 1) <= Plus(t, Plus(u, 1))
           /\ Plus(t, 1) \in Times
  BY PlayCountAssumption DEF Times, Enough, Plus

LEMMA BoundaryTimes == 0 \in Times /\ Enough \in Times
  BY PlayCountAssumption DEF Times, Enough

-----------------------------------------------------------------------------
(* The watch and what was heard.                                            *)

ListenTypeOK ==
    /\ song \in Song \cup {NoSong} /\ mNumberOfWeeks \in Weeks
    /\ previous \in Times /\ since \in Times /\ heard \in Times
    /\ running \in BOOLEAN /\ playing \in BOOLEAN /\ ready \in BOOLEAN
    /\ plays \in [Song -> [Weeks -> Nat]]

(* Only a song can be ready or heard.                                       *)
OnlySongsAreHeard == song = NoSong => ~playing /\ ~ready /\ heard = 0

(* Unless the song followed without a gap, the watch runs exactly while it  *)
(* plays and has at least the time it was heard.                            *)
WatchKeepsUp == ~gapless => (running <=> playing) /\ heard <= getElapsedTime

ListenInv == ListenTypeOK /\ OnlySongsAreHeard /\ WatchKeepsUp

LEMMA ElapsedIsTime ==
    ASSUME ListenTypeOK
    PROVE  /\ getElapsedTime \in Times
           /\ ~running => getElapsedTime = previous
           /\ running => getElapsedTime = Plus(previous, since)
  BY BoundaryTimes, PlusOfTimes DEF ListenTypeOK, getElapsedTime

LEMMA ElapsedNext ==
    ASSUME ListenTypeOK'
    PROVE  /\ getElapsedTime' \in Times
           /\ ~running' => getElapsedTime' = previous'
           /\ running' => getElapsedTime' = Plus(previous', since')
  BY BoundaryTimes, PlusOfTimes DEF ListenTypeOK, getElapsedTime

LEMMA ListenInit == Init => ListenInv
<1> SUFFICES ASSUME Init PROVE ListenInv
  OBVIOUS
<1>1. plays \in [Song -> [Weeks -> Nat]]
  BY DEF Init
<1>2. running = FALSE /\ playing = FALSE /\ ready = FALSE /\ heard = 0 /\ previous = 0
  BY DEF Init
<1>3. ListenTypeOK
  BY <1>1, <1>2, BoundaryTimes DEF Init, ListenTypeOK
<1>4. getElapsedTime = 0
  BY <1>2, <1>3, ElapsedIsTime
<1>5. WatchKeepsUp
  BY <1>2, <1>4 DEF WatchKeepsUp
<1> QED BY <1>2, <1>3, <1>5 DEF ListenInv, OnlySongsAreHeard

(* A new song is not heard yet.                                             *)
LEMMA NothingHeard ==
    ASSUME ListenTypeOK', heard' = 0, gapless' \/ (running' <=> playing')
    PROVE  WatchKeepsUp'
<1>1. getElapsedTime' \in Times
  BY ElapsedNext
<1>2. 0 <= getElapsedTime'
  BY <1>1 DEF Times
<1> QED BY <1>2 DEF WatchKeepsUp

LEMMA BumpKeepsTypes ==
    ASSUME ListenTypeOK, bumpPlayCount
    PROVE  plays' \in [Song -> [Weeks -> Nat]]
<1>1. CASE shouldBumpPlayCount /\ song # NoSong
  <2>1. plays' = [plays EXCEPT ![song][mNumberOfWeeks] = plays[song][mNumberOfWeeks] + 1]
    BY <1>1 DEF bumpPlayCount
  <2>2. song \in Song /\ mNumberOfWeeks \in Weeks /\ plays[song][mNumberOfWeeks] + 1 \in Nat
    BY <1>1 DEF ListenTypeOK
  <2> QED BY <2>1, <2>2 DEF ListenTypeOK
<1>2. CASE ~(shouldBumpPlayCount /\ song # NoSong)
  BY <1>2 DEF bumpPlayCount, ListenTypeOK
<1> QED BY <1>1, <1>2

LEMMA ListenChange ==
    ASSUME ListenInv, NEW s \in Song, ChangeSong(s)
    PROVE  ListenInv'
<1>1. /\ song' = s /\ heard' = 0 /\ mNumberOfWeeks' = mNumberOfWeeks
      /\ bumpPlayCount
  BY DEF ChangeSong, StartSong, FailToOpen, MovePosition, WentToNext, MetaChanged
<1>2. previous' \in Times /\ since' \in Times
  BY BoundaryTimes, PlusOfTimes DEF ChangeSong, StartSong, FailToOpen, MovePosition,
     WentToNext, resetWatch
<1>3. running' \in BOOLEAN /\ playing' \in BOOLEAN /\ ready' \in BOOLEAN
  BY DEF ListenInv, ListenTypeOK, ChangeSong, StartSong, FailToOpen, MovePosition,
     WentToNext, player
<1>4. gapless' \/ (running' <=> playing')
  BY DEF ChangeSong, StartSong, FailToOpen, MovePosition, WentToNext
<1>5. plays' \in [Song -> [Weeks -> Nat]]
  BY <1>1, BumpKeepsTypes DEF ListenInv
<1>6. ListenTypeOK'
  BY <1>1, <1>2, <1>3, <1>5, BoundaryTimes DEF ListenInv, ListenTypeOK
<1>7. OnlySongsAreHeard'
  BY <1>1, PlayCountAssumption DEF OnlySongsAreHeard
<1> QED BY <1>1, <1>4, <1>6, <1>7, NothingHeard DEF ListenInv

LEMMA ListenPause ==
    ASSUME ListenInv, pause \/ TrackEnded
    PROVE  ListenInv'
<1> DEFINE sum == Plus(previous, since)
<1>1. /\ playing /\ playing' = FALSE /\ running' = FALSE
      /\ previous' \in {sum, Plus(sum, since)}
      /\ UNCHANGED <<song, ready, since, heard, gapless, plays, mNumberOfWeeks>>
  BY DEF pause, TrackEnded, pauseWatch, store
<1>2. previous \in Times /\ since \in Times /\ heard \in Times
  BY DEF ListenInv, ListenTypeOK
<1>3. sum \in Times /\ Plus(sum, since) \in Times /\ sum <= Plus(sum, since)
  BY <1>2, PlusOfTimes
<1>4. ListenTypeOK'
  <2> HIDE DEF sum
  <2> QED BY <1>1, <1>3 DEF ListenInv, ListenTypeOK
<1>5. getElapsedTime' = previous'
  BY <1>1, <1>4, ElapsedNext
<1>6. WatchKeepsUp'
  <2> SUFFICES ASSUME ~gapless PROVE heard <= previous'
    BY <1>1, <1>5 DEF WatchKeepsUp
  <2>1. heard <= sum
    BY <1>1, ElapsedIsTime DEF ListenInv, WatchKeepsUp
  <2>2. sum <= previous' /\ previous' \in Times
    BY <1>1, <1>3, <1>4 DEF ListenTypeOK, Times
  <2> HIDE DEF sum
  <2> QED BY <1>2, <1>3, <2>1, <2>2 DEF Times
<1> QED BY <1>1, <1>4, <1>6 DEF ListenInv, OnlySongsAreHeard

LEMMA ListenPlay ==
    ASSUME ListenInv, play
    PROVE  ListenInv'
<1>1. /\ ~playing /\ ready /\ playing' = TRUE /\ since' = 0 /\ running' = TRUE
      /\ UNCHANGED <<song, ready, previous, heard, gapless, plays, mNumberOfWeeks>>
  BY DEF play, startWatch, store
<1>2. previous \in Times /\ song # NoSong
  BY <1>1 DEF ListenInv, ListenTypeOK, OnlySongsAreHeard
<1>3. ListenTypeOK'
  BY <1>1, BoundaryTimes DEF ListenInv, ListenTypeOK
<1>4. getElapsedTime' = previous
  BY <1>1, <1>2, <1>3, ElapsedNext, PlusOfTimes, BoundaryTimes
<1>5. ~gapless => heard <= previous
  BY <1>1, ElapsedIsTime DEF ListenInv, WatchKeepsUp
<1> QED BY <1>1, <1>2, <1>3, <1>4, <1>5 DEF ListenInv, OnlySongsAreHeard, WatchKeepsUp

LEMMA ListenTick ==
    ASSUME ListenInv, Tick
    PROVE  ListenInv'
<1>1. /\ since' = Plus(since, 1) /\ heard' = (IF playing THEN Plus(heard, 1) ELSE heard)
      /\ UNCHANGED <<song, previous, running, playing, ready, gapless, plays, mNumberOfWeeks>>
  BY DEF Tick, player, store
<1>2. previous \in Times /\ since \in Times /\ heard \in Times
  BY DEF ListenInv, ListenTypeOK
<1>3. since' \in Times /\ heard' \in Times
  BY <1>1, <1>2, PlusOfTimes
<1>4. ListenTypeOK'
  BY <1>1, <1>3 DEF ListenInv, ListenTypeOK
<1>5. OnlySongsAreHeard'
  BY <1>1 DEF ListenInv, OnlySongsAreHeard
<1>6. ASSUME ~gapless PROVE heard' <= getElapsedTime'
  <2>1. CASE playing
    <3>1. running /\ heard <= Plus(previous, since)
      BY <1>6, <2>1, ElapsedIsTime DEF ListenInv, WatchKeepsUp
    <3>2. getElapsedTime' = Plus(previous, Plus(since, 1))
      BY <1>1, <1>4, <3>1, ElapsedNext
    <3> QED BY <1>1, <1>2, <2>1, <3>1, <3>2, PlusOfTimes
  <2>2. CASE ~playing
    <3>1. ~running /\ heard <= previous
      BY <1>6, <2>2, ElapsedIsTime DEF ListenInv, WatchKeepsUp
    <3>2. getElapsedTime' = previous
      BY <1>1, <1>4, <3>1, ElapsedNext
    <3> QED BY <1>1, <2>2, <3>1, <3>2
  <2> QED BY <2>1, <2>2
<1> QED BY <1>1, <1>4, <1>5, <1>6 DEF ListenInv, WatchKeepsUp

LEMMA ListenRestart ==
    ASSUME ListenInv, NEW week \in Weeks, Restart(week)
    PROVE  ListenInv'
<1>1. /\ song' = NoSong /\ playing' = FALSE /\ ready' = FALSE /\ running' = FALSE
      /\ heard' = 0 /\ previous' = 0 /\ since' = Enough /\ mNumberOfWeeks' = week
      /\ plays' = plays
  BY DEF Restart
<1>2. ListenTypeOK'
  BY <1>1, BoundaryTimes DEF ListenInv, ListenTypeOK
<1> QED BY <1>1, <1>2, NothingHeard DEF ListenInv, OnlySongsAreHeard

LEMMA ListenStep == ListenInv /\ [Next]_vars => ListenInv'
<1> SUFFICES ASSUME ListenInv, [Next]_vars PROVE ListenInv'
  OBVIOUS
<1>1. CASE UNCHANGED vars
  BY <1>1 DEF ListenInv, ListenTypeOK, OnlySongsAreHeard, WatchKeepsUp, getElapsedTime,
     vars, watch, store, player
<1>2. CASE \E s \in Song : ChangeSong(s)
  BY <1>2, ListenChange
<1>3. CASE pause \/ TrackEnded
  BY <1>3, ListenPause
<1>4. CASE play
  BY <1>4, ListenPlay
<1>5. CASE updateResults
  BY <1>5 DEF updateResults, ListenInv, ListenTypeOK, OnlySongsAreHeard, WatchKeepsUp,
     getElapsedTime, watch, player
<1>6. CASE clear
  <2>1. plays' \in [Song -> [Weeks -> Nat]]
    BY <1>6 DEF clear
  <2> QED BY <1>6, <2>1 DEF clear, ListenInv, ListenTypeOK, OnlySongsAreHeard, WatchKeepsUp,
     getElapsedTime, watch, player
<1>7. CASE Tick
  BY <1>7, ListenTick
<1>8. CASE \E week \in Weeks : Restart(week)
  BY <1>8, ListenRestart
<1> QED BY <1>1, <1>2, <1>3, <1>4, <1>5, <1>6, <1>7, <1>8 DEF Next

(* A song that the handler started and of which more than half was heard is *)
(* counted, once, in the store's week when it is left, however often it was *)
(* paused.                                                                  *)
THEOREM LongListensCounted == Spec => LongListenIsCounted
<1>1. ASSUME ListenInv, NEW s \in Song, ChangeSong(s), heard > Half, ~gapless
      PROVE  plays'[song][mNumberOfWeeks] = plays[song][mNumberOfWeeks] + 1
  <2>1. bumpPlayCount
    BY <1>1 DEF ChangeSong, StartSong, FailToOpen, MovePosition, WentToNext, MetaChanged
  <2>2. shouldBumpPlayCount
    <3>1. heard <= getElapsedTime
      BY <1>1 DEF ListenInv, WatchKeepsUp
    <3>2. heard \in Nat /\ getElapsedTime \in Nat /\ Half \in Nat
      BY <1>1, ElapsedIsTime, PlayCountAssumption DEF ListenInv, ListenTypeOK, Times
    <3> HIDE DEF getElapsedTime
    <3> QED BY <1>1, <3>1, <3>2 DEF shouldBumpPlayCount
  <2>3. song # NoSong
    BY <1>1, PlayCountAssumption DEF ListenInv, OnlySongsAreHeard
  <2>4. plays' = [plays EXCEPT ![song][mNumberOfWeeks] = plays[song][mNumberOfWeeks] + 1]
    BY <2>1, <2>2, <2>3 DEF bumpPlayCount
  <2>5. song \in Song /\ mNumberOfWeeks \in Weeks /\ plays \in [Song -> [Weeks -> Nat]]
    BY <1>1, <2>3 DEF ListenInv, ListenTypeOK
  <2> QED BY <2>4, <2>5
<1>2. ListenInv /\ [Next]_vars =>
        [(\E s \in Song : ChangeSong(s)) /\ heard > Half /\ ~gapless
           => plays'[song][mNumberOfWeeks] = plays[song][mNumberOfWeeks] + 1]_vars
  BY <1>1
<1> QED BY <1>2, ListenInit, ListenStep, PTL DEF Spec, LongListenIsCounted

-----------------------------------------------------------------------------
(* Sums over the columns.                                                   *)
(*                                                                          *)
(* calculateScore takes one column after another off their set.  That a     *)
(* function with the equation of its sums exists is shown for ever larger   *)
(* sets of columns, and what the sums are by looking for a smallest set     *)
(* where they are not.                                                      *)

Pick(cols) == CHOOSE i \in cols : TRUE

WithPick(counts, cols, sums) ==
    counts[Pick(cols)] * getScoreMultiplierForWeek(Pick(cols)) + sums[cols \ {Pick(cols)}]

IsSums(counts, sums) ==
    sums = [cols \in SUBSET Columns |-> IF cols = {} THEN 0 ELSE WithPick(counts, cols, sums)]

LEMMA ScoreIsSum ==
    ASSUME NEW counts
    PROVE  calculateScore(counts) = (CHOOSE sums : IsSums(counts, sums))[Columns]
  BY Zenon DEF calculateScore, MapThenSumSet, MapThenFoldSet, IsSums, WithPick, Pick

LEMMA ColumnsAreFinite ==
    /\ IsFiniteSet(Columns)
    /\ \A cols \in SUBSET Columns : IsFiniteSet(cols) /\ Cardinality(cols) \in Nat
<1>1. IsFiniteSet(Columns)
  BY PlayCountAssumption, FS_Interval DEF Columns
<1> QED BY <1>1, FS_Subset, FS_CardinalityType

(* Every set of columns but the empty one has a column that is picked, and  *)
(* is smaller without it.                                                   *)
LEMMA Picked ==
    ASSUME NEW cols \in SUBSET Columns, cols # {}
    PROVE  /\ Pick(cols) \in cols
           /\ cols \ {Pick(cols)} \in SUBSET Columns
           /\ Cardinality(cols \ {Pick(cols)}) = Cardinality(cols) - 1
<1>1. Pick(cols) \in cols
  BY DEF Pick
<1> QED BY <1>1, ColumnsAreFinite, FS_RemoveElement

(* A set with {}, and with every set of columns whose rest it has, has all. *)
LEMMA AllColumns ==
    ASSUME NEW T, {} \in T,
           \A cols \in SUBSET Columns : cols # {} /\ cols \ {Pick(cols)} \in T => cols \in T
    PROVE  SUBSET Columns \subseteq T
<1> DEFINE Out == {cols \in SUBSET Columns : cols \notin T}
           Sizes == {Cardinality(cols) : cols \in Out}
<1> SUFFICES ASSUME Out # {} PROVE FALSE
  OBVIOUS
<1>1. Sizes \subseteq Nat /\ Sizes # {}
  BY ColumnsAreFinite
<1>2. PICK k \in Sizes : \A j \in Sizes : k <= j
  <2> HIDE DEF Sizes
  <2> QED BY <1>1, LeastElement
<1>3. PICK cols \in Out : Cardinality(cols) = k
  OBVIOUS
<1>4. cols \in SUBSET Columns /\ cols \notin T /\ cols # {}
  OBVIOUS
<1>5. /\ cols \ {Pick(cols)} \in SUBSET Columns
      /\ Cardinality(cols \ {Pick(cols)}) = k - 1 /\ k \in Nat
  BY <1>1, <1>3, <1>4, Picked
<1>6. cols \ {Pick(cols)} \in Out
  BY <1>4, <1>5
<1>7. k - 1 \in Sizes
  BY <1>5, <1>6
<1>8. k <= k - 1
  <2> HIDE DEF Sizes
  <2> QED BY <1>2, <1>7
<1> QED BY <1>5, <1>8

LEMMA NoColumns ==
    ASSUME NEW cols \in SUBSET Columns, Cardinality(cols) <= 0
    PROVE  cols = {}
  BY ColumnsAreFinite, FS_EmptySet

LEMMA Multiplier ==
    ASSUME NEW i \in Columns
    PROVE  i \in Nat /\ getScoreMultiplierForWeek(i) \in Nat \ {0}
  BY PlayCountAssumption DEF Columns, getScoreMultiplierForWeek

LEMMA Weighted ==
    ASSUME NEW counts \in [Columns -> Nat], NEW i \in Columns
    PROVE  /\ counts[i] * getScoreMultiplierForWeek(i) \in Nat
           /\ counts[i] # 0 => counts[i] * getScoreMultiplierForWeek(i) # 0
<1> DEFINE c == counts[i]
           m == getScoreMultiplierForWeek(i)
<1>1. c \in Nat /\ m \in Nat \ {0}
  BY Multiplier
<1> HIDE DEF c, m
<1>2. c * m \in Nat /\ (c # 0 => c * m # 0)
  BY <1>1
<1> QED BY <1>2 DEF c, m

Small(k) == {cols \in SUBSET Columns : Cardinality(cols) <= k}

SumsOf(counts, k, sums) ==
    /\ sums \in [Small(k) -> Nat]
    /\ \A cols \in Small(k) :
           sums[cols] = IF cols = {} THEN 0 ELSE WithPick(counts, cols, sums)

LEMMA LargerSums ==
    ASSUME NEW counts \in [Columns -> Nat], NEW k \in Nat, NEW sums, SumsOf(counts, k, sums)
    PROVE  \E larger : SumsOf(counts, k + 1, larger)
<1> DEFINE larger == [cols \in Small(k + 1) |-> IF cols = {} THEN 0
                                                ELSE WithPick(counts, cols, sums)]
<1>1. ASSUME NEW cols \in Small(k + 1), cols # {}
      PROVE  /\ cols \ {Pick(cols)} \in Small(k)
             /\ WithPick(counts, cols, sums) \in Nat
  <2>1. cols \in SUBSET Columns /\ Cardinality(cols) <= k + 1
    BY DEF Small
  <2>2. cols \ {Pick(cols)} \in Small(k) /\ Pick(cols) \in Columns
    BY <1>1, <2>1, Picked, ColumnsAreFinite DEF Small
  <2>3. sums[cols \ {Pick(cols)}] \in Nat
    BY <2>2 DEF SumsOf
  <2>4. counts[Pick(cols)] * getScoreMultiplierForWeek(Pick(cols)) \in Nat
    BY <2>2, Weighted
  <2> QED BY <2>2, <2>3, <2>4 DEF WithPick
<1>2. ASSUME NEW cols \in Small(k) PROVE larger[cols] = sums[cols]
  <2>1. cols \in Small(k + 1)
    BY ColumnsAreFinite DEF Small
  <2> QED BY <2>1 DEF SumsOf
<1>3. larger \in [Small(k + 1) -> Nat]
  BY <1>1
<1>4. ASSUME NEW cols \in Small(k + 1), cols # {}
      PROVE  larger[cols] = WithPick(counts, cols, larger)
  <2>1. larger[cols] = WithPick(counts, cols, sums)
    BY <1>4
  <2>2. larger[cols \ {Pick(cols)}] = sums[cols \ {Pick(cols)}]
    BY <1>1, <1>2, <1>4
  <2> HIDE DEF larger
  <2> QED BY <2>1, <2>2 DEF WithPick
<1>5. \A cols \in Small(k + 1) : cols = {} => larger[cols] = 0
  OBVIOUS
<1> HIDE DEF larger
<1> QED BY <1>3, <1>4, <1>5 DEF SumsOf

LEMMA SumsExist ==
    ASSUME NEW counts \in [Columns -> Nat]
    PROVE  \E sums : SumsOf(counts, Cardinality(Columns), sums)
<1> DEFINE Without == {k \in Nat : ~ \E sums : SumsOf(counts, k, sums)}
<1>1. 0 \notin Without
  <2>1. \A cols \in Small(0) : cols = {}
    BY NoColumns DEF Small
  <2> DEFINE zero == [cols \in Small(0) |-> 0]
  <2>2. zero \in [Small(0) -> Nat] /\ \A cols \in Small(0) : zero[cols] = 0
    OBVIOUS
  <2> HIDE DEF zero
  <2>3. SumsOf(counts, 0, zero)
    BY <2>1, <2>2 DEF SumsOf
  <2> QED BY <2>3
<1>2. ASSUME NEW k \in Without, \A j \in Without : k <= j
      PROVE  FALSE
  <2>1. k \in Nat /\ k # 0 /\ ~ \E sums : SumsOf(counts, k, sums)
    BY <1>1
  <2>2. k - 1 \in Nat /\ (k - 1) + 1 = k /\ ~ (k <= k - 1)
    BY <2>1
  <2>3. k - 1 \notin Without
    BY <1>2, <2>2
  <2>4. PICK sums : SumsOf(counts, k - 1, sums)
    BY <2>2, <2>3
  <2>5. \E larger : SumsOf(counts, (k - 1) + 1, larger)
    BY <2>2, <2>4, LargerSums
  <2> QED BY <2>1, <2>2, <2>5
<1>3. Without = {}
  <2>1. Without \subseteq Nat
    OBVIOUS
  <2> HIDE DEF Without
  <2> QED BY <1>2, <2>1, LeastElement
<1> QED BY <1>3, ColumnsAreFinite

(* The equation has a solution, so the sums that are chosen solve it.       *)
LEMMA ScoreSums ==
    ASSUME NEW counts \in [Columns -> Nat]
    PROVE  \E sums :
             /\ calculateScore(counts) = sums[Columns]
             /\ sums \in [SUBSET Columns -> Nat]
             /\ sums[{}] = 0
             /\ \A cols \in SUBSET Columns : cols # {} =>
                    sums[cols] = WithPick(counts, cols, sums)
<1>1. PICK some : SumsOf(counts, Cardinality(Columns), some)
  BY SumsExist
<1>2. Small(Cardinality(Columns)) = SUBSET Columns
  BY ColumnsAreFinite, FS_Subset DEF Small
<1>3. IsSums(counts, some)
  BY <1>1, <1>2 DEF SumsOf, IsSums
<1> DEFINE sums == CHOOSE s : IsSums(counts, s)
<1>4. IsSums(counts, sums)
  BY <1>3
<1>5. calculateScore(counts) = sums[Columns]
  BY ScoreIsSum, Zenon
<1> HIDE DEF sums
<1>6. /\ DOMAIN sums = SUBSET Columns
      /\ \A cols \in SUBSET Columns :
             sums[cols] = IF cols = {} THEN 0 ELSE WithPick(counts, cols, sums)
      /\ sums = [cols \in SUBSET Columns |-> sums[cols]]
  BY <1>4 DEF IsSums
<1>0. sums[{}] = 0
  <2>1. {} \in SUBSET Columns
    OBVIOUS
  <2> QED BY <1>6, <2>1
<1> DEFINE Right == {cols \in SUBSET Columns : sums[cols] \in Nat}
<1>7. ASSUME NEW cols \in SUBSET Columns, cols # {}, cols \ {Pick(cols)} \in Right
      PROVE  cols \in Right
  <2>1. Pick(cols) \in Columns /\ sums[cols \ {Pick(cols)}] \in Nat
    BY <1>7, Picked
  <2>2. counts[Pick(cols)] * getScoreMultiplierForWeek(Pick(cols)) \in Nat
    BY <2>1, Weighted
  <2>3. sums[cols] = WithPick(counts, cols, sums)
    BY <1>6, <1>7
  <2>4. WithPick(counts, cols, sums) \in Nat
    BY <2>1, <2>2 DEF WithPick
  <2> QED BY <2>3, <2>4
<1>8. \A cols \in SUBSET Columns : sums[cols] \in Nat
  <2>1. {} \in Right
    BY <1>0
  <2>2. SUBSET Columns \subseteq Right
    <3> HIDE DEF Right
    <3> QED BY <1>7, <2>1, AllColumns
  <2> QED BY <2>2
<1>9. sums \in [SUBSET Columns -> Nat]
  BY <1>6, <1>8
<1> QED BY <1>0, <1>5, <1>6, <1>9

-----------------------------------------------------------------------------
(* What a score says of the columns.                                        *)

LEMMA ScoreOfNone ==
    ASSUME NEW counts \in [Columns -> Nat], \A i \in Columns : counts[i] = 0
    PROVE  calculateScore(counts) = 0
<1>1. PICK sums :
        /\ calculateScore(counts) = sums[Columns]
        /\ sums \in [SUBSET Columns -> Nat]
        /\ sums[{}] = 0
        /\ \A cols \in SUBSET Columns : cols # {} =>
               sums[cols] = WithPick(counts, cols, sums)
  BY ScoreSums
<1> DEFINE Right == {cols \in SUBSET Columns : sums[cols] = 0}
<1>2. ASSUME NEW cols \in SUBSET Columns, cols # {}, cols \ {Pick(cols)} \in Right
      PROVE  cols \in Right
  <2>1. Pick(cols) \in Columns /\ sums[cols \ {Pick(cols)}] = 0
    BY <1>2, Picked
  <2>2. counts[Pick(cols)] * getScoreMultiplierForWeek(Pick(cols)) = 0
    BY <2>1, Multiplier
  <2>3. sums[cols] = WithPick(counts, cols, sums)
    BY <1>1, <1>2
  <2> QED BY <2>1, <2>2, <2>3 DEF WithPick
<1>3. {} \in Right
  BY <1>1
<1>4. SUBSET Columns \subseteq Right
  <2> HIDE DEF Right
  <2> QED BY <1>2, <1>3, AllColumns
<1> QED BY <1>1, <1>4

LEMMA ScoreOfSome ==
    ASSUME NEW counts \in [Columns -> Nat], NEW i \in Columns, counts[i] # 0
    PROVE  calculateScore(counts) # 0
<1>1. PICK sums :
        /\ calculateScore(counts) = sums[Columns]
        /\ sums \in [SUBSET Columns -> Nat]
        /\ sums[{}] = 0
        /\ \A cols \in SUBSET Columns : cols # {} =>
               sums[cols] = WithPick(counts, cols, sums)
  BY ScoreSums
<1> DEFINE Right == {cols \in SUBSET Columns : i \in cols => sums[cols] # 0}
<1>2. ASSUME NEW cols \in SUBSET Columns, cols # {}, cols \ {Pick(cols)} \in Right, i \in cols
      PROVE  sums[cols] # 0
  <2> DEFINE p == Pick(cols)
             rest == sums[cols \ {p}]
             c == counts[p] * getScoreMultiplierForWeek(p)
  <2>1. p \in Columns /\ cols \ {p} \in SUBSET Columns
    BY <1>2, Picked
  <2>2. rest \in Nat /\ c \in Nat
    BY <1>1, <2>1, Weighted
  <2>3. rest # 0 \/ c # 0
    <3>1. CASE p = i
      BY <2>1, <3>1, Weighted
    <3>2. CASE p # i
      BY <1>2, <3>2
    <3> QED BY <3>1, <3>2
  <2>4. sums[cols] = c + rest
    BY <1>1, <1>2 DEF WithPick
  <2> HIDE DEF p, rest, c
  <2> QED BY <2>2, <2>3, <2>4
<1>3. {} \in Right
  OBVIOUS
<1>4. SUBSET Columns \subseteq Right
  <2>1. \A cols \in SUBSET Columns : cols # {} /\ cols \ {Pick(cols)} \in Right => cols \in Right
    BY <1>2
  <2> HIDE DEF Right
  <2> QED BY <1>3, <2>1, AllColumns
<1> QED BY <1>1, <1>4

(* One more play in the newest column adds that column's multiplier.        *)
LEMMA ScoreOfOneMore ==
    ASSUME NEW counts \in [Columns -> Nat], NEW more \in [Columns -> Nat],
           \A i \in Columns : more[i] = IF i = 0 THEN counts[i] + 1 ELSE counts[i]
    PROVE  calculateScore(more) = calculateScore(counts) + getScoreMultiplierForWeek(0)
<1>0. 0 \in Columns
  BY PlayCountAssumption DEF Columns
<1>1. PICK sums :
        /\ calculateScore(counts) = sums[Columns]
        /\ sums \in [SUBSET Columns -> Nat]
        /\ sums[{}] = 0
        /\ \A cols \in SUBSET Columns : cols # {} =>
               sums[cols] = WithPick(counts, cols, sums)
  BY ScoreSums
<1>2. PICK sums2 :
        /\ calculateScore(more) = sums2[Columns]
        /\ sums2 \in [SUBSET Columns -> Nat]
        /\ sums2[{}] = 0
        /\ \A cols \in SUBSET Columns : cols # {} =>
               sums2[cols] = WithPick(more, cols, sums2)
  BY ScoreSums
<1> DEFINE m == getScoreMultiplierForWeek(0)
           Right == {cols \in SUBSET Columns :
                       sums2[cols] = IF 0 \in cols THEN sums[cols] + m ELSE sums[cols]}
<1>3. ASSUME NEW cols \in SUBSET Columns, cols # {}, cols \ {Pick(cols)} \in Right
      PROVE  cols \in Right
  <2> DEFINE p == Pick(cols)
             rest == sums[cols \ {p}]
             rest2 == sums2[cols \ {p}]
             w == getScoreMultiplierForWeek(p)
             c == counts[p] * w
             c2 == more[p] * w
  <2>1. p \in Columns /\ p \in cols /\ cols \ {p} \in SUBSET Columns
    BY <1>3, Picked
  <2>2. rest \in Nat /\ rest2 \in Nat /\ c \in Nat /\ c2 \in Nat
    BY <1>1, <1>2, <2>1, Weighted
  <2>3. sums[cols] = c + rest /\ sums2[cols] = c2 + rest2
    BY <1>1, <1>2, <1>3 DEF WithPick
  <2>4. m \in Nat /\ w \in Nat /\ counts[p] \in Nat /\ more[p] \in Nat
    BY <1>0, <2>1, Multiplier
  <2>5. rest2 = IF 0 \in cols \ {p} THEN rest + m ELSE rest
    BY <1>3
  <2>6. CASE p = 0
    <3>1. more[p] = counts[p] + 1 /\ w = m
      BY <2>1, <2>6
    <3>2. c2 = c + m
      <4> HIDE DEF w, m
      <4> QED BY <2>4, <3>1
    <3>3. rest2 = rest /\ 0 \in cols
      BY <2>1, <2>5, <2>6
    <3>4. sums2[cols] = sums[cols] + m
      <4> HIDE DEF rest, rest2, c, c2, m
      <4> QED BY <2>2, <2>3, <2>4, <3>2, <3>3
    <3> QED BY <3>3, <3>4
  <2>7. CASE p # 0
    <3>1. c2 = c
      BY <2>1, <2>7
    <3>2. 0 \in cols \ {p} <=> 0 \in cols
      BY <2>7
    <3>3. sums2[cols] = IF 0 \in cols THEN sums[cols] + m ELSE sums[cols]
      <4> HIDE DEF rest, rest2, c, c2, m
      <4> QED BY <2>2, <2>3, <2>4, <2>5, <3>1, <3>2
    <3> QED BY <3>3
  <2> QED BY <2>6, <2>7
<1>4. {} \in Right
  BY <1>1, <1>2
<1>5. SUBSET Columns \subseteq Right
  <2> HIDE DEF Right
  <2> QED BY <1>3, <1>4, AllColumns
<1> QED BY <1>0, <1>1, <1>2, <1>5

LEMMA ScoreIsNatural ==
    ASSUME NEW counts \in [Columns -> Nat]
    PROVE  calculateScore(counts) \in Nat
<1>1. PICK sums : calculateScore(counts) = sums[Columns] /\ sums \in [SUBSET Columns -> Nat]
  BY ScoreSums
<1> QED BY <1>1

-----------------------------------------------------------------------------
(* The rows of the store.                                                   *)
(*                                                                          *)
(* Unless the clock was set back, a song was not played in a week later     *)
(* than its row, or than the store's week if it has none: that is why a     *)
(* column shifted in from the left is empty, and why a row may be dropped.  *)

Rows == [lastUpdated : Weeks, counts : [Columns -> Nat], score : Nat]

PlayedIn(played, week) == IF week \in Weeks THEN played[week] ELSE 0

RightIn(counts, week, played) ==
    \A i \in Columns :
        /\ counts[i] <= PlayedIn(played, week - i)
        /\ ~setBack => counts[i] = PlayedIn(played, week - i)

QuietAfter(week, played) ==
    ~setBack => /\ week <= mNumberOfWeeks
                /\ \A later \in Weeks : later > week => played[later] = 0

NoCounts == [i \in Columns |-> 0]

RowKept(row, played) ==
    /\ row \in Rows
    /\ row.score = calculateScore(row.counts)
    /\ \E i \in Columns : row.counts[i] > 0
    /\ RightIn(row.counts, row.lastUpdated, played)
    /\ QuietAfter(row.lastUpdated, played)

NoRowKept(played) ==
    RightIn(NoCounts, mNumberOfWeeks, played) /\ QuietAfter(mNumberOfWeeks, played)

Keeps(row, played) == IF row = NoRow THEN NoRowKept(played) ELSE RowKept(row, played)

Plays == [Weeks -> Nat]
WeekOK == mNumberOfWeeks \in Weeks /\ setBack \in BOOLEAN

LEMMA NewestColumn == 0 \in Columns /\ 0 \in Weeks /\ NoCounts \in [Columns -> Nat]
  BY PlayCountAssumption DEF Columns, Weeks, NoCounts

LEMMA NoRowIsNone ==
    ASSUME NEW row \in Rows
    PROVE  row # NoRow
<1>1. row.lastUpdated \in Nat
  BY DEF Rows, Weeks
<1>2. NoRow.lastUpdated = -1
  BY DEF NoRow
<1> QED BY <1>1, <1>2

OneMore(counts, more) == more = [counts EXCEPT ![0] = counts[0] + 1]

OnePlay(played, played2) ==
    played2 = [played EXCEPT ![mNumberOfWeeks] = played[mNumberOfWeeks] + 1]

(* A play counted in the store's week.                                      *)
LEMMA OneMorePlay ==
    ASSUME WeekOK, NEW played \in Plays, NEW played2, OnePlay(played, played2)
    PROVE  /\ played2 \in Plays
           /\ \A week \in Int : PlayedIn(played2, week) =
                 IF week = mNumberOfWeeks THEN PlayedIn(played, week) + 1
                                          ELSE PlayedIn(played, week)
           /\ QuietAfter(mNumberOfWeeks, played) => QuietAfter(mNumberOfWeeks, played2)
  BY DEF OnePlay, WeekOK, Plays, PlayedIn, QuietAfter, Weeks

LEMMA OneMoreCount ==
    ASSUME WeekOK, NEW played \in Plays, NEW played2 \in Plays,
           NEW counts \in [Columns -> Nat], NEW more,
           OneMore(counts, more), OnePlay(played, played2),
           RightIn(counts, mNumberOfWeeks, played)
    PROVE  /\ RightIn(more, mNumberOfWeeks, played2)
           /\ more \in [Columns -> Nat]
           /\ calculateScore(more) = calculateScore(counts) + getScoreMultiplierForWeek(0)
           /\ \E i \in Columns : more[i] > 0
<1>1. /\ more \in [Columns -> Nat]
      /\ \A i \in Columns : more[i] = IF i = 0 THEN counts[i] + 1 ELSE counts[i]
  BY NewestColumn DEF OneMore
<1>2. more[0] > 0
  BY <1>1, NewestColumn
<1>3. ASSUME NEW i \in Columns
      PROVE  /\ more[i] <= PlayedIn(played2, mNumberOfWeeks - i)
             /\ ~setBack => more[i] = PlayedIn(played2, mNumberOfWeeks - i)
  <2> DEFINE at == PlayedIn(played, mNumberOfWeeks - i)
             at2 == PlayedIn(played2, mNumberOfWeeks - i)
  <2>1. i \in Nat /\ mNumberOfWeeks \in Nat /\ mNumberOfWeeks - i \in Int
    BY DEF Columns, WeekOK, Weeks
  <2>2. at2 = IF i = 0 THEN at + 1 ELSE at
    <3>1. at2 = IF mNumberOfWeeks - i = mNumberOfWeeks THEN at + 1 ELSE at
      BY <2>1, OneMorePlay
    <3>2. mNumberOfWeeks - i = mNumberOfWeeks <=> i = 0
      BY <2>1
    <3> QED BY <3>1, <3>2
  <2>3. counts[i] <= at /\ (~setBack => counts[i] = at)
    BY DEF RightIn
  <2>4. at \in Nat /\ counts[i] \in Nat
    BY <2>1 DEF PlayedIn, Plays
  <2>5. more[i] = IF i = 0 THEN counts[i] + 1 ELSE counts[i]
    BY <1>1
  <2> HIDE DEF at, at2
  <2>6. more[i] <= at2 /\ (~setBack => more[i] = at2)
    BY <2>2, <2>3, <2>4, <2>5
  <2> QED BY <2>6 DEF at2
<1>4. RightIn(more, mNumberOfWeeks, played2)
  BY <1>3 DEF RightIn
<1> QED BY <1>1, <1>2, <1>4, ScoreOfOneMore, NewestColumn

(* A row of the store's week with the right columns is kept, or dropped if  *)
(* there is nothing in it.                                                  *)
LEMMA KeptIfScored ==
    ASSUME WeekOK, NEW played \in Plays, NEW counts \in [Columns -> Nat],
           RightIn(counts, mNumberOfWeeks, played), QuietAfter(mNumberOfWeeks, played)
    PROVE  /\ Keeps(keptIfScored(counts), played)
           /\ keptIfScored(counts) # NoRow => keptIfScored(counts).lastUpdated = mNumberOfWeeks
<1>1. CASE calculateScore(counts) = 0
  <2>1. \A i \in Columns : counts[i] = 0
    BY <1>1, ScoreOfSome
  <2>2. counts = NoCounts
    BY <2>1 DEF NoCounts
  <2>3. keptIfScored(counts) = NoRow
    BY <1>1 DEF keptIfScored
  <2> QED BY <2>2, <2>3 DEF Keeps, NoRowKept
<1>2. CASE calculateScore(counts) # 0
  <2> DEFINE row == [lastUpdated |-> mNumberOfWeeks, counts |-> counts,
                     score |-> calculateScore(counts)]
  <2>1. keptIfScored(counts) = row
    BY <1>2 DEF keptIfScored, kept, Row
  <2>2. row \in Rows
    BY ScoreIsNatural DEF Rows, WeekOK
  <2>3. row # NoRow
    <3> HIDE DEF row
    <3> QED BY <2>2, NoRowIsNone
  <2>4. \E i \in Columns : counts[i] > 0
    BY <1>2, ScoreOfNone
  <2>5. row.lastUpdated = mNumberOfWeeks /\ row.counts = counts
        /\ row.score = calculateScore(counts)
    OBVIOUS
  <2>6. RowKept(row, played)
    <3> HIDE DEF row
    <3> QED BY <2>2, <2>4, <2>5 DEF RowKept
  <2> QED BY <2>1, <2>3, <2>5, <2>6 DEF Keeps
<1> QED BY <1>1, <1>2

LEMMA NewEntry ==
    ASSUME WeekOK, NEW played \in Plays, NEW played2,
           OnePlay(played, played2),
           NoRowKept(played)
    PROVE  /\ Keeps(createNewPlayedEntry, played2)
           /\ createNewPlayedEntry.lastUpdated = mNumberOfWeeks
<1> DEFINE more == [i \in Columns |-> IF i = 0 THEN 1 ELSE 0]
           score == getScoreMultiplierForWeek(0)
           row == [lastUpdated |-> mNumberOfWeeks, counts |-> more, score |-> score]
<1>1. OneMore(NoCounts, more)
  BY NewestColumn DEF NoCounts, OneMore
<1>2. calculateScore(NoCounts) = 0
  BY ScoreOfNone, NewestColumn DEF NoCounts
<1>3. played2 \in Plays /\ QuietAfter(mNumberOfWeeks, played2)
  BY OneMorePlay DEF NoRowKept
<1>4. score \in Nat
  BY Multiplier, NewestColumn
<1>5. /\ RightIn(more, mNumberOfWeeks, played2)
      /\ more \in [Columns -> Nat]
      /\ calculateScore(more) = score
      /\ \E i \in Columns : more[i] > 0
  <2> HIDE DEF more, score
  <2>1. RightIn(NoCounts, mNumberOfWeeks, played)
    BY DEF NoRowKept
  <2>2. calculateScore(more) = calculateScore(NoCounts) + getScoreMultiplierForWeek(0)
    BY <1>1, <1>3, <2>1, NewestColumn, OneMoreCount
  <2>3. calculateScore(more) = score
    BY <1>2, <1>4, <2>2 DEF score
  <2> QED BY <1>1, <1>3, <2>1, <2>3, NewestColumn, OneMoreCount
<1>6. createNewPlayedEntry = row
  BY DEF createNewPlayedEntry, Row
<1>7. row.lastUpdated = mNumberOfWeeks /\ row.counts = more /\ row.score = score
  OBVIOUS
<1>8. row \in Rows
  BY <1>4, <1>5 DEF Rows, WeekOK
<1> HIDE DEF row, more, score
<1>9. row # NoRow
  BY <1>8, NoRowIsNone
<1>10. RowKept(row, played2)
  BY <1>3, <1>5, <1>7, <1>8 DEF RowKept
<1> QED BY <1>6, <1>7, <1>9, <1>10 DEF Keeps

(* Columns moved by the weeks that passed are right for the store's week.   *)
LEMMA ShiftedAreRight ==
    ASSUME WeekOK, NEW played \in Plays, NEW row \in Rows,
           RightIn(row.counts, row.lastUpdated, played), QuietAfter(row.lastUpdated, played)
    PROVE  /\ shifted(row.counts, mNumberOfWeeks - row.lastUpdated) \in [Columns -> Nat]
           /\ RightIn(shifted(row.counts, mNumberOfWeeks - row.lastUpdated),
                      mNumberOfWeeks, played)
<1> DEFINE m == mNumberOfWeeks
           last == row.lastUpdated
           diff == m - last
           counts == row.counts
           moved == shifted(counts, diff)
<1>1. m \in Nat /\ last \in Nat /\ diff \in Int /\ counts \in [Columns -> Nat]
  BY DEF WeekOK, Rows, Weeks
<1>2. \A i \in Columns : moved[i] = IF i - diff \in Columns THEN counts[i - diff] ELSE 0
  BY DEF shifted
<1>3. moved \in [Columns -> Nat]
  BY <1>1 DEF shifted
<1>4. ASSUME NEW i \in Columns
      PROVE  /\ moved[i] <= PlayedIn(played, m - i)
             /\ ~setBack => moved[i] = PlayedIn(played, m - i)
  <2>0. i \in Nat /\ PlayedIn(played, m - i) \in Nat
    BY DEF Columns, PlayedIn, Plays
  <2>1. CASE i - diff \in Columns
    <3>1. moved[i] = counts[i - diff]
      BY <1>2, <2>1
    <3>2. last - (i - diff) = m - i
      BY <1>1, <2>0
    <3>3. /\ counts[i - diff] <= PlayedIn(played, last - (i - diff))
          /\ ~setBack => counts[i - diff] = PlayedIn(played, last - (i - diff))
      BY <2>1 DEF RightIn
    <3> QED BY <3>1, <3>2, <3>3
  <2>2. CASE i - diff \notin Columns
    <3>1. moved[i] = 0
      BY <1>2, <2>2
    <3>2. ASSUME ~setBack PROVE PlayedIn(played, m - i) = 0
      <4>1. last <= m /\ \A later \in Weeks : later > last => played[later] = 0
        BY <3>2 DEF QuietAfter
      <4>2. i - diff < 0
        BY <1>1, <2>0, <2>2, <4>1, PlayCountAssumption DEF Columns
      <4>3. m - i > last
        BY <1>1, <2>0, <4>2
      <4> QED BY <4>1, <4>3 DEF PlayedIn
    <3> QED BY <2>0, <3>1, <3>2
  <2> QED BY <2>1, <2>2
<1>5. RightIn(moved, m, played)
  <2> HIDE DEF moved
  <2> QED BY <1>4 DEF RightIn
<1> QED BY <1>3, <1>5

LEMMA QuietUntilNow ==
    ASSUME WeekOK, NEW played \in Plays, NEW week \in Weeks, QuietAfter(week, played)
    PROVE  QuietAfter(mNumberOfWeeks, played)
  BY DEF QuietAfter, WeekOK, Weeks

(* A row so old that nothing of it is left in the table may be dropped.     *)
LEMMA TooOld ==
    ASSUME WeekOK, NEW played \in Plays, NEW row \in Rows,
           RightIn(row.counts, row.lastUpdated, played), QuietAfter(row.lastUpdated, played),
           \/ mNumberOfWeeks - row.lastUpdated >= NUM_WEEKS
           \/ -(mNumberOfWeeks - row.lastUpdated) >= NUM_WEEKS
    PROVE  NoRowKept(played)
<1>1. mNumberOfWeeks \in Nat /\ row.lastUpdated \in Nat /\ row.lastUpdated \in Weeks
  BY DEF WeekOK, Rows, Weeks
<1>2. QuietAfter(mNumberOfWeeks, played)
  BY <1>1, QuietUntilNow
<1>3. ASSUME NEW i \in Columns
      PROVE  /\ 0 <= PlayedIn(played, mNumberOfWeeks - i)
             /\ ~setBack => 0 = PlayedIn(played, mNumberOfWeeks - i)
  <2>1. i \in Nat /\ i < NUM_WEEKS /\ PlayedIn(played, mNumberOfWeeks - i) \in Nat
    BY PlayCountAssumption DEF Columns, PlayedIn, Plays
  <2>2. ASSUME ~setBack PROVE PlayedIn(played, mNumberOfWeeks - i) = 0
    <3>1. /\ row.lastUpdated <= mNumberOfWeeks
          /\ \A later \in Weeks : later > row.lastUpdated => played[later] = 0
      BY <2>2 DEF QuietAfter
    <3>2. mNumberOfWeeks - i > row.lastUpdated
      BY <1>1, <2>1, <3>1, PlayCountAssumption
    <3> QED BY <3>1, <3>2 DEF PlayedIn
  <2> QED BY <2>1, <2>2
<1>4. RightIn(NoCounts, mNumberOfWeeks, played)
  BY <1>3 DEF RightIn, NoCounts
<1> QED BY <1>2, <1>4 DEF NoRowKept

InTheWeek(row) == row = NoRow \/ row.lastUpdated = mNumberOfWeeks

LEMMA KeepsRow ==
    ASSUME NEW row, NEW played, Keeps(row, played), row # NoRow
    PROVE  /\ row \in Rows /\ row.lastUpdated \in Weeks /\ row.counts \in [Columns -> Nat]
           /\ row.score = calculateScore(row.counts)
           /\ RightIn(row.counts, row.lastUpdated, played)
           /\ QuietAfter(row.lastUpdated, played)
  BY DEF Keeps, RowKept, Rows

LEMMA UpdatedUnplayed ==
    ASSUME WeekOK, NEW played \in Plays, NEW row, Keeps(row, played)
    PROVE  /\ Keeps(updateExistingRow(row, FALSE), played)
           /\ InTheWeek(updateExistingRow(row, FALSE))
<1> DEFINE diff == mNumberOfWeeks - row.lastUpdated
           moved == shifted(row.counts, diff)
           tooOld == diff >= NUM_WEEKS \/ -diff >= NUM_WEEKS
<1>1. CASE row = NoRow
  <2>1. updateExistingRow(row, FALSE) = row
    BY <1>1 DEF updateExistingRow
  <2> QED BY <1>1, <2>1 DEF InTheWeek
<1>2. CASE row # NoRow /\ tooOld
  <2>1. updateExistingRow(row, FALSE) = NoRow
    BY <1>2 DEF updateExistingRow
  <2>2. NoRowKept(played)
    BY <1>2, KeepsRow, TooOld
  <2> QED BY <2>1, <2>2 DEF Keeps, InTheWeek
<1>3. CASE row # NoRow /\ ~tooOld /\ diff # 0
  <2>1. updateExistingRow(row, FALSE) = keptIfScored(moved)
    BY <1>3 DEF updateExistingRow
  <2>2. moved \in [Columns -> Nat] /\ RightIn(moved, mNumberOfWeeks, played)
    BY <1>3, KeepsRow, ShiftedAreRight
  <2>3. QuietAfter(mNumberOfWeeks, played)
    BY <1>3, KeepsRow, QuietUntilNow
  <2> HIDE DEF moved
  <2> QED BY <2>1, <2>2, <2>3, KeptIfScored DEF InTheWeek
<1>4. CASE row # NoRow /\ ~tooOld /\ diff = 0
  <2>1. updateExistingRow(row, FALSE) = row
    BY <1>4 DEF updateExistingRow
  <2>2. row.lastUpdated = mNumberOfWeeks
    BY <1>4, KeepsRow DEF Weeks, WeekOK
  <2> QED BY <2>1, <2>2 DEF InTheWeek
<1> QED BY <1>1, <1>2, <1>3, <1>4

LEMMA BumpedFields ==
    ASSUME NEW w, NEW c, NEW k, NEW row,
           row = [lastUpdated |-> w, counts |-> c, score |-> k]
    PROVE  bumped(row) = [lastUpdated |-> w, counts |-> [c EXCEPT ![0] = c[0] + 1],
                          score |-> k + getScoreMultiplierForWeek(0)]
<1> DEFINE once == [row EXCEPT !.counts = [row.counts EXCEPT ![0] = row.counts[0] + 1]]
<1>1. once = [lastUpdated |-> w, counts |-> [c EXCEPT ![0] = c[0] + 1], score |-> k]
  OBVIOUS
<1>2. bumped(row) = [once EXCEPT !.score = @ + getScoreMultiplierForWeek(0)]
  BY DEF bumped
<1> HIDE DEF once
<1> QED BY <1>1, <1>2

LEMMA BumpedRow ==
    ASSUME WeekOK, NEW played \in Plays, NEW played2, OnePlay(played, played2),
           NEW row \in Rows, RowKept(row, played), row.lastUpdated = mNumberOfWeeks
    PROVE  Keeps(bumped(row), played2) /\ InTheWeek(bumped(row))
<1> DEFINE m == getScoreMultiplierForWeek(0)
           more == [row.counts EXCEPT ![0] = row.counts[0] + 1]
           score == row.score + m
           new == [lastUpdated |-> mNumberOfWeeks, counts |-> more, score |-> score]
<1>1. /\ row = [lastUpdated |-> mNumberOfWeeks, counts |-> row.counts, score |-> row.score]
      /\ row.counts \in [Columns -> Nat] /\ row.score \in Nat
      /\ RightIn(row.counts, mNumberOfWeeks, played)
      /\ QuietAfter(mNumberOfWeeks, played)
      /\ row.score = calculateScore(row.counts)
  BY DEF RowKept, Rows
<1>2. bumped(row) = new
  <2>1. PICK w, c, k : row = [lastUpdated |-> w, counts |-> c, score |-> k]
    BY <1>1
  <2>2. bumped(row) = [lastUpdated |-> w, counts |-> [c EXCEPT ![0] = c[0] + 1], score |-> k + m]
    BY <2>1, BumpedFields
  <2>3. w = mNumberOfWeeks /\ c = row.counts /\ k = row.score
    BY <1>1, <2>1
  <2> QED BY <2>2, <2>3
<1>3. m \in Nat
  BY NewestColumn, Multiplier
<1>4. played2 \in Plays /\ QuietAfter(mNumberOfWeeks, played2)
  BY <1>1, OneMorePlay
<1>5. OneMore(row.counts, more)
  BY DEF OneMore
<1>6. /\ RightIn(more, mNumberOfWeeks, played2)
      /\ more \in [Columns -> Nat]
      /\ calculateScore(more) = score
      /\ \E i \in Columns : more[i] > 0
  <2> HIDE DEF more
  <2> QED BY <1>1, <1>4, <1>5, OneMoreCount
<1>7. score \in Nat
  BY <1>1, <1>3
<1>8. new \in Rows
  BY <1>6, <1>7 DEF Rows, WeekOK
<1>9. new.lastUpdated = mNumberOfWeeks /\ new.counts = more /\ new.score = score
  OBVIOUS
<1> HIDE DEF new, more, score, m
<1>10. new # NoRow
  BY <1>8, NoRowIsNone
<1>11. RowKept(new, played2)
  BY <1>4, <1>6, <1>8, <1>9 DEF RowKept
<1> QED BY <1>2, <1>9, <1>10, <1>11 DEF Keeps, InTheWeek

LEMMA UpdatedPlayed ==
    ASSUME WeekOK, NEW played \in Plays, NEW played2, OnePlay(played, played2),
           NEW row, Keeps(row, played)
    PROVE  /\ Keeps(updateExistingRow(row, TRUE), played2)
           /\ InTheWeek(updateExistingRow(row, TRUE))
<1> DEFINE diff == mNumberOfWeeks - row.lastUpdated
           moved == shifted(row.counts, diff)
           more == [moved EXCEPT ![0] = moved[0] + 1]
           tooOld == diff >= NUM_WEEKS \/ -diff >= NUM_WEEKS
<1>1. CASE row = NoRow \/ tooOld
  <2>1. updateExistingRow(row, TRUE) = createNewPlayedEntry
    BY <1>1 DEF updateExistingRow
  <2>2. NoRowKept(played)
    <3>1. CASE row = NoRow
      BY <3>1 DEF Keeps
    <3>2. CASE row # NoRow
      BY <1>1, <3>2, KeepsRow, TooOld
    <3> QED BY <3>1, <3>2
  <2> QED BY <2>1, <2>2, NewEntry DEF InTheWeek
<1>2. CASE row # NoRow /\ ~tooOld /\ diff # 0
  <2>1. updateExistingRow(row, TRUE) = keptIfScored(more)
    BY <1>2 DEF updateExistingRow
  <2>2. moved \in [Columns -> Nat] /\ RightIn(moved, mNumberOfWeeks, played)
    BY <1>2, KeepsRow, ShiftedAreRight
  <2>3. QuietAfter(mNumberOfWeeks, played)
    BY <1>2, KeepsRow, QuietUntilNow
  <2>4. played2 \in Plays /\ QuietAfter(mNumberOfWeeks, played2)
    BY <2>3, OneMorePlay
  <2> HIDE DEF moved
  <2>5. OneMore(moved, more)
    BY DEF OneMore
  <2> HIDE DEF more
  <2>6. more \in [Columns -> Nat] /\ RightIn(more, mNumberOfWeeks, played2)
    BY <2>2, <2>4, <2>5, OneMoreCount
  <2> QED BY <2>1, <2>4, <2>6, KeptIfScored DEF InTheWeek
<1>3. CASE row # NoRow /\ ~tooOld /\ diff = 0
  <2>1. updateExistingRow(row, TRUE) = bumped(row)
    BY <1>3 DEF updateExistingRow
  <2>2. row.lastUpdated = mNumberOfWeeks
    BY <1>3, KeepsRow DEF Weeks, WeekOK
  <2>3. row \in Rows /\ RowKept(row, played)
    BY <1>3 DEF Keeps, RowKept
  <2> QED BY <2>1, <2>2, <2>3, BumpedRow
<1> QED BY <1>1, <1>2, <1>3

-----------------------------------------------------------------------------
(* The steps.                                                               *)

StoreTypes ==
    /\ ListenTypeOK
    /\ mDatabaseUpdated \in BOOLEAN /\ setBack \in BOOLEAN /\ gapless \in BOOLEAN
    /\ rows = [s \in Song |-> rows[s]]

RowsKept == \A s \in Song : Keeps(rows[s], plays[s])

ResultsAreNew == mDatabaseUpdated => \A s \in Song : InTheWeek(rows[s])

StoreInv == StoreTypes /\ RowsKept /\ ResultsAreNew

LEMMA StoreTypesGive ==
    ASSUME StoreTypes
    PROVE  /\ WeekOK /\ song \in Song \cup {NoSong} /\ plays \in [Song -> [Weeks -> Nat]]
           /\ \A s \in Song : plays[s] \in Plays
           /\ rows = [s \in Song |-> rows[s]]
  BY DEF StoreTypes, ListenTypeOK, WeekOK, Plays

(* The same row and plays in the same week are as right as before.          *)
LEMMA KeepsNext ==
    ASSUME NEW s \in Song, NEW row, NEW played, Keeps(row, played),
           rows'[s] = row, plays'[s] = played,
           mNumberOfWeeks' = mNumberOfWeeks, setBack' = setBack
    PROVE  Keeps(rows[s], plays[s])'
  BY DEF Keeps, RowKept, NoRowKept, RightIn, QuietAfter

LEMMA InTheWeekNext ==
    ASSUME NEW s \in Song, NEW row, InTheWeek(row), rows'[s] = row,
           mNumberOfWeeks' = mNumberOfWeeks
    PROVE  InTheWeek(rows[s])'
  BY DEF InTheWeek

LEMMA StoreInit == Init => StoreInv
<1> SUFFICES ASSUME Init PROVE StoreInv
  OBVIOUS
<1>1. StoreTypes
  BY ListenInit DEF Init, StoreTypes, ListenInv
<1>2. ASSUME NEW s \in Song PROVE Keeps(rows[s], plays[s]) /\ InTheWeek(rows[s])
  <2>1. rows[s] = NoRow /\ plays[s] = [w \in Weeks |-> 0]
    BY <1>2 DEF Init
  <2>2. \A week \in Int : PlayedIn(plays[s], week) = 0
    BY <2>1 DEF PlayedIn
  <2>3. \A i \in Columns : mNumberOfWeeks - i \in Int
    BY <1>1, StoreTypesGive DEF WeekOK, Weeks, Columns
  <2>4. RightIn(NoCounts, mNumberOfWeeks, plays[s])
    BY <2>2, <2>3 DEF RightIn, NoCounts
  <2>5. QuietAfter(mNumberOfWeeks, plays[s])
    BY <1>1, <2>1, StoreTypesGive DEF QuietAfter, WeekOK, Weeks
  <2> QED BY <2>1, <2>4, <2>5 DEF Keeps, NoRowKept, InTheWeek
<1> QED BY <1>1, <1>2 DEF StoreInv, RowsKept, ResultsAreNew

LEMMA StoreUntouched ==
    ASSUME StoreInv, StoreTypes',
           UNCHANGED <<rows, plays, mNumberOfWeeks, mDatabaseUpdated, setBack>>
    PROVE  StoreInv'
<1>1. ASSUME NEW s \in Song PROVE Keeps(rows[s], plays[s])'
  BY <1>1, KeepsNext DEF StoreInv, RowsKept
<1>2. ResultsAreNew'
  BY DEF StoreInv, ResultsAreNew, InTheWeek
<1> QED BY <1>1, <1>2 DEF StoreInv, RowsKept

LEMMA StoreBump ==
    ASSUME StoreInv, StoreTypes', bumpPlayCount,
           UNCHANGED <<mNumberOfWeeks, mDatabaseUpdated, setBack>>
    PROVE  StoreInv'
<1>1. CASE ~(shouldBumpPlayCount /\ song # NoSong)
  BY <1>1, StoreUntouched DEF bumpPlayCount
<1>2. CASE shouldBumpPlayCount /\ song # NoSong
  <2> DEFINE new == updateExistingRow(rows[song], TRUE)
             more == [plays[song] EXCEPT ![mNumberOfWeeks] = plays[song][mNumberOfWeeks] + 1]
  <2>1. song \in Song
    BY <1>2, StoreTypesGive DEF StoreInv
  <2>2. rows' = [rows EXCEPT ![song] = new] /\ plays' = [plays EXCEPT ![song] = more]
    BY <1>2 DEF bumpPlayCount
  <2>3. DOMAIN rows = Song /\ DOMAIN plays = Song
    BY StoreTypesGive DEF StoreInv
  <2>4. WeekOK /\ plays[song] \in Plays /\ Keeps(rows[song], plays[song])
    BY <2>1, StoreTypesGive DEF StoreInv, RowsKept
  <2>5. OnePlay(plays[song], more)
    BY DEF OnePlay
  <2>6. Keeps(new, more) /\ InTheWeek(new)
    <3> HIDE DEF more
    <3> QED BY <2>4, <2>5, UpdatedPlayed
  <2> HIDE DEF new, more
  <2>7. ASSUME NEW s \in Song
        PROVE  Keeps(rows[s], plays[s])' /\ (mDatabaseUpdated => InTheWeek(rows[s])')
    <3>1. CASE s = song
      <4>1. rows'[s] = new /\ plays'[s] = more
        BY <2>1, <2>2, <2>3, <3>1
      <4> QED BY <2>6, <4>1, KeepsNext, InTheWeekNext
    <3>2. CASE s # song
      <4>1. rows'[s] = rows[s] /\ plays'[s] = plays[s]
        BY <2>2, <2>3, <3>2
      <4>2. Keeps(rows[s], plays[s]) /\ (mDatabaseUpdated => InTheWeek(rows[s]))
        BY DEF StoreInv, RowsKept, ResultsAreNew
      <4> QED BY <4>1, <4>2, KeepsNext, InTheWeekNext
    <3> QED BY <3>1, <3>2
  <2> QED BY <2>7 DEF StoreInv, RowsKept, ResultsAreNew
<1> QED BY <1>1, <1>2

LEMMA StoreUpdate ==
    ASSUME StoreInv, StoreTypes', updateResults
    PROVE  StoreInv'
<1>1. UNCHANGED <<mNumberOfWeeks, plays, setBack>>
  BY DEF updateResults
<1>2. ASSUME NEW s \in Song
      PROVE  Keeps(rows[s], plays[s])' /\ InTheWeek(rows[s])'
  <2>1. WeekOK /\ plays[s] \in Plays /\ Keeps(rows[s], plays[s])
    BY StoreTypesGive DEF StoreInv, RowsKept
  <2>2. CASE IsOutdated(rows[s])
    <3>1. rows'[s] = NoRow
      BY <2>2 DEF updateResults
    <3>2. NoRowKept(plays[s])
      <4>1. CASE rows[s] = NoRow
        BY <2>1, <4>1 DEF Keeps
      <4>2. CASE rows[s] # NoRow
        <5>1. rows[s] \in Rows /\ rows[s].lastUpdated \in Weeks
          BY <2>1, <4>2, KeepsRow
        <5>2. mNumberOfWeeks - rows[s].lastUpdated >= NUM_WEEKS
          BY <2>1, <2>2, <5>1, PlayCountAssumption DEF IsOutdated, Weeks, WeekOK
        <5> QED BY <2>1, <4>2, <5>1, <5>2, KeepsRow, TooOld
      <4> QED BY <4>1, <4>2
    <3>3. Keeps(NoRow, plays[s]) /\ InTheWeek(NoRow)
      BY <3>2 DEF Keeps, InTheWeek
    <3> QED BY <1>1, <3>1, <3>3, KeepsNext, InTheWeekNext
  <2>3. CASE ~IsOutdated(rows[s])
    <3>1. rows'[s] = updateExistingRow(rows[s], FALSE)
      BY <2>3 DEF updateResults
    <3>2. /\ Keeps(updateExistingRow(rows[s], FALSE), plays[s])
          /\ InTheWeek(updateExistingRow(rows[s], FALSE))
      BY <2>1, UpdatedUnplayed
    <3> QED BY <1>1, <3>1, <3>2, KeepsNext, InTheWeekNext
  <2> QED BY <2>2, <2>3
<1> QED BY <1>2 DEF StoreInv, RowsKept, ResultsAreNew

LEMMA StoreClear ==
    ASSUME StoreInv, StoreTypes', clear
    PROVE  StoreInv'
<1>1. UNCHANGED <<mNumberOfWeeks, setBack>>
  BY DEF clear
<1>2. ASSUME NEW s \in Song
      PROVE  Keeps(rows[s], plays[s])' /\ InTheWeek(rows[s])'
  <2> DEFINE none == [w \in Weeks |-> 0]
  <2>1. rows'[s] = NoRow /\ plays'[s] = none
    BY DEF clear
  <2>2. \A week \in Int : PlayedIn(none, week) = 0
    BY DEF PlayedIn
  <2>3. WeekOK /\ \A i \in Columns : mNumberOfWeeks - i \in Int
    BY StoreTypesGive DEF StoreInv, WeekOK, Weeks, Columns
  <2>4. RightIn(NoCounts, mNumberOfWeeks, none)
    BY <2>2, <2>3 DEF RightIn, NoCounts
  <2>5. QuietAfter(mNumberOfWeeks, none)
    BY <2>3 DEF QuietAfter, WeekOK, Weeks
  <2>6. Keeps(NoRow, none) /\ InTheWeek(NoRow)
    BY <2>4, <2>5 DEF Keeps, NoRowKept, InTheWeek
  <2> QED BY <1>1, <2>1, <2>6, KeepsNext, InTheWeekNext
<1> QED BY <1>2 DEF StoreInv, RowsKept, ResultsAreNew

(* In a later week there are no plays between, and after the clock was set  *)
(* back only the bounds are kept.                                           *)
LEMMA StoreRestart ==
    ASSUME StoreInv, StoreTypes', NEW week \in Weeks, Restart(week)
    PROVE  StoreInv'
<1>1. /\ mNumberOfWeeks' = week /\ setBack' = (setBack \/ week < mNumberOfWeeks)
      /\ UNCHANGED <<rows, plays>> /\ mDatabaseUpdated' = FALSE
  BY DEF Restart
<1>2. WeekOK /\ week \in Nat /\ mNumberOfWeeks \in Nat
  BY StoreTypesGive DEF StoreInv, WeekOK, Weeks
<1>3. ~setBack' => ~setBack /\ mNumberOfWeeks <= week
  <2>1. ~setBack' => ~setBack /\ ~(week < mNumberOfWeeks)
    BY <1>1, Zenon
  <2> QED BY <1>2, <2>1
<1>4. ASSUME NEW s \in Song PROVE Keeps(rows[s], plays[s])'
  <2>1. PICK row, played : row = rows[s] /\ played = plays[s]
    OBVIOUS
  <2>2. rows'[s] = row /\ plays'[s] = played
    BY <1>1, <2>1
  <2>3. played \in Plays /\ Keeps(row, played)
    BY <2>1, StoreTypesGive DEF StoreInv, RowsKept
  <2>4. CASE row # NoRow
    <3>1. RowKept(row, played) /\ row.lastUpdated \in Nat
      BY <2>3, <2>4 DEF Keeps, RowKept, Rows, Weeks
    <3>2. RightIn(row.counts, row.lastUpdated, played)'
      BY <1>3, <3>1 DEF RowKept, RightIn
    <3>3. QuietAfter(row.lastUpdated, played)'
      BY <1>1, <1>2, <1>3, <3>1 DEF RowKept, QuietAfter
    <3> QED BY <2>2, <2>4, <3>1, <3>2, <3>3 DEF Keeps, RowKept, RightIn, QuietAfter
  <2>5. CASE row = NoRow
    <3>1. /\ RightIn(NoCounts, mNumberOfWeeks, played)
          /\ QuietAfter(mNumberOfWeeks, played)
      BY <2>3, <2>5 DEF Keeps, NoRowKept
    <3>2. ASSUME NEW i \in Columns
          PROVE  /\ 0 <= PlayedIn(played, week - i)
                 /\ ~setBack' => 0 = PlayedIn(played, week - i)
      <4>1. i \in Nat /\ i <= NUM_WEEKS - 1 /\ PlayedIn(played, week - i) \in Nat
        BY <2>3, PlayCountAssumption DEF Columns, PlayedIn, Plays
      <4>2. ASSUME ~setBack' PROVE PlayedIn(played, week - i) = 0
        <5>1. ~setBack /\ mNumberOfWeeks <= week
          BY <1>3, <4>2
        <5>2. CASE week - i > mNumberOfWeeks
          BY <3>1, <5>1, <5>2 DEF QuietAfter, PlayedIn
        <5>3. CASE ~(week - i > mNumberOfWeeks)
          <6> DEFINE j == mNumberOfWeeks - (week - i)
          <6>1. j \in Columns /\ mNumberOfWeeks - j = week - i
            BY <1>2, <4>1, <5>1, <5>3, PlayCountAssumption DEF Columns
          <6> HIDE DEF j
          <6>2. NoCounts[j] = PlayedIn(played, mNumberOfWeeks - j)
            BY <3>1, <5>1, <6>1 DEF RightIn
          <6> QED BY <6>1, <6>2 DEF NoCounts
        <5> QED BY <5>2, <5>3
      <4> QED BY <4>1, <4>2
    <3>3. /\ \A i \in Columns : NoCounts[i] <= PlayedIn(played, week - i)
          /\ ~setBack' => \A i \in Columns : NoCounts[i] = PlayedIn(played, week - i)
      BY <3>2 DEF NoCounts
    <3>4. ~setBack' => \A later \in Weeks : later > week => played[later] = 0
      BY <1>2, <1>3, <3>1 DEF QuietAfter, Weeks
    <3> QED BY <1>1, <1>2, <2>2, <2>5, <3>3, <3>4 DEF Keeps, NoRowKept, RightIn, QuietAfter
  <2> QED BY <2>4, <2>5
<1> QED BY <1>1, <1>4 DEF StoreInv, RowsKept, ResultsAreNew

LEMMA StoreTypesNext ==
    ASSUME StoreInv, ListenTypeOK', Next
    PROVE  StoreTypes'
<1>1. /\ mDatabaseUpdated \in BOOLEAN /\ setBack \in BOOLEAN /\ gapless \in BOOLEAN
      /\ rows = [s \in Song |-> rows[s]]
  BY DEF StoreInv, StoreTypes
<1>2. CASE \E s \in Song : ChangeSong(s)
  <2>1. /\ gapless' \in BOOLEAN /\ bumpPlayCount
        /\ UNCHANGED <<mDatabaseUpdated, setBack>>
    BY <1>2 DEF ChangeSong, StartSong, FailToOpen, MovePosition, WentToNext, MetaChanged
  <2>2. rows' = [s \in Song |-> rows'[s]]
    <3>1. CASE rows' = rows
      BY <1>1, <3>1
    <3>2. CASE rows' = [rows EXCEPT ![song] = updateExistingRow(rows[song], TRUE)]
      <4> DEFINE new == updateExistingRow(rows[song], TRUE)
      <4> HIDE DEF new
      <4>1. rows' = [rows EXCEPT ![song] = new]
        BY <3>2 DEF new
      <4> QED BY <1>1, <4>1
    <3> QED BY <2>1, <3>1, <3>2 DEF bumpPlayCount
  <2> QED BY <1>1, <2>1, <2>2 DEF StoreTypes
<1>3. CASE updateResults
  <2>1. rows' = [s \in Song |-> rows'[s]]
    BY <1>3 DEF updateResults
  <2> QED BY <1>1, <1>3, <2>1 DEF updateResults, StoreTypes
<1>4. CASE clear
  <2>1. rows' = [s \in Song |-> rows'[s]]
    BY <1>4 DEF clear
  <2> QED BY <1>1, <1>4, <2>1 DEF clear, StoreTypes
<1>5. CASE \E week \in Weeks : Restart(week)
  <2>1. setBack' \in BOOLEAN
    BY <1>1, <1>5, Zenon DEF Restart
  <2> QED BY <1>1, <1>5, <2>1 DEF Restart, StoreTypes
<1>6. CASE pause \/ TrackEnded \/ play \/ Tick
  BY <1>1, <1>6 DEF pause, TrackEnded, play, Tick, store, StoreTypes
<1> QED BY <1>2, <1>3, <1>4, <1>5, <1>6 DEF Next

LEMMA StoreStep == ListenInv /\ StoreInv /\ [Next]_vars => StoreInv'
<1> SUFFICES ASSUME ListenInv, StoreInv, [Next]_vars PROVE StoreInv'
  OBVIOUS
<1>1. CASE UNCHANGED vars
  BY <1>1 DEF StoreInv, StoreTypes, ListenTypeOK, RowsKept, ResultsAreNew, Keeps, RowKept,
     NoRowKept, RightIn, QuietAfter, InTheWeek, vars, watch, store, player
<1>2. CASE Next
  <2>1. StoreTypes'
    BY <1>2, ListenStep, StoreTypesNext DEF ListenInv
  <2>2. CASE \E s \in Song : ChangeSong(s)
    <3>1. bumpPlayCount /\ UNCHANGED <<mNumberOfWeeks, mDatabaseUpdated, setBack>>
      BY <2>2 DEF ChangeSong, StartSong, FailToOpen, MovePosition, WentToNext, MetaChanged
    <3> QED BY <2>1, <3>1, StoreBump
  <2>3. CASE updateResults
    BY <2>1, <2>3, StoreUpdate
  <2>4. CASE clear
    BY <2>1, <2>4, StoreClear
  <2>5. CASE \E week \in Weeks : Restart(week)
    BY <2>1, <2>5, StoreRestart
  <2>6. CASE pause \/ TrackEnded \/ play \/ Tick
    <3>1. UNCHANGED <<rows, plays, mNumberOfWeeks, mDatabaseUpdated, setBack>>
      BY <2>6 DEF pause, TrackEnded, play, Tick, store
    <3> QED BY <2>1, <3>1, StoreUntouched
  <2> QED BY <1>2, <2>2, <2>3, <2>4, <2>5, <2>6 DEF Next
<1> QED BY <1>1, <1>2

LEMMA StoreAlways == Spec => [](ListenInv /\ StoreInv)
<1>1. Init => ListenInv /\ StoreInv
  BY ListenInit, StoreInit
<1>2. ListenInv /\ StoreInv /\ [Next]_vars => (ListenInv /\ StoreInv)'
  BY ListenStep, StoreStep
<1> QED BY <1>1, <1>2, PTL DEF Spec

(* For any songs, lengths and numbers of weeks, every variable has its type *)
(* and every row has a play in it.                                          *)
THEOREM TypesCorrect == Spec => []TypeOK
<1>1. ListenInv /\ StoreInv => TypeOK
  <2> SUFFICES ASSUME ListenInv, StoreInv PROVE TypeOK
    OBVIOUS
  <2>1. ASSUME NEW s \in Song, rows[s] # NoRow
        PROVE  /\ rows[s].lastUpdated \in Weeks
               /\ rows[s].counts \in [Columns -> Nat]
               /\ \E i \in Columns : rows[s].counts[i] > 0
    BY <2>1 DEF StoreInv, RowsKept, Keeps, RowKept, Rows
  <2> QED BY <2>1 DEF StoreInv, StoreTypes, ListenTypeOK, TypeOK
<1> QED BY <1>1, StoreAlways, PTL

(* Whatever weeks pass between two updates of a row, its columns are the    *)
(* plays counted in those weeks, and after the clock was set back at most.  *)
THEOREM CountsAlwaysMatchPlays == Spec => []CountsMatchPlays
<1>1. ListenInv /\ StoreInv => CountsMatchPlays
  <2> SUFFICES ASSUME StoreInv, NEW s \in Song
               PROVE  IF rows[s] = NoRow THEN NothingIsMissing(s) ELSE ColumnsAreRight(s)
    BY DEF CountsMatchPlays
  <2>1. Keeps(rows[s], plays[s])
    BY DEF StoreInv, RowsKept
  <2>2. CASE rows[s] = NoRow
    BY <2>1, <2>2 DEF Keeps, NoRowKept, RightIn, NoCounts, PlayedIn, NothingIsMissing
  <2>3. CASE rows[s] # NoRow
    BY <2>1, <2>3 DEF Keeps, RowKept, RightIn, PlayedIn, ColumnsAreRight
  <2> QED BY <2>2, <2>3
<1> QED BY <1>1, StoreAlways, PTL

(* The score that is added to in place is the one computed anew.            *)
THEOREM ScoreAlwaysMatchesCounts == Spec => []ScoreMatchesCounts
<1>1. ListenInv /\ StoreInv => ScoreMatchesCounts
  BY DEF StoreInv, RowsKept, Keeps, RowKept, ScoreMatchesCounts
<1> QED BY <1>1, StoreAlways, PTL

(* Once the results of a process are updated, every song that is returned   *)
(* has its row at the store's week and was played in the weeks of the table.*)
THEOREM TopSongsAlwaysPlayed == Spec => []TopSongsWerePlayed
<1>1. ListenInv /\ StoreInv => TopSongsWerePlayed
  <2> SUFFICES ASSUME StoreInv, mDatabaseUpdated, NEW s \in Song, rows[s] # NoRow
               PROVE  /\ rows[s].lastUpdated = mNumberOfWeeks
                      /\ \E week \in Weeks : /\ mNumberOfWeeks - week \in Columns
                                             /\ plays[s][week] > 0
    BY DEF TopSongsWerePlayed
  <2>1. Keeps(rows[s], plays[s]) /\ rows[s].lastUpdated = mNumberOfWeeks
    BY DEF StoreInv, RowsKept, ResultsAreNew, InTheWeek
  <2>2. PICK i \in Columns : rows[s].counts[i] > 0
    BY <2>1 DEF Keeps, RowKept
  <2> DEFINE week == mNumberOfWeeks - i
  <2>3. rows[s].counts[i] <= PlayedIn(plays[s], week) /\ rows[s].counts[i] \in Nat
    BY <2>1, KeepsRow DEF RightIn
  <2>4. i \in Nat /\ mNumberOfWeeks \in Nat
    BY StoreTypesGive DEF StoreInv, WeekOK, Weeks, Columns
  <2>5. mNumberOfWeeks - week = i
    BY <2>4
  <2>6. plays[s] \in Plays
    BY StoreTypesGive DEF StoreInv
  <2> HIDE DEF week
  <2>7. week \in Weeks /\ plays[s][week] > 0
    BY <2>2, <2>3, <2>6 DEF PlayedIn, Plays
  <2> QED BY <2>1, <2>5, <2>7
<1> QED BY <1>1, StoreAlways, PTL

-----------------------------------------------------------------------------
(* QueueStore: the parts of a list the save thread writes.                  *)

(* What of a list is in its table once the save thread has come to position *)
(* at of it.                                                                *)
Written(list, at) == SubSeq(list, 1, IF at < Len(list) THEN at ELSE Len(list))

LEMMA TransactionType ==
    ASSUME NEW list \in Seq(SongId), NEW at \in Nat, at < Len(list)
    PROVE  /\ someSongs(list, at) \in Seq(SongId)
           /\ Len(someSongs(list, at)) <= NumProcess
<1> DEFINE last == IF at + NumProcess < Len(list) THEN at + NumProcess ELSE Len(list)
<1>1. Len(list) \in Nat /\ NumProcess \in Nat \ {0}
    BY LenProperties, StoreAssumption
<1>2. last \in at + 1 .. Len(list) /\ last <= at + NumProcess
    BY <1>1
<1>3. someSongs(list, at) = SubSeq(list, at + 1, last)
    BY DEF someSongs
<1> HIDE DEF last
<1>4. \A i \in at + 1 .. last : list[i] \in SongId
    BY <1>1, <1>2, ElementOfSeq
<1>5. /\ SubSeq(list, at + 1, last) \in Seq(SongId)
      /\ Len(SubSeq(list, at + 1, last)) = last - (at + 1) + 1
    BY <1>1, <1>2, <1>4, SubSeqProperties
<1>. QED
    BY <1>1, <1>2, <1>3, <1>5

LEMMA TransactionExtends ==
    ASSUME NEW list \in Seq(SongId), NEW at \in Nat, at < Len(list)
    PROVE  Written(list, at) \o someSongs(list, at) = Written(list, at + NumProcess)
<1> DEFINE last == IF at + NumProcess < Len(list) THEN at + NumProcess ELSE Len(list)
<1>1. Len(list) \in Nat /\ NumProcess \in Nat \ {0}
    BY LenProperties, StoreAssumption
<1>2. last \in at .. Len(list) /\ at \in 1 - 1 .. Len(list) /\ 1 \in 1 .. Len(list) + 1
    BY <1>1
<1>3. /\ Written(list, at) = SubSeq(list, 1, at)
      /\ someSongs(list, at) = SubSeq(list, at + 1, last)
      /\ Written(list, at + NumProcess) = SubSeq(list, 1, last)
    BY DEF Written, someSongs
<1> HIDE DEF last
<1>. QED
    BY <1>2, <1>3, ConcatAdjacentSubSeq

LEMMA NothingWritten ==
    ASSUME NEW list \in Seq(SongId) PROVE Written(list, 0) = <<>>
<1>1. Len(list) \in Nat
    BY LenProperties
<1>2. Written(list, 0) = SubSeq(list, 1, 0)
    BY <1>1 DEF Written
<1>. QED
    BY <1>2, SubSeqEmpty

LEMMA AllWritten ==
    ASSUME NEW list \in Seq(SongId), NEW at \in Nat, at >= Len(list)
    PROVE  Written(list, at) = list
<1>1. Len(list) \in Nat
    BY LenProperties
<1>2. Written(list, at) = SubSeq(list, 1, Len(list))
    BY <1>1 DEF Written
<1>. QED
    BY <1>2, SubSeqFull

-----------------------------------------------------------------------------
(* QueueStore: the inductive invariant.                                     *)

(* An edit leaves a save behind it, or changes what the save under way has  *)
(* still to write: without a save that waits, the one under way writes the  *)
(* queue as it is, and has written it up to where it is.                    *)
SaveIsCurrent ==
    edited /\ ~overtaken /\ ~saveWaiting =>
        /\ held = Live
        /\ saving.table = "none" => Saved
        /\ saving.table = "playing" => savedQueue = Written(playingQueue, saving.at)
        /\ saving.table = "original" =>
               /\ savedQueue = playingQueue
               /\ savedOriginalQueue = Written(originalPlayingQueue, saving.at)

(* Whoever changes the position stores it. *)
PositionIsStored == edited => savedPosition = position

(* A restore that reads while the queue is edited is noted. *)
RestoreIsNoted == edited /\ restore = "reading" => overtaken

SaveInv == SaveTypeOK /\ SaveIsCurrent /\ PositionIsStored /\ RestoreIsNoted

Places == Nat \cup {NoPosition}
Waiting == [what : {"PLAY_SONG", "SET_POSITION"}, arg : Places]

LEMMA SourceType ==
    ASSUME SaveTypeOK
    PROVE  /\ Source \in Seq(SongId) \X Seq(SongId)
           /\ Source[1] \in Seq(SongId) /\ Source[2] \in Seq(SongId)
<1>1. Source \in Seq(SongId) \X Seq(SongId)
    BY DEF SaveTypeOK, Source
<1>. QED
    BY <1>1

LEMMA SavePostType ==
    ASSUME SaveTypeOK, NEW what \in {"PLAY_SONG", "SET_POSITION"}, NEW arg \in Places,
           Post(what, arg)
    PROVE  waiting' \in Seq(Waiting)
<1> DEFINE others == { i \in DOMAIN waiting : waiting[i].what # what }
           message == [what |-> what, arg |-> arg]
<1>1. waiting \in Seq(Waiting)
    BY DEF SaveTypeOK, Waiting, Places
<1>2. Keep(waiting, others) \in Seq(Waiting)
    BY <1>1, KeepType
<1>3. message \in Waiting
    BY DEF Waiting
<1>4. waiting' = Append(Keep(waiting, others), message)
    BY DEF Post
<1> HIDE DEF others, message
<1>. QED
    BY <1>2, <1>3, <1>4, AppendProperties

LEMMA SaveStarts == SaveInit => SaveInv
<1> SUFFICES ASSUME SaveInit PROVE SaveInv
    OBVIOUS
<1>1. /\ playingQueue \in Seq(SongId) /\ originalPlayingQueue \in Seq(SongId)
      /\ savedQueue \in Seq(SongId) /\ savedOriginalQueue \in Seq(SongId) /\ readQueue \in Seq(SongId)
      /\ waiting \in Seq(Waiting)
    BY EmptySeq DEF SaveInit
<1>2. ~edited /\ saving = [table |-> "none", at |-> 0] /\ held = Live /\ restore = "waiting"
    BY DEF SaveInit, NotSaving
<1>3. position \in Places /\ savedPosition \in Places
    BY DEF SaveInit, Places
<1>4. saveWaiting \in BOOLEAN /\ edited \in BOOLEAN /\ overtaken \in BOOLEAN
    BY DEF SaveInit
<1>5. SaveTypeOK
    BY <1>1, <1>2, <1>3, <1>4 DEF SaveTypeOK, Waiting, Places, NotSaving
<1>. QED
    BY <1>2, <1>5 DEF SaveInv, SaveIsCurrent, PositionIsStored, RestoreIsNoted

-----------------------------------------------------------------------------
(* QueueStore: the edits.                                                   *)

(* What an edit does to the queue, with the save it asks for. *)
LEMMA EditKeeps ==
    ASSUME SaveInv, saveState,
           playingQueue' \in Seq(SongId), originalPlayingQueue' \in Seq(SongId),
           position' \in Places, waiting' \in Seq(Waiting),
           held' \in {Live} \cup (Seq(SongId) \X Seq(SongId)),
           saving.table = "none" => held' = Live
    PROVE  SaveInv'
<1>1. UNCHANGED <<restore, readQueue, saving, savedQueue, savedOriginalQueue>>
    BY DEF saveState, restoring, tables
<1>2. saveWaiting' = TRUE /\ savedPosition' = position' /\ edited' = TRUE
    BY DEF saveState
<1>3. overtaken' = (overtaken \/ restore = "reading")
    BY DEF saveState
<1>4. overtaken' \in BOOLEAN
    BY <1>3, Zenon
<1>5. SaveTypeOK'
    BY <1>1, <1>2, <1>4 DEF SaveInv, SaveTypeOK, Waiting, Places
<1>6. SaveIsCurrent' /\ PositionIsStored'
    BY <1>2 DEF SaveIsCurrent, PositionIsStored
<1>7. RestoreIsNoted'
    BY <1>1, <1>3 DEF RestoreIsNoted
<1>. QED
    BY <1>5, <1>6, <1>7 DEF SaveInv

LEMMA SaveOpenQueue ==
    ASSUME SaveInv, NEW songs \in Seq(SongId), NEW list \in Seq(SongId), NEW start \in Nat,
           NEW what \in {"PLAY_SONG", "SET_POSITION"}, OpenQueue(songs, list, start, what)
    PROVE  SaveInv'
<1>1. waiting' \in Seq(Waiting)
    BY SavePostType DEF SaveInv, OpenQueue, Places
<1>2. Source \in Seq(SongId) \X Seq(SongId)
    BY SourceType DEF SaveInv
<1>3. /\ held' \in {Live} \cup (Seq(SongId) \X Seq(SongId))
      /\ saving.table = "none" => held' = Live
    BY <1>2 DEF OpenQueue
<1>4. position' \in Places
    BY DEF OpenQueue, SaveInv, SaveTypeOK, Places
<1>. QED
    BY <1>1, <1>3, <1>4, EditKeeps DEF OpenQueue

(* An edit in place leaves what the save thread holds. *)
LEMMA HeldInPlace ==
    ASSUME SaveInv, UNCHANGED held
    PROVE  /\ held' \in {Live} \cup (Seq(SongId) \X Seq(SongId))
           /\ saving.table = "none" => held' = Live
    BY DEF SaveInv, SaveTypeOK

LEMMA SaveEnqueue ==
    ASSUME SaveInv, NEW songs \in Seq(SongId), Enqueue(songs)
    PROVE  SaveInv'
<1>1. playingQueue \in Seq(SongId) /\ originalPlayingQueue \in Seq(SongId)
    BY DEF SaveInv, SaveTypeOK
<1>2. playingQueue' \in Seq(SongId) /\ originalPlayingQueue' \in Seq(SongId)
    BY <1>1, ConcatProperties DEF Enqueue
<1>3. position' \in Places /\ waiting' \in Seq(Waiting)
    BY DEF Enqueue, SaveInv, SaveTypeOK, Places, Waiting
<1>. QED
    BY <1>2, <1>3, HeldInPlace, EditKeeps DEF Enqueue

LEMMA SaveRemove ==
    ASSUME SaveInv, NEW p \in 0 .. MaxLen, RemoveAtPosition(p)
    PROVE  SaveInv'
<1>1. playingQueue \in Seq(SongId) /\ originalPlayingQueue \in Seq(SongId) /\ position \in Places
    BY DEF SaveInv, SaveTypeOK, Places
<1>2. p \in Positions(playingQueue) /\ p \in Nat
    BY StoreAssumption DEF RemoveAtPosition
<1>3. playingQueue' \in Seq(SongId) /\ originalPlayingQueue' \in Seq(SongId)
    BY <1>1, <1>2, DeleteType, DeleteFirstType DEF RemoveAtPosition
<1>4. position' \in Places
    BY <1>1, <1>2 DEF RemoveAtPosition, Places
<1>5. waiting' \in Seq(Waiting)
    <2>1. CASE p = position
        <3>1. PICK arg : arg = IF Len(playingQueue') > p THEN p ELSE p - 1
            OBVIOUS
        <3>2. arg \in Places
            BY <1>2, <3>1 DEF Places, NoPosition
        <3>3. Post("SET_POSITION", arg)
            BY <2>1, <3>1 DEF RemoveAtPosition
        <3>. QED
            BY <3>2, <3>3, SavePostType DEF SaveInv
    <2>2. CASE p # position
        BY <2>2 DEF RemoveAtPosition, SaveInv, SaveTypeOK, Places, Waiting
    <2>. QED
        BY <2>1, <2>2
<1>. QED
    BY <1>3, <1>4, <1>5, HeldInPlace, EditKeeps DEF RemoveAtPosition

LEMMA SaveShuffle ==
    ASSUME SaveInv, Shuffle
    PROVE  SaveInv'
<1>1. playingQueue \in Seq(SongId) /\ originalPlayingQueue \in Seq(SongId)
    BY DEF SaveInv, SaveTypeOK
<1>2. playingQueue' \in Seq(SongId) /\ originalPlayingQueue' \in Seq(SongId)
    BY <1>1, ShufflesType DEF Shuffle
<1>3. position' \in Places /\ waiting' \in Seq(Waiting)
    BY DEF Shuffle, SaveInv, SaveTypeOK, Places, Waiting
<1>. QED
    BY <1>2, <1>3, HeldInPlace, EditKeeps DEF Shuffle

LEMMA SaveClear ==
    ASSUME SaveInv, ClearQueue
    PROVE  SaveInv'
<1>1. playingQueue' \in Seq(SongId) /\ originalPlayingQueue' \in Seq(SongId)
    BY EmptySeq DEF ClearQueue
<1>2. waiting' \in Seq(Waiting)
    BY SavePostType DEF ClearQueue, SaveInv, Places
<1>3. position' \in Places
    BY DEF ClearQueue, SaveInv, SaveTypeOK, Places
<1>. QED
    BY <1>1, <1>2, <1>3, HeldInPlace, EditKeeps DEF ClearQueue

-----------------------------------------------------------------------------
(* QueueStore: positions and the restore.                                   *)

LEMMA SavePosition ==
    ASSUME SaveInv, HandlePosition \/ HandleTrackWentToNext
    PROVE  SaveInv'
<1>1. UNCHANGED <<playingQueue, originalPlayingQueue, restore, readQueue, saveWaiting, saving,
                  held, savedQueue, savedOriginalQueue, edited, overtaken>>
    BY DEF HandlePosition, HandleTrackWentToNext, restoring, saver, tables
<1>2. savedPosition' = position'
    BY DEF HandlePosition, HandleTrackWentToNext
<1>3. position' \in Places /\ waiting' \in Seq(Waiting)
    <2>1. CASE HandlePosition
        <3>1. waiting \in Seq(Waiting) /\ waiting # <<>>
            BY <2>1 DEF HandlePosition, SaveInv, SaveTypeOK, Places, Waiting
        <3>2. Head(waiting) \in Waiting /\ Tail(waiting) \in Seq(Waiting)
            BY <3>1, HeadTailProperties
        <3>3. Head(waiting).arg \in Places
            BY <3>2 DEF Waiting
        <3>. QED
            BY <2>1, <3>2, <3>3 DEF HandlePosition
    <2>2. CASE HandleTrackWentToNext
        BY <2>2 DEF HandleTrackWentToNext, SaveInv, SaveTypeOK, Places, Waiting, Positions
    <2>. QED
        BY <2>1, <2>2
<1>4. SaveTypeOK'
    BY <1>1, <1>2, <1>3 DEF SaveInv, SaveTypeOK, Places, Waiting
<1>5. SaveIsCurrent'
    BY <1>1 DEF SaveInv, SaveIsCurrent, Saved
<1>. QED
    BY <1>1, <1>2, <1>4, <1>5 DEF SaveInv, PositionIsStored, RestoreIsNoted

(* A restore comes before any edit, or is noted. *)
LEMMA SaveRestore ==
    ASSUME SaveInv, NEW list \in Seq(SongId), NEW original \in Seq(SongId),
           Restore(list, original), overtaken' \in BOOLEAN, edited => overtaken'
    PROVE  SaveInv'
<1>1. UNCHANGED <<waiting, saveWaiting, saving, savedQueue, savedOriginalQueue, savedPosition,
                  edited>>
      /\ restore' = "done" /\ readQueue' = <<>>
    BY DEF Restore, tables
<1>2. \/ /\ playingQueue' = list /\ originalPlayingQueue' = original
         /\ position' = savedPosition
         /\ held' = IF saving.table = "none" THEN Live ELSE Source
      \/ UNCHANGED <<playingQueue, originalPlayingQueue, position, held>>
    BY DEF Restore, queue
<1>3. Source \in Seq(SongId) \X Seq(SongId)
    BY SourceType DEF SaveInv
<1>4. /\ held' \in {Live} \cup (Seq(SongId) \X Seq(SongId))
      /\ saving.table = "none" => held' = Live
    BY <1>2, <1>3 DEF SaveInv, SaveTypeOK
<1>5. readQueue' \in Seq(SongId)
    BY <1>1, EmptySeq
<1>6. SaveTypeOK'
    BY <1>1, <1>2, <1>4, <1>5 DEF SaveInv, SaveTypeOK
<1>7. SaveIsCurrent'
    BY <1>1 DEF SaveIsCurrent
<1>8. PositionIsStored'
    BY <1>1, <1>2 DEF SaveInv, PositionIsStored
<1>9. RestoreIsNoted'
    BY <1>1 DEF RestoreIsNoted
<1>. QED
    BY <1>6, <1>7, <1>8, <1>9 DEF SaveInv

LEMMA SaveFinishRestore ==
    ASSUME SaveInv, FinishRestore
    PROVE  SaveInv'
<1>1. readQueue \in Seq(SongId) /\ savedOriginalQueue \in Seq(SongId) /\ overtaken \in BOOLEAN
    BY DEF SaveInv, SaveTypeOK
<1>2. UNCHANGED overtaken /\ (edited => overtaken)
    BY DEF FinishRestore, SaveInv, RestoreIsNoted
<1>. QED
    BY <1>1, <1>2, SaveRestore DEF FinishRestore

LEMMA SaveRestoreAtStart ==
    ASSUME SaveInv, RestoreAtStart
    PROVE  SaveInv'
<1>1. savedQueue \in Seq(SongId) /\ savedOriginalQueue \in Seq(SongId)
    BY DEF SaveInv, SaveTypeOK
<1>2. overtaken' = (overtaken \/ Cleared)
    BY DEF RestoreAtStart
<1>3. overtaken' \in BOOLEAN
    BY <1>2, Zenon
<1>4. edited => Cleared
    BY DEF RestoreAtStart, Cleared
<1>. QED
    BY <1>1, <1>2, <1>3, <1>4, SaveRestore DEF RestoreAtStart

LEMMA SaveBeginRestore ==
    ASSUME SaveInv, BeginRestore
    PROVE  SaveInv'
<1>1. UNCHANGED <<playingQueue, originalPlayingQueue, position, waiting, saveWaiting, saving,
                  held, savedQueue, savedOriginalQueue, savedPosition, edited>>
    BY DEF BeginRestore, queue, saver, tables
<1>2. /\ restore' = IF playingQueue = <<>> THEN "reading" ELSE "done"
      /\ readQueue' = IF playingQueue = <<>> THEN savedQueue ELSE <<>>
    BY DEF BeginRestore
<1>3. overtaken' = (overtaken \/ Cleared)
    BY DEF BeginRestore
<1>4. overtaken' \in BOOLEAN
    BY <1>3, Zenon
<1>5. readQueue' \in Seq(SongId)
    BY <1>2, EmptySeq DEF SaveInv, SaveTypeOK
<1>6. SaveTypeOK'
    BY <1>1, <1>2, <1>4, <1>5 DEF SaveInv, SaveTypeOK
<1>7. SaveIsCurrent'
    BY <1>1, <1>3 DEF SaveInv, SaveIsCurrent, Saved
<1>8. RestoreIsNoted'
    BY <1>1, <1>2, <1>3 DEF RestoreIsNoted, Cleared
<1>. QED
    BY <1>1, <1>6, <1>7, <1>8 DEF SaveInv, PositionIsStored

-----------------------------------------------------------------------------
(* QueueStore: the save thread, and the end of the process.                 *)

LEMMA SaverFrame ==
    ASSUME SaverStep
    PROVE  UNCHANGED <<playingQueue, originalPlayingQueue, position, waiting, restore, readQueue,
                       savedPosition, edited, overtaken>>
    BY DEF SaverStep, queue, restoring

(* A step of the save thread keeps the types of the rest. *)
LEMMA SaverTypes ==
    ASSUME SaveInv, SaverStep, saveWaiting' \in BOOLEAN,
           held' \in {Live, held},
           savedQueue' \in Seq(SongId), savedOriginalQueue' \in Seq(SongId),
           saving' \in [table : {"none", "playing", "original"}, at : Nat],
           saving'.table = "none" => held' = Live /\ saving' = NotSaving,
           saving'.table = "playing" => Len(savedQueue') <= saving'.at,
           saving'.table = "original" => Len(savedOriginalQueue') <= saving'.at
    PROVE  SaveTypeOK'
<1>1. held' \in {Live} \cup (Seq(SongId) \X Seq(SongId))
    BY DEF SaveInv, SaveTypeOK
<1>. QED
    BY <1>1, SaverFrame DEF SaveInv, SaveTypeOK

LEMMA SaverElsewhere ==
    ASSUME SaveInv, SaverStep
    PROVE  PositionIsStored' /\ RestoreIsNoted'
    BY SaverFrame DEF SaveInv, PositionIsStored, RestoreIsNoted

LEMMA SaveDelete ==
    ASSUME SaveInv, deletePlayingQueue
    PROVE  SaveInv'
<1>1. /\ saving.table = "none" /\ saveWaiting' = FALSE /\ savedQueue' = <<>>
      /\ saving' = [table |-> "playing", at |-> 0]
      /\ UNCHANGED <<savedOriginalQueue, held>> /\ SaverStep
    BY DEF deletePlayingQueue
<1>2. held = Live /\ playingQueue \in Seq(SongId) /\ savedOriginalQueue \in Seq(SongId)
    BY <1>1 DEF SaveInv, SaveTypeOK
<1>3. savedQueue' \in Seq(SongId) /\ Len(savedQueue') = 0
    BY <1>1, EmptySeq
<1>4. SaveTypeOK'
    <2>1. /\ saveWaiting' \in BOOLEAN /\ savedOriginalQueue' \in Seq(SongId)
          /\ held' \in {Live, held}
        BY <1>1, <1>2
    <2>2. /\ saving' \in [table : {"none", "playing", "original"}, at : Nat]
          /\ saving'.table = "playing" /\ Len(savedQueue') <= saving'.at
        BY <1>1, <1>3
    <2>. QED
        BY <1>1, <1>3, <2>1, <2>2, SaverTypes
<1>5. SaveIsCurrent'
    BY <1>1, <1>2, NothingWritten, SaverFrame DEF SaveIsCurrent
<1>. QED
    BY <1>1, <1>4, <1>5, SaverElsewhere DEF SaveInv

LEMMA SaveInsert ==
    ASSUME SaveInv, insertPlayingQueue
    PROVE  SaveInv'
<1> DEFINE list == Source[1]
           at == saving.at
<1>1. /\ saving.table = "playing" /\ at < Len(list)
      /\ savedQueue' = savedQueue \o someSongs(list, at)
      /\ saving' = [saving EXCEPT !.at = at + NumProcess]
      /\ UNCHANGED <<savedOriginalQueue, saveWaiting, held>> /\ SaverStep
    BY DEF insertPlayingQueue
<1>2. /\ list \in Seq(SongId) /\ at \in Nat /\ NumProcess \in Nat
      /\ savedQueue \in Seq(SongId) /\ savedOriginalQueue \in Seq(SongId)
      /\ Len(savedQueue) <= at /\ saveWaiting \in BOOLEAN
    BY <1>1, SourceType, StoreAssumption DEF SaveInv, SaveTypeOK
<1>3. saving' = [table |-> "playing", at |-> at + NumProcess]
    BY <1>1 DEF SaveInv, SaveTypeOK
<1>4. held = Live => list = playingQueue
    BY DEF Source
<1> HIDE DEF list, at
<1>5. someSongs(list, at) \in Seq(SongId) /\ Len(someSongs(list, at)) <= NumProcess
    BY <1>1, <1>2, TransactionType
<1>6. savedQueue' \in Seq(SongId) /\ Len(savedQueue') <= at + NumProcess
    <2>1. /\ savedQueue' \in Seq(SongId)
          /\ Len(savedQueue') = Len(savedQueue) + Len(someSongs(list, at))
        BY <1>1, <1>2, <1>5, ConcatProperties
    <2>2. Len(savedQueue) \in Nat /\ Len(someSongs(list, at)) \in Nat
        BY <1>2, <1>5, LenProperties
    <2>. QED
        BY <1>2, <1>5, <2>1, <2>2
<1>7. at + NumProcess \in Nat
    BY <1>2
<1>8. SaveTypeOK'
    BY <1>1, <1>2, <1>3, <1>6, <1>7, SaverTypes
<1>9. SaveIsCurrent'
    <2>1. SUFFICES ASSUME edited, ~overtaken, ~saveWaiting
                   PROVE  held' = Live /\ savedQueue' = Written(playingQueue', saving'.at)
        BY <1>1, <1>3, SaverFrame DEF SaveIsCurrent
    <2>2. held = Live /\ savedQueue = Written(playingQueue, at)
        BY <1>1, <2>1 DEF SaveInv, SaveIsCurrent, at
    <2>3. savedQueue' = Written(list, at + NumProcess)
        BY <1>1, <1>2, <1>4, <2>2, TransactionExtends
    <2>. QED
        BY <1>1, <1>3, <1>4, <2>2, <2>3, SaverFrame
<1>. QED
    BY <1>1, <1>8, <1>9, SaverElsewhere DEF SaveInv

LEMMA SaveDeleteOriginal ==
    ASSUME SaveInv, deleteOriginalPlayingQueue
    PROVE  SaveInv'
<1>1. /\ saving.table = "playing" /\ saving.at >= Len(Source[1]) /\ savedOriginalQueue' = <<>>
      /\ saving' = [table |-> "original", at |-> 0]
      /\ UNCHANGED <<savedQueue, saveWaiting, held>> /\ SaverStep
    BY DEF deleteOriginalPlayingQueue
<1>2. /\ playingQueue \in Seq(SongId) /\ originalPlayingQueue \in Seq(SongId)
      /\ savedQueue \in Seq(SongId) /\ saveWaiting \in BOOLEAN /\ saving.at \in Nat
    BY DEF SaveInv, SaveTypeOK
<1>3. savedOriginalQueue' \in Seq(SongId) /\ Len(savedOriginalQueue') = 0
    BY <1>1, EmptySeq
<1>4. SaveTypeOK'
    BY <1>1, <1>2, <1>3, SaverTypes
<1>5. SaveIsCurrent'
    <2>1. SUFFICES ASSUME edited, ~overtaken, ~saveWaiting
                   PROVE  /\ held = Live /\ savedQueue = playingQueue
                          /\ savedOriginalQueue' = Written(originalPlayingQueue, 0)
        BY <1>1, SaverFrame DEF SaveIsCurrent
    <2>2. held = Live /\ savedQueue = Written(playingQueue, saving.at)
        BY <1>1, <2>1 DEF SaveInv, SaveIsCurrent
    <2>3. saving.at >= Len(playingQueue)
        BY <1>1, <2>2 DEF Source
    <2>. QED
        BY <1>1, <1>2, <2>2, <2>3, AllWritten, NothingWritten
<1>. QED
    BY <1>1, <1>4, <1>5, SaverElsewhere DEF SaveInv

LEMMA SaveInsertOriginal ==
    ASSUME SaveInv, insertOriginalPlayingQueue
    PROVE  SaveInv'
<1> DEFINE list == Source[2]
           at == saving.at
<1>1. /\ saving.table = "original" /\ at < Len(list)
      /\ savedOriginalQueue' = savedOriginalQueue \o someSongs(list, at)
      /\ saving' = [saving EXCEPT !.at = at + NumProcess]
      /\ UNCHANGED <<savedQueue, saveWaiting, held>> /\ SaverStep
    BY DEF insertOriginalPlayingQueue
<1>2. /\ list \in Seq(SongId) /\ at \in Nat /\ NumProcess \in Nat
      /\ savedQueue \in Seq(SongId) /\ savedOriginalQueue \in Seq(SongId)
      /\ Len(savedOriginalQueue) <= at /\ saveWaiting \in BOOLEAN
    BY <1>1, SourceType, StoreAssumption DEF SaveInv, SaveTypeOK
<1>3. saving' = [table |-> "original", at |-> at + NumProcess]
    BY <1>1 DEF SaveInv, SaveTypeOK
<1>4. held = Live => list = originalPlayingQueue
    BY DEF Source
<1> HIDE DEF list, at
<1>5. someSongs(list, at) \in Seq(SongId) /\ Len(someSongs(list, at)) <= NumProcess
    BY <1>1, <1>2, TransactionType
<1>6. savedOriginalQueue' \in Seq(SongId) /\ Len(savedOriginalQueue') <= at + NumProcess
    <2>1. /\ savedOriginalQueue' \in Seq(SongId)
          /\ Len(savedOriginalQueue') = Len(savedOriginalQueue) + Len(someSongs(list, at))
        BY <1>1, <1>2, <1>5, ConcatProperties
    <2>2. Len(savedOriginalQueue) \in Nat /\ Len(someSongs(list, at)) \in Nat
        BY <1>2, <1>5, LenProperties
    <2>. QED
        BY <1>2, <1>5, <2>1, <2>2
<1>7. at + NumProcess \in Nat
    BY <1>2
<1>8. SaveTypeOK'
    BY <1>1, <1>2, <1>3, <1>6, <1>7, SaverTypes
<1>9. SaveIsCurrent'
    <2>1. SUFFICES ASSUME edited, ~overtaken, ~saveWaiting
                   PROVE  /\ held' = Live /\ savedQueue' = playingQueue'
                          /\ savedOriginalQueue' = Written(originalPlayingQueue', saving'.at)
        BY <1>1, <1>3, SaverFrame DEF SaveIsCurrent
    <2>2. /\ held = Live /\ savedQueue = playingQueue
          /\ savedOriginalQueue = Written(originalPlayingQueue, at)
        BY <1>1, <2>1 DEF SaveInv, SaveIsCurrent, at
    <2>3. savedOriginalQueue' = Written(list, at + NumProcess)
        BY <1>1, <1>2, <1>4, <2>2, TransactionExtends
    <2>. QED
        BY <1>1, <1>3, <1>4, <2>2, <2>3, SaverFrame
<1>. QED
    BY <1>1, <1>8, <1>9, SaverElsewhere DEF SaveInv

LEMMA SaveReturns ==
    ASSUME SaveInv, saveQueuesReturns
    PROVE  SaveInv'
<1>1. /\ saving.table = "original" /\ saving.at >= Len(Source[2])
      /\ saving' = NotSaving /\ held' = Live
      /\ UNCHANGED <<savedQueue, savedOriginalQueue, saveWaiting>> /\ SaverStep
    BY DEF saveQueuesReturns, tables
<1>2. /\ originalPlayingQueue \in Seq(SongId) /\ saving.at \in Nat
      /\ savedQueue \in Seq(SongId) /\ savedOriginalQueue \in Seq(SongId) /\ saveWaiting \in BOOLEAN
    BY DEF SaveInv, SaveTypeOK
<1>3. SaveTypeOK'
    BY <1>1, <1>2, SaverTypes DEF NotSaving
<1>4. SaveIsCurrent'
    <2>1. SUFFICES ASSUME edited, ~overtaken, ~saveWaiting
                   PROVE  savedQueue = playingQueue /\ savedOriginalQueue = originalPlayingQueue
        BY <1>1, SaverFrame DEF SaveIsCurrent, Saved, NotSaving
    <2>2. /\ held = Live /\ savedQueue = playingQueue
          /\ savedOriginalQueue = Written(originalPlayingQueue, saving.at)
        BY <1>1, <2>1 DEF SaveInv, SaveIsCurrent
    <2>3. saving.at >= Len(originalPlayingQueue)
        BY <1>1, <2>2 DEF Source
    <2>. QED
        BY <1>2, <2>2, <2>3, AllWritten
<1>. QED
    BY <1>1, <1>3, <1>4, SaverElsewhere DEF SaveInv

LEMMA SaveDie ==
    ASSUME SaveInv, Die
    PROVE  SaveInv'
<1>1. /\ playingQueue' \in Seq(SongId) /\ originalPlayingQueue' \in Seq(SongId)
      /\ readQueue' \in Seq(SongId) /\ waiting' \in Seq(Waiting)
    BY EmptySeq DEF Die
<1>2. ~edited' /\ saving' = [table |-> "none", at |-> 0] /\ held' = Live /\ restore' = "waiting"
    BY DEF Die, NotSaving
<1>3. position' \in Places /\ UNCHANGED <<savedQueue, savedOriginalQueue, savedPosition>>
    BY DEF Die, Places, tables
<1>4. saveWaiting' \in BOOLEAN /\ edited' \in BOOLEAN /\ overtaken' \in BOOLEAN
    BY DEF Die
<1>5. SaveTypeOK'
    BY <1>1, <1>2, <1>3, <1>4 DEF SaveInv, SaveTypeOK, Waiting, Places, NotSaving
<1>. QED
    BY <1>2, <1>5 DEF SaveInv, SaveIsCurrent, PositionIsStored, RestoreIsNoted

LEMMA SaveStep == SaveInv /\ [SaveNext]_saveVars => SaveInv'
<1> SUFFICES ASSUME SaveInv, [SaveNext]_saveVars PROVE SaveInv'
    OBVIOUS
<1>1. Selections \subseteq Seq(SongId)
    BY StoreAssumption
<1>2. CASE Listener
    <2>1. ASSUME NEW songs \in Selections, NEW start \in 0 .. MaxLen,
                 NEW what \in {"PLAY_SONG", "SET_POSITION"},
                 OpenQueue(songs, songs, start, what)
          PROVE  SaveInv'
        <3>1. songs \in Seq(SongId) /\ start \in Nat
            BY <1>1, StoreAssumption
        <3>. QED
            BY <2>1, <3>1, SaveOpenQueue
    <2>2. ASSUME NEW songs \in Selections, NEW start \in 0 .. MaxLen,
                 NEW what \in {"PLAY_SONG", "SET_POSITION"},
                 NEW list \in Shuffles(songs, start), OpenQueue(songs, list, 0, what)
          PROVE  SaveInv'
        <3>1. songs \in Seq(SongId) /\ list \in Seq(SongId)
            BY <1>1, ShufflesType
        <3>. QED
            BY <2>2, <3>1, SaveOpenQueue
    <2>3. ASSUME NEW songs \in Selections, Enqueue(songs) PROVE SaveInv'
        BY <1>1, <2>3, SaveEnqueue
    <2>4. ASSUME NEW p \in 0 .. MaxLen, RemoveAtPosition(p) PROVE SaveInv'
        BY <2>4, SaveRemove
    <2>. QED
        BY <1>2, <2>1, <2>2, <2>3, <2>4, SaveShuffle, SaveClear, SaveRestoreAtStart DEF Listener
<1>3. CASE Handler
    BY <1>3, SavePosition, SaveBeginRestore, SaveFinishRestore DEF Handler
<1>4. CASE Saver
    BY <1>4, SaveDelete, SaveInsert, SaveDeleteOriginal, SaveInsertOriginal, SaveReturns
    DEF Saver
<1>5. CASE Die
    BY <1>5, SaveDie
<1>6. CASE UNCHANGED saveVars
    <2>1. UNCHANGED <<playingQueue, originalPlayingQueue, position, waiting, restore, readQueue,
                      saveWaiting, saving, held, savedQueue, savedOriginalQueue, savedPosition,
                      edited, overtaken>>
        BY <1>6 DEF saveVars, queue, restoring, saver, tables
    <2>. QED
        BY <2>1 DEF SaveInv, SaveTypeOK, SaveIsCurrent, Saved, PositionIsStored, RestoreIsNoted
<1>. QED
    BY <1>2, <1>3, <1>4, <1>5, <1>6 DEF SaveNext

LEMMA SaveAlways == SaveSpec => []SaveInv
    BY SaveStarts, SaveStep, PTL DEF SaveSpec

(* For any songs, any length of the queue and any number of songs in a      *)
(* transaction, every variable keeps its type: the positions that edits     *)
(* post, the handler installs and the preferences keep are positions or     *)
(* none, the save thread writes no more than it has read, and it holds a    *)
(* copy of replaced lists only while it writes.                             *)
THEOREM SaveTypeCorrect == SaveSpec => []SaveTypeOK
<1>1. SaveInv => SaveTypeOK
    BY DEF SaveInv
<1>. QED
    BY <1>1, SaveAlways, PTL

(* Once no message, save or restore is left to do, the tables and the       *)
(* preferences hold the queue and the position of the running process,      *)
(* though the save thread reads lists that are edited meanwhile, writes     *)
(* them in transactions of any size and may have been killed in an earlier  *)
(* process between any two of them.                                         *)
THEOREM QuietStoreAlwaysCurrent == SaveSpec => []QuietStoreIsCurrent
<1>1. SaveInv => QuietStoreIsCurrent
    BY DEF SaveInv, SaveIsCurrent, PositionIsStored, QuietStoreIsCurrent, Quiet
<1>. QED
    BY <1>1, SaveAlways, PTL

-----------------------------------------------------------------------------
(* QueueStore: progress, what EditsAreSaved rests on besides fairness.      *)

(* The transactions a save has left at most, and the return that ends it:   *)
(* one transaction for each song not written and one that empties a table.  *)
ToWrite(list, at) == IF at < Len(list) THEN Len(list) - at ELSE 0
SaveUnderWay ==
    CASE saving.table = "playing"  -> ToWrite(Source[1], saving.at) + Len(Source[2]) + 2
      [] saving.table = "original" -> ToWrite(Source[2], saving.at) + 1
      [] saving.table = "none"     -> 0
SaveAhead == IF saveWaiting THEN Len(playingQueue) + Len(originalPlayingQueue) + 3 ELSE 0
SaveSteps == SaveUnderWay + SaveAhead

SaveAdvances ==
    /\ SaveSteps \in Nat
    /\ SaveSteps = 0 <=> ~saveWaiting /\ saving.table = "none"
    /\ Saver => SaveSteps' < SaveSteps
    /\ HandlePosition \/ HandleTrackWentToNext \/ BeginRestore => SaveSteps' = SaveSteps

LEMMA ToWriteType ==
    ASSUME NEW list \in Seq(SongId), NEW at \in Nat
    PROVE  /\ ToWrite(list, at) \in Nat /\ Len(list) \in Nat
           /\ ToWrite(list, 0) = Len(list)
           /\ at >= Len(list) => ToWrite(list, at) = 0
           /\ at < Len(list) => ToWrite(list, at + NumProcess) < ToWrite(list, at)
<1>1. Len(list) \in Nat
    BY LenProperties
<1>. QED
    BY <1>1, StoreAssumption DEF ToWrite

LEMMA SaveStepsType ==
    ASSUME SaveTypeOK
    PROVE  /\ SaveUnderWay \in Nat /\ SaveAhead \in Nat
           /\ SaveUnderWay = 0 <=> saving.table = "none"
           /\ SaveAhead = 0 <=> ~saveWaiting
<1>1. /\ Source[1] \in Seq(SongId) /\ Source[2] \in Seq(SongId)
      /\ saving.at \in Nat /\ saving.table \in {"none", "playing", "original"}
    BY SourceType DEF SaveTypeOK
<1>2. /\ ToWrite(Source[1], saving.at) \in Nat /\ ToWrite(Source[2], saving.at) \in Nat
      /\ Len(Source[2]) \in Nat
    BY <1>1, ToWriteType
<1>3. SaveUnderWay \in Nat /\ (SaveUnderWay = 0 <=> saving.table = "none")
    BY <1>1, <1>2 DEF SaveUnderWay
<1>4. Len(playingQueue) \in Nat /\ Len(originalPlayingQueue) \in Nat
    BY LenProperties DEF SaveTypeOK
<1>. QED
    BY <1>3, <1>4 DEF SaveAhead

(* A step of the save thread reads the same lists as the one before. *)
LEMMA SaverReadsOn ==
    ASSUME SaverStep, held' = held PROVE Source' = Source
    BY SaverFrame DEF Source

LEMMA SaverAdvances ==
    ASSUME SaveTypeOK, Saver PROVE SaveSteps' < SaveSteps
<1>1. /\ Source[1] \in Seq(SongId) /\ Source[2] \in Seq(SongId) /\ saving.at \in Nat
      /\ saving \in [table : {"none", "playing", "original"}, at : Nat]
    BY SourceType DEF SaveTypeOK
<1>2. SaveUnderWay \in Nat /\ SaveAhead \in Nat
    BY SaveStepsType
<1>3. SaverStep
    BY DEF Saver, deletePlayingQueue, insertPlayingQueue, deleteOriginalPlayingQueue,
       insertOriginalPlayingQueue, saveQueuesReturns
<1>4. saveWaiting' = saveWaiting => SaveAhead' = SaveAhead
    BY <1>3, SaverFrame DEF SaveAhead
<1>5. CASE deletePlayingQueue
    <2>1. /\ saveWaiting /\ saving.table = "none" /\ ~saveWaiting' /\ held' = held
          /\ saving'.table = "playing" /\ saving'.at = 0
        BY <1>5 DEF deletePlayingQueue
    <2>2. held = Live
        BY <2>1 DEF SaveTypeOK
    <2>3. Source = <<playingQueue, originalPlayingQueue>> /\ Source' = Source
        BY <1>3, <2>1, <2>2, SaverReadsOn DEF Source
    <2>4. /\ ToWrite(playingQueue, 0) = Len(playingQueue)
          /\ Len(playingQueue) \in Nat /\ Len(originalPlayingQueue) \in Nat
        BY <1>1, <2>3, ToWriteType
    <2>5. SaveUnderWay' = Len(playingQueue) + Len(originalPlayingQueue) + 2 /\ SaveAhead' = 0
        BY <2>1, <2>3, <2>4 DEF SaveUnderWay, SaveAhead, ToWrite
    <2>6. SaveUnderWay = 0 /\ SaveAhead = Len(playingQueue) + Len(originalPlayingQueue) + 3
        BY <2>1 DEF SaveUnderWay, SaveAhead
    <2>. QED
        BY <2>4, <2>5, <2>6 DEF SaveSteps
<1>6. ASSUME saveWaiting' = saveWaiting, SaveUnderWay' \in Nat, SaveUnderWay' < SaveUnderWay
      PROVE  SaveSteps' < SaveSteps
    <2>1. SaveAhead' = SaveAhead
        BY <1>4, <1>6
    <2>2. SaveSteps' = SaveUnderWay' + SaveAhead' /\ SaveSteps = SaveUnderWay + SaveAhead
        BY DEF SaveSteps
    <2>3. \A i, j, k \in Nat : i < j => i + k < j + k
        OBVIOUS
    <2>4. SaveUnderWay' + SaveAhead < SaveUnderWay + SaveAhead
        BY <1>2, <1>6, <2>3
    <2>. QED
        BY <2>1, <2>2, <2>4
<1>7. CASE insertPlayingQueue
    <2>1. /\ saving.table = "playing" /\ saving.at < Len(Source[1]) /\ held' = held
          /\ saving'.table = "playing" /\ saving'.at = saving.at + NumProcess
          /\ saveWaiting' = saveWaiting
        BY <1>1, <1>7 DEF insertPlayingQueue
    <2>2. Source' = Source
        BY <1>3, <2>1, SaverReadsOn
    <2>3. SaveUnderWay' = ToWrite(Source[1], saving.at + NumProcess) + Len(Source[2]) + 2
        BY <2>1, <2>2 DEF SaveUnderWay, ToWrite
    <2>4. SaveUnderWay = ToWrite(Source[1], saving.at) + Len(Source[2]) + 2
        BY <2>1 DEF SaveUnderWay
    <2>5. /\ ToWrite(Source[1], saving.at + NumProcess) < ToWrite(Source[1], saving.at)
          /\ ToWrite(Source[1], saving.at + NumProcess) \in Nat
          /\ ToWrite(Source[1], saving.at) \in Nat /\ Len(Source[2]) \in Nat
        <3>1. saving.at + NumProcess \in Nat
            BY <1>1, StoreAssumption
        <3>2. ToWrite(Source[1], saving.at + NumProcess) \in Nat
            BY <1>1, <3>1, ToWriteType
        <3>. QED
            BY <1>1, <2>1, <3>2, ToWriteType
    <2>. QED
        BY <1>6, <2>1, <2>3, <2>4, <2>5
<1>8. CASE deleteOriginalPlayingQueue
    <2>1. /\ saving.table = "playing" /\ saving.at >= Len(Source[1]) /\ held' = held
          /\ saving'.table = "original" /\ saving'.at = 0 /\ saveWaiting' = saveWaiting
        BY <1>8 DEF deleteOriginalPlayingQueue
    <2>2. Source' = Source
        BY <1>3, <2>1, SaverReadsOn
    <2>3. ToWrite(Source[2], 0) = Len(Source[2]) /\ Len(Source[2]) \in Nat
        BY <1>1, ToWriteType
    <2>4. SaveUnderWay' = Len(Source[2]) + 1
        BY <2>1, <2>2, <2>3 DEF SaveUnderWay, ToWrite
    <2>5. SaveUnderWay = ToWrite(Source[1], saving.at) + Len(Source[2]) + 2
        BY <2>1 DEF SaveUnderWay
    <2>6. ToWrite(Source[1], saving.at) = 0
        BY <1>1, <2>1, ToWriteType
    <2>. QED
        BY <1>6, <2>1, <2>3, <2>4, <2>5, <2>6
<1>9. CASE insertOriginalPlayingQueue
    <2>1. /\ saving.table = "original" /\ saving.at < Len(Source[2]) /\ held' = held
          /\ saving'.table = "original" /\ saving'.at = saving.at + NumProcess
          /\ saveWaiting' = saveWaiting
        BY <1>1, <1>9 DEF insertOriginalPlayingQueue
    <2>2. Source' = Source
        BY <1>3, <2>1, SaverReadsOn
    <2>3. SaveUnderWay' = ToWrite(Source[2], saving.at + NumProcess) + 1
        BY <2>1, <2>2 DEF SaveUnderWay, ToWrite
    <2>4. SaveUnderWay = ToWrite(Source[2], saving.at) + 1
        BY <2>1 DEF SaveUnderWay
    <2>5. /\ ToWrite(Source[2], saving.at + NumProcess) < ToWrite(Source[2], saving.at)
          /\ ToWrite(Source[2], saving.at + NumProcess) \in Nat
          /\ ToWrite(Source[2], saving.at) \in Nat
        <3>1. saving.at + NumProcess \in Nat
            BY <1>1, StoreAssumption
        <3>2. ToWrite(Source[2], saving.at + NumProcess) \in Nat
            BY <1>1, <3>1, ToWriteType
        <3>. QED
            BY <1>1, <2>1, <3>2, ToWriteType
    <2>. QED
        BY <1>6, <2>1, <2>3, <2>4, <2>5
<1>10. CASE saveQueuesReturns
    <2>1. /\ saving.table = "original" /\ saving'.table = "none" /\ saveWaiting' = saveWaiting
        BY <1>10 DEF saveQueuesReturns, NotSaving
    <2>2. SaveUnderWay' = 0
        BY <2>1 DEF SaveUnderWay
    <2>3. SaveUnderWay # 0
        BY <2>1, SaveStepsType
    <2>. QED
        BY <1>2, <1>6, <2>1, <2>2, <2>3
<1>. QED
    BY <1>5, <1>7, <1>8, <1>9, <1>10 DEF Saver

(* Whatever the lengths of the lists and of a transaction, every step of    *)
(* the save thread brings it nearer to having nothing left to save, and no  *)
(* change of the position takes it back: once the listener rests, a save is *)
(* over after at most the steps counted here (saveQueue).                   *)
THEOREM SavesAdvance == SaveSpec => [][SaveAdvances]_saveVars
<1>1. SaveInv /\ [SaveNext]_saveVars => [SaveAdvances]_saveVars
    <2> SUFFICES ASSUME SaveTypeOK PROVE SaveAdvances
        BY DEF SaveInv
    <2>1. SaveSteps \in Nat /\ (SaveSteps = 0 <=> ~saveWaiting /\ saving.table = "none")
        BY SaveStepsType DEF SaveSteps
    <2>2. ASSUME HandlePosition \/ HandleTrackWentToNext \/ BeginRestore
          PROVE  SaveSteps' = SaveSteps
        <3>1. UNCHANGED <<playingQueue, originalPlayingQueue, saveWaiting, saving, held>>
            BY <2>2 DEF HandlePosition, HandleTrackWentToNext, BeginRestore, saver, queue
        <3>. QED
            BY <3>1 DEF SaveSteps, SaveUnderWay, SaveAhead, Source, ToWrite
    <2>. QED
        BY <2>1, <2>2, SaverAdvances DEF SaveAdvances
<1>. QED
    BY <1>1, SaveAlways, PTL DEF SaveSpec

=============================================================================
