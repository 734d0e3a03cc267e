------------------------------ MODULE PlayCount ------------------------------
(***************************************************************************)
(* When a play is counted, and what is kept of it.  The service tells      *)
(* SongPlayCountHelper of every change of song and of play state; it runs  *)
(* a StopWatch and counts the last song when half of it was heard.         *)
(* SongPlayCountStore keeps, for each song, the plays of the last          *)
(* NUM_WEEKS weeks as columns, which it shifts when it next touches them.  *)
(*                                                                         *)
(* A time is 0 .. Enough, where Enough is any longer one, as the time      *)
(* since the epoch is; every song lasts twice Half.  The score of a play   *)
(* is a falling whole number in place of the interpolated curve, and the   *)
(* other effects of META_CHANGED belong to the queue's models.             *)
(***************************************************************************)
EXTENDS Integers, FiniteSets, FiniteSetsExt

CONSTANTS
    Song, NoSong,  \* NoSong is EMPTY_SONG
    Half,
    NUM_WEEKS,
    MaxWeek,       \* bound on the weeks since the epoch
    MaxPlays       \* bound on the plays ever counted

ASSUME PlayCountAssumption ==
    /\ NoSong \notin Song
    /\ Half \in Nat /\ NUM_WEEKS \in Nat \ {0} /\ MaxWeek \in Nat /\ MaxPlays \in Nat

VARIABLES
    song,            \* SongPlayCountHelper.song
    previous,        \* StopWatch.previousElapsedTime
    since,           \* the time since StopWatch.startTime
    running,         \* StopWatch.isRunning
    playing, ready,  \* the player's isPlaying and isInitialized
    mNumberOfWeeks,  \* read once, when the store is made
    mDatabaseUpdated,
    rows,            \* song_play_count
    heard,           \* history: how long the song has been heard
    gapless,         \* history: the song followed without a gap
    plays,           \* history: plays counted of each song in each week
    setBack          \* history: the clock went back between two runs

watch == <<previous, since, running>>
store == <<mNumberOfWeeks, mDatabaseUpdated, rows>>
player == <<playing, ready>>
vars == <<song, watch, player, store, heard, gapless, plays, setBack>>

Enough == Half + 1
Times == 0 .. Enough
Plus(t, u) == IF t + u > Enough THEN Enough ELSE t + u

Weeks == 0 .. MaxWeek
Columns == 0 .. NUM_WEEKS - 1
NoRow == [lastUpdated |-> -1]

-----------------------------------------------------------------------------
(* StopWatch and SongPlayCountHelper *)

getElapsedTime == Plus(previous, IF running THEN since ELSE 0)
shouldBumpPlayCount == getElapsedTime > Half

startWatch == since' = 0 /\ running' = TRUE /\ UNCHANGED previous
pauseWatchAnew == previous' = since /\ running' = FALSE /\ UNCHANGED since
pauseWatch == previous' = Plus(previous, since) /\ running' = FALSE /\ UNCHANGED since

(* What a reset leaves: startTime is 0. *)
resetWatch == [previous |-> 0, since |-> Enough]

-----------------------------------------------------------------------------
(* SongPlayCountStore *)

getScoreMultiplierForWeek(i) == 2 * NUM_WEEKS - i

calculateScore(counts) ==
    MapThenSumSet(LAMBDA i : counts[i] * getScoreMultiplierForWeek(i), Columns)

Row(counts, score) ==
    [lastUpdated |-> mNumberOfWeeks, counts |-> counts, score |-> score]

createNewPlayedEntry ==
    Row([i \in Columns |-> IF i = 0 THEN 1 ELSE 0], getScoreMultiplierForWeek(0))

(* The column of week i moves to i + diff; what leaves the table is lost. *)
shiftedLate(counts, diff) ==
    [i \in Columns |-> IF i - diff \in Columns /\ i # diff THEN counts[i - diff] ELSE 0]
shifted(counts, diff) ==
    [i \in Columns |-> IF i - diff \in Columns THEN counts[i - diff] ELSE 0]

bumpedUnscored(row) == [row EXCEPT !.counts[0] = @ + 1]
bumped(row) == [row EXCEPT !.counts[0] = @ + 1, !.score = @ + getScoreMultiplierForWeek(0)]

kept(counts) == Row(counts, calculateScore(counts))
keptIfScored(counts) == IF calculateScore(counts) = 0 THEN NoRow ELSE kept(counts)

updateExistingRow(row, bumpCount) ==
    LET weekDiff == mNumberOfWeeks - row.lastUpdated
        moved == shifted(row.counts, weekDiff)
        tooOld == weekDiff >= NUM_WEEKS \/ -weekDiff >= NUM_WEEKS
    IN  CASE row = NoRow \/ tooOld -> IF bumpCount THEN createNewPlayedEntry ELSE NoRow
          [] row # NoRow /\ ~tooOld /\ weekDiff # 0 ->
                 keptIfScored(IF bumpCount THEN [moved EXCEPT ![0] = @ + 1] ELSE moved)
          [] OTHER -> IF bumpCount THEN bumped(row) ELSE row

bumpPlayCount ==
    IF shouldBumpPlayCount /\ song # NoSong
      THEN /\ rows' = [rows EXCEPT ![song] = updateExistingRow(@, TRUE)]
           /\ plays' = [plays EXCEPT ![song][mNumberOfWeeks] = @ + 1]
      ELSE UNCHANGED <<rows, plays>>

(* getTopPlayedResults: updateResults runs once in a process. *)
IsOutdated(row) == row.lastUpdated < mNumberOfWeeks - NUM_WEEKS + 1

updateResults ==
    /\ ~mDatabaseUpdated /\ mDatabaseUpdated' = TRUE
    /\ rows' = [s \in Song |-> IF IsOutdated(rows[s]) THEN NoRow
                               ELSE updateExistingRow(rows[s], FALSE)]
    /\ UNCHANGED <<song, watch, player, mNumberOfWeeks, heard, gapless, plays, setBack>>

clear ==
    /\ rows' = [s \in Song |-> NoRow]
    /\ plays' = [s \in Song |-> [w \in Weeks |-> 0]]
    /\ UNCHANGED <<song, watch, player, mNumberOfWeeks, mDatabaseUpdated, heard, gapless, setBack>>

-----------------------------------------------------------------------------
(* Changes of song: META_CHANGED, and a PLAY_STATE_CHANGED that follows it. *)

PlaysSoFar == MapThenSumSet(LAMBDA s : MapThenSumSet(LAMBDA w : plays[s][w], Weeks), Song)

MetaChanged(s) ==
    /\ PlaysSoFar < MaxPlays
    /\ bumpPlayCount
    /\ song' = s /\ heard' = 0
    /\ UNCHANGED <<mNumberOfWeeks, mDatabaseUpdated, setBack>>

(* playSongAtImpl, and play() after a restore *)
StartSong(s) ==
    /\ MetaChanged(s)
    /\ previous' = resetWatch.previous /\ since' = 0 /\ running' = TRUE
    /\ playing' = TRUE /\ ready' = TRUE /\ gapless' = FALSE

(* The song cannot be opened. *)
FailToOpen(s) ==
    /\ MetaChanged(s)
    /\ previous' = resetWatch.previous /\ since' = resetWatch.since /\ running' = FALSE
    /\ playing' = FALSE /\ ready' = FALSE /\ gapless' = FALSE

(* SET_POSITION: the song is opened, if it can be, and the watch paused.   *)
MovePosition(s) ==
    /\ MetaChanged(s)
    /\ previous' = Plus(resetWatch.previous, resetWatch.since)
    /\ since' = resetWatch.since /\ running' = FALSE
    /\ playing' = FALSE /\ ready' \in BOOLEAN /\ gapless' = FALSE

(* TRACK_WENT_TO_NEXT: the play state has not changed. *)
WentToNext(s) ==
    /\ playing /\ MetaChanged(s)
    /\ previous' = resetWatch.previous /\ since' = resetWatch.since /\ running' = FALSE
    /\ gapless' = TRUE /\ UNCHANGED player

-----------------------------------------------------------------------------
(* Changes of play state *)

pause ==
    /\ playing /\ playing' = FALSE
    /\ pauseWatch
    /\ UNCHANGED <<song, ready, store, heard, gapless, plays, setBack>>

(* The end of a track and its TRACK_ENDED are one step, StartSong unless the *)
(* queue ends: then PLAY_STATE_CHANGED is sent twice.                       *)
TrackEnded ==
    /\ playing /\ playing' = FALSE
    /\ previous' = Plus(Plus(previous, since), since)
    /\ running' = FALSE
    /\ UNCHANGED <<song, ready, since, store, heard, gapless, plays, setBack>>

play ==
    /\ ~playing /\ ready /\ playing' = TRUE
    /\ startWatch
    /\ UNCHANGED <<song, ready, store, heard, gapless, plays, setBack>>

-----------------------------------------------------------------------------
(* External: time passes, and the process ends and starts again, in any      *)
(* week: the clock may have been set back.                                  *)

Tick ==
    /\ since' = Plus(since, 1)
    /\ heard' = IF playing THEN Plus(heard, 1) ELSE heard
    /\ <<since, heard>> # <<since', heard'>>
    /\ UNCHANGED <<song, previous, running, player, store, gapless, plays, setBack>>

Restart(week) ==
    /\ <<song, mNumberOfWeeks, mDatabaseUpdated>> # <<NoSong, week, FALSE>>
    /\ song' = NoSong /\ playing' = FALSE /\ ready' = FALSE
    /\ previous' = 0 /\ since' = Enough /\ running' = FALSE
    /\ mNumberOfWeeks' = week /\ mDatabaseUpdated' = FALSE
    /\ setBack' = (setBack \/ week < mNumberOfWeeks)
    /\ heard' = 0 /\ gapless' = FALSE
    /\ UNCHANGED <<rows, plays>>

Init ==
    /\ song = NoSong /\ playing = FALSE /\ ready = FALSE
    /\ previous = 0 /\ since = Enough /\ running = FALSE
    /\ mNumberOfWeeks \in Weeks /\ mDatabaseUpdated = FALSE
    /\ rows = [s \in Song |-> NoRow]
    /\ heard = 0 /\ gapless = FALSE
    /\ plays = [s \in Song |-> [w \in Weeks |-> 0]]
    /\ setBack = FALSE

ChangeSong(s) == StartSong(s) \/ FailToOpen(s) \/ MovePosition(s) \/ WentToNext(s)

Next ==
    \/ \E s \in Song : ChangeSong(s)
    \/ pause \/ TrackEnded \/ play
    \/ updateResults \/ clear
    \/ Tick \/ \E week \in Weeks : Restart(week)

Spec == Init /\ [][Next]_vars

-----------------------------------------------------------------------------
(* Properties *)

(* The types of the variables; a row always has a play in it. *)
TypeOK ==
    /\ song \in Song \cup {NoSong}
    /\ {previous, since, heard} \subseteq Times
    /\ {running, playing, ready, mDatabaseUpdated, gapless, setBack} \subseteq BOOLEAN
    /\ mNumberOfWeeks \in Weeks
    /\ plays \in [Song -> [Weeks -> Nat]]
    /\ \A s \in Song : rows[s] # NoRow =>
           /\ rows[s].lastUpdated \in Weeks
           /\ rows[s].counts \in [Columns -> Nat]
           /\ \E i \in Columns : rows[s].counts[i] > 0

(* SongPlayCountStore keeps what was played: whatever weeks pass between two *)
(* updates of a row, its columns are the plays counted in those weeks.  A    *)
(* clock that was set back may lose plays and never invents any.             *)
ColumnsAreRight(s) ==
    \A i \in Columns :
        LET week == rows[s].lastUpdated - i
            played == IF week \in Weeks THEN plays[s][week] ELSE 0
        IN  rows[s].counts[i] <= played /\ (~setBack => rows[s].counts[i] = played)

NothingIsMissing(s) ==
    setBack \/ \A i \in Columns : mNumberOfWeeks - i \in Weeks => plays[s][mNumberOfWeeks - i] = 0

CountsMatchPlays ==
    \A s \in Song : IF rows[s] = NoRow THEN NothingIsMissing(s) ELSE ColumnsAreRight(s)

(* The score, which is added to in place when the week has not changed and   *)
(* computed anew when it has, is always that of the columns.                 *)
ScoreMatchesCounts ==
    \A s \in Song : rows[s] # NoRow => rows[s].score = calculateScore(rows[s].counts)

(* getTopPlayedResults "only returns songs that have been played at least    *)
(* once in the past NUM_WEEKS", by the store's week.                         *)
TopSongsWerePlayed ==
    mDatabaseUpdated =>
        \A s \in Song : rows[s] # NoRow =>
            /\ rows[s].lastUpdated = mNumberOfWeeks
            /\ \E week \in Weeks : /\ mNumberOfWeeks - week \in Columns
                                   /\ plays[s][week] > 0

(* A song that the handler started and of which more than half was heard, in *)
(* any number of pieces, is counted when it is left.  Nothing of the kind    *)
(* holds of a song that followed without a gap: its watch does not run.      *)
LongListenIsCounted ==
    [][ (\E s \in Song : ChangeSong(s)) /\ heard > Half /\ ~gapless
          => plays'[song][mNumberOfWeeks] = plays[song][mNumberOfWeeks] + 1 ]_vars

=============================================================================
