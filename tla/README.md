# A verification project for Beatrate

Beatrate is an Android music player that detects the beat of songs and plays
them at a multiple of a target rate.  This directory holds TLA+ models of its
core, the configurations that check them with TLC, and theorems about them that
TLAPS proves.  Paths below are relative to
`src/app/src/main/java/com/poupa/vinylmusicplayer/` unless they name another
directory; `beatrate/` is `src/app/src/main/java/io/github/zarandya/beatrate/`.

    tlc -config PlayingQueue.cfg MCPlayingQueue.tla     checks an instance
    tlapm PlayingQueue_proofs.tla                       checks the proofs

## The system

| Component | State | Operations | Hard parts |
|---|---|---|---|
| Playing queue (`service/MusicService`) | two song lists, position, next position, shuffle and repeat mode | open, add, remove, move, clear, shuffle, repeat, skip | the main thread edits the lists at once and only *posts* positions; the handler installs them later |
| Playback (`service/PlaybackHandler`, `service/MultiPlayer`) | current and next media player, pending quit, gapless preference | open, prepare next, play, pause, completion and error callbacks | a completed track starts the next player before its callback runs; messages and callbacks cross |
| Queue persistence (`provider/MusicPlaybackQueueStore`, `service/QueueSaveHandler`) | two tables, saved position | save, restore | the save thread reads live lists; a process may die between transactions |
| Play counting (`service/SongPlayCountHelper`, `helper/StopWatch`, `provider/SongPlayCountStore`) | a stop watch, 52 weekly columns and a score per song | play state, change of song, top tracks | the watch is stopped, reset and paused in many orders; columns are shifted only when touched |
| Beat detection (`beatrate/BeatDetectionService.kt`) | a set of at most two threads, the song asked for, the type of each song's tempo | scan and listener intents, worker loop | workers choose their songs themselves; intents are dropped; the notification is changed without the lock |
| Native beat detector (`beat_detector.c`, `beatdetect.c` in `src/app/src/main/cpp/`) | decoder, window of samples, FFT plans of each worker | analyse a file, make and free a detector | error paths that leave the detector and its half-filled window to the next file; one planner mutex |
| Target rate (`MusicService.setTargetSpeedForPlayback`, `MultiPlayer.setSpeed`) | target beat, the player's and the remembered speed | set a target, open, play, pause, complete | the target and the song are read several times without one lock; a speed reaches the player only while it plays |
| Discography (`discog/`) | cache of songs, albums, artists and genres; database | add, remove, synchronise, restart | cache and database are changed in two steps, not always under the cache's lock; ids of genres are counts |
| Media buttons and audio focus (`service/MediaButtonIntentReceiver`, `PlaybackHandler`, `MusicService.play`) | click counter, wake lock, whether a transient loss paused the player | click, delayed message, pause, play, loss and gain of focus | a late click races with the message of an earlier one; losses are handled on another thread, step by step |
| History (`provider/HistoryStore`) | recently played songs | add, remove | none beyond one transaction each |

Three threads meet in `MusicService`: the *main* thread (listener, broadcasts,
media player callbacks), the *handler* thread (`PlaybackHandler`'s looper) and
the *save* thread.  The beat detector has its own workers, and reads the playing
queue and the discography from them.  A listener's call edits the queue, posts a
message to the handler and asks the save thread to write; the handler opens
tracks on the players, whose callbacks post messages again; every change of song
reaches the play counter, the history and the preferences.

The rest of the repository (activities, dialogs, loaders, tag editing, lyrics,
artwork, Last.fm, the vendored FFTW and mpg123) is layout, single queries or
third-party code and is not modelled.

What makes each part correct:

- *Queue*: the two lists hold the same songs, and are equal while shuffle is off;
  once nothing waits, the position is inside the queue; no edit changes the song
  that is current unless it removes it; the song a listener picks becomes current;
  an index out of bounds is never thrown on the main thread.
- *Playback*: the song that is heard is the song that is shown; the players never
  do to the queue what the queue's own operations do not; a pending quit stops
  after the song; the next player takes over playing.
- *Persistence*: what is stored at rest is what runs; an edit is saved in the end;
  a restore brings two lists of the same songs and never replaces a newer queue.
- *Play counting*: columns and scores are those of the plays counted, over any
  weeks; a song heard long enough is counted, and no other is.
- *Target rate*: what plays is stretched to the nearest multiple of the target, and to
  nothing else, whatever was opened, started and paused in between.
- *Native beat detector*: a tempo comes from consecutive samples of its own file, by a
  detector made for its rate; each worker owns one detector or none; no two threads are in
  FFTW's planner; every analysis ends.
- *Discography*: at rest the database holds what the cache holds and the songs are
  MediaStore's; every genre lists its songs.
- *Media buttons and focus*: every click is in one command; the listener's pause is not
  undone by the focus; what the focus interrupted resumes.
- *Beat detection*: a song is analysed by one thread at a time; every song gets a
  result; a request is served; the threads end; the notification tells the truth.

Not all of this holds without exception: "What the runs show" lists the exceptions.
`PROJECT.json` lists the hazards behind these, each at its line, with the property
that would catch it or the reason none does yet.

## Modules

    SongLists  <-  PlayingQueue  <-  MCPlayingQueue
       ^               ^
       |               +-- INSTANCE --  Playback  <-  MCPlayback
       +-- QueueStore  <-  MCQueueStore
    DetectionThreads  <-  BeatDetection  <-  MCBeatDetection
                      <-  BeatDetector   <-  MCBeatDetector
    PlayCount      <-  MCPlayCount              TargetRate <-  MCTargetRate
    Discography    <-  MCDiscography            Controls   <-  MCControls

    SongLists_proofs  <-  PlayingQueue_proofs  <-- INSTANCE --  Playback_proofs
                      <-  Stores_proofs      (PlayCount, QueueStore)
                      <-  Detection_proofs   (BeatDetection, BeatDetector)
    TargetRate_proofs, Discography_proofs, Controls_proofs

`X <- Y` reads Y extends X; every `X_proofs` extends X, and Stores_proofs and
Detection_proofs the modules in parentheses.  For these two the definitions every
specification has carry a prefix in one of the two models: BeatDetection's are
`DetectionInit`, `DetectionNext`, `DetectionSpec`, QueueStore's `SaveInit`, `SaveNext`,
`SaveSpec`.  A module may hold two forms of a
definition: the one just before a definition of the code is the same with a plausible
mistake, used to see that a property notices it (`PROJECT.json`, "mutants"), and is not
part of the specification.

**SongLists** is what `java.util.ArrayList` and the loops of `MusicService` do to a
list: insertion, deletion by index and by song, moving, the deletion loop of
`removeSong(Song)`, which skips the entry after each one it deletes, and the orders
`ShuffleHelper.makeShuffleList` may produce.  Code positions are 0-based, sequences
are not; songs are their ids.

**PlayingQueue** is the abstract specification of the queue for everything that
uses it.  Its variables are the fields of `MusicService`; `inbox` is the handler's
message queue, with `Post` removing waiting messages of the same kind first as
`removeMessages` does.  A main-thread method is one step, but `openQueue` followed by
`setShuffleMode` is two, with `call` holding the calls still to come, because the
handler may run between them.  `thrown` records the operation an uncaught exception
ended the process in.  The player appears only as closed, open or gapless.  History
variables say when a property is *not* claimed: `ranAhead` when an operation used a
position whose correction was waiting, `skipped` for songs of which `removeSong(Song)`
left a copy, `chosen` for the song the listener picked until something supersedes it.

**Playback** adds the two media players (`track`, `sound`, `next`, `nextStarted`,
`completing`), play, pause, the pending quit and the queue view's two-call removal of
the song that plays.  It is composed with the queue as
`Queue == INSTANCE PlayingQueue WITH player <- PlayerSeen`: the listener's queue
operations are PlayingQueue's own actions, the steps that open, prepare or release
tracks are written out from the code, and `ImplementsPlayingQueue == Queue!Spec`
checks that the detailed system is a refinement of PlayingQueue.

**QueueStore** is the save thread, one action per SQLite transaction, and the restore,
which reads two tables in two steps.  The queue's operations are reduced to what they
do to the two lists: replace (then a running save goes on with the old lists, `held`)
or change in place (then it reads what is there).  `Die` kills the process anywhere.

**PlayCount** is the stop watch, the decision to count, and the store's rows.  Times
are 0 .. Enough, where Enough stands for any longer time, the time since the epoch
included: `startTime = 0` is a watch started Enough ago.  A process reads the week
once, when the store is made, so a restart in any week, also an earlier one, is the
only change of it; a process that lives through several weeks counts them all as the
first (the model's `plays` are by the store's week for the same reason).

**DetectionThreads** declares the threads that the service starts and the native code
runs on.  **BeatDetection** is the service: intents of scans and of the listener, the choice
of the next song with the tags read on the way, the worker loop with its late
leaving of the set, and the notification, whose size check and effect are two steps.
What happens to a result is Discography's.  That a copy of a song the listener asked for
may have an older tempo type than the discography has is not modelled.

**BeatDetector** is the C code under it.  Each worker has a decoder (`opened`, `rate`,
`pos`) and a detector (`fs`, `n`, the input `x`), which outlives the file.  A step is one
read of the decoder loop, one call of the planner under its mutex, or one analysis.  A
sample is `<<file, index>>`, so that the model knows which samples a tempo is computed
from; what `beatdetect` computes is left out, except for the indices the comb filter
reads.  A file may not open, may be no audio, may be too short or break off.  Each of the six
parts of a detector may fail to be allocated, and then `create_beat_detector` abandons the
others: `allocated` is what a worker's detector points to, `leaked` says that memory is
allocated which none does, `brokeOff` that some parts of a detector were allocated and
others not.

**TargetRate** is the speed.  Two threads compute it, each in the code's steps: read the
song and the target, read the target again for the multiple, set it on the player, which
uses it at once or remembers it.  A speed is a fraction, so the rounding is exact.  The
lock of the service is in `Locked`; `setTargetBeat` does not take it.  The queue is reduced
to the song asked for and the next one.

**Discography** is the cache, its genres, the database and the tasks of the executor.
MediaStore changes a file at any time and tells of it later; a loader, a worker of the
beat detector and the tag editor add and remove songs meanwhile; `Restart` ends the
process anywhere and loads the database.  A song has an id and a version, its genre hangs
on the version.  Artists and albums, whose ids are those of MediaStore and not counts, are
left out.

**Controls** is how playing is started and stopped: clicks and their timeout in ticks,
commands on the main thread (`back`, on a rewind, seeks or skips), and the handler's steps for each change of the audio focus.
The AudioManager is external: it takes the focus away for good or for a while, gives it
back in the second case, and grants or denies a request.

## Runs

| Run | What it asks | Bounds | Result |
|---|---|---|---|
| playing_queue | positions settle in range; exceptions need an outdated position; the chosen song becomes current | 2 entries, 2 songs, 2 waiting messages of the listener and of the player, positions up to 1 | holds |
| queue_edits | the lists hold the same songs, agree unshuffled, edits keep the current song | 3 entries, handler idle when the listener acts, positions up to 3 | holds |
| playback | heard is shown; Playback implements PlayingQueue | 2 entries, 1 callback waiting | holds |
| remove_playing | `RemovedSongYieldsToNext` | as playback, the listener also acts with a message waiting | **violated** |
| queue_store | what rests in the store is current; edits are saved in the end | 2 entries, one song per transaction, kills anywhere | holds |
| beat_detection | one thread per song; songs settle; requests are served; threads end | 2 threads and one that is leaving, 3 songs (one tagged, two in the queue), 1 request | holds |
| target_rate | what plays has the speed of its song and the target; every speed is nearest for a target, the set one unless it changes meanwhile | 2 songs, one tempo or none, 2 targets, one of them more than twice the tempo | holds |
| gapless_rate | `GaplessSongAtTargetRate` | as target_rate | **violated** |
| beat_detector | samples are the file's; an outcome is the file's; a detector is owned; the planner is exclusive; analyses end | 2 workers, 4 files, 2 rates, windows of 1 and 3 samples, 2 samples a read, any part of a detector missing | holds |
| discography | the database follows the cache; MediaStore is shown; genres list their songs | 2 songs, one with 2 versions, 2 genres, 2 calls or tasks at once | holds |
| controls | clicks count once; a pause lasts; playback resumes | timeout of 2 ticks, clicks up to 1 tick late, 2 clicks waiting, focus changes while fewer than 2 messages wait | holds |
| play_count | columns and score match the plays; top songs were played; long listening is counted | 3 columns, 5 weeks, 2 songs, 2 plays | holds |

*Bounds.*  `MaxLen` bounds the queue: two entries have a first, a last and a copy of
a song; three have a middle one, so that an edit can fall before, on, between or after
the current entry.  Depth of the inbox and length of the queue multiply, so one run
has deep inboxes and the other long queues.  `MaxInbox` and `MaxEvents` bound the
messages waiting when the listener or the player acts, not the messages there are: an
operation posts up to two more.  `MaxPosition` stops the listener once a stray position
has left the queue, since every skip would move it further.  `NumProcess` is 20 in the
code; 1 makes a table of two songs need several transactions.  `MaxWaiting` is the inbox of
QueueStore.  In PlayCount three columns and five weeks give shifts by one
and two, a gap of the whole table and more, forwards and backwards; two plays share a
column or not.  In BeatDetection a third song is what two busy threads leave over, and
the third thread object is one that has left the set and not ended.

In TargetRate the tempo lies between two multiples of one target and under half of the
other, so that a multiple is rounded up and to zero; a second song is what a stale
speed can come from.  In BeatDetector a window takes one read or two, and the files have
just enough samples, one too few, or an error within or at the end of the window, at two
rates; one that is no audio does what one that does not open does; a worker meets them in any order, and two workers are enough
to contend for the planner.  `MaxCalls` of Discography bounds the calls under way and the
tasks waiting together.  `MaxRows` is the number of rows a song may have when the process is
killed: with 1 it is not killed while a song has two, which only the race in
`removeSongById` brings about.  In Controls a tick is
200 ms: clicks arrive within the timeout, at its end and after it, and one tick of lag is
what makes a click and the message of the one before wait for the main thread together.
Symmetry of songs is used only where no liveness property is checked.

*Deadlock* is checked except where the program may really stop: PlayingQueue and
Playback end when an exception ends the process, BeatDetection rests when nothing is
left to analyse, and in BeatDetector the process may end for lack of memory.

*Fairness.*  Only looper threads and started threads are fair: in QueueStore the save
thread and the handler run the messages they have; in BeatDetection the main looper
handles intents and a worker goes on (decoding a file ends); in BeatDetector a worker goes
on (weak fairness of `Work`), and a thread that waits for the planner's mutex gets it some
time (strong fairness of `lock`: it is held for one call and released, and others may take
it in between).  Nothing is assumed of
the listener, the scanner or the killing of processes.  `EditsAreSaved` is stated for
a listener who stops editing, the properties of BeatDetection for bounded requests.

## What the runs show

Two runs end with a counterexample; each is a disagreement between the code and what its
own text says, and a finding in `PROJECT.json`:

1. *A gapless transition leaves the target.*  `src/README.md:6` promises playback at a
   multiple of the target.  The player prepared for the next song starts at speed 1, and
   neither `onCompletion` nor `TRACK_WENT_TO_NEXT` sets a speed: the song plays at its own
   tempo until the listener pauses, sets a target or picks a song.
2. *Removing the song that plays.*  The queue view skips first and deletes then.  If
   both run before the handler, the skip lands one entry too far and the later
   `SET_POSITION` opens a song without starting it.

The passing runs hold with exceptions, which are written into the properties as history
variables or guards so that they stay visible.  They are what the code does in races and
at boundaries:

- *Queue.*  `setShuffleMode` right after `openQueue` uses the old position: an index out of
  bounds if the old queue was longer, another song than the chosen one otherwise
  (`ranAhead`).  `removeSong(Song)` skips one of two adjacent copies, and not the same number
  in both lists (`skipped`).  A `PREPARE_NEXT` posted again moves behind a
  `TRACK_WENT_TO_NEXT` it had to precede (`ranAhead`; `outpaced` in Playback).  With a
  position past the end, `getNextPosition` never meets `isLastTrack` and grows.
- *Playback.*  `removeSong(Song)` of a song that plays may leave a copy of it in one list
  only; turning shuffle off then shows another song than the one that is heard (`skipped`).
  The queue of the run is too short for this; the theorem covers it.  The sleep timer's
  "finish last song" is looked at in `TRACK_ENDED` only (`PlaybackHandler.java:72`): a
  gapless transition passes over it.  Between the end of a track, when the system starts the
  next player, and its callback, a `PREPARE_NEXT` releases that player and prepares another,
  which takes over and is never started.
- *Persistence.*  The two tables are written in separate transactions and a restore
  compares only their sizes: after a kill in between, the lists may come back with different
  songs.  A restore checks for an empty queue and then reads two tables without a lock; a
  queue opened meanwhile is overwritten.  Clearing the queue before the restore has run
  brings the saved queue back; an edit of the empty queue resets the saved position
  (`overtaken`).
- *Play counting.*  A gapless transition stops the stop watch and does not start it: such a
  song's play is never counted (`gapless`).  A pause of a watch that does not run adds the
  time since the epoch: a song that was moved to and never heard is counted.
- *Beat detection.*  An intent that comes while all workers are leaving is dropped, and its
  song is left until the next intent; so is a request for the song a worker has just
  finished (`missed`).  `songToPlay` is never reset, so that the song asked for is analysed
  again whenever a worker becomes free, over a tempo edited by hand too.  A thread that has
  left reads an empty set and hides the notification of one that was started since.
  `queue.subList(getPosition(), size)` in a worker throws when the position is outside the
  queue; BeatDetection takes it to be inside.
- *Native detector.*  `header`'s result is not looked at: without memory for a detector the
  loop goes on with a zeroed one and ends the process (`noMemory`).  If only some of its six
allocations fail, `create_beat_detector` (`beatdetect.c:44`) returns `{0}` and frees none of
the others: they are lost, and `DetectorIsOwned` claims nothing of memory after that
(`brokeOff`).  A decoder error within
  the window leaves its samples to no one: the next file starts its window anew.
- *Target rate.*  A tempo found while its song plays is not applied (`learnt`).  A target set
  while the handler computes may give the factor of one target times the multiple for another
  (`overlap`); `SpeedIsNearest` says what such a speed can be: a multiple of one target,
  nearest for another, or 0 if the target was switched off.  A tempo of at most half the
  target may round to the multiple 0, and speed 0 pauses the player for good.
- *Discography.*  A song added between the two steps of `removeSongById` is in the cache and
  not in the database, or in it twice (`raced`).  A loader adds the version it had read
  before a synchronisation (`late`).  `syncWithMediaStore` removes orphans only if some
  cached song is in MediaStore (`removeAll` returns whether it removed any; `left`).  A new
  genre may take an id in use (`reused`).
- *Controls.*  When the main thread is late, a click that ends one series may count on in
  the next and act twice (`lagged`).  A pause that comes while the handler works on a change
  of the focus, or has a song to play, may be followed by playing (`crossed`).  A loss that
  arrives between the granted request and the start, or waits while the focus is requested
  again, silences what was to play (`overtaken`).

*What the exceptions leave unchecked.*  A property with an exception is no evidence about
the case it excepts.  Of these hazards the failure itself is excepted: an operation that
uses an outdated position (`ranAhead`), a copy left by `removeSong(Song)` (`skipped`), a
`TRACK_ENDED` that waits when the listener taps a song (`chosen` is dropped), a queue opened
during a restore (`overtaken`), a gapless song that is not timed (`gapless`), an intent
dropped while the threads leave (`missed`), the parts of a detector that are abandoned
(`brokeOff`), an addition between the steps of `removeSongById` (`raced`), an outdated
version (`late`), a genre's id used twice (`reused`), a click and a message that wait
together (`lagged`), and a pause or a start amid the handler's steps (`crossed`,
`overtaken`).  All of them occur in the models.  The properties say that
nothing else goes wrong, and `PROJECT.json` names at each such hazard what is excepted, or
lists no property for it.

## Proofs

TLAPS proves the following for every set of songs, files, threads and bounds that
satisfies the modules' assumptions.

| Theorem | Property | Inductive invariant |
|---|---|---|
| `SongLists_proofs!ShufflesCopies` | a shuffle has as many copies of each song as the list | cardinalities |
| `SongLists_proofs!DeletedEntry` | where the loop of `removeSong(Song)` deletes an entry, the deletions before it give the place of the next entry it keeps | cardinalities |
| `PlayingQueue_proofs!TypeCorrect` | `TypeOK`, with it that no position below -1 is computed, stored or posted | `TypeOK /\ UnshuffledListsAgree` |
| `PlayingQueue_proofs!UnshuffledAgreement` | `UnshuffledListsAgree` | itself |
| `PlayingQueue_proofs!SameSongsInBoth` | `ListsHoldSameSongs` | `SameSongs` |
| `PlayingQueue_proofs!EditsKeepTheCurrentSong` | `EditsKeepCurrentSong`, an action property | `SameSongs` |
| `PlayingQueue_proofs!PositionsSettleInRange` | `SettlesInRange` | `RangeInv` |
| `PlayingQueue_proofs!ThrowsOnlyWhenAhead` | `ThrowsOnlyAhead` | `RangeInv` and `SameSongs` |
| `PlayingQueue_proofs!ChosenBecomesCurrent` | `ChosenSongBecomesCurrent` | `ChosenInv` |
| `Playback_proofs!TypeCorrect` | `TypeOK` | `TypeInv` |
| `Playback_proofs!QueueImplemented` | `ImplementsPlayingQueue`, the refinement | `TypeInv` |
| `Playback_proofs!HeardSongAlwaysShown` | `HeardSongIsShown` | `HeardInv`, with `RangeInv` and `SameSongs` of the queue |
| `Playback_proofs!QueueKeepsItsPromises` | the six properties of the queue above, types aside, with the players behind it | by the refinement |
| `Stores_proofs!SaveTypeCorrect` | `SaveTypeOK` | `SaveInv` |
| `Stores_proofs!QuietStoreAlwaysCurrent` | `QuietStoreIsCurrent` | `SaveInv` |
| `Stores_proofs!SavesAdvance` | every step of the save thread leaves fewer to do | `SaveInv` |
| `Stores_proofs!TypesCorrect` | `TypeOK` | `ListenInv /\ StoreInv` |
| `Stores_proofs!LongListensCounted` | `LongListenIsCounted`, an action property | `ListenInv` |
| `Stores_proofs!CountsAlwaysMatchPlays` | `CountsMatchPlays` | `ListenInv /\ StoreInv` |
| `Stores_proofs!ScoreAlwaysMatchesCounts` | `ScoreMatchesCounts` | `ListenInv /\ StoreInv` |
| `Stores_proofs!TopSongsAlwaysPlayed` | `TopSongsWerePlayed` | `ListenInv /\ StoreInv` |
| `Detection_proofs!DetectionTypeCorrect` | `DetectionTypeOK`: the set of threads never exceeds `NUM_THREADS` | itself |
| `Detection_proofs!SongsStayApart` | `NoSongAnalysedTwice` | with `DetectionTypeOK` |
| `Detection_proofs!IdleServiceHasNothingLeft` | no song untested and no request unserved once no thread and no intent is left | `IdleInv` |
| `Detection_proofs!TypeCorrect` | `TypeOK`: the window stays inside the detector's input | `OwnedInv` |
| `Detection_proofs!DetectorAlwaysOwned` | `DetectorIsOwned`: nothing is lost but the parts of a detector that could not be completed | `OwnedInv` |
| `Detection_proofs!PlannerAlwaysExclusive` | `PlannerIsExclusive` | `OwnedInv` |
| `Detection_proofs!WindowAlwaysOfThisFile` | `WindowIsOfThisFile` | `WindowInv` |
| `Detection_proofs!OutcomeAlwaysOfThisFile` | `OutcomeIsOfThisFile` | `OutcomeInv` |
| `Detection_proofs!PlannerAlwaysReleased` | whoever holds the planner is between `fftw_planner_lock` and `fftw_planner_unlock` | `HolderIsInside` |
| `Detection_proofs!AnalysisAdvances` | every step of an analysis leaves fewer to do | `WindowInv` |
| `Detection_proofs!CombStaysInside` | every index `filtercomb_td` reads is inside the buffer | arithmetic |
| `TargetRate_proofs!TypeCorrect` | `TypeOK` | itself |
| `TargetRate_proofs!SpeedAlwaysNearest` | `SpeedIsNearest` | `SpeedInv`: `MixedInv`, `OnTarget` and `NearInv` |
| `TargetRate_proofs!SpeedAlwaysFollows` | `SpeedFollowsTarget` | `FollowInv` |
| `Discography_proofs!TypeCorrect` | `TypeOK` | itself |
| `Discography_proofs!DatabaseFollowsCache` | `QuietCacheMatchesDatabase` | `StoreInv` |
| `Discography_proofs!GenresAlwaysListTheirSongs` | `GenresListTheirSongs` | `GenreInv` |
| `Discography_proofs!MediaStoreAlwaysShown` | `MediaStoreIsShown` | `FilesInv` |
| `Controls_proofs!TypeCorrect` | `TypeOK`: the wake lock is held exactly while a message waits | itself |
| `Controls_proofs!ClicksAlwaysCounted` | `ClicksCountedOnce` | `CountInv` |
| `Controls_proofs!PausesStick` | `PauseSticks` | `PauseInv` |
| `Controls_proofs!PlaybackAlwaysResumes` | `PlaybackResumes` | `ResumeInv` |

Why the invariants are what they are:

- *SongLists*: `SongLists_proofs` says what each list operation
  returns for lists of any length: the entries it keeps are numbered by how many kept ones
  come before them (`Rank`, shown to be increasing and the inverse of the model's `Nth`), so
  that a deletion by index and one by song are instances of the same lemmas.  `Copies` counts
  the entries of a song; every operation's lemma says what it does to the count.  The least
  element of a set of positions comes from the well-foundedness of the naturals.
- *PlayingQueue*, types: `rePosition` and the deletion by position are in range on the
  original list only because the two lists are equal while shuffle is off.  *Songs*:
  `SameSongs` adds to `ListsHoldSameSongs` that the lists are equally long where no deletion
  by song has left a copy (`LengthsAgree`), without which a deletion by position could miss.
  *Positions*: a position outside the queue is harmless as long as a message that corrects
  it waits, and `RangeInv` says where in the inbox: from some waiting message on, the
  handler sees positions of the queue only, before that message no track ends, and a switch
  to the next track comes only where the next position is right or a `PREPARE_NEXT` is ahead
  of it.  *The chosen song*: `ChosenInv` says that the song is current already and no message
  that waits will change that, or that the last waiting message which sets the position
  carries a place where it is.
- *Playback*: each step is shown to be one of PlayingQueue's or to leave the queue alone, so
  that the invariants of the queue hold here (`Proved`, the instance of
  `PlayingQueue_proofs`).  `HeardInv` says what the tracks are while messages wait.  From the
  callback of a gapless transition until it is handled, the track is the song at the next
  position, or the current one where the queue ends, and nothing is prepared or about to be
  (`Switched`).  Otherwise it is the current song, and a prepared track is the one the next
  transition leads to, unless a message waits that prepares another (`Settled`).  That no
  edit disturbs this is a lemma about the queue alone (`ListenerSpares`), and so is that no
  transition waits once the last posted position is taken (`LastPositionSettles`).
- *QueueStore*: `SaveInv` follows a save through its transactions, any of which an edit may
  come between.  Unless a save waits, the one under way has written what the lists are now:
  an edit that replaces a list or changes it posts a save, so whatever the running one
  misses or writes of an older list is written again.  What a running save has written is
  that of the list it reads from the start to `at` (`SaveIsCurrent`).  Whoever changes the
  position stores it (`PositionIsStored`).  A restore that reads while the queue is edited
  is noted (`RestoreIsNoted`).
- *BeatDetection*: whichever of the three ways the next song is chosen, no thread in the set
  has it (`NextSongFree`).  `IdleInv` says who is still to look at a song: while one is untested, an intent is on its
  way or a thread will look for another song (`NoSongForgotten`), and so for the song asked
  for, which no thread keeps that has finished with it (`RequestKept`).  For a thread to
  leave nothing behind, the songs of the threads still in the set must have their results
  (`ResultsThere`), and no song is asked for or analysed before a scan found it
  (`KnownBefore`).
- *PlayCount*: `ListenInv` says that, unless the song followed without a gap, the watch runs
  exactly while the player plays and shows at least the time the song was heard.  `StoreInv`
  says of every row that each column is the number of plays of its week, that none was
  played after the row's week unless the week was set back, and that the score is that of
  the columns.  The score is a sum over columns: its lemmas compare two sums by the smallest
  set of columns over which they differ, in place of an induction over the columns.
- *BeatDetector*: `OwnedInv` adds to the types and the two properties that a worker which
  makes a detector knows its rate, one that frees a detector has one (`RatesKnown`), and that
  nothing is read before the detector is there (`NothingRead`).  That no memory is lost
  otherwise needs the first: a detector is made only where there is none.  `WindowInv` adds that the
  detector in use is of the file's rate (`RateIsOfFile`) and that the samples copied so far
  are those after the ones skipped, `wpos + xpos = pos` (`WindowFills`).  `OutcomeInv` adds
  that the decoder has read a whole number of chunks, or all of the file, so that whether a
  file is long enough does not depend on what the detector had read of another (`OutcomeOf`).
- *TargetRate*: what a property says of the player at rest must hold of every speed on its
  way there: what a thread has read, computed and stored.  `MixedInv` is that chain for any
  order of reads and writes of the target: what a thread computes is nearest for the target
  it read the second time.  `OnTarget` says that a target switched on is not 0 once it is
  written.  `NearInv` is the chain for the target that is set and `FollowInv` that for
  `SpeedFollowsTarget`, both while no two threads compute.
- *Discography*: `StoreInv` says that the rows of a song are those of the cache or the song
  is out of the cache and a thread is about to delete them (`InStep`), and that a
  synchronisation with reset clears the cache after the database (`Emptied`).  `GenreInv`
  says that, until an id is given a second time, two genres have two ids (`IdsDiffer`) and
  that each genre's list is that of the cached songs whose version has it (`Listed`).
  `FilesInv` says of every file which the cache shows wrongly that a synchronisation is to
  come, that a loader held it back (`late`), or that the synchronisation under way has still
  to come to it (`Caught`), and that tasks add what MediaStore has (`AddsAreCurrent`).
- *Controls*: `CountInv` ties the counter, the message's count and the age of the last click
  together: a message that waits has the time left that the next click has to count on.
  `PauseInv` says that after a pause nothing is under way that starts the player.
  `ResumeInv` says where the wish to play is kept: what is to play is starting, is playing,
  or is remembered by the flag of the transient loss; and as long as the focus is not gone
  for good, every loss that waits or is being handled has a gain after it (`LossesPass`).

The assumptions are the `ASSUME`s of the modules: the song that stands for none is not a
song, selections and lists are sequences of songs, tempos and targets are naturals, threads
and genres are finite, bounds are naturals, and what stands for an absent thing
(`Absent` of Discography) is neither an id, a small number nor a set.  TLC evaluates them in
every run, and it has found every inductive invariant above to hold on the runs' instances.

Only model-checked is every liveness property (`EditsAreSaved`, those of BeatDetection,
`AnalysisEnds`), since fairness and `ENABLED` are out of the prover's reach.  What they rest
on besides fairness is proved: a number of steps left that every step of the save thread
(`SaveSteps`) and of an analysis (`Remaining`) lowers and nothing else raises while the
queue is neither edited nor restored, a mutex that is never left locked (`HolderIsInside`), and that threads
do not leave while there is something to do (`IdleInv`).  A module with a `RECURSIVE` operator cannot be proved about; the models declare none.

## Not modelled, and why

- *Vendored C.*  FFTW (`src/app/lib/fftw-3.3.9`) and mpg123 are third-party code: almost all
  of the repository's C lines, generated codelets for the most part.  Of the native code the
  program's own is `beat_detector.c`, `beatdetect.c` and `beatdetect.h`; the rest is the
  Java and Kotlin of the app.  The lines mapped are a small share of the whole tree for this
  reason, and could only be a large one by modelling a Fourier transform library.
- *Signal processing* in `beatdetect.c`: floating-point arithmetic on samples.  Its indices
  are modelled; that `filtercomb_td` leaves an entry of its sum buffer from the tempo before
  when the next one has a shorter beat is a matter of numbers no property here tells apart.
- *Ducking*, replay gain and the position inside a track: numbers no property is about.
- *History store*: one insert and one delete of old rows, both in the call that handles
  `META_CHANGED`; nothing comes between.
- *SQL errors*, which `discog/DB.java:92` swallows.
- *Iteration of live collections*: a worker walks `allSongs`, the values of the cache's map,
  under the discography's lock but not the cache's; in BeatDetection the choice of a song
  is one step, and the set of songs does not change in it.
- *Albums and artists* of the discography and the merging of album artists; tags other than
  the tempo.
- *The undo of a removal* in the queue view: the insertion is `AddAt`; the snackbar that
  outlives the edit is not modelled.
- *Lists of rates*, blacklist, playlists, tag editing, lyrics, artwork, network: single
  statements or conversions without a protocol.
- *User interface*: its calls are the listener's actions.

## Plan

Written, in this order: SongLists, PlayingQueue (the most important behaviour),
Playback over it, QueueStore, BeatDetection, PlayCount, TargetRate, BeatDetector,
Discography and Controls, each with its proofs.  What is left, by worth:

1. The composition of BeatDetection with BeatDetector and with Discography, through the
   files a worker analyses and the results it writes, and of Controls with Playback, through
   the handler's inbox.
2. The undo insert of the queue view in PlayingQueue.
