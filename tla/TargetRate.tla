----------------------------- MODULE TargetRate -----------------------------
(***************************************************************************)
(* The speed songs are played at: MusicService computes it from the target *)
(* beat and the tempo of the current song, on the main thread when the     *)
(* listener sets a target and on either thread when a song is opened or    *)
(* played; MultiPlayer keeps it and puts it on a media player only while   *)
(* that player plays.  openTrackAndPrepareNextAt and play hold the         *)
(* service's lock, setTargetBeat does not.                                 *)
(*                                                                         *)
(* A speed is a fraction <<n, d>>, a tempo a number of beats per minute.   *)
(* The queue is left open: any song may be asked for or prepared as next.  *)
(*                                                                         *)
(* Of android.media.MediaPlayer this uses: a new or reset player has speed *)
(* 1, speed 0 pauses a player, and a track that completes starts the       *)
(* player set as next.                                                     *)
(***************************************************************************)
EXTENDS Integers

CONSTANTS
    Song,       \* the songs
    NoSong,     \* no song
    Tempos,     \* tempos detection may find
    Targets     \* target beats the listener may choose

ASSUME SongAssumption == NoSong \notin Song
ASSUME TempoAssumption == Tempos \subseteq Nat \ {0}
ASSUME TargetAssumption == Targets \subseteq Nat \ {0}

VARIABLES
    tempo,              \* bpm of each song, Unknown unless bpmType is DETECTED or MANUAL
    targetBeatEnabled, targetBeat,
    song,               \* getCurrentSong
    track,              \* song open in mCurrentMediaPlayer, NoSong when not initialized
    isPlaying, speed,   \* of mCurrentMediaPlayer
    next,               \* song prepared in mNextMediaPlayer, NoSong without one
    mSpeed,             \* MultiPlayer's speed for the next start
    asked,              \* a PLAY_SONG or SET_POSITION message, or None
    playAfter,          \* whether the message being handled is PLAY_SONG
    wentToNext,         \* a TRACK_WENT_TO_NEXT message is waiting
    pc,                 \* where each thread is
    beat,               \* the target being set on the main thread
    reading,            \* per thread, the song computed for and the target first read
    setting,            \* per thread, the speed computed
    unsynced,           \* history: the track was entered without a speed of its own
    learnt,             \* history: the tempo came after the speed was computed
    overlap             \* history: a target was set while a track was opened or started

target == <<targetBeatEnabled, targetBeat>>
player == <<track, isPlaying, speed, next, mSpeed>>
messages == <<asked, playAfter, wentToNext>>
history == <<unsynced, learnt, overlap>>
thread == <<pc, beat, reading, setting>>
vars == <<tempo, target, song, player, messages, thread, history>>

Threads == {"main", "handler"}
Unknown == 0
Normal == <<1, 1>>
None == <<>>

Idle(t) == pc[t] = "idle"
Other(t) == IF t = "main" THEN "handler" ELSE "main"
Goto(t, label) == pc' = [pc EXCEPT ![t] = label]

(* synchronized (this) in openTrackAndPrepareNextAt and play. *)
Locked(t) == pc[t] \in {"open", "openRead", "opening", "play", "playRead", "starting", "start"}

-----------------------------------------------------------------------------
(* (int) ((bpm + target / 2) / target); infinity, for a target of 0, times  *)
(* that target is 0.                                                        *)
MultipleBelow(b, t) == IF t = 0 THEN 0 ELSE b \div t
Multiple(b, t) == IF t = 0 THEN 0 ELSE (2 * b + t) \div (2 * t)

(* The speed setTargetSpeedForPlayback asks the player for. *)
StretchedUntested(s) == targetBeatEnabled /\ s # NoSong
Stretched(s) == targetBeatEnabled /\ s # NoSong /\ tempo[s] # Unknown
SpeedFor(s) ==
    IF Stretched(s) THEN <<targetBeat * Multiple(tempo[s], targetBeat), tempo[s]>> ELSE Normal

Init ==
    /\ tempo \in [Song -> Tempos \cup {Unknown}]
    /\ targetBeatEnabled = FALSE /\ targetBeat = 0
    /\ song = NoSong /\ track = NoSong
    /\ isPlaying = FALSE /\ speed = Normal /\ mSpeed = Normal /\ next = NoSong
    /\ asked = None /\ playAfter = FALSE /\ wentToNext = FALSE
    /\ pc = [t \in Threads |-> "idle"] /\ beat = 0
    /\ reading = [t \in Threads |-> None] /\ setting = [t \in Threads |-> Normal]
    /\ unsynced = FALSE /\ learnt = FALSE /\ overlap = FALSE

(* Starts a thread on a computation of the speed. *)
Begin(t, label) == Goto(t, label) /\ overlap' = ~Idle(Other(t))

-----------------------------------------------------------------------------
(* setTargetSpeedForPlayback, on either thread.  targetBeat is read as the  *)
(* factor first and in the multiple after, with no lock in setTargetBeat.   *)

AfterRead == [target |-> "targetRead", open |-> "openRead", play |-> "playRead"]
AfterCompute == [target |-> "setTarget", targetRead |-> "setTarget",
                 open |-> "opening", openRead |-> "opening",
                 play |-> "starting", playRead |-> "starting"]

ReadTarget(t) ==
    /\ pc[t] \in DOMAIN AfterRead /\ Stretched(song)
    /\ reading' = [reading EXCEPT ![t] = <<song, targetBeat>>]
    /\ Goto(t, AfterRead[pc[t]])
    /\ learnt' = FALSE /\ unsynced' = (song # track)
    /\ UNCHANGED <<tempo, target, song, player, messages, beat, setting, overlap>>

Compute(t) ==
    /\ pc[t] \in DOMAIN AfterCompute \ DOMAIN AfterRead
    /\ LET s == reading[t][1] IN
       setting' = [setting EXCEPT ![t] =
                     <<reading[t][2] * Multiple(tempo[s], targetBeat), tempo[s]>>]
    /\ reading' = [reading EXCEPT ![t] = None]
    /\ Goto(t, AfterCompute[pc[t]])
    /\ UNCHANGED <<tempo, target, song, player, messages, beat, history>>

KeepNormal(t) ==
    /\ pc[t] \in DOMAIN AfterRead /\ ~Stretched(song)
    /\ setting' = [setting EXCEPT ![t] = Normal]
    /\ Goto(t, AfterCompute[pc[t]])
    /\ learnt' = FALSE /\ unsynced' = (song # track)
    /\ UNCHANGED <<tempo, target, song, player, messages, beat, reading, overlap>>

(* MultiPlayer.setSpeed: a player that does not play gets the speed later.  *)
SetSpeed(v) ==
    /\ mSpeed' = v
    /\ speed' = IF isPlaying THEN v ELSE speed
    /\ isPlaying' = (isPlaying /\ v[1] # 0)

-----------------------------------------------------------------------------
(* Main thread *)

(* setTargetBeat writes its two fields and computes the speed; the          *)
(* PREPARE_NEXT it posts is HandlePrepareNext.                              *)
SetTargetBeat(on, b) ==
    /\ Idle("main")
    /\ targetBeatEnabled' = on
    /\ beat' = b
    /\ Begin("main", "setTargetBeat")
    /\ UNCHANGED <<tempo, targetBeat, song, player, messages, reading, setting, unsynced,
                   learnt>>

WriteTargetBeat ==
    /\ pc["main"] = "setTargetBeat"
    /\ targetBeat' = beat
    /\ Goto("main", "target")
    /\ UNCHANGED <<tempo, targetBeatEnabled, song, player, messages, beat, reading, setting,
                   history>>

ApplyTarget ==
    /\ pc["main"] = "setTarget"
    /\ SetSpeed(setting["main"])
    /\ Goto("main", "idle")
    /\ UNCHANGED <<tempo, target, song, track, next, messages, beat, reading, setting, history>>

(* The listener picks a song, or an edit of the queue moves the position.   *)
Ask(s, start) ==
    /\ Idle("main")
    /\ asked' = <<s, start>>
    /\ UNCHANGED <<tempo, target, song, player, playAfter, wentToNext, thread, history>>

Pause ==
    /\ Idle("main") /\ isPlaying
    /\ isPlaying' = FALSE
    /\ UNCHANGED <<tempo, target, song, track, speed, next, mSpeed, messages,
                   thread, history>>

-----------------------------------------------------------------------------
(* play, by the listener or at the end of playSongAtImpl *)

Play(t) ==
    /\ pc[t] = (IF t = "main" THEN "idle" ELSE "toPlay")
    /\ ~Locked(Other(t))
    /\ CASE isPlaying -> Goto(t, "idle") /\ UNCHANGED <<asked, overlap>>
         [] ~isPlaying /\ track = NoSong ->
                /\ asked' = <<song, TRUE>> /\ Goto(t, "idle") /\ UNCHANGED overlap
         [] OTHER -> Begin(t, "play") /\ UNCHANGED asked
    /\ UNCHANGED <<tempo, target, song, player, playAfter, wentToNext, beat, reading, setting,
                   unsynced, learnt>>

StoreSpeed(t) ==
    /\ pc[t] = "starting"
    /\ SetSpeed(setting[t])
    /\ Goto(t, "start")
    /\ UNCHANGED <<tempo, target, song, track, next, messages, beat, reading, setting, history>>

StartAtOldSpeed(t) ==
    /\ pc[t] = "start"
    /\ isPlaying' = (track # NoSong /\ speed[1] # 0)
    /\ Goto(t, "idle")
    /\ UNCHANGED <<tempo, target, song, track, speed, next, mSpeed, messages, beat, reading,
                   setting, history>>

(* MultiPlayer.start, then setSpeed(mSpeed). *)
Start(t) ==
    /\ pc[t] = "start"
    /\ IF track = NoSong THEN UNCHANGED <<isPlaying, speed>>
       ELSE isPlaying' = (mSpeed[1] # 0) /\ speed' = mSpeed
    /\ Goto(t, "idle")
    /\ UNCHANGED <<tempo, target, song, track, next, mSpeed, messages, beat, reading, setting,
                   history>>

-----------------------------------------------------------------------------
(* Handler thread *)

(* openTrackAndPrepareNextAt: the player is reset, so it neither plays nor  *)
(* has a speed, and no next player; a track that does not open ends it.     *)
Open ==
    /\ Idle("handler") /\ asked # None /\ ~Locked("main")
    /\ song' = asked[1] /\ playAfter' = asked[2] /\ asked' = None
    /\ isPlaying' = FALSE /\ speed' = Normal
    /\ \/ track' = song' /\ next' = NoSong /\ Begin("handler", "open")
       \/ track' = NoSong /\ UNCHANGED <<next, pc, overlap>>
    /\ unsynced' = FALSE
    /\ UNCHANGED <<tempo, target, mSpeed, wentToNext, beat, reading, setting, learnt>>

(* The end of openCurrent, and prepareNextImpl. *)
FinishOpen ==
    /\ pc["handler"] = "opening"
    /\ SetSpeed(setting["handler"])
    /\ next' \in Song \cup {NoSong}
    /\ Goto("handler", IF playAfter THEN "toPlay" ELSE "idle")
    /\ UNCHANGED <<tempo, target, song, track, messages, beat, reading, setting, history>>

HandlePrepareNext ==
    /\ Idle("handler") /\ track # NoSong /\ ~Locked("main")
    /\ next' \in Song \cup {NoSong}
    /\ UNCHANGED <<tempo, target, song, track, isPlaying, speed, mSpeed, messages,
                   thread, history>>

(* The position becomes nextPosition, whatever an edit has put there by     *)
(* now; at the end of the queue the player is paused.  No speed is set.     *)
HandleTrackWentToNext ==
    /\ Idle("handler") /\ wentToNext /\ wentToNext' = FALSE
    /\ \/ song' \in Song /\ next' \in Song \cup {NoSong} /\ UNCHANGED isPlaying
       \/ isPlaying' = FALSE /\ UNCHANGED <<song, next>>
    /\ UNCHANGED <<tempo, target, track, speed, mSpeed, asked, playAfter, thread, history>>

-----------------------------------------------------------------------------
(* A track ends: the next player takes over, or the queue's next song is    *)
(* asked for.                                                               *)
Complete ==
    /\ isPlaying /\ ~wentToNext
    /\ IF next # NoSong
       THEN /\ track' = next /\ next' = NoSong /\ speed' = Normal
            /\ wentToNext' = TRUE /\ unsynced' = TRUE
            /\ UNCHANGED <<isPlaying, asked>>
       ELSE /\ isPlaying' = FALSE
            /\ asked' \in {asked} \cup {<<s, TRUE>> : s \in Song}
            /\ UNCHANGED <<track, next, speed, wentToNext, unsynced>>
    /\ UNCHANGED <<tempo, target, song, mSpeed, playAfter, thread, learnt, overlap>>

(* onError makes a new current player, and the completion that follows asks *)
(* for the next song.                                                       *)
onError ==
    /\ track # NoSong /\ track' = NoSong
    /\ isPlaying' = FALSE /\ speed' = Normal
    /\ asked' \in {asked} \cup {<<s, TRUE>> : s \in Song}
    /\ unsynced' = FALSE
    /\ UNCHANGED <<tempo, target, song, next, mSpeed, playAfter, wentToNext, thread, learnt,
                   overlap>>

(* BeatDetectionService puts the tempo it found on the song in the queue;   *)
(* the speed of the song that plays is not computed again.                  *)
Learn(s, bpm) ==
    /\ tempo[s] = Unknown /\ tempo' = [tempo EXCEPT ![s] = bpm]
    /\ learnt' = (learnt \/ s \in {song, track})
    /\ UNCHANGED <<target, song, player, messages, thread, unsynced, overlap>>

-----------------------------------------------------------------------------
Listener ==
    \/ \E b \in Targets : SetTargetBeat(TRUE, b)
    \/ SetTargetBeat(FALSE, 0)
    \/ \E s \in Song, start \in BOOLEAN : Ask(s, start)
    \/ Pause

Service ==
    \/ WriteTargetBeat \/ ApplyTarget
    \/ Open \/ FinishOpen \/ HandlePrepareNext \/ HandleTrackWentToNext
    \/ \E t \in Threads : ReadTarget(t) \/ Compute(t) \/ KeepNormal(t) \/ Play(t) \/ StoreSpeed(t) \/ Start(t)

Next ==
    \/ Listener \/ Service \/ Complete \/ onError
    \/ \E s \in Song, bpm \in Tempos : Learn(s, bpm)

Spec == Init /\ [][Next]_vars

-----------------------------------------------------------------------------
Speeds == {Normal} \cup (Nat \X Tempos)
Labels == {"idle", "setTargetBeat", "target", "targetRead", "setTarget", "open", "openRead",
           "opening", "toPlay", "play", "playRead", "starting", "start"}

DataOK ==
    /\ tempo \in [Song -> Tempos \cup {Unknown}]
    /\ targetBeat \in Targets \cup {0} /\ beat \in Targets \cup {0}
    /\ song \in Song \cup {NoSong} /\ track \in Song \cup {NoSong}
    /\ next \in Song \cup {NoSong}
    /\ asked \in ((Song \cup {NoSong}) \X BOOLEAN) \cup {None}
    /\ speed \in Speeds /\ mSpeed \in Speeds
FlagsOK ==
    /\ targetBeatEnabled \in BOOLEAN /\ isPlaying \in BOOLEAN
    /\ playAfter \in BOOLEAN /\ wentToNext \in BOOLEAN
    /\ unsynced \in BOOLEAN /\ learnt \in BOOLEAN /\ overlap \in BOOLEAN
ThreadsOK == pc \in [Threads -> Labels] /\ setting \in [Threads -> Speeds]
Reads == Song \X (Targets \cup {0})
ReadsOK ==
    /\ reading \in [Threads -> Reads \cup {None}]
    /\ \A t \in Threads :
          IF pc[t] \in {"targetRead", "openRead", "playRead"}
          THEN reading[t] \in Reads /\ tempo[reading[t][1]] # Unknown
          ELSE reading[t] = None

(* Every variable has its type; a thread between its two reads of the       *)
(* target holds a song of known tempo; only an open track plays.            *)
TypeOK ==
    /\ DataOK /\ FlagsOK /\ ThreadsOK /\ ReadsOK
    /\ isPlaying => track # NoSong

Quiet == (\A t \in Threads : Idle(t)) /\ ~overlap

(* What plays is stretched to the target: whatever was pressed, opened,     *)
(* started and completed, with both threads at rest the song plays at the   *)
(* speed its tempo and the target call for.  Excepted are a target set      *)
(* while another thread computes, a song entered without a gap and a tempo  *)
(* found while the song plays (setTargetSpeedForPlayback, setSpeed, start). *)
SpeedFollowsTarget ==
    (Quiet /\ isPlaying /\ ~unsynced /\ ~learnt) => speed = SpeedFor(track)

(* A speed is a multiple of the target over the song's tempo, off by the    *)
(* rounding alone: by at most half a target.  If the target changes while a *)
(* speed is computed, the multiple may be the nearest one of another target *)
(* than it is taken of, or of a target switched off, which gives 0; no      *)
(* order of reads gives anything else.  At rest, with no such change, it is *)
(* the target that is set: then the player is asked for 0, which pauses it, *)
(* only for songs of at most half the target, and a song that plays is      *)
(* never slowed to two thirds of its tempo or sped up to more than twice,   *)
(* also not by a speed left over from another song                          *)
(* (setTargetSpeedForPlayback, setTargetBeat, setSpeed).                    *)
Rounded(v, a, b) ==
    2 * b * v[1] <= a * (2 * v[2] + b) /\ a * (2 * v[2]) <= 2 * b * v[1] + a * b
Mixed(v) == v[1] = 0 \/ \E a, b \in Targets : Rounded(v, a, b)
Nearest(v) == targetBeat # 0 /\ Rounded(v, targetBeat, targetBeat)
NearOne(v) == 3 * v[1] > 2 * v[2] /\ v[1] <= 2 * v[2]

SpeedIsNearest ==
    /\ \A v \in {speed, mSpeed} : v = Normal \/ Mixed(v)
    /\ Quiet => mSpeed = Normal \/ Nearest(mSpeed)
    /\ Quiet /\ isPlaying => (speed = Normal \/ Nearest(speed)) /\ NearOne(speed)

(* src/README.md:6 "synchronises playback to (a multiple of) a target rate  *)
(* chosen by the user": also the song that follows another without a gap.   *)
GaplessSongAtTargetRate ==
    (Quiet /\ isPlaying /\ ~learnt /\ ~wentToNext /\ song = track) => speed = SpeedFor(track)

=============================================================================
