------------------------------ MODULE Controls ------------------------------
(***************************************************************************)
(* How the player is told to play and to pause: headset clicks, counted by *)
(* MediaButtonIntentReceiver until a timeout turns them into a command;    *)
(* the listener's own commands; and changes of the audio focus, which      *)
(* PlaybackHandler handles on its own thread.  Time passes in ticks.       *)
(*                                                                         *)
(* Of the AudioManager this uses: focus is lost for good or for a while,   *)
(* in the second case it may be gained back, and a request that is granted *)
(* holds it again, with no further message.  A track is always open.       *)
(***************************************************************************)
EXTENDS Integers, Sequences, SequencesExt

CONSTANTS
    DOUBLE_CLICK,   \* 400 ms, in ticks
    MaxLag,         \* bound of the model: ticks a click waits for the main thread
    MaxKeys,        \* bound of the model: clicks waiting for the main thread
    MaxInbox        \* bound of the model: focus messages come when fewer wait

ASSUME TimeAssumption == DOUBLE_CLICK \in Nat \ {0} /\ MaxLag \in Nat
ASSUME BoundAssumption == MaxKeys \in Nat /\ MaxInbox \in Nat

VARIABLES
    keys,           \* age of each click the main thread has not seen
    sinceLast,      \* age of the last one it has seen, up to Long
    clickCounter,
    timeout,        \* the message that waits, its count and the time left, or NoTimeout
    wakeLock,
    isPlaying, pausedByTransientLossOfFocus,
    focus,          \* as the AudioManager has it
    inbox,          \* FOCUS_CHANGE and PLAY_SONG messages
    main, handler,  \* where the two threads are
    wasPlaying,     \* read by the handler
    uncounted,      \* history: clicks seen and in no command yet, while not lagged
    lagged,         \* history: a click or a timeout was kept waiting
    wanted,         \* history: the last command, or that it was denied the focus
    crossed,        \* history: a pause came while the handler was busy
    overtaken       \* history: the player started before a loss of focus was handled

clicks == <<keys, sinceLast, clickCounter, timeout, wakeLock, uncounted, lagged>>
player == <<isPlaying, pausedByTransientLossOfFocus>>
history == <<wanted, crossed, overtaken>>
vars == <<clicks, player, focus, inbox, main, handler, wasPlaying, history>>

NoTimeout == [count |-> 0, due |-> 0]
Long == DOUBLE_CLICK + MaxLag
LeastOf(i, j) == IF i < j THEN i ELSE j

Losses == {"loss", "transient"}
Holds(messages, m) == \E i \in 1 .. Len(messages) : messages[i] = m

Init ==
    /\ keys = <<>> /\ sinceLast = Long /\ clickCounter = 0
    /\ timeout = NoTimeout /\ wakeLock = FALSE
    /\ isPlaying = FALSE /\ pausedByTransientLossOfFocus = FALSE
    /\ focus = "none" /\ inbox = <<>>
    /\ main = "idle" /\ handler = "idle" /\ wasPlaying = FALSE
    /\ uncounted = 0 /\ lagged = FALSE
    /\ wanted = "pause" /\ crossed = FALSE /\ overtaken = FALSE

-----------------------------------------------------------------------------
(* MediaButtonIntentReceiver *)

isWaiting == keys # <<>> \/ (timeout # NoTimeout /\ timeout.due = 0)

Tick ==
    /\ \A i \in 1 .. Len(keys) : keys[i] < MaxLag
    /\ keys' = [i \in 1 .. Len(keys) |-> keys[i] + 1]
    /\ sinceLast' = LeastOf(sinceLast + 1, Long)
    /\ timeout' = [timeout EXCEPT !.due = IF @ = 0 THEN 0 ELSE @ - 1]
    /\ lagged' = (lagged \/ isWaiting)
    /\ uncounted' = IF lagged' THEN 0 ELSE uncounted
    /\ UNCHANGED <<clickCounter, wakeLock, player, focus, inbox, main, handler,
                   wasPlaying, history>>

Click ==
    /\ Len(keys) < MaxKeys
    /\ keys' = Append(keys, 0)
    /\ IF keys = <<>> /\ timeout = NoTimeout /\ sinceLast >= DOUBLE_CLICK
       THEN lagged' = FALSE /\ uncounted' = 0
       ELSE /\ lagged' = (lagged \/ isWaiting)
            /\ uncounted' = IF lagged' THEN 0 ELSE uncounted
    /\ UNCHANGED <<sinceLast, clickCounter, timeout, wakeLock, player, focus, inbox, main,
                   handler, wasPlaying, history>>

(* eventTime - mLastClickTime >= DOUBLE_CLICK *)
isFirstAfter(age) == sinceLast - age > DOUBLE_CLICK
isFirst(age) == sinceLast - age >= DOUBLE_CLICK

(* A click counts on from the last one, replaces its message, and acts at   *)
(* once if it is the third.                                                 *)
handleIntent ==
    /\ main = "idle" /\ keys # <<>>
    /\ LET age == Head(keys)
           count == (IF isFirst(age) THEN 0 ELSE clickCounter) + 1
       IN  /\ timeout' = [count |-> count, due |-> IF count < 3 THEN DOUBLE_CLICK ELSE 0]
           /\ clickCounter' = IF count >= 3 THEN 0 ELSE count
           /\ sinceLast' = age
    /\ keys' = Tail(keys)
    /\ wakeLock' = TRUE
    /\ uncounted' = IF lagged THEN 0 ELSE uncounted + 1
    /\ UNCHANGED <<lagged, player, focus, inbox, main, handler, wasPlaying, history>>

(* The message is handled: its command goes to the service. *)
CommandOf(count) == <<"toggle", "skip", "rewind">>[count]

handleMessageAwake ==
    /\ main = "idle" /\ timeout # NoTimeout /\ timeout.due = 0
    /\ main' = CommandOf(timeout.count)
    /\ timeout' = NoTimeout
    /\ uncounted' = IF lagged THEN 0 ELSE uncounted - timeout.count
    /\ UNCHANGED <<keys, sinceLast, clickCounter, wakeLock, lagged, player, focus, inbox,
                   handler, wasPlaying, history>>
handleMessage ==
    /\ main = "idle" /\ timeout # NoTimeout /\ timeout.due = 0
    /\ main' = CommandOf(timeout.count)
    /\ timeout' = NoTimeout
    /\ wakeLock' = FALSE
    /\ uncounted' = IF lagged THEN 0 ELSE uncounted - timeout.count
    /\ UNCHANGED <<keys, sinceLast, clickCounter, lagged, player, focus, inbox, handler,
                   wasPlaying, history>>

-----------------------------------------------------------------------------
(* MusicService, on the main thread *)

HandlerBusy == handler # "idle" \/ Holds(inbox, "playSong")

(* ACTION_PAUSE, ACTION_PLAY, ACTION_SKIP, ACTION_REWIND, the becoming-noisy *)
(* receiver                                                                  *)
Command ==
    /\ main = "idle" /\ main' \in {"pause", "play", "skip", "rewind"}
    /\ UNCHANGED <<clicks, player, focus, inbox, handler, wasPlaying, history>>

Toggle ==
    /\ main = "toggle" /\ main' = IF isPlaying THEN "pause" ELSE "play"
    /\ UNCHANGED <<clicks, player, focus, inbox, handler, wasPlaying, history>>

(* pause forgets that the player waits for the focus, then pauses.          *)
KeepTransientLoss == UNCHANGED pausedByTransientLossOfFocus
ForgetTransientLoss == pausedByTransientLossOfFocus' = FALSE

Pause ==
    /\ main = "pause" /\ main' = "pausing"
    /\ ForgetTransientLoss
    /\ wanted' = "pause" /\ crossed' = HandlerBusy
    /\ UNCHANGED <<clicks, isPlaying, focus, inbox, handler, wasPlaying, overtaken>>

FinishPause ==
    /\ main = "pausing" /\ main' = "idle"
    /\ isPlaying' = FALSE
    /\ UNCHANGED <<clicks, pausedByTransientLossOfFocus, focus, inbox, handler, wasPlaying,
                   history>>

(* ACTION_REWIND only seeks, once five seconds of the song were played.     *)
back ==
    /\ main = "rewind" /\ main' \in {"skip", "idle"}
    /\ UNCHANGED <<clicks, player, focus, inbox, handler, wasPlaying, history>>

(* The next or the previous song: PLAY_SONG is posted in the place of the   *)
(* one that waits, so that there never are two.                             *)
WithoutSong(messages) ==
    IF Holds(messages, "playSong")
    THEN RemoveAt(messages, CHOOSE i \in 1 .. Len(messages) : messages[i] = "playSong")
    ELSE messages

Skip ==
    /\ main = "skip" /\ main' = "idle"
    /\ inbox' = Append(WithoutSong(inbox), "playSong")
    /\ wanted' = "play"
    /\ UNCHANGED <<clicks, player, focus, handler, wasPlaying, crossed, overtaken>>

(* play, on either thread, is synchronized. *)
RequestFocus ==
    /\ focus' = "held"
    /\ overtaken' = (\/ \E m \in Losses : Holds(inbox, m)
                     \/ handler \in {"losing", "lost", "transient", "pausing", "paused"})

Play ==
    /\ main = "play" /\ handler # "starting"
    /\ \/ /\ RequestFocus /\ main' = "starting" /\ wanted' = "play"
       \/ main' = "idle" /\ UNCHANGED <<focus, overtaken, wanted>>
    /\ UNCHANGED <<clicks, player, inbox, handler, wasPlaying, crossed>>

Start ==
    /\ main = "starting" /\ main' = "idle"
    /\ isPlaying' = TRUE
    /\ overtaken' = (overtaken \/ handler \in {"pausing", "paused"})
    /\ UNCHANGED <<clicks, pausedByTransientLossOfFocus, focus, inbox, handler, wasPlaying,
                   wanted, crossed>>

-----------------------------------------------------------------------------
(* PlaybackHandler *)

Handling == [loss |-> "losing", transient |-> "transient", gain |-> "gain",
             playSong |-> "play"]

(* PLAY_SONG opens a track first, which resets the player. *)
Take ==
    /\ handler = "idle" /\ inbox # <<>>
    /\ Head(inbox) = "playSong" => main # "starting"
    /\ handler' = Handling[Head(inbox)] /\ inbox' = Tail(inbox)
    /\ isPlaying' = (isPlaying /\ Head(inbox) # "playSong")
    /\ crossed' = (crossed \/ main = "pausing")
    /\ UNCHANGED <<clicks, pausedByTransientLossOfFocus, focus, main, wasPlaying, wanted,
                   overtaken>>

(* AUDIOFOCUS_LOSS_TRANSIENT: isPlaying is read, the player paused, and what *)
(* was read becomes the flag.                                               *)
ReadPlaying ==
    /\ handler = "transient" /\ handler' = "pausing"
    /\ wasPlaying' = isPlaying
    /\ UNCHANGED <<clicks, player, focus, inbox, main, history>>

(* Both losses pause: the flag is cleared and the player paused.            *)
ClearFlag ==
    /\ handler \in {"losing", "pausing"}
    /\ handler' = IF handler = "losing" THEN "lost" ELSE "paused"
    /\ pausedByTransientLossOfFocus' = FALSE
    /\ UNCHANGED <<clicks, isPlaying, focus, inbox, main, wasPlaying, history>>

ResumingReadLate == isPlaying
Resuming == wasPlaying

PauseForLoss ==
    /\ handler \in {"lost", "paused"}
    /\ isPlaying' = FALSE
    /\ handler' = IF handler = "lost" THEN "idle" ELSE "setFlag"
    /\ UNCHANGED <<clicks, pausedByTransientLossOfFocus, focus, inbox, main, wasPlaying,
                   history>>

SetFlag ==
    /\ handler = "setFlag" /\ handler' = "idle"
    /\ pausedByTransientLossOfFocus' = Resuming /\ wasPlaying' = FALSE
    /\ UNCHANGED <<clicks, isPlaying, focus, inbox, main, history>>

(* AUDIOFOCUS_GAIN *)
Gain ==
    /\ handler = "gain"
    /\ handler' = IF ~isPlaying /\ pausedByTransientLossOfFocus THEN "resume" ELSE "idle"
    /\ UNCHANGED <<clicks, player, focus, inbox, main, wasPlaying, history>>

HandlerPlay ==
    /\ handler \in {"resume", "play"} /\ main # "starting"
    /\ LET after == IF handler = "resume" THEN "forget" ELSE "idle" IN
       \/ /\ RequestFocus
          /\ isPlaying' = TRUE /\ handler' = after /\ UNCHANGED wanted
       \/ /\ handler' = after /\ wanted' = IF wanted = "play" THEN "denied" ELSE wanted
          /\ UNCHANGED <<focus, overtaken, isPlaying>>
    /\ UNCHANGED <<clicks, pausedByTransientLossOfFocus, inbox, main, wasPlaying, crossed>>

Forget ==
    /\ handler = "forget" /\ handler' = "idle"
    /\ pausedByTransientLossOfFocus' = FALSE
    /\ UNCHANGED <<clicks, isPlaying, focus, inbox, main, wasPlaying, history>>

-----------------------------------------------------------------------------
(* The AudioManager *)

Changes == [held |-> Losses, transient |-> {"gain", "loss"}]

FocusChange ==
    /\ Len(inbox) < MaxInbox /\ focus \in DOMAIN Changes
    /\ \E m \in Changes[focus] :
          /\ inbox' = Append(inbox, m)
          /\ focus' = IF m = "gain" THEN "held" ELSE m
    /\ UNCHANGED <<clicks, player, main, handler, wasPlaying, history>>

-----------------------------------------------------------------------------
Main ==
    \/ handleIntent \/ handleMessage
    \/ Command \/ Toggle
    \/ Pause \/ FinishPause \/ back \/ Skip \/ Play \/ Start

Handler ==
    \/ Take \/ ReadPlaying \/ ClearFlag \/ PauseForLoss \/ SetFlag
    \/ Gain \/ HandlerPlay \/ Forget

Next == Tick \/ Click \/ Main \/ Handler \/ FocusChange

Spec == Init /\ [][Next]_vars

-----------------------------------------------------------------------------
ClicksOK ==
    /\ keys \in Seq(0 .. MaxLag) /\ sinceLast \in 0 .. Long /\ clickCounter \in 0 .. 2
    /\ timeout \in [count : 0 .. 3, due : 0 .. DOUBLE_CLICK]
    /\ timeout.count = 0 => timeout.due = 0
    /\ wakeLock \in BOOLEAN /\ (wakeLock <=> timeout.count # 0)
    /\ uncounted \in Int /\ lagged \in BOOLEAN
PlayerOK ==
    /\ isPlaying \in BOOLEAN /\ pausedByTransientLossOfFocus \in BOOLEAN
    /\ focus \in {"none", "held", "loss", "transient"}
    /\ inbox \in Seq({"loss", "transient", "gain", "playSong"})
    /\ main \in {"idle", "toggle", "pause", "pausing", "play", "starting", "skip", "rewind"}
    /\ handler \in {"idle", "losing", "lost", "transient", "pausing", "paused", "setFlag",
                    "gain", "resume", "play", "forget"}
    /\ wasPlaying \in BOOLEAN /\ wanted \in {"pause", "play", "denied"}
    /\ crossed \in BOOLEAN /\ overtaken \in BOOLEAN

(* Every variable has its type, and the wake lock is held exactly while a   *)
(* message waits.                                                           *)
TypeOK == ClicksOK /\ PlayerOK

(* Every click counts in one command: the message that waits counts the     *)
(* clicks since the last command, and none is left over when no message     *)
(* waits, as long as the main thread keeps up with clicks and timeouts.     *)
ClicksCountedOnce ==
    ~lagged =>
        IF timeout # NoTimeout THEN timeout.count = uncounted
        ELSE keys = <<>> => uncounted = 0

Quiet == main = "idle" /\ handler = "idle" /\ inbox = <<>>

(* A pause lasts: when everything is handled the player plays only if the   *)
(* last command was to play, however the focus went and came, unless the    *)
(* pause came while the handler worked on a change of it or had a song to   *)
(* play.                                                                    *)
PauseSticks == Quiet /\ isPlaying /\ ~crossed => wanted # "pause"

(* A transient loss passes: when everything is handled and the focus is     *)
(* held, what was to play plays, unless the focus was requested again, or   *)
(* the player started, with a loss of it still to be handled.               *)
PlaybackResumes == Quiet /\ wanted = "play" /\ focus = "held" /\ ~overtaken => isPlaying

=============================================================================
