----------------------------- MODULE QueueStore -----------------------------
(***************************************************************************)
(* Saving and restoring the playing queue.  Every edit asks the save       *)
(* thread to rewrite two SQLite tables; the position is written to the     *)
(* preferences by whichever thread changed it; a new process reads all     *)
(* three.  The process may die between any two transactions.               *)
(*                                                                         *)
(* The operations of PlayingQueue appear by what they do to the two        *)
(* lists: replace them, extend, shorten, reorder or clear them in place.   *)
(***************************************************************************)
EXTENDS SongLists

CONSTANTS
    SongId,     \* songs, as the tables know them
    Selections, \* the song lists a user can open
    MaxLen,     \* bound on the length of the queue
    MaxWaiting, \* bound on the positions waiting when the listener edits
    NumProcess  \* songs inserted in one transaction

ASSUME StoreAssumption ==
    /\ Selections \subseteq Seq(SongId) \ {<<>>}
    /\ {MaxLen, MaxWaiting} \subseteq Nat /\ NumProcess \in Nat \ {0}

VARIABLES
    playingQueue, originalPlayingQueue, position,
    waiting,        \* PLAY_SONG and SET_POSITION messages, oldest first
    restore,        \* the handler's RESTORE_QUEUES: waiting, reading, done
    readQueue,      \* what restore has read from the first table
    saveWaiting,    \* whether SAVE_QUEUES waits for the save thread
    saving,         \* the table the save thread is writing, and how far it is
    held,           \* the lists it writes, once openQueue has replaced them
    savedQueue, savedOriginalQueue, savedPosition,
    edited,         \* history: this process has edited the queue
    overtaken       \* history: a restore overlapped an edit, or followed a clear

queue == <<playingQueue, originalPlayingQueue, position>>
saver == <<saveWaiting, saving, held>>
tables == <<savedQueue, savedOriginalQueue>>
restoring == <<restore, readQueue>>
saveVars == <<queue, waiting, restoring, saver, tables, savedPosition, edited, overtaken>>

Live == <<>>
NotSaving == [table |-> "none", at |-> 0]
NoPosition == -1

SaveInit ==
    /\ playingQueue = <<>> /\ originalPlayingQueue = <<>> /\ position = NoPosition
    /\ waiting = <<>> /\ restore = "waiting" /\ readQueue = <<>>
    /\ saveWaiting = FALSE /\ saving = NotSaving /\ held = Live
    /\ savedQueue = <<>> /\ savedOriginalQueue = <<>> /\ savedPosition = NoPosition
    /\ edited = FALSE /\ overtaken = FALSE

-----------------------------------------------------------------------------
(* Main thread: the edits of PlayingQueue *)

(* removeMessages, then sendMessage. *)
Post(what, arg) ==
    waiting' = Append(Keep(waiting, { i \in DOMAIN waiting : waiting[i].what # what }),
                      [what |-> what, arg |-> arg])

(* QUEUE_CHANGED: saveState, with the position as it is now. *)
saveUnlessSaving ==
    /\ Len(waiting) <= MaxWaiting
    /\ saveWaiting' = (saving.table = "none")
    /\ savedPosition' = position'
    /\ edited' = TRUE
    /\ overtaken' = (overtaken \/ restore = "reading")
    /\ UNCHANGED <<restoring, saving, tables>>
saveState ==
    /\ Len(waiting) <= MaxWaiting
    /\ saveWaiting' = TRUE
    /\ savedPosition' = position'
    /\ edited' = TRUE
    /\ overtaken' = (overtaken \/ restore = "reading")
    /\ UNCHANGED <<restoring, saving, tables>>

Source == IF held = Live THEN <<playingQueue, originalPlayingQueue>> ELSE held

(* The lists are copied: a save under way goes on with the old ones.        *)
OpenQueue(songs, list, start, what) ==
    /\ playingQueue' = list /\ originalPlayingQueue' = songs
    /\ held' = IF saving.table = "none" THEN Live ELSE Source
    /\ Post(what, start)
    /\ UNCHANGED position
    /\ saveState

Enqueue(songs) ==
    /\ playingQueue # <<>> /\ Len(playingQueue) + Len(songs) <= MaxLen
    /\ playingQueue' = playingQueue \o songs
    /\ originalPlayingQueue' = originalPlayingQueue \o songs
    /\ UNCHANGED <<position, waiting, held>>
    /\ saveState

RemoveAtPosition(p) ==
    /\ p \in Positions(playingQueue)
    /\ playingQueue' = Delete(playingQueue, p)
    /\ originalPlayingQueue' = DeleteFirst(originalPlayingQueue, playingQueue[p + 1])
    /\ position' = IF p < position THEN position - 1 ELSE position
    /\ IF p = position
       THEN Post("SET_POSITION", IF Len(playingQueue') > p THEN p ELSE p - 1)
       ELSE UNCHANGED waiting
    /\ UNCHANGED held
    /\ saveState

(* setShuffleMode(SHUFFLE_MODE_SHUFFLE) *)
Shuffle ==
    /\ position < Len(playingQueue)
    /\ playingQueue' \in Shuffles(playingQueue, position)
    /\ position' = 0
    /\ UNCHANGED <<originalPlayingQueue, waiting, held>>
    /\ saveState

ClearQueue ==
    /\ playingQueue' = <<>> /\ originalPlayingQueue' = <<>>
    /\ Post("SET_POSITION", NoPosition)
    /\ UNCHANGED <<position, held>>
    /\ saveState

-----------------------------------------------------------------------------
(* Handler thread: positions and restore *)

(* META_CHANGED saves the position that was installed. *)
HandlePositionUnsaved ==
    /\ restore = "done" /\ waiting # <<>>
    /\ position' = Head(waiting).arg /\ waiting' = Tail(waiting)
    /\ UNCHANGED <<playingQueue, originalPlayingQueue, restoring, saver, tables, savedPosition,
                   edited, overtaken>>
HandlePosition ==
    /\ restore = "done" /\ waiting # <<>>
    /\ position' = Head(waiting).arg /\ waiting' = Tail(waiting)
    /\ savedPosition' = position'
    /\ UNCHANGED <<playingQueue, originalPlayingQueue, restoring, saver, tables, edited, overtaken>>

HandleTrackWentToNext ==
    /\ restore = "done"
    /\ position + 1 \in Positions(playingQueue)
    /\ position' = position + 1
    /\ savedPosition' = position'
    /\ UNCHANGED <<playingQueue, originalPlayingQueue, waiting, restoring, saver, tables,
                   edited, overtaken>>

(* restoreQueuesAndPositionIfNecessary installs what was saved if both      *)
(* tables are as long and a position is known.                              *)
Restore(list, original) ==
    /\ restore' = "done" /\ readQueue' = <<>>
    /\ IF list # <<>> /\ Len(list) = Len(original) /\ savedPosition # NoPosition
       THEN /\ playingQueue' = list /\ originalPlayingQueue' = original
            /\ position' = savedPosition
            /\ held' = IF saving.table = "none" THEN Live ELSE Source
       ELSE UNCHANGED <<queue, held>>
    /\ UNCHANGED <<waiting, saveWaiting, saving, tables, savedPosition, edited>>

(* A restore does not know a queue that was cleared from one that never was. *)
Cleared == edited /\ playingQueue = <<>>

BeginRestore ==
    /\ restore = "waiting"
    /\ restore' = IF playingQueue = <<>> THEN "reading" ELSE "done"
    /\ readQueue' = IF playingQueue = <<>> THEN savedQueue ELSE <<>>
    /\ overtaken' = (overtaken \/ Cleared)
    /\ UNCHANGED <<queue, waiting, saver, tables, savedPosition, edited>>

FinishRestore ==
    /\ restore = "reading"
    /\ Restore(readQueue, savedOriginalQueue)
    /\ UNCHANGED overtaken

(* onStartCommand restores on the main thread, if it comes first. *)
RestoreAtStart ==
    /\ restore = "waiting" /\ playingQueue = <<>>
    /\ Restore(savedQueue, savedOriginalQueue)
    /\ overtaken' = (overtaken \/ Cleared)

-----------------------------------------------------------------------------
(* Save thread: each step commits one transaction. *)

SaverStep == UNCHANGED <<queue, waiting, restoring, savedPosition, edited, overtaken>>

deletePlayingQueue ==
    /\ saveWaiting /\ saving.table = "none"
    /\ saveWaiting' = FALSE
    /\ saving' = [table |-> "playing", at |-> 0] /\ savedQueue' = <<>>
    /\ UNCHANGED <<savedOriginalQueue, held>> /\ SaverStep

(* The songs of one transaction, from position at. *)
someSongs(list, at) ==
    SubSeq(list, at + 1, IF at + NumProcess < Len(list) THEN at + NumProcess ELSE Len(list))

insertPlayingQueue ==
    /\ saving.table = "playing" /\ saving.at < Len(Source[1])
    /\ savedQueue' = savedQueue \o someSongs(Source[1], saving.at)
    /\ saving' = [saving EXCEPT !.at = saving.at + NumProcess]
    /\ UNCHANGED <<savedOriginalQueue, saveWaiting, held>> /\ SaverStep

deleteOriginalPlayingQueue ==
    /\ saving.table = "playing" /\ saving.at >= Len(Source[1])
    /\ saving' = [table |-> "original", at |-> 0] /\ savedOriginalQueue' = <<>>
    /\ UNCHANGED <<savedQueue, saveWaiting, held>> /\ SaverStep

insertOriginalPlayingQueue ==
    /\ saving.table = "original" /\ saving.at < Len(Source[2])
    /\ savedOriginalQueue' = savedOriginalQueue \o someSongs(Source[2], saving.at)
    /\ saving' = [saving EXCEPT !.at = saving.at + NumProcess]
    /\ UNCHANGED <<savedQueue, saveWaiting, held>> /\ SaverStep

saveQueuesReturnsHolding ==
    /\ saving.table = "original" /\ saving.at >= Len(Source[2])
    /\ saving' = NotSaving
    /\ UNCHANGED <<tables, saveWaiting, held>> /\ SaverStep
saveQueuesReturns ==
    /\ saving.table = "original" /\ saving.at >= Len(Source[2])
    /\ saving' = NotSaving /\ held' = Live
    /\ UNCHANGED <<tables, saveWaiting>> /\ SaverStep

-----------------------------------------------------------------------------
(* The process is killed; the service starts again with what was stored. *)
Die ==
    /\ playingQueue' = <<>> /\ originalPlayingQueue' = <<>> /\ position' = NoPosition
    /\ waiting' = <<>> /\ restore' = "waiting" /\ readQueue' = <<>>
    /\ saveWaiting' = FALSE /\ saving' = NotSaving /\ held' = Live
    /\ edited' = FALSE /\ overtaken' = FALSE
    /\ UNCHANGED <<tables, savedPosition>>

Listener ==
    \/ \E songs \in Selections, start \in 0 .. MaxLen, what \in {"PLAY_SONG", "SET_POSITION"} :
            /\ start \in Positions(songs)
            /\ \/ OpenQueue(songs, songs, start, what)
               \/ \E list \in Shuffles(songs, start) : OpenQueue(songs, list, 0, what)
    \/ \E songs \in Selections : Enqueue(songs)
    \/ \E p \in 0 .. MaxLen : RemoveAtPosition(p)
    \/ Shuffle \/ ClearQueue \/ RestoreAtStart

Handler == HandlePosition \/ HandleTrackWentToNext \/ BeginRestore \/ FinishRestore

Saver ==
    \/ deletePlayingQueue \/ insertPlayingQueue
    \/ deleteOriginalPlayingQueue \/ insertOriginalPlayingQueue
    \/ saveQueuesReturns

SaveNext == Listener \/ Handler \/ Saver \/ Die

SaveSpec == SaveInit /\ [][SaveNext]_saveVars

(* Each thread's looper runs the messages it has. *)
SaveFairSpec == /\ SaveSpec
                /\ WF_saveVars(Saver)
                /\ WF_saveVars(HandlePosition \/ BeginRestore \/ FinishRestore)

-----------------------------------------------------------------------------
(* Every variable has its type.  The save thread holds replaced lists only  *)
(* while it saves, and has written no more songs than it has read.          *)
SaveTypeOK ==
    /\ playingQueue \in Seq(SongId) /\ originalPlayingQueue \in Seq(SongId)
    /\ position \in Nat \cup {NoPosition} /\ savedPosition \in Nat \cup {NoPosition}
    /\ waiting \in Seq([what : {"PLAY_SONG", "SET_POSITION"}, arg : Nat \cup {NoPosition}])
    /\ restore \in {"waiting", "reading", "done"} /\ readQueue \in Seq(SongId)
    /\ saveWaiting \in BOOLEAN
    /\ saving \in [table : {"none", "playing", "original"}, at : Nat]
    /\ held \in {Live} \cup (Seq(SongId) \X Seq(SongId))
    /\ savedQueue \in Seq(SongId) /\ savedOriginalQueue \in Seq(SongId)
    /\ edited \in BOOLEAN /\ overtaken \in BOOLEAN
    /\ saving.table = "none" => held = Live /\ saving = NotSaving
    /\ saving.table = "playing" => Len(savedQueue) <= saving.at
    /\ saving.table = "original" => Len(savedOriginalQueue) <= saving.at

Saved == savedQueue = playingQueue /\ savedOriginalQueue = originalPlayingQueue
Quiet == ~saveWaiting /\ saving.table = "none" /\ waiting = <<>> /\ restore = "done"

(* Once nothing is left to do, what is stored is the queue and the position *)
(* of the running process, although the save thread read the lists while    *)
(* they were edited: a process killed now comes back as it was.  The        *)
(* exception is a queue opened while the handler was reading the old one.   *)
QuietStoreIsCurrent ==
    Quiet /\ edited /\ ~overtaken => Saved /\ savedPosition = position

(* A listener who stops editing has the queue and the position stored in the end. *)
EditsAreSaved ==
    <>[][~(Listener \/ Die)]_saveVars
        => <>[](edited /\ ~overtaken => Saved /\ savedPosition = position)

=============================================================================
