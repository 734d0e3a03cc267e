--------------------------- MODULE Controls_proofs ---------------------------
(***************************************************************************)
(* Proofs about Controls, for any timeout and bounds: type correctness and *)
(* the wake lock, that clicks are counted once, that a pause lasts, and    *)
(* that playback resumes after a transient loss of the audio focus.        *)
(***************************************************************************)
EXTENDS Controls, SequenceTheorems, TLAPS

-----------------------------------------------------------------------------
(* Type correctness.                                                        *)

(* What the operations on the two queues return, for any kind of entries.   *)
LEMMA QueueOperations ==
    ASSUME NEW T, NEW s \in Seq(T), NEW e \in T
    PROVE  /\ <<>> \in Seq(T) /\ Len(s) \in Nat
           /\ Append(s, e) \in Seq(T)
           /\ \A i \in 1 .. Len(s) : s[i] \in T
           /\ s # <<>> => /\ Tail(s) \in Seq(T) /\ Head(s) \in T
                          /\ Len(s) >= 1 /\ Head(s) = s[1]
                          /\ Len(Tail(s)) = Len(s) - 1
  OBVIOUS

LEMMA EmptyOrLonger ==
    ASSUME NEW T, NEW s \in Seq(T)
    PROVE  Len(s) = 0 <=> s = <<>>
  OBVIOUS

LEMMA NoTimeoutHasNoCount ==
    ASSUME ClicksOK
    PROVE  timeout = NoTimeout <=> timeout.count = 0
<1>1. timeout = [count |-> timeout.count, due |-> timeout.due]
  BY DEF ClicksOK
<1> QED BY <1>1 DEF ClicksOK, NoTimeout

LEMMA NewKeys ==
    ASSUME ClicksOK
    PROVE  /\ Append(keys, 0) \in Seq(0 .. MaxLag)
           /\ keys # <<>> => Tail(keys) \in Seq(0 .. MaxLag) /\ Head(keys) \in 0 .. MaxLag
<1>1. 0 \in 0 .. MaxLag /\ keys \in Seq(0 .. MaxLag)
  BY TimeAssumption DEF ClicksOK
<1> QED BY <1>1, QueueOperations

LEMMA ClicksInit == Init => ClicksOK
<1> SUFFICES ASSUME Init PROVE ClicksOK
  OBVIOUS
<1>1. keys \in Seq(0 .. MaxLag)
  <2> DEFINE T == 0 .. MaxLag
  <2>1. <<>> \in Seq(T)
    OBVIOUS
  <2> QED BY <2>1 DEF Init
<1>2. sinceLast \in 0 .. Long
  BY TimeAssumption DEF Init, Long
<1>3. /\ timeout \in [count : 0 .. 3, due : 0 .. DOUBLE_CLICK]
      /\ timeout.count = 0 /\ timeout.due = 0
  <2>1. 0 \in 0 .. 3 /\ 0 \in 0 .. DOUBLE_CLICK
    BY TimeAssumption
  <2> QED BY <2>1 DEF Init, NoTimeout
<1>4. clickCounter \in 0 .. 2 /\ uncounted \in Int
  BY DEF Init
<1>5. lagged \in BOOLEAN /\ wakeLock \in BOOLEAN
  BY DEF Init
<1>6. wakeLock <=> timeout.count # 0
  BY <1>3 DEF Init
<1> QED BY <1>1, <1>2, <1>3, <1>4, <1>5, <1>6 DEF ClicksOK

LEMMA ClicksTick ==
    ASSUME ClicksOK, Tick
    PROVE  ClicksOK'
<1>1. keys' \in Seq(0 .. MaxLag)
  <2>1. Len(keys) \in Nat /\ \A i \in 1 .. Len(keys) : keys[i] \in 0 .. MaxLag /\ keys[i] < MaxLag
    <3>1. keys \in Seq(0 .. MaxLag) /\ 0 \in 0 .. MaxLag
      BY TimeAssumption DEF ClicksOK
    <3>2. \A i \in 1 .. Len(keys) : keys[i] < MaxLag
      BY DEF Tick
    <3> QED BY <3>1, <3>2, QueueOperations
  <2>2. \A i \in 1 .. Len(keys) : keys[i] + 1 \in 0 .. MaxLag
    BY <2>1, TimeAssumption
  <2>3. [i \in 1 .. Len(keys) |-> keys[i] + 1] \in Seq(0 .. MaxLag)
    BY <2>1, <2>2
  <2> QED BY <2>3 DEF Tick
<1>2. sinceLast' \in 0 .. Long
  BY TimeAssumption DEF ClicksOK, Tick, LeastOf, Long
<1>3. /\ timeout' \in [count : 0 .. 3, due : 0 .. DOUBLE_CLICK]
      /\ timeout'.count = timeout.count /\ (timeout'.count = 0 => timeout'.due = 0)
  <2>1. /\ timeout \in [count : 0 .. 3, due : 0 .. DOUBLE_CLICK]
        /\ timeout.count = 0 => timeout.due = 0
    BY DEF ClicksOK
  <2> DEFINE due == IF timeout.due = 0 THEN 0 ELSE timeout.due - 1
  <2>2. due \in 0 .. DOUBLE_CLICK /\ (timeout.due = 0 => due = 0)
    BY <2>1, TimeAssumption
  <2>3. timeout' = [timeout EXCEPT !.due = due]
    BY DEF Tick
  <2> HIDE DEF due
  <2>4. timeout'.count = timeout.count /\ timeout'.due = due
    BY <2>1, <2>3
  <2> QED BY <2>1, <2>2, <2>3, <2>4
<1>4. uncounted' \in Int /\ lagged' \in BOOLEAN
  BY DEF ClicksOK, Tick
<1> QED BY <1>1, <1>2, <1>3, <1>4 DEF ClicksOK, Tick

LEMMA ClicksClick ==
    ASSUME ClicksOK, Click
    PROVE  ClicksOK'
<1>1. keys' \in Seq(0 .. MaxLag)
  BY NewKeys DEF Click
<1>2. uncounted' \in Int /\ lagged' \in BOOLEAN
  <2>1. lagged \in BOOLEAN /\ uncounted \in Int
    BY DEF ClicksOK
  <2>2. lagged' \in BOOLEAN
    BY <2>1 DEF Click
  <2>3. uncounted' \in {0, uncounted}
    BY DEF Click
  <2> QED BY <2>1, <2>2, <2>3
<1> QED BY <1>1, <1>2 DEF ClicksOK, Click

(* What handleIntent computes. *)
Count(age) == (IF isFirst(age) THEN 0 ELSE clickCounter) + 1

LEMMA ClicksHandleIntent ==
    ASSUME ClicksOK, handleIntent
    PROVE  ClicksOK'
<1> DEFINE age == Head(keys)
           count == Count(age)
<1>1. keys' \in Seq(0 .. MaxLag) /\ age \in 0 .. MaxLag
  BY NewKeys DEF handleIntent
<1>2. count \in 1 .. 3
  BY DEF ClicksOK, Count
<1>3. /\ timeout' = [count |-> count, due |-> IF count < 3 THEN DOUBLE_CLICK ELSE 0]
      /\ clickCounter' = (IF count >= 3 THEN 0 ELSE count) /\ sinceLast' = age
      /\ wakeLock' = TRUE /\ lagged' = lagged
      /\ uncounted' = IF lagged THEN 0 ELSE uncounted + 1
  BY DEF handleIntent, Count
<1> HIDE DEF age, count
<1>4. sinceLast' \in 0 .. Long
  BY <1>1, <1>3, TimeAssumption DEF Long
<1>5. /\ timeout' \in [count : 0 .. 3, due : 0 .. DOUBLE_CLICK]
      /\ timeout'.count # 0 /\ clickCounter' \in 0 .. 2
  BY <1>2, <1>3, TimeAssumption
<1>6. uncounted' \in Int
  BY <1>3 DEF ClicksOK
<1> QED BY <1>1, <1>3, <1>4, <1>5, <1>6 DEF ClicksOK

LEMMA ClicksHandleMessage ==
    ASSUME ClicksOK, handleMessage
    PROVE  ClicksOK'
<1>1. timeout'.count = 0 /\ timeout'.due = 0
  BY DEF handleMessage, NoTimeout
<1>2. timeout' \in [count : 0 .. 3, due : 0 .. DOUBLE_CLICK]
  BY TimeAssumption DEF handleMessage, NoTimeout
<1>3. uncounted' \in Int
  BY DEF ClicksOK, handleMessage
<1> QED BY <1>1, <1>2, <1>3 DEF ClicksOK, handleMessage

(* Everything but the receiver leaves the clicks alone. *)
PlayerStep ==
    \/ Command \/ Toggle \/ Pause \/ FinishPause \/ back \/ Skip \/ Play \/ Start
    \/ Handler \/ FocusChange

LEMMA SameClicks == PlayerStep => UNCHANGED clicks
  BY DEF PlayerStep, Handler, Command, Toggle, Pause, FinishPause, back, Skip, Play, Start, Take,
     ReadPlaying, ClearFlag, PauseForLoss, SetFlag, Gain, HandlerPlay, Forget, FocusChange

LEMMA NewMessages ==
    ASSUME PlayerOK
    PROVE  /\ \A m \in {"loss", "transient", "gain", "playSong"} :
                 Append(inbox, m) \in Seq({"loss", "transient", "gain", "playSong"})
           /\ inbox # <<>> =>
                 /\ Tail(inbox) \in Seq({"loss", "transient", "gain", "playSong"})
                 /\ Head(inbox) \in {"loss", "transient", "gain", "playSong"}
  BY DEF PlayerOK

LEMMA PlayerInit == Init => PlayerOK
<1>1. <<>> \in Seq({"loss", "transient", "gain", "playSong"})
  OBVIOUS
<1> QED BY <1>1 DEF Init, PlayerOK

(* The receiver gives an idle main thread a command. *)
LEMMA ReceiverCommands ==
    ASSUME ClicksOK, Tick \/ Click \/ handleIntent \/ handleMessage
    PROVE  main' = main \/ (main = "idle" /\ main' \in {"toggle", "skip", "rewind"})
<1>1. CASE Tick \/ Click \/ handleIntent
  BY <1>1 DEF Tick, Click, handleIntent
<1>2. CASE handleMessage
  <2>1. timeout.count \in 1 .. 3
    BY <1>2 DEF ClicksOK, handleMessage, NoTimeout
  <2>2. CommandOf(timeout.count) \in {"toggle", "skip", "rewind"}
    BY <2>1 DEF CommandOf
  <2> QED BY <1>2, <2>2 DEF handleMessage
<1> QED BY <1>1, <1>2

LEMMA PlayerReceiver ==
    ASSUME ClicksOK, PlayerOK, Tick \/ Click \/ handleIntent \/ handleMessage
    PROVE  PlayerOK'
<1>1. UNCHANGED <<player, focus, inbox, handler, wasPlaying, history>>
  BY DEF Tick, Click, handleIntent, handleMessage
<1>2. main' \in {main, "toggle", "skip", "rewind"}
  BY ReceiverCommands
<1> QED BY <1>1, <1>2 DEF PlayerOK, player, history

LEMMA PlayerMain ==
    ASSUME PlayerOK, Command \/ Toggle \/ Pause \/ FinishPause \/ back \/ Play \/ Start
    PROVE  PlayerOK'
<1>1. CASE Command
  BY <1>1 DEF PlayerOK, Command, player, history
<1>2. CASE Toggle
  BY <1>2 DEF PlayerOK, Toggle, player, history
<1>3. CASE Pause
  BY <1>3 DEF PlayerOK, Pause, ForgetTransientLoss, HandlerBusy, Holds
<1>4. CASE FinishPause
  BY <1>4 DEF PlayerOK, FinishPause, history
<1>5. CASE Play
  BY <1>5 DEF PlayerOK, Play, player, RequestFocus
<1>6. CASE Start
  BY <1>6 DEF PlayerOK, Start
<1>7. CASE back
  BY <1>7 DEF PlayerOK, back, player, history
<1> QED BY <1>1, <1>2, <1>3, <1>4, <1>5, <1>6, <1>7

Messages == {"loss", "transient", "gain", "playSong"}

(* What is left when the song that waits is taken out, at place d, or n + 1  *)
(* when none waits.                                                         *)
Removed(q, kept, n, d, c) ==
    /\ d \in 1 .. n + 1 /\ c = (IF d = n + 1 THEN n ELSE n - 1)
    /\ d # n + 1 => q[d] = "playSong"
    /\ Len(kept) = c
    /\ \A k \in 1 .. c : kept[k] = q[IF k < d THEN k ELSE k + 1]

LEMMA RemovedEntries ==
    ASSUME NEW q \in Seq(Messages)
    PROVE  /\ WithoutSong(q) \in Seq(Messages)
           /\ \E n \in Nat, d \in Nat, c \in Nat, kept \in Seq(Messages) :
                /\ n = Len(q) /\ kept = WithoutSong(q)
                /\ Removed(q, kept, n, d, c)
<1>1. PICK n \in Nat : n = Len(q)
  OBVIOUS
<1>2. CASE Holds(q, "playSong")
  <2>1. PICK d \in 1 .. n : /\ d = (CHOOSE i \in 1 .. Len(q) : q[i] = "playSong")
                            /\ q[d] = "playSong"
    BY <1>1, <1>2 DEF Holds
  <2>2. PICK before, after : before = SubSeq(q, 1, d - 1) /\ after = SubSeq(q, d + 1, n)
    OBVIOUS
  <2>3. /\ before \in Seq(Messages) /\ Len(before) = d - 1
        /\ \A k \in 1 .. d - 1 : before[k] = q[k]
    BY <1>1, <2>1, <2>2, SubSeqProperties
  <2>4. /\ after \in Seq(Messages) /\ Len(after) = n - d
        /\ \A k \in 1 .. n - d : after[k] = q[k + d]
    <3>1. d + 1 \in Int /\ n \in Int /\ \A i \in d + 1 .. n : q[i] \in Messages
      BY <1>1, <2>1
    <3>2. /\ after \in Seq(Messages)
          /\ Len(after) = IF d + 1 <= n THEN n - (d + 1) + 1 ELSE 0
          /\ \A i \in 1 .. n - (d + 1) + 1 : after[i] = q[(d + 1) + i - 1]
      BY <2>2, <3>1, SubSeqProperties
    <3>3. Len(after) = n - d
      BY <1>1, <2>1, <3>1, <3>2
    <3>4. ASSUME NEW k \in 1 .. n - d PROVE after[k] = q[k + d]
      <4>1. k \in 1 .. n - (d + 1) + 1 /\ (d + 1) + k - 1 = k + d
        BY <2>1
      <4> QED BY <3>2, <4>1
    <3> QED BY <3>2, <3>3, <3>4
  <2>5. PICK kept : kept = before \o after
    OBVIOUS
  <2>6. WithoutSong(q) = kept
    BY <1>1, <1>2, <2>1, <2>2, <2>5 DEF WithoutSong, RemoveAt
  <2>7. /\ kept \in Seq(Messages) /\ Len(kept) = n - 1
        /\ \A k \in 1 .. n - 1 : kept[k] = IF k <= d - 1 THEN before[k] ELSE after[k - (d - 1)]
    <3>1. /\ kept \in Seq(Messages)
          /\ Len(kept) = Len(before) + Len(after)
          /\ \A i \in 1 .. Len(before) + Len(after) :
                kept[i] = IF i <= Len(before) THEN before[i] ELSE after[i - Len(before)]
      BY <2>3, <2>4, <2>5, ConcatProperties
    <3>2. Len(before) + Len(after) = n - 1
      BY <2>1, <2>3, <2>4
    <3> QED BY <2>3, <3>1, <3>2
  <2>8. ASSUME NEW k \in 1 .. n - 1 PROVE kept[k] = q[IF k < d THEN k ELSE k + 1]
    <3>1. CASE k < d
      BY <1>1, <2>1, <2>3, <2>7, <3>1
    <3>2. CASE ~(k < d)
      <4>1. k - (d - 1) \in 1 .. n - d /\ (k - (d - 1)) + d = k + 1
        BY <1>1, <2>1, <3>2
      <4>2. after[k - (d - 1)] = q[k + 1]
        BY <2>4, <4>1
      <4> QED BY <1>1, <2>1, <2>7, <3>2, <4>2
    <3> QED BY <3>1, <3>2
  <2>9. Removed(q, kept, n, d, n - 1) /\ n - 1 \in Nat /\ d \in Nat
    BY <1>1, <2>1, <2>7, <2>8 DEF Removed
  <2> QED BY <1>1, <2>6, <2>7, <2>9
<1>3. CASE ~Holds(q, "playSong")
  <2>1. Removed(q, q, n, n + 1, n)
    BY <1>1 DEF Removed
  <2>2. WithoutSong(q) = q /\ n + 1 \in Nat
    BY <1>3 DEF WithoutSong
  <2> QED BY <1>1, <2>1, <2>2
<1> QED BY <1>2, <1>3

LEMMA PlayerSkip ==
    ASSUME PlayerOK, Skip
    PROVE  PlayerOK'
<1>1. inbox \in Seq(Messages) /\ "playSong" \in Messages
  BY DEF PlayerOK, Messages
<1>2. WithoutSong(inbox) \in Seq(Messages)
  BY <1>1, RemovedEntries
<1>3. inbox' \in Seq(Messages)
  BY <1>1, <1>2 DEF Skip
<1> QED BY <1>3 DEF Messages, PlayerOK, Skip, player

LEMMA PlayerHandler ==
    ASSUME PlayerOK, Handler
    PROVE  PlayerOK'
<1>1. CASE Take
  BY <1>1, NewMessages DEF PlayerOK, Take, Handling
<1>2. CASE ReadPlaying
  BY <1>2 DEF PlayerOK, ReadPlaying, player, history
<1>3. CASE ClearFlag
  BY <1>3 DEF PlayerOK, ClearFlag, history
<1>4. CASE PauseForLoss
  BY <1>4 DEF PlayerOK, PauseForLoss, history
<1>5. CASE SetFlag
  BY <1>5 DEF PlayerOK, SetFlag, history, Resuming
<1>6. CASE Gain
  BY <1>6 DEF PlayerOK, Gain, player, history
<1>7. CASE HandlerPlay
  BY <1>7 DEF PlayerOK, HandlerPlay, RequestFocus
<1>8. CASE Forget
  BY <1>8 DEF PlayerOK, Forget, history
<1> QED BY <1>1, <1>2, <1>3, <1>4, <1>5, <1>6, <1>7, <1>8 DEF Handler

LEMMA PlayerFocusChange ==
    ASSUME PlayerOK, FocusChange
    PROVE  PlayerOK'
<1>1. PICK m \in Changes[focus] :
        /\ inbox' = Append(inbox, m) /\ focus' = (IF m = "gain" THEN "held" ELSE m)
  BY DEF FocusChange
<1>2. m \in {"loss", "transient", "gain"}
  BY DEF FocusChange, Changes, Losses
<1>3. inbox' \in Seq({"loss", "transient", "gain", "playSong"})
  BY <1>1, <1>2, NewMessages
<1> QED BY <1>1, <1>2, <1>3 DEF PlayerOK, FocusChange, player, history

LEMMA StepCases ==
    Next => \/ Tick \/ Click \/ handleIntent \/ handleMessage
            \/ PlayerStep
  BY DEF Next, Main, PlayerStep

LEMMA TypeStep == TypeOK /\ [Next]_vars => TypeOK'
<1> SUFFICES ASSUME TypeOK, [Next]_vars PROVE TypeOK'
  OBVIOUS
<1>1. CASE UNCHANGED vars
  BY <1>1 DEF TypeOK, ClicksOK, PlayerOK, vars, clicks, player, history
<1>2. CASE Tick \/ Click \/ handleIntent \/ handleMessage
  BY <1>2, ClicksTick, ClicksClick, ClicksHandleIntent, ClicksHandleMessage, PlayerReceiver
     DEF TypeOK
<1>3. CASE PlayerStep
  <2>1. ClicksOK'
    BY <1>3, SameClicks DEF TypeOK, ClicksOK, clicks
  <2>2. PlayerOK'
    BY <1>3, PlayerMain, PlayerSkip, PlayerHandler, PlayerFocusChange DEF TypeOK, PlayerStep
  <2> QED BY <2>1, <2>2 DEF TypeOK
<1> QED BY <1>1, <1>2, <1>3, StepCases

(* Every variable keeps its type, and the receiver holds the wake lock      *)
(* exactly while its message waits.                                         *)
THEOREM TypeCorrect == Spec => []TypeOK
<1>1. Init => TypeOK
  BY ClicksInit, PlayerInit DEF TypeOK
<1> QED BY <1>1, TypeStep, PTL DEF Spec

-----------------------------------------------------------------------------
(* Clicks.                                                                  *)

(* While the main thread keeps up, a click is seen before time passes.  The *)
(* message that waits has the clicks since the last command, which are      *)
(* those the counter has; when none waits the next click is a first one.    *)
Counting ==
    ~lagged =>
        /\ Len(keys) <= 1 /\ \A i \in 1 .. Len(keys) : keys[i] = 0
        /\ timeout.count = uncounted
        /\ IF timeout.count = 0
           THEN sinceLast >= DOUBLE_CLICK \/ clickCounter = 0
           ELSE /\ timeout.due = 0 => keys = <<>>
                /\ timeout.due > 0 => sinceLast + timeout.due = DOUBLE_CLICK
                /\ IF timeout.count = 3 THEN timeout.due = 0 /\ clickCounter = 0
                   ELSE /\ clickCounter = timeout.count
                        /\ sinceLast + timeout.due >= DOUBLE_CLICK

CountInv == TypeOK /\ Counting

LEMMA CountingTick ==
    ASSUME CountInv, Tick
    PROVE  Counting'
<1> SUFFICES ASSUME ~lagged' PROVE Counting'
  BY DEF Counting
<1>1. ~lagged /\ keys = <<>> /\ (timeout.count = 0 \/ timeout.due > 0)
  <2>1. ~lagged /\ keys = <<>> /\ ~(timeout # NoTimeout /\ timeout.due = 0)
    BY DEF Tick, isWaiting
  <2>2. timeout.due \in Nat
    BY DEF CountInv, TypeOK, ClicksOK
  <2> QED BY <2>1, <2>2, NoTimeoutHasNoCount DEF CountInv, TypeOK
<1>2. keys' = <<>>
  BY <1>1 DEF Tick
<1>3. uncounted' = uncounted /\ clickCounter' = clickCounter
  BY DEF Tick
<1>4. /\ timeout'.count = timeout.count
      /\ timeout'.due = IF timeout.due = 0 THEN 0 ELSE timeout.due - 1
  BY DEF CountInv, TypeOK, ClicksOK, Tick
<1>5. sinceLast' = (IF sinceLast + 1 < Long THEN sinceLast + 1 ELSE Long)
  BY DEF Tick, LeastOf
<1>6. /\ sinceLast \in Nat /\ timeout.due \in 0 .. DOUBLE_CLICK /\ timeout.count \in 0 .. 3
      /\ DOUBLE_CLICK \in Nat /\ Long \in Nat /\ DOUBLE_CLICK <= Long
  BY TimeAssumption DEF CountInv, TypeOK, ClicksOK, Long
<1>7. Len(keys') <= 1 /\ \A i \in 1 .. Len(keys') : keys'[i] = 0
  BY <1>2
<1>8. CASE timeout.count = 0
  BY <1>1, <1>3, <1>4, <1>5, <1>6, <1>7, <1>8 DEF CountInv, Counting
<1>9. CASE timeout.count # 0
  <2>1. /\ timeout.due > 0 /\ timeout.count # 3 /\ clickCounter = timeout.count
        /\ sinceLast + timeout.due = DOUBLE_CLICK
    BY <1>1, <1>6, <1>9 DEF CountInv, Counting
  <2>2. timeout'.due = timeout.due - 1 /\ sinceLast' + timeout'.due = DOUBLE_CLICK
    <3>1. timeout'.due = timeout.due - 1
      BY <1>4, <1>6, <2>1
    <3>2. sinceLast + 1 <= Long
      BY <1>6, <2>1
    <3>3. sinceLast' = sinceLast + 1
      BY <1>5, <1>6, <3>2
    <3> QED BY <1>6, <2>1, <3>1, <3>3
  <2>3. timeout.count = uncounted
    BY <1>1 DEF CountInv, Counting
  <2>4. keys' = <<>> /\ timeout'.count # 0 /\ timeout'.count # 3
    BY <1>2, <1>4, <1>9, <2>1
  <2> QED BY <1>3, <1>4, <1>6, <1>7, <2>1, <2>2, <2>3, <2>4 DEF Counting
<1> QED BY <1>8, <1>9

LEMMA CountingClick ==
    ASSUME CountInv, Click
    PROVE  Counting'
<1> SUFFICES ASSUME ~lagged' PROVE Counting'
  BY DEF Counting
<1>1. keys = <<>>
  BY DEF Click, isWaiting
<1>2. keys' = <<0>>
  BY <1>1 DEF Click
<1>3. Len(keys') <= 1 /\ \A i \in 1 .. Len(keys') : keys'[i] = 0
  BY <1>2
<1>4. UNCHANGED <<sinceLast, clickCounter, timeout>>
  BY DEF Click
<1>5. timeout = NoTimeout <=> timeout.count = 0
  BY NoTimeoutHasNoCount DEF CountInv, TypeOK
<1>6. CASE timeout = NoTimeout /\ sinceLast >= DOUBLE_CLICK
  <2>1. uncounted' = 0
    BY <1>1, <1>6 DEF Click
  <2> QED BY <1>3, <1>4, <1>5, <1>6, <2>1 DEF Counting
<1>7. CASE ~(timeout = NoTimeout /\ sinceLast >= DOUBLE_CLICK)
  <2>1. ~lagged /\ ~isWaiting /\ uncounted' = uncounted
    BY <1>7 DEF Click
  <2>2. timeout = NoTimeout \/ timeout.due # 0
    BY <2>1 DEF isWaiting
  <2> QED BY <1>3, <1>4, <1>5, <2>1, <2>2 DEF CountInv, Counting
<1> QED BY <1>6, <1>7

LEMMA CountingHandleIntent ==
    ASSUME CountInv, handleIntent
    PROVE  Counting'
<1> SUFFICES ASSUME ~lagged PROVE Counting'
  BY DEF Counting, handleIntent
<1> DEFINE count == Count(0)
<1>1. keys # <<>> /\ Len(keys) <= 1 /\ \A i \in 1 .. Len(keys) : keys[i] = 0
  BY DEF CountInv, Counting, handleIntent
<1>2. keys \in Seq(0 .. MaxLag)
  BY DEF CountInv, TypeOK, ClicksOK
<1>3. Head(keys) = 0 /\ Tail(keys) = <<>>
  <2>1. 0 \in 0 .. MaxLag
    BY TimeAssumption
  <2>2. /\ Len(keys) \in Nat /\ Len(keys) >= 1 /\ Head(keys) = keys[1]
        /\ Tail(keys) \in Seq(0 .. MaxLag) /\ Len(Tail(keys)) = Len(keys) - 1
    BY <1>1, <1>2, <2>1, QueueOperations
  <2>3. Len(Tail(keys)) = 0 /\ 1 \in 1 .. Len(keys)
    BY <1>1, <2>2
  <2> QED BY <1>1, <2>2, <2>3, EmptyOrLonger
<1>4. /\ timeout' = [count |-> count, due |-> IF count < 3 THEN DOUBLE_CLICK ELSE 0]
      /\ clickCounter' = (IF count >= 3 THEN 0 ELSE count) /\ sinceLast' = 0
      /\ keys' = <<>> /\ uncounted' = uncounted + 1
  BY <1>3 DEF handleIntent, Count
<1>5. /\ timeout.due \in Nat /\ sinceLast \in Nat
      /\ DOUBLE_CLICK \in Nat \ {0} /\ clickCounter \in 0 .. 2
  BY TimeAssumption DEF CountInv, TypeOK, ClicksOK
<1>6. count = uncounted + 1 /\ count \in 1 .. 3
  <2>1. CASE timeout.count = 0
    <3>1. uncounted = 0 /\ (sinceLast >= DOUBLE_CLICK \/ clickCounter = 0)
      BY <2>1 DEF CountInv, Counting
    <3> QED BY <1>5, <3>1 DEF Count, isFirst
  <2>2. CASE timeout.count # 0
    <3>1. timeout.due > 0
      BY <1>1, <1>5, <2>2 DEF CountInv, Counting
    <3>2. /\ sinceLast < DOUBLE_CLICK /\ timeout.count # 3
          /\ clickCounter = timeout.count /\ timeout.count = uncounted
      BY <1>5, <2>2, <3>1 DEF CountInv, Counting
    <3> QED BY <1>5, <2>2, <3>2 DEF Count, isFirst
  <2> QED BY <2>1, <2>2
<1> HIDE DEF count
<1>7. Len(keys') <= 1 /\ \A i \in 1 .. Len(keys') : keys'[i] = 0
  BY <1>4
<1>8. timeout'.count = count /\ timeout'.due = IF count < 3 THEN DOUBLE_CLICK ELSE 0
  BY <1>4
<1>9. count = 3 \/ count < 3
  BY <1>6
<1> QED BY <1>4, <1>5, <1>6, <1>7, <1>8, <1>9 DEF Counting

LEMMA CountingHandleMessage ==
    ASSUME CountInv, handleMessage
    PROVE  Counting'
<1> SUFFICES ASSUME ~lagged PROVE Counting'
  BY DEF Counting, handleMessage
<1>1. timeout.count # 0 /\ timeout.due = 0
  BY NoTimeoutHasNoCount DEF CountInv, TypeOK, handleMessage
<1>2. timeout'.count = 0 /\ UNCHANGED <<keys, sinceLast, clickCounter>>
  BY DEF handleMessage, NoTimeout
<1>3. uncounted' = uncounted - timeout.count /\ timeout.count = uncounted /\ uncounted \in Int
  BY DEF handleMessage, CountInv, Counting, TypeOK, ClicksOK
<1>4. sinceLast >= DOUBLE_CLICK \/ clickCounter = 0
  <2>1. sinceLast \in Nat
    BY DEF CountInv, TypeOK, ClicksOK
  <2> QED BY <1>1, <2>1 DEF CountInv, Counting
<1>5. Len(keys) <= 1 /\ \A i \in 1 .. Len(keys) : keys[i] = 0
  BY DEF CountInv, Counting
<1> QED BY <1>2, <1>3, <1>4, <1>5 DEF Counting

(* As long as the main thread keeps up, every click is in exactly one       *)
(* command, for any timeout and any pace of clicks.                         *)
THEOREM ClicksAlwaysCounted == Spec => []ClicksCountedOnce
<1>1. Init => CountInv
  <2> SUFFICES ASSUME Init PROVE CountInv
    OBVIOUS
  <2>1. TypeOK
    BY ClicksInit, PlayerInit DEF TypeOK
  <2>2. keys = <<>> /\ timeout.count = 0 /\ uncounted = 0 /\ clickCounter = 0
    BY DEF Init, NoTimeout
  <2> QED BY <2>1, <2>2 DEF CountInv, Counting
<1>2. CountInv /\ [Next]_vars => CountInv'
  <2> SUFFICES ASSUME CountInv, [Next]_vars PROVE Counting'
    BY TypeStep DEF CountInv
  <2>1. CASE UNCHANGED vars \/ PlayerStep
    <3>1. UNCHANGED clicks
      BY <2>1, SameClicks DEF vars
    <3> QED BY <3>1 DEF CountInv, Counting, clicks
  <2>2. CASE Tick \/ Click \/ handleIntent \/ handleMessage
    BY <2>2, CountingTick, CountingClick, CountingHandleIntent, CountingHandleMessage
  <2> QED BY <2>1, <2>2, StepCases
<1>3. CountInv => ClicksCountedOnce
  BY NoTimeoutHasNoCount DEF CountInv, TypeOK, Counting, ClicksCountedOnce
<1> QED BY <1>1, <1>2, <1>3, PTL DEF Spec

-----------------------------------------------------------------------------
(* Pauses.                                                                  *)

(* After a pause nothing is under way that starts the player: no song to    *)
(* play waits, and no resumption is remembered.                             *)
Paused ==
    wanted = "pause" /\ ~crossed =>
        /\ main # "starting"
        /\ IF main = "pausing" THEN handler = "idle" ELSE ~isPlaying
        /\ ~pausedByTransientLossOfFocus /\ ~Holds(inbox, "playSong")
        /\ handler \notin {"resume", "play", "forget"}
        /\ handler \in {"pausing", "paused", "setFlag"} => ~wasPlaying

PauseInv == TypeOK /\ Paused

LEMMA StillNoSong ==
    ASSUME PlayerOK, ~Holds(inbox, "playSong")
    PROVE  /\ inbox # <<>> => Head(inbox) # "playSong" /\ ~Holds(Tail(inbox), "playSong")
           /\ \A m \in {"loss", "transient", "gain"} : ~Holds(Append(inbox, m), "playSong")
<1> DEFINE M == {"loss", "transient", "gain", "playSong"}
<1>1. inbox \in Seq(M) /\ \A i \in 1 .. Len(inbox) : inbox[i] # "playSong"
  BY DEF PlayerOK, Holds
<1>2. ASSUME inbox # <<>>
      PROVE  Head(inbox) # "playSong" /\ ~Holds(Tail(inbox), "playSong")
  <2>1. Len(inbox) \in Nat \ {0} /\ Head(inbox) = inbox[1] /\ Len(Tail(inbox)) = Len(inbox) - 1
    BY <1>1, <1>2
  <2>2. \A i \in 1 .. Len(Tail(inbox)) : Tail(inbox)[i] = inbox[i + 1]
    BY <1>1, <1>2
  <2> QED BY <1>1, <2>1, <2>2 DEF Holds
<1>3. ASSUME NEW m \in {"loss", "transient", "gain"}
      PROVE  ~Holds(Append(inbox, m), "playSong")
  <2> SUFFICES ASSUME NEW i \in 1 .. Len(Append(inbox, m)) PROVE Append(inbox, m)[i] # "playSong"
    BY DEF Holds
  <2>1. /\ Append(inbox, m)[i] \in {inbox[i], m}
        /\ i \in 1 .. Len(inbox) \/ Append(inbox, m)[i] = m
    BY <1>1
  <2> QED BY <1>1, <1>3, <2>1
<1> QED BY <1>2, <1>3

LEMMA PausedStep == PauseInv /\ [Next]_vars => Paused'
<1> SUFFICES ASSUME PauseInv, [Next]_vars PROVE Paused'
  OBVIOUS
<1>1. CASE UNCHANGED vars
  BY <1>1 DEF PauseInv, Paused, vars, player, history
<1>2. CASE Tick \/ Click \/ handleIntent \/ handleMessage
  <2>1. UNCHANGED <<player, inbox, handler, wasPlaying, history>>
    BY <1>2 DEF Tick, Click, handleIntent, handleMessage
  <2>2. main' = main \/ (main = "idle" /\ main' \in {"toggle", "skip", "rewind"})
    BY <1>2, ReceiverCommands DEF PauseInv, TypeOK
  <2> QED BY <2>1, <2>2 DEF PauseInv, Paused, player, history
<1>3. CASE Command
  BY <1>3 DEF PauseInv, TypeOK, PlayerOK, Paused, Command, player, history
<1>4. CASE Toggle
  BY <1>4 DEF PauseInv, TypeOK, PlayerOK, Paused, Toggle, player, history
<1>5. CASE Pause
  BY <1>5 DEF PauseInv, TypeOK, PlayerOK, Paused, Pause, ForgetTransientLoss, HandlerBusy
<1>6. CASE FinishPause
  BY <1>6 DEF PauseInv, TypeOK, PlayerOK, Paused, FinishPause, history
<1>7. CASE Skip
  BY <1>7 DEF PauseInv, TypeOK, PlayerOK, Paused, Skip, player
<1>8. CASE Play
  BY <1>8 DEF PauseInv, TypeOK, PlayerOK, Paused, Play, player, RequestFocus
<1>9. CASE Start
  BY <1>9 DEF PauseInv, TypeOK, PlayerOK, Paused, Start
<1>10. CASE Take
  <2> SUFFICES ASSUME wanted' = "pause", ~crossed' PROVE Paused'
    BY DEF Paused
  <2>1. /\ inbox # <<>> /\ handler' = Handling[Head(inbox)] /\ inbox' = Tail(inbox)
        /\ isPlaying' = (isPlaying /\ Head(inbox) # "playSong")
        /\ UNCHANGED <<pausedByTransientLossOfFocus, main, wasPlaying, wanted>>
        /\ ~crossed /\ main # "pausing"
    BY <1>10 DEF Take
  <2>2. PlayerOK
    BY DEF PauseInv, TypeOK
  <2>3. /\ main # "starting" /\ ~isPlaying /\ ~pausedByTransientLossOfFocus
        /\ ~Holds(inbox, "playSong")
    BY <2>1 DEF PauseInv, Paused
  <2>4. Head(inbox) \in {"loss", "transient", "gain"} /\ ~Holds(inbox', "playSong")
    BY <2>1, <2>2, <2>3, StillNoSong, NewMessages
  <2>5. handler' \in {"losing", "transient", "gain"}
    BY <2>1, <2>4 DEF Handling
  <2> QED BY <2>1, <2>3, <2>4, <2>5 DEF Paused
<1>11. CASE ReadPlaying
  BY <1>11 DEF PauseInv, TypeOK, PlayerOK, Paused, ReadPlaying, player, history
<1>12. CASE ClearFlag
  BY <1>12 DEF PauseInv, TypeOK, PlayerOK, Paused, ClearFlag, history
<1>13. CASE PauseForLoss
  BY <1>13 DEF PauseInv, TypeOK, PlayerOK, Paused, PauseForLoss, history
<1>14. CASE SetFlag
  BY <1>14 DEF PauseInv, TypeOK, PlayerOK, Paused, SetFlag, history, Resuming
<1>15. CASE Gain
  BY <1>15 DEF PauseInv, TypeOK, PlayerOK, Paused, Gain, player, history
<1>16. CASE HandlerPlay
  BY <1>16 DEF PauseInv, TypeOK, PlayerOK, Paused, HandlerPlay, RequestFocus
<1>17. CASE Forget
  BY <1>17 DEF PauseInv, TypeOK, PlayerOK, Paused, Forget, history
<1>18. CASE FocusChange
  BY <1>18, StillNoSong DEF PauseInv, TypeOK, PlayerOK, Paused, FocusChange, player,
     history, Changes, Losses
<1>19. CASE back
  BY <1>19 DEF PauseInv, TypeOK, PlayerOK, Paused, back, player, history
<1> QED BY <1>1, <1>2, <1>3, <1>4, <1>5, <1>6, <1>7, <1>8, <1>9, <1>10, <1>11, <1>12, <1>13,
   <1>14, <1>15, <1>16, <1>17, <1>18, <1>19, StepCases DEF PlayerStep, Handler

(* A pause lasts, however the focus went and came, unless it came while the *)
(* handler worked on a change of it or had a song to play.                  *)
THEOREM PausesStick == Spec => []PauseSticks
<1>1. Init => PauseInv
  BY ClicksInit, PlayerInit DEF Init, PauseInv, TypeOK, Paused, Holds
<1>2. PauseInv /\ [Next]_vars => PauseInv'
  BY TypeStep, PausedStep DEF PauseInv
<1>3. PauseInv => PauseSticks
  BY DEF PauseInv, Paused, PauseSticks, Quiet
<1> QED BY <1>1, <1>2, <1>3, PTL DEF Spec

-----------------------------------------------------------------------------
(* Resuming.                                                                *)
(*                                                                          *)
(* While the focus was not lost for good, every transient loss is followed  *)
(* by a gain, on its way or still to come.  What is to play then plays or   *)
(* starts, or it is remembered until that gain.                             *)

(* In an inbox, with this focus, a gain comes after place i: before the     *)
(* next transient loss, and at all if the focus is held.                    *)
GainAfter(messages, i, j) ==
    \E k \in 1 .. Len(messages) : i < k /\ k < j /\ messages[k] = "gain"
IsRelieved(messages, f, i) ==
    /\ \A j \in 1 .. Len(messages) :
          i < j /\ messages[j] = "transient" => GainAfter(messages, i, j)
    /\ f = "held" => GainAfter(messages, i, Len(messages) + 1)
AreRelieved(messages, f) ==
    \A i \in 1 .. Len(messages) : messages[i] = "transient" => IsRelieved(messages, f, i)

(* The player is about to start. *)
Starts == main = "starting" \/ handler = "play" \/ Holds(inbox, "playSong")

Remembered ==
    \/ handler = "setFlag" /\ wasPlaying /\ IsRelieved(inbox, focus, 0)
    \/ pausedByTransientLossOfFocus /\ handler = "idle" /\ IsRelieved(inbox, focus, 0)
    \/ pausedByTransientLossOfFocus /\ handler = "gain"
    \/ handler = "resume"

LossesPass ==
    /\ ~Holds(inbox, "loss") /\ handler \notin {"losing", "lost"}
    /\ AreRelieved(inbox, focus)
    /\ handler \in {"transient", "pausing", "paused"} => IsRelieved(inbox, focus, 0)

Playing == isPlaying /\ (handler \in {"pausing", "paused"} => wasPlaying)

Resumes ==
    ~overtaken /\ focus # "loss" =>
        LossesPass /\ (wanted = "play" => Starts \/ Playing \/ Remembered)

PausingIsWanted == main = "pausing" => wanted = "pause"

ResumeInv == TypeOK /\ PausingIsWanted /\ Resumes

LEMMA AppendedEntries ==
    ASSUME NEW T, NEW s \in Seq(T), NEW e \in T
    PROVE  /\ Len(Append(s, e)) = Len(s) + 1 /\ Append(s, e)[Len(s) + 1] = e
           /\ \A k \in 1 .. Len(s) : Append(s, e)[k] = s[k]
  OBVIOUS

LEMMA EmptyHolds == \A m : ~Holds(<<>>, m)
  BY DEF Holds

LEMMA NoTransients ==
    ASSUME NEW q, ~Holds(q, "transient"), NEW f
    PROVE  AreRelieved(q, f)
  BY DEF Holds, AreRelieved

LEMMA TailMessages ==
    ASSUME NEW q \in Seq(Messages), q # <<>>, NEW f, AreRelieved(q, f)
    PROVE  /\ AreRelieved(Tail(q), f)
           /\ Head(q) = "transient" => IsRelieved(Tail(q), f, 0)
           /\ IsRelieved(q, f, 0) => Head(q) # "transient"
           /\ \A m : Holds(Tail(q), m) => Holds(q, m)
           /\ \A m : Holds(q, m) => Holds(Tail(q), m) \/ Head(q) = m
           /\ Holds(q, Head(q))
<1>1. PICK n : n = Len(q)
  OBVIOUS
<1>2. n \in Nat /\ n >= 1 /\ Head(q) = q[1] /\ Len(Tail(q)) = n - 1
  BY <1>1
<1>3. \A i \in 1 .. n - 1 : Tail(q)[i] = q[i + 1]
  BY <1>1
<1>4. ASSUME NEW i \in 0 .. n, NEW j \in Int, GainAfter(q, i + 1, j + 1)
      PROVE  GainAfter(Tail(q), i, j)
  <2>1. PICK k \in 1 .. n : i + 1 < k /\ k < j + 1 /\ q[k] = "gain"
    BY <1>1, <1>4 DEF GainAfter
  <2>2. k - 1 \in 1 .. n - 1 /\ i < k - 1 /\ k - 1 < j /\ q[k - 1 + 1] = "gain"
    BY <1>2, <2>1
  <2> QED BY <1>2, <1>3, <2>2 DEF GainAfter
<1>5. ASSUME NEW i \in 0 .. n - 1, IsRelieved(q, f, i + 1)
      PROVE  IsRelieved(Tail(q), f, i)
  <2>0. i \in 0 .. n /\ i + 1 \in Int /\ n \in Int
    BY <1>2
  <2>1. ASSUME NEW j \in 1 .. n - 1, i < j, Tail(q)[j] = "transient"
        PROVE  GainAfter(Tail(q), i, j)
    <3>1. j + 1 \in 1 .. n /\ i + 1 < j + 1 /\ q[j + 1] = "transient"
      BY <1>2, <1>3, <2>1
    <3>2. GainAfter(q, i + 1, j + 1)
      BY <1>1, <1>5, <3>1 DEF IsRelieved
    <3>3. j \in Int
      OBVIOUS
    <3> QED BY <1>4, <2>0, <3>2, <3>3
  <2>2. ASSUME f = "held" PROVE GainAfter(Tail(q), i, n)
    <3>1. GainAfter(q, i + 1, n + 1)
      BY <1>1, <1>5, <2>2 DEF IsRelieved
    <3> QED BY <1>4, <2>0, <3>1
  <2>3. Len(Tail(q)) + 1 = n
    BY <1>2
  <2> QED BY <1>2, <2>1, <2>2, <2>3 DEF IsRelieved
<1>6. AreRelieved(Tail(q), f)
  <2> SUFFICES ASSUME NEW i \in 1 .. n - 1, Tail(q)[i] = "transient"
               PROVE  IsRelieved(Tail(q), f, i)
    BY <1>2 DEF AreRelieved
  <2>1. i + 1 \in 1 .. n /\ q[i + 1] = "transient" /\ i \in 0 .. n - 1
    BY <1>2, <1>3
  <2>2. IsRelieved(q, f, i + 1)
    BY <1>1, <2>1 DEF AreRelieved
  <2> QED BY <1>5, <2>1, <2>2
<1>7. ASSUME Head(q) = "transient" PROVE IsRelieved(Tail(q), f, 0)
  <2>1. 1 \in 1 .. Len(q) /\ q[1] = "transient"
    BY <1>1, <1>2, <1>7
  <2>2. IsRelieved(q, f, 1) /\ 0 \in 0 .. n - 1 /\ 0 + 1 = 1
    BY <1>2, <2>1 DEF AreRelieved
  <2> QED BY <1>5, <2>2
<1>8. ASSUME IsRelieved(q, f, 0), Head(q) = "transient" PROVE FALSE
  <2>1. GainAfter(q, 0, 1)
    BY <1>1, <1>2, <1>8 DEF IsRelieved
  <2> QED BY <2>1 DEF GainAfter
<1>9. ASSUME NEW m, Holds(Tail(q), m) PROVE Holds(q, m)
  <2>1. PICK i \in 1 .. n - 1 : Tail(q)[i] = m
    BY <1>2, <1>9 DEF Holds
  <2>2. i + 1 \in 1 .. n /\ q[i + 1] = m
    BY <1>2, <1>3, <2>1
  <2> QED BY <1>1, <2>2 DEF Holds
<1>10. ASSUME NEW m, Holds(q, m), Head(q) # m PROVE Holds(Tail(q), m)
  <2>1. PICK i \in 1 .. n : q[i] = m
    BY <1>1, <1>10 DEF Holds
  <2>2. i - 1 \in 1 .. n - 1 /\ q[i - 1 + 1] = m
    BY <1>2, <1>10, <2>1
  <2> QED BY <1>2, <1>3, <2>2 DEF Holds
<1>11. Holds(q, Head(q))
  BY <1>1, <1>2 DEF Holds
<1> QED BY <1>6, <1>7, <1>8, <1>9, <1>10, <1>11

(* A transient loss comes while the focus is held, and a gain after one.    *)
Passing(f, m, g) == \/ f = "held" /\ m = "transient" /\ g = "transient"
                    \/ f = "transient" /\ m = "gain" /\ g = "held"

LEMMA AppendMessages ==
    ASSUME NEW q \in Seq(Messages), NEW f, NEW m \in Messages, NEW g, Passing(f, m, g)
    PROVE  /\ AreRelieved(q, f) => AreRelieved(Append(q, m), g)
           /\ IsRelieved(q, f, 0) => IsRelieved(Append(q, m), g, 0)
           /\ \A x : Holds(q, x) => Holds(Append(q, m), x)
           /\ \A x : Holds(Append(q, m), x) => Holds(q, x) \/ x = m
<1>1. PICK n, r : n = Len(q) /\ r = Append(q, m)
  OBVIOUS
<1>2. n \in Nat /\ Len(r) = n + 1 /\ r[n + 1] = m /\ \A i \in 1 .. n : r[i] = q[i]
  BY <1>1
<1>3. \A i \in 1 .. n + 1 : i \in 1 .. n \/ i = n + 1
  BY <1>2
<1>4. ASSUME NEW i \in 0 .. n, NEW j \in Int, GainAfter(q, i, j)
      PROVE  GainAfter(r, i, j) /\ GainAfter(r, i, n + 2)
  <2>1. PICK k \in 1 .. n : i < k /\ k < j /\ q[k] = "gain"
    BY <1>1, <1>4 DEF GainAfter
  <2>2. k \in 1 .. n + 1 /\ r[k] = "gain" /\ k < n + 2
    BY <1>2, <2>1
  <2> QED BY <1>2, <2>1, <2>2 DEF GainAfter
<1>5. ASSUME NEW i \in 0 .. n, IsRelieved(q, f, i)
      PROVE  IsRelieved(r, g, i)
  <2>1. ASSUME NEW j \in 1 .. n + 1, i < j, r[j] = "transient" PROVE GainAfter(r, i, j)
    <3>1. CASE j \in 1 .. n
      <4>1. GainAfter(q, i, j)
        BY <1>1, <1>2, <1>5, <2>1, <3>1 DEF IsRelieved
      <4> QED BY <1>4, <4>1
    <3>2. CASE j = n + 1
      <4>1. f = "held"
        BY <1>2, <2>1, <3>2 DEF Passing
      <4>2. GainAfter(q, i, n + 1)
        BY <1>1, <1>5, <4>1 DEF IsRelieved
      <4> QED BY <1>2, <1>4, <3>2, <4>2
    <3> QED BY <1>3, <3>1, <3>2
  <2>2. ASSUME g = "held" PROVE GainAfter(r, i, n + 2)
    <3>1. n + 1 \in 1 .. Len(r) /\ r[n + 1] = "gain" /\ i < n + 1 /\ n + 1 < n + 2
      BY <1>2, <2>2 DEF Passing
    <3> QED BY <3>1 DEF GainAfter
  <2>3. Len(r) + 1 = n + 2
    BY <1>2
  <2> QED BY <1>2, <2>1, <2>2, <2>3 DEF IsRelieved
<1>6. ASSUME AreRelieved(q, f), NEW i \in 1 .. n + 1, r[i] = "transient"
      PROVE  IsRelieved(r, g, i)
  <2>1. CASE i \in 1 .. n
    <3>1. IsRelieved(q, f, i) /\ i \in 0 .. n
      BY <1>1, <1>2, <1>6, <2>1 DEF AreRelieved
    <3> QED BY <1>5, <3>1
  <2>2. CASE i = n + 1
    <3>1. g # "held"
      BY <1>2, <1>6, <2>2 DEF Passing
    <3>2. \A j \in 1 .. Len(r) : ~(i < j)
      BY <1>2, <2>2
    <3> QED BY <3>1, <3>2 DEF IsRelieved
  <2> QED BY <1>3, <2>1, <2>2
<1>7. AreRelieved(q, f) => AreRelieved(r, g)
  BY <1>2, <1>6 DEF AreRelieved
<1>8. IsRelieved(q, f, 0) => IsRelieved(r, g, 0)
  BY <1>2, <1>5
<1>9. ASSUME NEW x, Holds(q, x) PROVE Holds(r, x)
  <2>1. PICK i \in 1 .. n : q[i] = x
    BY <1>1, <1>9 DEF Holds
  <2>2. i \in 1 .. n + 1 /\ r[i] = x
    BY <1>2, <2>1
  <2> QED BY <1>2, <2>2 DEF Holds
<1>10. ASSUME NEW x, Holds(r, x) PROVE Holds(q, x) \/ x = m
  <2>1. PICK i \in 1 .. n + 1 : r[i] = x
    BY <1>2, <1>10 DEF Holds
  <2>2. CASE i \in 1 .. n
    BY <1>1, <1>2, <2>1, <2>2 DEF Holds
  <2>3. CASE i = n + 1
    BY <1>2, <2>1, <2>3
  <2> QED BY <1>3, <2>2, <2>3
<1> QED BY <1>1, <1>7, <1>8, <1>9, <1>10

(* A song to play takes the place of one that waits. *)
LEMMA SkipMessages ==
    ASSUME NEW q \in Seq(Messages), NEW r, NEW f,
           r = Append(WithoutSong(q), "playSong")
    PROVE  /\ AreRelieved(q, f) => AreRelieved(r, f)
           /\ IsRelieved(q, f, 0) => IsRelieved(r, f, 0)
           /\ \A x : Holds(r, x) => Holds(q, x) \/ x = "playSong"
           /\ Holds(r, "playSong")
<1>1. PICK n \in Nat, d \in Nat, c \in Nat, kept \in Seq(Messages) :
        /\ n = Len(q) /\ kept = WithoutSong(q)
        /\ Removed(q, kept, n, d, c)
  BY RemovedEntries
<1> DEFINE K == (1 .. n) \ {d}
           Source(k) == IF k < d THEN k ELSE k + 1
           Place(p) == IF p < d THEN p ELSE p - 1
<1>2. /\ K \in SUBSET (1 .. n)
      /\ \A k \in 1 .. n : q[k] # "playSong" => k \in K
  BY <1>1 DEF Removed
<1>4. Len(r) = c + 1 /\ r[c + 1] = "playSong" /\ \A k \in 1 .. c : r[k] = kept[k]
  <2>1. kept \in Seq(Messages) /\ Len(kept) = c /\ r = Append(kept, "playSong")
    BY <1>1 DEF Removed
  <2>2. "playSong" \in Messages
    BY DEF Messages
  <2>3. /\ Len(Append(kept, "playSong")) = Len(kept) + 1
        /\ Append(kept, "playSong")[Len(kept) + 1] = "playSong"
        /\ \A k \in 1 .. Len(kept) : Append(kept, "playSong")[k] = kept[k]
    BY <2>1, <2>2, AppendedEntries
  <2>4. Append(kept, "playSong") = r
    BY <2>1
  <2> QED BY <2>1, <2>3, <2>4
<1>5. \A k \in 1 .. c : Source(k) \in K /\ Place(Source(k)) = k /\ r[k] = q[Source(k)]
  BY <1>1, <1>4 DEF Removed
<1>6. \A i \in K : Place(i) \in 1 .. c /\ Source(Place(i)) = i
  BY <1>1 DEF Removed
<1>7. \A i, j \in K : i < j => Place(i) < Place(j)
  BY <1>1
<1> HIDE DEF Source, Place
(* Place p of q, which comes to place i of r, or is before all of both.     *)
<1> DEFINE Comes(p, i) == (p = 0 /\ i = 0) \/ (p \in K /\ i = Place(p))
<1>8. ASSUME NEW p, NEW i, Comes(p, i), NEW k \in K
      PROVE  p < k => i < Place(k)
  <2>1. CASE p \in K /\ i = Place(p)
    BY <1>7, <2>1
  <2>2. CASE p = 0 /\ i = 0
    <3>1. Place(k) \in 1 .. c
      BY <1>6
    <3> QED BY <1>1, <2>2, <3>1
  <2> QED BY <1>8, <2>1, <2>2
<1>9. ASSUME NEW p, NEW i, Comes(p, i), NEW k \in K, i < Place(k)
      PROVE  p < k
  <2>1. k \in 1 .. n /\ Place(k) \in 1 .. c
    BY <1>2, <1>6
  <2>2. CASE p = 0 /\ i = 0
    BY <1>2, <2>1, <2>2
  <2>3. CASE p \in K /\ i = Place(p)
    <3>1. p \in 1 .. n /\ Place(p) \in 1 .. c
      BY <1>2, <1>6, <2>3
    <3>2. k < p => Place(k) < Place(p)
      BY <1>7, <2>3
    <3>3. k # p /\ ~(Place(k) < Place(p))
      BY <1>1, <1>9, <2>1, <2>3, <3>1
    <3> QED BY <1>2, <2>1, <3>1, <3>2, <3>3
  <2> QED BY <1>9, <2>2, <2>3
<1> HIDE DEF Comes
<1>10. ASSUME NEW p, NEW i, Comes(p, i), IsRelieved(q, f, p)
       PROVE  IsRelieved(r, f, i)
  <2>1. ASSUME NEW j \in 1 .. c + 1, i < j, r[j] = "transient" PROVE GainAfter(r, i, j)
    <3>1. j \in 1 .. c
      BY <1>1, <1>4, <2>1
    <3>2. PICK b \in K : b = Source(j) /\ Place(b) = j /\ q[b] = "transient"
      BY <1>5, <2>1, <3>1
    <3>3. p < b /\ b \in 1 .. n
      BY <1>2, <1>9, <1>10, <2>1, <3>2
    <3>4. PICK k \in 1 .. n : p < k /\ k < b /\ q[k] = "gain"
      BY <1>1, <1>10, <3>2, <3>3 DEF IsRelieved, GainAfter
    <3>5. k \in K
      BY <1>1, <1>2, <3>4
    <3>6. i < Place(k)
      BY <1>8, <1>10, <3>4, <3>5
    <3>7. Place(k) < j /\ Place(k) \in 1 .. c
      BY <1>6, <1>7, <3>2, <3>4, <3>5
    <3>8. r[Place(k)] = "gain"
      BY <1>5, <1>6, <3>4, <3>5, <3>7
    <3>9. Place(k) \in 1 .. Len(r)
      BY <1>1, <1>4, <3>7
    <3> QED BY <3>6, <3>7, <3>8, <3>9 DEF GainAfter
  <2>2. ASSUME f = "held" PROVE GainAfter(r, i, c + 2)
    <3>1. PICK k \in 1 .. n : p < k /\ q[k] = "gain"
      BY <1>1, <1>10, <2>2 DEF IsRelieved, GainAfter
    <3>2. k \in K
      BY <1>1, <1>2, <3>1
    <3>3. i < Place(k)
      BY <1>8, <1>10, <3>1, <3>2
    <3>4. Place(k) \in 1 .. c /\ r[Place(k)] = "gain"
      BY <1>5, <1>6, <3>1, <3>2
    <3>5. Place(k) \in 1 .. Len(r) /\ Place(k) < c + 2
      BY <1>1, <1>4, <3>4
    <3> QED BY <3>3, <3>4, <3>5 DEF GainAfter
  <2>3. Len(r) + 1 = c + 2
    BY <1>1, <1>4
  <2> QED BY <1>4, <2>1, <2>2, <2>3 DEF IsRelieved
<1>11. ASSUME AreRelieved(q, f), NEW i \in 1 .. c + 1, r[i] = "transient"
       PROVE  IsRelieved(r, f, i)
  <2>1. i \in 1 .. c
    BY <1>1, <1>4, <1>11
  <2>2. PICK p \in K : Place(p) = i /\ q[p] = "transient"
    BY <1>5, <1>11, <2>1
  <2>3. IsRelieved(q, f, p) /\ Comes(p, i)
    BY <1>1, <1>2, <1>11, <2>2 DEF AreRelieved, Comes
  <2> QED BY <1>10, <2>3
<1>12. AreRelieved(q, f) => AreRelieved(r, f)
  BY <1>4, <1>11 DEF AreRelieved
<1>13. IsRelieved(q, f, 0) => IsRelieved(r, f, 0)
  <2>1. Comes(0, 0)
    BY DEF Comes
  <2> QED BY <1>10, <2>1
<1>14. ASSUME NEW x, Holds(r, x), x # "playSong" PROVE Holds(q, x)
  <2>1. PICK i \in 1 .. c + 1 : r[i] = x
    BY <1>4, <1>14 DEF Holds
  <2>2. i \in 1 .. c
    BY <1>1, <1>4, <1>14, <2>1
  <2>3. Source(i) \in 1 .. n /\ q[Source(i)] = x
    BY <1>2, <1>5, <2>1, <2>2
  <2> QED BY <1>1, <2>3 DEF Holds
<1>15. Holds(r, "playSong")
  <2>1. c + 1 \in 1 .. Len(r)
    BY <1>1, <1>4
  <2> QED BY <1>4, <2>1 DEF Holds
<1> QED BY <1>12, <1>13, <1>14, <1>15

(* Steps that leave the inbox and the focus alone. *)
SameMessages == UNCHANGED <<inbox, focus>>

LEMMA RelievedStays ==
    ASSUME SameMessages
    PROVE  /\ AreRelieved(inbox, focus)' <=> AreRelieved(inbox, focus)
           /\ IsRelieved(inbox, focus, 0)' <=> IsRelieved(inbox, focus, 0)
           /\ Holds(inbox, "loss")' <=> Holds(inbox, "loss")
           /\ Holds(inbox, "playSong")' <=> Holds(inbox, "playSong")
<1>1. inbox' = inbox /\ focus' = focus
  BY DEF SameMessages
<1> QED BY <1>1

LEMMA ResumesReceiver ==
    ASSUME ResumeInv, UNCHANGED <<player, focus, inbox, handler, wasPlaying, history>>,
           main' = main \/ (main \notin {"starting", "pausing"} /\ main' # "pausing")
    PROVE  PausingIsWanted' /\ Resumes'
<1>1. SameMessages
  BY DEF SameMessages
<1>2. PausingIsWanted'
  BY DEF ResumeInv, PausingIsWanted, history
<1>3. Resumes'
  BY <1>1, RelievedStays
     DEF ResumeInv, Resumes, LossesPass, Starts, Playing, Remembered, player, history
<1> QED BY <1>2, <1>3

LEMMA ResumesCommands ==
    ASSUME ResumeInv, Command \/ Toggle \/ Pause \/ FinishPause \/ back \/ Start
    PROVE  PausingIsWanted' /\ Resumes'
<1>1. CASE Command
  BY <1>1, ResumesReceiver DEF Command, player, history
<1>2. CASE Toggle
  BY <1>2, ResumesReceiver DEF Toggle, player, history
<1>3. CASE Pause
  <2>1. SameMessages /\ UNCHANGED <<focus, handler, overtaken>> /\ wanted' = "pause"
    BY <1>3 DEF Pause, SameMessages
  <2> QED BY <2>1, RelievedStays DEF ResumeInv, Resumes, LossesPass, PausingIsWanted
<1>4. CASE FinishPause
  <2>1. SameMessages /\ UNCHANGED <<handler, overtaken, wanted>> /\ wanted = "pause"
    BY <1>4 DEF FinishPause, SameMessages, history, ResumeInv, PausingIsWanted
  <2> QED BY <1>4, <2>1, RelievedStays
          DEF FinishPause, ResumeInv, Resumes, LossesPass, PausingIsWanted
<1>5. CASE Start
  <2>1. /\ SameMessages /\ UNCHANGED <<handler, wanted, wasPlaying>>
        /\ isPlaying' = TRUE /\ main' = "idle"
        /\ ~overtaken' => ~overtaken /\ handler \notin {"pausing", "paused"}
    BY <1>5 DEF Start, SameMessages
  <2>2. ~overtaken' /\ focus' # "loss" => Playing'
    BY <2>1 DEF Playing
  <2>3. ~overtaken' /\ focus' # "loss" => LossesPass'
    BY <2>1, RelievedStays DEF ResumeInv, Resumes, LossesPass, SameMessages
  <2> QED BY <2>1, <2>2, <2>3 DEF Resumes, PausingIsWanted
<1>6. CASE back
  BY <1>6, ResumesReceiver DEF back, player, history
<1> QED BY <1>1, <1>2, <1>3, <1>4, <1>5, <1>6

(* When the focus is requested no loss waits, or the request has overtaken it. *)
LEMMA RequestRelieves ==
    ASSUME RequestFocus, UNCHANGED inbox, ~overtaken',
           handler' = handler \/ handler' \in {"idle", "forget"}
    PROVE  LossesPass'
<1>1. /\ ~Holds(inbox, "loss") /\ ~Holds(inbox, "transient")
      /\ handler \notin {"losing", "lost", "transient", "pausing", "paused"}
  BY DEF RequestFocus, Losses
<1>2. ~Holds(inbox', "loss") /\ ~Holds(inbox', "transient")
  BY <1>1
<1>3. AreRelieved(inbox', focus')
  BY <1>2, NoTransients
<1> QED BY <1>1, <1>2, <1>3 DEF LossesPass

LEMMA ResumesPlay ==
    ASSUME ResumeInv, Play
    PROVE  PausingIsWanted' /\ Resumes'
<1>1. CASE RequestFocus /\ main' = "starting" /\ wanted' = "play"
  <2>1. UNCHANGED <<inbox, handler>>
    BY DEF Play
  <2>2. ~overtaken' => LossesPass'
    BY <1>1, <2>1, RequestRelieves
  <2> QED BY <1>1, <2>2 DEF Resumes, Starts, PausingIsWanted
<1>2. CASE main' = "idle" /\ UNCHANGED <<focus, overtaken, wanted>>
  <2>1. /\ main = "play"
        /\ UNCHANGED <<focus, overtaken, wanted, player, inbox, handler, wasPlaying>>
    BY <1>2 DEF Play
  <2>2. SameMessages
    BY <2>1 DEF SameMessages
  <2> QED BY <1>2, <2>1, <2>2, RelievedStays DEF ResumeInv, Resumes, LossesPass, Starts, Playing,
       Remembered, player, PausingIsWanted
<1> QED BY <1>1, <1>2 DEF Play

LEMMA ResumesSkip ==
    ASSUME ResumeInv, Skip
    PROVE  PausingIsWanted' /\ Resumes'
<1>1. PICK r : r = Append(WithoutSong(inbox), "playSong")
  OBVIOUS
<1>2. /\ inbox' = r /\ main' = "idle"
      /\ UNCHANGED <<focus, handler, wasPlaying, overtaken>>
  BY <1>1 DEF Skip
<1>3. inbox \in Seq(Messages)
  BY DEF ResumeInv, TypeOK, PlayerOK, Messages
<1>4. /\ AreRelieved(inbox, focus) => AreRelieved(r, focus)
      /\ IsRelieved(inbox, focus, 0) => IsRelieved(r, focus, 0)
      /\ Holds(r, "loss") => Holds(inbox, "loss")
      /\ Holds(r, "playSong")
  BY <1>1, <1>3, SkipMessages
<1>5. Starts' /\ PausingIsWanted'
  BY <1>2, <1>4 DEF Starts, PausingIsWanted
<1>6. ASSUME LossesPass PROVE LossesPass'
  BY <1>2, <1>4, <1>6 DEF LossesPass
<1> QED BY <1>2, <1>5, <1>6 DEF ResumeInv, Resumes

LEMMA ResumesTake ==
    ASSUME ResumeInv, Take
    PROVE  PausingIsWanted' /\ Resumes'
<1>1. PICK m, r : m = Head(inbox) /\ r = Tail(inbox)
  OBVIOUS
<1>2. /\ handler = "idle" /\ inbox # <<>> /\ handler' = Handling[m] /\ inbox' = r
      /\ isPlaying' = (isPlaying /\ m # "playSong")
      /\ UNCHANGED <<pausedByTransientLossOfFocus, focus, main, wasPlaying, wanted, overtaken>>
  BY <1>1 DEF Take
<1>3. inbox \in Seq(Messages) /\ m \in Messages
  BY <1>1, <1>2, NewMessages DEF ResumeInv, TypeOK, PlayerOK, Messages
<1>4. PausingIsWanted'
  BY <1>2 DEF ResumeInv, PausingIsWanted
<1>5. ASSUME ~overtaken, focus # "loss"
      PROVE  LossesPass' /\ (wanted = "play" => Starts' \/ Playing' \/ Remembered')
  <2>1. LossesPass /\ (wanted = "play" => Starts \/ Playing \/ Remembered)
    BY <1>5 DEF ResumeInv, Resumes
  <2>2. AreRelieved(inbox, focus)
    BY <2>1 DEF LossesPass
  <2>3. /\ AreRelieved(r, focus)
        /\ m = "transient" => IsRelieved(r, focus, 0)
        /\ IsRelieved(inbox, focus, 0) => m # "transient"
        /\ Holds(r, "loss") => Holds(inbox, "loss")
        /\ Holds(inbox, "playSong") => Holds(r, "playSong") \/ m = "playSong"
        /\ Holds(inbox, m)
    BY <1>1, <1>2, <1>3, <2>2, TailMessages
  <2>4. m \in {"transient", "gain", "playSong"}
    BY <1>3, <2>1, <2>3 DEF LossesPass, Messages
  <2>5. handler' = IF m = "transient" THEN "transient" ELSE IF m = "gain" THEN "gain" ELSE "play"
    BY <1>2, <2>4 DEF Handling
  <2>6. LossesPass'
    BY <1>2, <2>1, <2>3, <2>4, <2>5 DEF LossesPass
  <2>7. ASSUME wanted = "play" PROVE Starts' \/ Playing' \/ Remembered'
    <3>1. CASE m = "playSong"
      BY <2>5, <3>1 DEF Starts
    <3>2. CASE Starts /\ m # "playSong"
      BY <1>2, <2>3, <3>2 DEF Starts
    <3>3. CASE Playing /\ m # "playSong"
      BY <1>2, <2>4, <2>5, <3>3 DEF Playing
    <3>4. CASE Remembered /\ m # "playSong"
      <4>1. pausedByTransientLossOfFocus /\ IsRelieved(inbox, focus, 0)
        BY <1>2, <3>4 DEF Remembered
      <4>2. m = "gain"
        BY <2>3, <2>4, <3>4, <4>1
      <4> QED BY <1>2, <2>5, <4>1, <4>2 DEF Remembered
    <3> QED BY <2>1, <2>7, <3>1, <3>2, <3>3, <3>4
  <2> QED BY <2>6, <2>7
<1> QED BY <1>2, <1>4, <1>5 DEF Resumes

LEMMA ResumesFocusChange ==
    ASSUME ResumeInv, FocusChange
    PROVE  PausingIsWanted' /\ Resumes'
<1>0. PICK m \in Changes[focus] : /\ inbox' = Append(inbox, m)
                                  /\ focus' = IF m = "gain" THEN "held" ELSE m
  BY DEF FocusChange
<1>1. PICK r : /\ r = Append(inbox, m) /\ inbox' = r
               /\ focus' = IF m = "gain" THEN "held" ELSE m
  BY <1>0
<1>2. /\ focus \in {"held", "transient"}
      /\ UNCHANGED <<player, main, handler, wasPlaying, history>>
  BY DEF FocusChange, Changes
<1>3. m = "loss" \/ Passing(focus, m, focus')
  BY <1>1, <1>2 DEF Changes, Losses, Passing
<1>4. PausingIsWanted'
  BY <1>2 DEF ResumeInv, PausingIsWanted, history
<1>5. CASE m = "loss"
  BY <1>1, <1>4, <1>5 DEF Resumes
<1>6. CASE Passing(focus, m, focus') /\ m # "loss"
  <2>1. inbox \in Seq(Messages) /\ m \in Messages
    BY <1>6 DEF ResumeInv, TypeOK, PlayerOK, Messages, Passing
  <2>2. PICK g : g = focus'
    OBVIOUS
  <2>3. /\ AreRelieved(inbox, focus) => AreRelieved(r, g)
        /\ IsRelieved(inbox, focus, 0) => IsRelieved(r, g, 0)
        /\ Holds(inbox, "playSong") => Holds(r, "playSong")
        /\ Holds(r, "loss") => Holds(inbox, "loss")
    BY <1>1, <1>6, <2>1, <2>2, AppendMessages
  <2>4. focus # "loss" /\ (LossesPass => LossesPass')
    BY <1>1, <1>2, <2>2, <2>3 DEF LossesPass
  <2>5. /\ Starts => Starts'
        /\ Playing => Playing'
        /\ Remembered => Remembered'
    BY <1>1, <1>2, <2>2, <2>3 DEF Starts, Playing, Remembered, player
  <2> QED BY <1>2, <1>4, <2>4, <2>5 DEF ResumeInv, Resumes, history
<1> QED BY <1>3, <1>5, <1>6

LEMMA ResumesHandler ==
    ASSUME ResumeInv,
           ReadPlaying \/ ClearFlag \/ PauseForLoss \/ SetFlag \/ Gain \/ Forget
    PROVE  PausingIsWanted' /\ Resumes'
<1>1. SameMessages /\ UNCHANGED <<main, history>>
  BY DEF ReadPlaying, ClearFlag, PauseForLoss, SetFlag, Gain, Forget, SameMessages
<1>2. PausingIsWanted'
  BY <1>1 DEF ResumeInv, PausingIsWanted, history
<1>3. ASSUME ~overtaken, focus # "loss"
      PROVE  LossesPass' /\ (wanted = "play" => Starts' \/ Playing' \/ Remembered')
  <2>0. LossesPass /\ (wanted = "play" => Starts \/ Playing \/ Remembered)
    BY <1>3 DEF ResumeInv, Resumes
  <2>1. CASE ReadPlaying
    BY <1>1, <2>0, <2>1, RelievedStays
       DEF ReadPlaying, LossesPass, Starts, Playing, Remembered, player
  <2>2. CASE ClearFlag
    BY <1>1, <2>0, <2>2, RelievedStays DEF ClearFlag, LossesPass, Starts, Playing, Remembered
  <2>3. CASE PauseForLoss
    BY <1>1, <2>0, <2>3, RelievedStays DEF PauseForLoss, LossesPass, Starts, Playing, Remembered
  <2>4. CASE SetFlag
    BY <1>1, <2>0, <2>4, RelievedStays
       DEF SetFlag, Resuming, LossesPass, Starts, Playing, Remembered
  <2>5. CASE Gain
    BY <1>1, <2>0, <2>5, RelievedStays DEF Gain, LossesPass, Starts, Playing, Remembered, player
  <2>6. CASE Forget
    BY <1>1, <2>0, <2>6, RelievedStays DEF Forget, LossesPass, Starts, Playing, Remembered
  <2> QED BY <2>1, <2>2, <2>3, <2>4, <2>5, <2>6
<1> QED BY <1>1, <1>2, <1>3 DEF Resumes, SameMessages, history

LEMMA ResumesHandlerPlay ==
    ASSUME ResumeInv, HandlerPlay
    PROVE  PausingIsWanted' /\ Resumes'
<1>1. /\ UNCHANGED <<inbox, main, pausedByTransientLossOfFocus, wasPlaying>>
      /\ handler \in {"resume", "play"} /\ handler' \in {"idle", "forget"}
  BY DEF HandlerPlay
<1>2. CASE RequestFocus /\ isPlaying' = TRUE /\ UNCHANGED wanted
  <2>1. ~overtaken' => LossesPass'
    BY <1>1, <1>2, RequestRelieves
  <2>2. Playing'
    BY <1>1, <1>2 DEF Playing
  <2>3. PausingIsWanted'
    BY <1>1, <1>2 DEF ResumeInv, PausingIsWanted
  <2> QED BY <2>1, <2>2, <2>3 DEF Resumes
<1>3. CASE /\ wanted' = IF wanted = "play" THEN "denied" ELSE wanted
           /\ UNCHANGED <<focus, overtaken>>
  <2>1. SameMessages
    BY <1>1, <1>3 DEF SameMessages
  <2>2. wanted' # "play" /\ (wanted = "pause" => wanted' = "pause")
    BY <1>3
  <2>3. LossesPass => LossesPass'
    BY <1>1, <2>1, RelievedStays DEF LossesPass
  <2> QED BY <1>1, <1>3, <2>2, <2>3 DEF ResumeInv, Resumes, PausingIsWanted
<1> QED BY <1>2, <1>3 DEF HandlerPlay

LEMMA ResumesStep == ResumeInv /\ [Next]_vars => ResumeInv'
<1> SUFFICES ASSUME ResumeInv, [Next]_vars PROVE PausingIsWanted' /\ Resumes'
  BY TypeStep DEF ResumeInv
<1>1. CASE UNCHANGED vars
  BY <1>1, ResumesReceiver DEF vars, player, history
<1>2. CASE Tick \/ Click \/ handleIntent \/ handleMessage
  <2>1. UNCHANGED <<player, focus, inbox, handler, wasPlaying, history>>
    BY <1>2 DEF Tick, Click, handleIntent, handleMessage
  <2>2. main' = main \/ (main = "idle" /\ main' \in {"toggle", "skip", "rewind"})
    BY <1>2, ReceiverCommands DEF ResumeInv, TypeOK
  <2> QED BY <2>1, <2>2, ResumesReceiver
<1>3. CASE PlayerStep
  BY <1>3, ResumesCommands, ResumesPlay, ResumesSkip, ResumesTake, ResumesHandler,
     ResumesHandlerPlay, ResumesFocusChange DEF PlayerStep, Handler
<1> QED BY <1>1, <1>2, <1>3, StepCases

(* A transient loss passes: once everything is handled and the focus held,   *)
(* what was to play plays, unless the focus was requested again, or the      *)
(* player started, with a loss of it still to be handled (PlaybackHandler's  *)
(* FOCUS_CHANGE, MusicService.play).                                         *)
THEOREM PlaybackAlwaysResumes == Spec => []PlaybackResumes
<1>1. Init => ResumeInv
  <2> SUFFICES ASSUME Init PROVE ResumeInv
    OBVIOUS
  <2>1. /\ inbox = <<>> /\ handler = "idle" /\ wanted = "pause"
    BY DEF Init
  <2>2. LossesPass
    BY <2>1, EmptyHolds, NoTransients DEF LossesPass
  <2> QED BY <2>1, <2>2, ClicksInit, PlayerInit DEF ResumeInv, TypeOK, PausingIsWanted, Resumes
<1>2. ResumeInv => PlaybackResumes
  <2> SUFFICES ASSUME ResumeInv, Quiet, wanted = "play", focus = "held", ~overtaken
               PROVE  isPlaying
    BY DEF PlaybackResumes
  <2>1. inbox = <<>> /\ handler = "idle" /\ main = "idle"
    BY DEF Quiet
  <2>2. ~Starts
    BY <2>1, EmptyHolds DEF Starts
  <2>3. ~IsRelieved(inbox, focus, 0)
    <3>1. Len(<<>>) = 0
      OBVIOUS
    <3> QED BY <2>1, <3>1 DEF IsRelieved, GainAfter
  <2> QED BY <2>1, <2>2, <2>3 DEF ResumeInv, Resumes, Playing, Remembered
<1> QED BY <1>1, <1>2, ResumesStep, PTL DEF Spec

=============================================================================
