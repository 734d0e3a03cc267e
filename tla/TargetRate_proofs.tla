------------------------- MODULE TargetRate_proofs -------------------------
(***************************************************************************)
(* Proofs about TargetRate, for any songs, tempos and targets: what        *)
(* rounding to the nearest multiple gives, type correctness, and the two   *)
(* invariants about the speed at which a song plays.                       *)
(***************************************************************************)
EXTENDS TargetRate, TLAPS

-----------------------------------------------------------------------------
(* The multiple of the target.                                              *)

LEMMA DivisionByPositive ==
    ASSUME NEW a \in Nat, NEW d \in Nat \ {0}
    PROVE  /\ a \div d \in Nat
           /\ d * (a \div d) <= a
           /\ a < d * (a \div d) + d
  BY SMT

LEMMA MultipleType ==
    ASSUME NEW b \in Nat, NEW t \in Nat
    PROVE  /\ Multiple(b, t) \in Nat
           /\ t * Multiple(b, t) \in Nat
<1>1. Multiple(b, t) \in Nat
  <2>1. CASE t = 0
    BY <2>1 DEF Multiple
  <2>2. CASE t # 0
    <3>1. 2 * b + t \in Nat /\ 2 * t \in Nat \ {0}
      BY <2>2
    <3> QED
      BY <3>1, <2>2, DivisionByPositive DEF Multiple
  <2> QED BY <2>1, <2>2
<1> QED BY <1>1

LEMMA NearestMultiple ==
    ASSUME NEW b \in Nat \ {0}, NEW t \in Nat
    PROVE  \/ t * Multiple(b, t) = 0
           \/ NearOne(<<t * Multiple(b, t), b>>)
<1>1. CASE t = 0
  BY <1>1, MultipleType
<1>2. CASE t # 0
  <2> DEFINE k == Multiple(b, t)
             m == t * k
  <2>1. k \in Nat /\ m \in Nat
    BY MultipleType
  <2>2. 2 * m <= 2 * b + t /\ 2 * b + t < 2 * m + 2 * t
    <3>1. 2 * b + t \in Nat /\ 2 * t \in Nat \ {0}
      BY <1>2
    <3>2. (2 * t) * k <= 2 * b + t /\ 2 * b + t < (2 * t) * k + 2 * t
      BY <3>1, <1>2, DivisionByPositive DEF Multiple
    <3>3. (2 * t) * k = 2 * m
      BY <2>1
    <3> QED BY <3>2, <3>3
  <2>3. CASE k = 0
    BY <2>3
  <2>4. CASE k # 0
    <3>1. m >= t
      BY <2>1, <2>4
    <3> HIDE DEF m
    <3>2. 3 * m > 2 * b /\ m <= 2 * b
      BY <2>1, <2>2, <3>1
    <3>3. NearOne(<<m, b>>)
      BY <3>2 DEF NearOne
    <3> QED BY <3>3 DEF m
  <2> QED BY <2>3, <2>4
<1> QED BY <1>1, <1>2

LEMMA TimesMore ==
    ASSUME NEW a \in Nat, NEW x \in Nat, NEW y \in Nat, x <= y
    PROVE  a * x <= a * y
<1>1. PICK c \in Nat : y = x + c
  BY y - x \in Nat
<1>2. a * y = a * x + a * c /\ a * c \in Nat /\ a * x \in Nat
  BY <1>1
<1> QED BY <1>2

(* A multiple taken of one target and counted in another. *)
LEMMA RoundedMultiple ==
    ASSUME NEW b \in Nat \ {0}, NEW t \in Nat \ {0}, NEW a \in Nat
    PROVE  Rounded(<<a * Multiple(b, t), b>>, a, t)
<1> DEFINE k == Multiple(b, t)
           m == 2 * (t * k)
<1>1. k \in Nat /\ t * k \in Nat /\ m \in Nat
  BY MultipleType
<1>2. m <= 2 * b + t /\ 2 * b <= m + t
  <2>1. 2 * b + t \in Nat /\ 2 * t \in Nat \ {0}
    OBVIOUS
  <2>2. (2 * t) * k <= 2 * b + t /\ 2 * b + t < (2 * t) * k + 2 * t
    BY <2>1, DivisionByPositive DEF Multiple
  <2>3. (2 * t) * k = m
    BY <1>1
  <2> QED BY <1>1, <2>2, <2>3
<1>3. 2 * t * (a * k) = a * m
  BY <1>1
<1> HIDE DEF k, m
<1>4. a * m <= a * (2 * b + t)
  BY <1>1, <1>2, TimesMore
<1>5. a * (2 * b) <= a * (m + t)
  BY <1>1, <1>2, TimesMore
<1>6. a * (m + t) = a * m + a * t
  BY <1>1
<1> QED BY <1>3, <1>4, <1>5, <1>6 DEF Rounded, k

-----------------------------------------------------------------------------
(* TypeOK, one lemma per action.                                            *)

LEMMA SpeedsAreFractions ==
    ASSUME NEW v \in Speeds
    PROVE  v[1] \in Nat /\ v[2] \in Nat \ {0}
<1>1. CASE v = Normal
  BY <1>1 DEF Normal
<1>2. CASE v \in Nat \X Tempos
  BY <1>2, TempoAssumption
<1> QED BY <1>1, <1>2 DEF Speeds

LEMMA NormalIsASpeed == Normal \in Speeds
  BY DEF Speeds

LEMMA FractionsAreSpeeds ==
    ASSUME NEW m \in Nat, NEW b \in Tempos
    PROVE  <<m, b>> \in Speeds
  BY DEF Speeds

LEMMA TypeInit == Init => TypeOK
<1> SUFFICES ASSUME Init PROVE TypeOK
  OBVIOUS
<1>1. Normal \in Speeds /\ "idle" \in Labels
  BY DEF Speeds, Labels
<1>2. DataOK
  BY <1>1 DEF Init, DataOK
<1>3. FlagsOK /\ (isPlaying => track # NoSong)
  BY DEF Init, FlagsOK
<1>4. ThreadsOK
  BY <1>1 DEF Init, ThreadsOK
<1>5. ReadsOK
  BY DEF Init, ReadsOK
<1> QED BY <1>2, <1>3, <1>4, <1>5 DEF TypeOK

LEMMA ThreadsKept ==
    ASSUME TypeOK, UNCHANGED <<pc, reading, setting, tempo>>
    PROVE  ThreadsOK' /\ ReadsOK'
  BY DEF TypeOK, ThreadsOK, ReadsOK

LEMMA TypeReadTarget ==
    ASSUME TypeOK, NEW t \in Threads, ReadTarget(t)
    PROVE  TypeOK'
<1>1. DataOK'
  BY SpeedsAreFractions DEF TypeOK, DataOK, FlagsOK, ThreadsOK, ReadTarget, target, player,
     messages, Normal, Speeds
<1>2. FlagsOK'
  BY DEF TypeOK, FlagsOK, ReadTarget, target, player, messages
<1>3. ThreadsOK'
  BY DEF TypeOK, ThreadsOK, Labels, Threads, Speeds, ReadTarget, target, Goto, AfterRead
<1>4. ReadsOK'
  <2>1. song \in Song /\ tempo[song] # Unknown /\ targetBeat \in Targets \cup {0}
    BY DEF TypeOK, DataOK, ReadTarget, Stretched
  <2>2. /\ reading' = [reading EXCEPT ![t] = <<song, targetBeat>>] /\ tempo' = tempo
        /\ pc' = [pc EXCEPT ![t] = AfterRead[pc[t]]]
        /\ pc[t] \in {"target", "open", "play"}
    BY DEF ReadTarget, Goto, AfterRead
  <2>3. AfterRead[pc[t]] \in {"targetRead", "openRead", "playRead"}
    BY <2>2 DEF AfterRead
  <2>4. <<song, targetBeat>> \in Reads
    BY <2>1 DEF Reads
  <2>5. reading' \in [Threads -> Reads \cup {None}]
    BY <2>2, <2>4 DEF TypeOK, ReadsOK
  <2>6. \A u \in Threads :
            IF pc'[u] \in {"targetRead", "openRead", "playRead"}
            THEN reading'[u] \in Reads /\ tempo'[reading'[u][1]] # Unknown
            ELSE reading'[u] = None
    BY <2>1, <2>2, <2>3, <2>4 DEF TypeOK, ThreadsOK, ReadsOK
  <2> QED BY <2>5, <2>6 DEF ReadsOK
<1>5. isPlaying' => track' # NoSong
  BY DEF TypeOK, ReadTarget, player
<1> QED BY <1>1, <1>2, <1>3, <1>4, <1>5 DEF TypeOK

LEMMA TypeCompute ==
    ASSUME TypeOK, NEW t \in Threads, Compute(t)
    PROVE  TypeOK'
<1>1. DataOK'
  BY SpeedsAreFractions DEF TypeOK, DataOK, FlagsOK, ThreadsOK, Compute, target, player,
     messages, Normal, Speeds
<1>2. FlagsOK'
  BY DEF TypeOK, FlagsOK, Compute, target, player, messages, history
<1>3. ThreadsOK'
  <2>1. /\ pc[t] \in {"targetRead", "openRead", "playRead"}
        /\ AfterCompute[pc[t]] \in Labels
    BY DEF Compute, AfterRead, AfterCompute, Labels
  <2>2. /\ reading[t][1] \in Song /\ reading[t][2] \in Targets \cup {0}
        /\ tempo[reading[t][1]] # Unknown
    BY <2>1 DEF TypeOK, ReadsOK, Reads
  <2>3. /\ tempo[reading[t][1]] \in Tempos /\ tempo[reading[t][1]] \in Nat
        /\ reading[t][2] \in Nat /\ targetBeat \in Nat
    <3>1. /\ tempo \in [Song -> Tempos \cup {Unknown}] /\ targetBeat \in Targets \cup {0}
      BY DEF TypeOK, DataOK
    <3>2. tempo[reading[t][1]] \in Tempos
      BY <2>2, <3>1
    <3>3. \A b \in Targets \cup {0} : b \in Nat
      BY TargetAssumption
    <3>4. \A b \in Tempos : b \in Nat
      BY TempoAssumption
    <3> QED BY <2>2, <3>1, <3>2, <3>3, <3>4
  <2>4. reading[t][2] * Multiple(tempo[reading[t][1]], targetBeat) \in Nat
    <3>1. Multiple(tempo[reading[t][1]], targetBeat) \in Nat
      BY <2>3, MultipleType
    <3> QED BY <2>3, <3>1
  <2>5. <<reading[t][2] * Multiple(tempo[reading[t][1]], targetBeat), tempo[reading[t][1]]>>
            \in Speeds
    BY <2>3, <2>4, FractionsAreSpeeds
  <2>6. setting' \in [Threads -> Speeds]
    BY <2>5 DEF TypeOK, ThreadsOK, Compute
  <2>7. pc' \in [Threads -> Labels]
    BY <2>1 DEF TypeOK, ThreadsOK, Compute, Goto
  <2> QED BY <2>6, <2>7 DEF ThreadsOK
<1>4. ReadsOK'
  <2>1. /\ reading' = [reading EXCEPT ![t] = None] /\ tempo' = tempo
        /\ pc' = [pc EXCEPT ![t] = AfterCompute[pc[t]]]
        /\ AfterCompute[pc[t]] \notin {"targetRead", "openRead", "playRead"}
    BY DEF Compute, Goto, AfterRead, AfterCompute
  <2>2. reading' \in [Threads -> Reads \cup {None}]
    BY <2>1 DEF TypeOK, ReadsOK
  <2> QED BY <2>1, <2>2 DEF TypeOK, ThreadsOK, ReadsOK
<1>5. isPlaying' => track' # NoSong
  BY DEF TypeOK, Compute, player
<1> QED BY <1>1, <1>2, <1>3, <1>4, <1>5 DEF TypeOK

LEMMA TypeKeepNormal ==
    ASSUME TypeOK, NEW t \in Threads, KeepNormal(t)
    PROVE  TypeOK'
<1>1. DataOK'
  BY SpeedsAreFractions DEF TypeOK, DataOK, FlagsOK, ThreadsOK, KeepNormal, target, player,
     messages, Normal, Speeds
<1>2. FlagsOK'
  BY DEF TypeOK, FlagsOK, KeepNormal, target, player, messages
<1>3. ThreadsOK'
  BY DEF TypeOK, ThreadsOK, Labels, Threads, Speeds, KeepNormal, target, Goto, AfterRead,
     AfterCompute
<1>4. ReadsOK'
  BY DEF TypeOK, DataOK, ThreadsOK, ReadsOK, Threads, KeepNormal, Goto, AfterRead,
     AfterCompute, Stretched, Unknown, Reads
<1>5. isPlaying' => track' # NoSong
  BY DEF TypeOK, KeepNormal, player
<1> QED BY <1>1, <1>2, <1>3, <1>4, <1>5 DEF TypeOK

LEMMA TypePlay ==
    ASSUME TypeOK, NEW t \in Threads, Play(t)
    PROVE  TypeOK'
<1>1. DataOK'
  <2>1. asked' = asked \/ asked' = <<song, TRUE>>
    BY DEF Play
  <2>2. song \in Song \cup {NoSong} /\ asked \in ((Song \cup {NoSong}) \X BOOLEAN) \cup {None}
    BY DEF TypeOK, DataOK
  <2>3. <<song, TRUE>> \in (Song \cup {NoSong}) \X BOOLEAN
    BY <2>2
  <2>4. asked' \in ((Song \cup {NoSong}) \X BOOLEAN) \cup {None}
    BY <2>1, <2>2, <2>3
  <2> QED BY <2>4 DEF TypeOK, DataOK, Play, target, player
<1>2. FlagsOK'
  BY DEF TypeOK, FlagsOK, Play, target, player, Begin
<1>3. ThreadsOK'
  BY DEF TypeOK, ThreadsOK, Labels, Threads, Speeds, Play, target, Goto, Begin, Idle
<1>4. ReadsOK'
  BY DEF TypeOK, DataOK, ThreadsOK, ReadsOK, Threads, Play, Goto, Begin, Idle, Unknown,
     Reads
<1>5. isPlaying' => track' # NoSong
  BY DEF TypeOK, Play, player
<1> QED BY <1>1, <1>2, <1>3, <1>4, <1>5 DEF TypeOK

LEMMA TypeStoreSpeed ==
    ASSUME TypeOK, NEW t \in Threads, StoreSpeed(t)
    PROVE  TypeOK'
<1>1. DataOK'
  BY SpeedsAreFractions DEF TypeOK, DataOK, FlagsOK, ThreadsOK, StoreSpeed, SetSpeed,
     target, messages, Normal, Speeds
<1>2. FlagsOK'
  BY DEF TypeOK, FlagsOK, StoreSpeed, SetSpeed, target, messages, history
<1>3. ThreadsOK'
  BY DEF TypeOK, ThreadsOK, Labels, Threads, Speeds, StoreSpeed, target, Goto
<1>4. ReadsOK'
  BY DEF TypeOK, DataOK, ThreadsOK, ReadsOK, Threads, StoreSpeed, Goto, Unknown, Reads
<1>5. isPlaying' => track' # NoSong
  BY DEF TypeOK, StoreSpeed, SetSpeed
<1> QED BY <1>1, <1>2, <1>3, <1>4, <1>5 DEF TypeOK

LEMMA TypeStart ==
    ASSUME TypeOK, NEW t \in Threads, Start(t)
    PROVE  TypeOK'
<1>1. DataOK'
  BY SpeedsAreFractions DEF TypeOK, DataOK, FlagsOK, ThreadsOK, Start, target, messages,
     Normal, Speeds
<1>2. FlagsOK'
  BY DEF TypeOK, FlagsOK, Start, target, messages, history
<1>3. ThreadsOK'
  BY DEF TypeOK, ThreadsOK, Labels, Threads, Speeds, Start, target, Goto
<1>4. ReadsOK'
  BY DEF TypeOK, DataOK, ThreadsOK, ReadsOK, Threads, Start, Goto, Unknown, Reads
<1>5. isPlaying' => track' # NoSong
  BY DEF TypeOK, Start
<1> QED BY <1>1, <1>2, <1>3, <1>4, <1>5 DEF TypeOK

LEMMA TypeSetTargetBeat ==
    ASSUME TypeOK, NEW on \in BOOLEAN, NEW b \in Targets \cup {0}, SetTargetBeat(on, b)
    PROVE  TypeOK'
<1>1. DataOK'
  BY SpeedsAreFractions DEF TypeOK, DataOK, FlagsOK, ThreadsOK, SetTargetBeat, player,
     messages, Normal, Speeds, Begin
<1>2. FlagsOK'
  BY DEF TypeOK, FlagsOK, SetTargetBeat, player, messages, Begin
<1>3. ThreadsOK'
  BY DEF TypeOK, ThreadsOK, Labels, Threads, Speeds, SetTargetBeat, target, Goto, Begin,
     Idle
<1>4. ReadsOK'
  BY DEF TypeOK, DataOK, ThreadsOK, ReadsOK, Threads, SetTargetBeat, Goto, Begin, Idle,
     Unknown, Reads
<1>5. isPlaying' => track' # NoSong
  BY DEF TypeOK, SetTargetBeat, player
<1> QED BY <1>1, <1>2, <1>3, <1>4, <1>5 DEF TypeOK

LEMMA TypeWriteTargetBeat ==
    ASSUME TypeOK, WriteTargetBeat
    PROVE  TypeOK'
<1>1. DataOK'
  BY SpeedsAreFractions DEF TypeOK, DataOK, FlagsOK, ThreadsOK, WriteTargetBeat, target,
     player, messages, Normal, Speeds
<1>2. FlagsOK'
  BY DEF TypeOK, FlagsOK, WriteTargetBeat, target, player, messages, history
<1>3. ThreadsOK'
  BY DEF TypeOK, ThreadsOK, Labels, Threads, Speeds, WriteTargetBeat, target, Goto
<1>4. ReadsOK'
  BY DEF TypeOK, DataOK, ThreadsOK, ReadsOK, Threads, WriteTargetBeat, Goto, Unknown, Reads
<1>5. isPlaying' => track' # NoSong
  BY DEF TypeOK, WriteTargetBeat, player
<1> QED BY <1>1, <1>2, <1>3, <1>4, <1>5 DEF TypeOK

LEMMA TypeApplyTarget ==
    ASSUME TypeOK, ApplyTarget
    PROVE  TypeOK'
<1>1. DataOK'
  <2>1. setting["main"] \in Speeds
    BY DEF TypeOK, ThreadsOK, Threads
  <2> QED BY <2>1 DEF TypeOK, DataOK, ApplyTarget, SetSpeed, target, messages, history
<1>2. FlagsOK'
  BY DEF TypeOK, FlagsOK, ApplyTarget, SetSpeed, target, messages, history
<1>3. ThreadsOK'
  BY DEF TypeOK, ThreadsOK, Labels, Threads, Speeds, ApplyTarget, target, Goto
<1>4. ReadsOK'
  BY DEF TypeOK, DataOK, ThreadsOK, ReadsOK, Threads, ApplyTarget, Goto, Unknown, Reads
<1>5. isPlaying' => track' # NoSong
  BY DEF TypeOK, ApplyTarget, SetSpeed
<1> QED BY <1>1, <1>2, <1>3, <1>4, <1>5 DEF TypeOK

LEMMA TypeAsk ==
    ASSUME TypeOK, NEW s \in Song, NEW start \in BOOLEAN, Ask(s, start)
    PROVE  TypeOK'
<1>1. DataOK'
  BY SpeedsAreFractions DEF TypeOK, DataOK, FlagsOK, ThreadsOK, Ask, target, player, thread,
     Normal, Speeds
<1>2. FlagsOK'
  BY DEF TypeOK, FlagsOK, Ask, target, player, history
<1>3. ThreadsOK' /\ ReadsOK'
  BY ThreadsKept DEF Ask, thread
<1>4. isPlaying' => track' # NoSong
  BY DEF TypeOK, Ask, player
<1> QED BY <1>1, <1>2, <1>3, <1>4 DEF TypeOK

LEMMA TypePause ==
    ASSUME TypeOK, Pause
    PROVE  TypeOK'
<1>1. DataOK'
  BY SpeedsAreFractions DEF TypeOK, DataOK, FlagsOK, ThreadsOK, Pause, target, messages,
     thread, Normal, Speeds
<1>2. FlagsOK'
  BY DEF TypeOK, FlagsOK, Pause, target, messages, history
<1>3. ThreadsOK' /\ ReadsOK'
  BY ThreadsKept DEF Pause, thread
<1>4. isPlaying' => track' # NoSong
  BY DEF TypeOK, Pause
<1> QED BY <1>1, <1>2, <1>3, <1>4 DEF TypeOK

LEMMA TypeOpen ==
    ASSUME TypeOK, Open
    PROVE  TypeOK'
<1>1. DataOK'
  BY SpeedsAreFractions DEF TypeOK, DataOK, FlagsOK, ThreadsOK, Open, target, Normal,
     Speeds, Begin
<1>2. FlagsOK'
  <2>1. asked[2] \in BOOLEAN
    BY DEF TypeOK, DataOK, Open
  <2>2. overlap' \in BOOLEAN
    BY DEF TypeOK, FlagsOK, Open, Begin
  <2> QED BY <2>1, <2>2 DEF TypeOK, FlagsOK, Open, target
<1>3. ThreadsOK'
  BY DEF TypeOK, ThreadsOK, Labels, Threads, Speeds, Open, target, Goto, Begin, Idle
<1>4. ReadsOK'
  BY DEF TypeOK, DataOK, ThreadsOK, ReadsOK, Threads, Open, Goto, Begin, Idle, Unknown,
     Reads
<1>5. isPlaying' => track' # NoSong
  BY DEF TypeOK, Open
<1> QED BY <1>1, <1>2, <1>3, <1>4, <1>5 DEF TypeOK

LEMMA TypeFinishOpen ==
    ASSUME TypeOK, FinishOpen
    PROVE  TypeOK'
<1>1. DataOK'
  <2>1. setting["handler"] \in Speeds
    BY DEF TypeOK, ThreadsOK, Threads
  <2> QED BY <2>1 DEF TypeOK, DataOK, FinishOpen, SetSpeed, target, messages, history
<1>2. FlagsOK'
  BY DEF TypeOK, FlagsOK, FinishOpen, SetSpeed, target, messages, history
<1>3. ThreadsOK'
  BY DEF TypeOK, ThreadsOK, Labels, Threads, Speeds, FinishOpen, target, Goto
<1>4. ReadsOK'
  BY DEF TypeOK, DataOK, ThreadsOK, ReadsOK, Threads, FinishOpen, Goto, Unknown, Reads
<1>5. isPlaying' => track' # NoSong
  BY DEF TypeOK, FinishOpen, SetSpeed
<1> QED BY <1>1, <1>2, <1>3, <1>4, <1>5 DEF TypeOK

LEMMA TypeHandlePrepareNext ==
    ASSUME TypeOK, HandlePrepareNext
    PROVE  TypeOK'
<1>1. DataOK'
  BY SpeedsAreFractions DEF TypeOK, DataOK, FlagsOK, ThreadsOK, HandlePrepareNext, target,
     messages, thread, Normal, Speeds
<1>2. FlagsOK'
  BY DEF TypeOK, FlagsOK, HandlePrepareNext, target, messages, history
<1>3. ThreadsOK' /\ ReadsOK'
  BY ThreadsKept DEF HandlePrepareNext, thread
<1>4. isPlaying' => track' # NoSong
  BY DEF TypeOK, HandlePrepareNext
<1> QED BY <1>1, <1>2, <1>3, <1>4 DEF TypeOK

LEMMA TypeHandleTrackWentToNext ==
    ASSUME TypeOK, HandleTrackWentToNext
    PROVE  TypeOK'
<1>1. DataOK'
  BY SpeedsAreFractions DEF TypeOK, DataOK, FlagsOK, ThreadsOK, HandleTrackWentToNext,
     target, thread, Normal, Speeds
<1>2. FlagsOK'
  BY DEF TypeOK, FlagsOK, HandleTrackWentToNext, target, history
<1>3. ThreadsOK' /\ ReadsOK'
  BY ThreadsKept DEF HandleTrackWentToNext, thread
<1>4. isPlaying' => track' # NoSong
  BY DEF TypeOK, HandleTrackWentToNext
<1> QED BY <1>1, <1>2, <1>3, <1>4 DEF TypeOK

LEMMA TypeComplete ==
    ASSUME TypeOK, Complete
    PROVE  TypeOK'
<1>1. DataOK'
  <2>1. asked' = asked \/ \E s \in Song : asked' = <<s, TRUE>>
    BY DEF Complete
  <2>2. asked' \in ((Song \cup {NoSong}) \X BOOLEAN) \cup {None}
    <3>1. asked \in ((Song \cup {NoSong}) \X BOOLEAN) \cup {None}
      BY DEF TypeOK, DataOK
    <3>2. \A s \in Song : <<s, TRUE>> \in (Song \cup {NoSong}) \X BOOLEAN
      OBVIOUS
    <3> QED BY <2>1, <3>1, <3>2
  <2>3. speed' \in Speeds
    BY NormalIsASpeed DEF TypeOK, DataOK, Complete
  <2> QED BY <2>2, <2>3 DEF TypeOK, DataOK, Complete, target, thread
<1>2. FlagsOK'
  BY DEF TypeOK, FlagsOK, Complete, target
<1>3. ThreadsOK' /\ ReadsOK'
  BY ThreadsKept DEF Complete, thread
<1>4. isPlaying' => track' # NoSong
  BY DEF TypeOK, Complete
<1> QED BY <1>1, <1>2, <1>3, <1>4 DEF TypeOK

LEMMA TypeonError ==
    ASSUME TypeOK, onError
    PROVE  TypeOK'
<1>1. DataOK'
  <2>1. asked' = asked \/ \E s \in Song : asked' = <<s, TRUE>>
    BY DEF onError
  <2>2. asked' \in ((Song \cup {NoSong}) \X BOOLEAN) \cup {None}
    <3>1. asked \in ((Song \cup {NoSong}) \X BOOLEAN) \cup {None}
      BY DEF TypeOK, DataOK
    <3>2. \A s \in Song : <<s, TRUE>> \in (Song \cup {NoSong}) \X BOOLEAN
      OBVIOUS
    <3> QED BY <2>1, <3>1, <3>2
  <2>3. speed' \in Speeds
    BY NormalIsASpeed DEF TypeOK, DataOK, onError
  <2> QED BY <2>2, <2>3 DEF TypeOK, DataOK, onError, target, thread
<1>2. FlagsOK'
  BY DEF TypeOK, FlagsOK, onError, target
<1>3. ThreadsOK' /\ ReadsOK'
  BY ThreadsKept DEF onError, thread
<1>4. isPlaying' => track' # NoSong
  BY DEF TypeOK, onError
<1> QED BY <1>1, <1>2, <1>3, <1>4 DEF TypeOK

LEMMA TypeLearn ==
    ASSUME TypeOK, NEW s \in Song, NEW bpm \in Tempos, Learn(s, bpm)
    PROVE  TypeOK'
<1>1. DataOK'
  BY SpeedsAreFractions DEF TypeOK, DataOK, FlagsOK, ThreadsOK, Learn, target, player,
     messages, thread, Normal, Speeds
<1>2. FlagsOK'
  BY DEF TypeOK, FlagsOK, Learn, target, player, messages
<1>3. ThreadsOK'
  BY DEF TypeOK, ThreadsOK, Labels, Threads, Speeds, Learn, target, thread
<1>4. ReadsOK'
  BY DEF TypeOK, DataOK, ThreadsOK, ReadsOK, Threads, Learn, thread, Unknown, Reads
<1>5. isPlaying' => track' # NoSong
  BY DEF TypeOK, Learn, player
<1> QED BY <1>1, <1>2, <1>3, <1>4, <1>5 DEF TypeOK


LEMMA TypeStep == TypeOK /\ [Next]_vars => TypeOK'
<1> SUFFICES ASSUME TypeOK, [Next]_vars PROVE TypeOK'
  OBVIOUS
<1>1. CASE Listener
  <2>1. ASSUME NEW b \in Targets, SetTargetBeat(TRUE, b) PROVE TypeOK'
    BY <2>1, TypeSetTargetBeat
  <2>2. CASE SetTargetBeat(FALSE, 0)
    BY <2>2, TypeSetTargetBeat
  <2> QED BY <1>1, <2>1, <2>2, TypeAsk, TypePause DEF Listener
<1>2. CASE Service
  BY <1>2, TypeWriteTargetBeat, TypeApplyTarget, TypeOpen, TypeFinishOpen,
     TypeHandlePrepareNext, TypeHandleTrackWentToNext, TypeReadTarget, TypeCompute,
     TypeKeepNormal, TypePlay, TypeStoreSpeed, TypeStart DEF Service
<1>3. CASE Complete \/ onError \/ \E s \in Song, bpm \in Tempos : Learn(s, bpm)
  BY <1>3, TypeComplete, TypeonError, TypeLearn
<1>4. CASE UNCHANGED vars
  BY <1>4 DEF vars, target, player, messages, thread, history, TypeOK, DataOK, FlagsOK,
     ThreadsOK, ReadsOK
<1> QED BY <1>1, <1>2, <1>3, <1>4 DEF Next

(* Every variable has its type in every reachable state. *)
THEOREM TypeCorrect == Spec => []TypeOK
<1>1. Init => TypeOK
  BY TypeInit
<1>2. TypeOK /\ [Next]_vars => TypeOK'
  BY TypeStep
<1> QED BY <1>1, <1>2, PTL DEF Spec


-----------------------------------------------------------------------------
(* SpeedIsNearest.  Whatever is read, a speed is 0 or some multiple of one  *)
(* target, nearest for one.  A speed that was computed with no other        *)
(* computation under way (overlap remembers that one was) is the nearest    *)
(* multiple of the target that is set, at every place it is kept on its way *)
(* to the player; a target that is switched on is not 0 once it is written. *)

MixedSpeeds == { v \in Speeds : v = Normal \/ Mixed(v) }
MixedInv ==
    /\ speed \in MixedSpeeds /\ mSpeed \in MixedSpeeds
    /\ setting \in [Threads -> MixedSpeeds]

LEMMA NormalIsMixed == Normal \in MixedSpeeds
  BY NormalIsASpeed DEF MixedSpeeds

LEMMA MixedCompute ==
    ASSUME TypeOK, MixedInv, NEW t \in Threads, Compute(t)
    PROVE  MixedInv'
<1> DEFINE b == tempo[reading[t][1]]
           a == reading[t][2]
           v == <<a * Multiple(b, targetBeat), b>>
<1>1. /\ pc[t] \in {"targetRead", "openRead", "playRead"}
      /\ setting' = [setting EXCEPT ![t] = v]
      /\ UNCHANGED <<speed, mSpeed>>
  BY DEF Compute, AfterRead, AfterCompute, player
<1>2. reading[t][1] \in Song /\ b # Unknown /\ a \in Targets \cup {0}
  BY <1>1 DEF TypeOK, ReadsOK, Reads
<1>3. b \in Tempos /\ targetBeat \in Targets \cup {0}
  BY <1>2 DEF TypeOK, DataOK
<1>4. b \in Nat \ {0} /\ a \in Nat /\ targetBeat \in Nat
  <2>1. Tempos \subseteq Nat \ {0} /\ Targets \cup {0} \subseteq Nat
    BY TempoAssumption, TargetAssumption
  <2> HIDE DEF a, b
  <2> QED BY <1>2, <1>3, <2>1
<1>5. Multiple(b, targetBeat) \in Nat
  BY <1>4, MultipleType
<1>6. v \in Speeds
  BY <1>3, <1>4, <1>5, FractionsAreSpeeds
<1>7. CASE a = 0 \/ targetBeat = 0
  <2>1. v[1] = 0
    BY <1>4, <1>5, <1>7 DEF Multiple
  <2> QED BY <1>1, <1>6, <2>1 DEF MixedInv, MixedSpeeds, Mixed
<1>8. CASE a # 0 /\ targetBeat # 0
  <2>1. a \in Targets /\ targetBeat \in Targets
    BY <1>2, <1>3, <1>8
  <2>2. Rounded(v, a, targetBeat)
    BY <1>4, <1>8, RoundedMultiple
  <2>3. v \in MixedSpeeds
    BY <1>6, <2>1, <2>2 DEF MixedSpeeds, Mixed
  <2> QED BY <1>1, <2>3 DEF MixedInv
<1> QED BY <1>7, <1>8

LEMMA MixedStep == TypeOK /\ MixedInv /\ [Next]_vars => MixedInv'
<1> SUFFICES ASSUME TypeOK, MixedInv, [Next]_vars PROVE MixedInv'
  OBVIOUS
<1> USE NormalIsMixed DEF MixedInv, player, thread, SetSpeed, Threads
<1>1. CASE Listener
  <2>1. ASSUME NEW on, NEW b, SetTargetBeat(on, b) PROVE MixedInv'
    BY <2>1 DEF SetTargetBeat
  <2>2. ASSUME NEW s, NEW start, Ask(s, start) PROVE MixedInv'
    BY <2>2 DEF Ask
  <2>3. CASE Pause
    BY <2>3 DEF Pause
  <2> QED BY <1>1, <2>1, <2>2, <2>3 DEF Listener
<1>2. CASE Service
  <2>1. CASE WriteTargetBeat
    BY <2>1 DEF WriteTargetBeat
  <2>2. CASE ApplyTarget
    BY <2>2 DEF ApplyTarget
  <2>3. CASE Open
    BY <2>3 DEF Open
  <2>4. CASE FinishOpen
    BY <2>4 DEF FinishOpen
  <2>5. CASE HandlePrepareNext
    BY <2>5 DEF HandlePrepareNext
  <2>6. CASE HandleTrackWentToNext
    BY <2>6 DEF HandleTrackWentToNext
  <2>7. ASSUME NEW t \in Threads,
               ReadTarget(t) \/ KeepNormal(t) \/ Play(t) \/ StoreSpeed(t) \/ Start(t)
        PROVE  MixedInv'
    BY <2>7 DEF ReadTarget, KeepNormal, Play, StoreSpeed, Start
  <2> QED BY <1>2, <2>1, <2>2, <2>3, <2>4, <2>5, <2>6, <2>7, MixedCompute DEF Service
<1>3. CASE Complete \/ onError \/ \E s \in Song, bpm \in Tempos : Learn(s, bpm)
  BY <1>3 DEF Complete, onError, Learn
<1>4. CASE UNCHANGED vars
  BY <1>4 DEF vars
<1> QED BY <1>1, <1>2, <1>3, <1>4 DEF Next

OnTarget ==
    targetBeatEnabled => IF pc["main"] = "setTargetBeat" THEN beat # 0 ELSE targetBeat # 0

LEMMA OnTargetStep == TypeOK /\ OnTarget /\ [Next]_vars => OnTarget'
<1> SUFFICES ASSUME TypeOK, OnTarget, [Next]_vars PROVE OnTarget'
  OBVIOUS
<1>0. pc \in [Threads -> Labels]
  BY DEF TypeOK, ThreadsOK
<1> USE <1>0 DEF OnTarget, target, thread, Goto, Begin, Threads
<1>1. CASE Listener
  <2>1. ASSUME NEW b \in Targets, SetTargetBeat(TRUE, b) PROVE OnTarget'
    BY <2>1, TargetAssumption DEF SetTargetBeat
  <2>2. CASE SetTargetBeat(FALSE, 0)
    BY <2>2 DEF SetTargetBeat
  <2>3. ASSUME NEW s, NEW start, Ask(s, start) PROVE OnTarget'
    BY <2>3 DEF Ask
  <2>4. CASE Pause
    BY <2>4 DEF Pause
  <2> QED BY <1>1, <2>1, <2>2, <2>3, <2>4 DEF Listener
<1>2. CASE Service
  <2>1. CASE WriteTargetBeat
    BY <2>1 DEF WriteTargetBeat
  <2>2. CASE ApplyTarget
    BY <2>2 DEF ApplyTarget
  <2>3. CASE Open
    BY <2>3 DEF Open
  <2>4. CASE FinishOpen
    BY <2>4 DEF FinishOpen
  <2>5. CASE HandlePrepareNext \/ HandleTrackWentToNext
    BY <2>5 DEF HandlePrepareNext, HandleTrackWentToNext
  <2>6. ASSUME NEW t \in Threads, ReadTarget(t) \/ KeepNormal(t) PROVE OnTarget'
    <3>1. PICK label \in Labels :
            pc' = [pc EXCEPT ![t] = label] /\ label # "setTargetBeat" /\ pc[t] # "setTargetBeat"
      BY <2>6 DEF ReadTarget, KeepNormal, AfterRead, AfterCompute, Labels
    <3>2. UNCHANGED <<targetBeatEnabled, targetBeat, beat>>
      BY <2>6 DEF ReadTarget, KeepNormal
    <3> QED BY <3>1, <3>2
  <2>7. ASSUME NEW t \in Threads, Compute(t) PROVE OnTarget'
    BY <2>7 DEF Compute, AfterRead, AfterCompute
  <2>8. ASSUME NEW t \in Threads, Play(t) \/ StoreSpeed(t) \/ Start(t) PROVE OnTarget'
    BY <2>8 DEF Play, StoreSpeed, Start
  <2> QED BY <1>2, <2>1, <2>2, <2>3, <2>4, <2>5, <2>6, <2>7, <2>8 DEF Service
<1>3. CASE Complete \/ onError \/ \E s \in Song, bpm \in Tempos : Learn(s, bpm)
  BY <1>3 DEF Complete, onError, Learn
<1>4. CASE UNCHANGED vars
  BY <1>4 DEF vars
<1> QED BY <1>1, <1>2, <1>3, <1>4 DEF Next

Good(t, v) ==
    /\ v = Normal \/ (t # 0 /\ Rounded(v, t, t))
    /\ v[1] = 0 \/ NearOne(v)

OneComputes == Idle("main") \/ Idle("handler")
ReadsCurrent ==
    \A t \in Threads : pc[t] \in {"targetRead", "openRead", "playRead"} =>
        reading[t][2] = targetBeat /\ targetBeat # 0
SettingsGood ==
    \A t \in Threads :
        pc[t] \in {"setTarget", "opening", "starting"} => Good(targetBeat, setting[t])
StoredGood ==
    (\A t \in Threads : pc[t] \in {"idle", "toPlay", "start"}) => Good(targetBeat, mSpeed)
PlayingNear ==
    isPlaying /\ (\A t \in Threads : pc[t] \in {"idle", "toPlay"}) =>
        Good(targetBeat, speed) /\ speed[1] # 0

NearInv == ~overlap => OneComputes /\ ReadsCurrent /\ SettingsGood /\ StoredGood /\ PlayingNear

LEMMA NormalIsGood == Normal[1] # 0 /\ \A t : Good(t, Normal)
<1>1. NearOne(Normal) /\ Normal[1] # 0
  BY DEF NearOne, Normal
<1>2. ASSUME NEW t PROVE Good(t, Normal)
  BY <1>1, Zenon DEF Good
<1> QED BY <1>1, <1>2

LEMMA NearInit == Init => NearInv
  BY NormalIsGood DEF Init, NearInv, OneComputes, ReadsCurrent, SettingsGood, StoredGood,
     PlayingNear, Idle, Threads

LEMMA NearKept ==
    ASSUME NearInv, UNCHANGED <<pc, reading, setting, mSpeed, targetBeat, overlap>>,
           isPlaying' => isPlaying /\ (speed' = speed \/ speed' = Normal)
    PROVE  NearInv'
  BY NormalIsGood DEF NearInv, OneComputes, ReadsCurrent, SettingsGood, StoredGood, PlayingNear,
     Idle

LEMMA NearReadTarget ==
    ASSUME TypeOK, OnTarget, NearInv, NEW t \in Threads, ReadTarget(t)
    PROVE  NearInv'
<1> SUFFICES ASSUME ~overlap'
             PROVE  (OneComputes /\ ReadsCurrent /\ SettingsGood /\ StoredGood /\ PlayingNear)'
  BY DEF NearInv
<1>0. pc \in [Threads -> Labels]
  BY DEF TypeOK, ThreadsOK
<1>1. OneComputes'
  BY <1>0 DEF NearInv, OneComputes, ReadTarget, target, player,
     Goto, AfterRead, Idle, Threads
<1>2. ReadsCurrent'
  <2>1. /\ reading' = [reading EXCEPT ![t] = <<song, targetBeat>>]
        /\ targetBeat' = targetBeat /\ overlap' = overlap
        /\ pc[t] # "idle" /\ \A u \in Threads : u # t => pc'[u] = pc[u]
    BY <1>0 DEF ReadTarget, AfterRead, Goto, target
  <2>2. DOMAIN reading = Threads
    BY DEF TypeOK, ReadsOK
  <2>3. reading'[t] = <<song, targetBeat>> /\ \A u \in Threads : u # t => reading'[u] = reading[u]
    BY <2>1, <2>2
  <2>4. targetBeat # 0
    <3>1. targetBeatEnabled /\ pc[t] \in {"target", "open", "play"} /\ ~overlap
      BY DEF ReadTarget, Stretched, AfterRead
    <3>2. pc["main"] # "setTargetBeat"
      BY <3>1 DEF NearInv, OneComputes, Idle, Threads
    <3> QED BY <3>1, <3>2 DEF OnTarget
  <2> QED BY <2>1, <2>3, <2>4 DEF NearInv, ReadsCurrent
<1>3. SettingsGood'
  BY <1>0, NormalIsGood DEF NearInv, SettingsGood, OneComputes, ReadTarget, target, player,
     Goto, AfterRead, Idle, Threads
<1>4. StoredGood'
  BY <1>0, NormalIsGood DEF NearInv, StoredGood, OneComputes, ReadTarget, target, player,
     Goto, AfterRead, Idle, Threads
<1>5. PlayingNear'
  BY <1>0, NormalIsGood DEF NearInv, PlayingNear, OneComputes, ReadTarget, target, player,
     Goto, AfterRead, Idle, Threads
<1> QED BY <1>1, <1>2, <1>3, <1>4, <1>5

LEMMA NearCompute ==
    ASSUME TypeOK, NearInv, NEW t \in Threads, Compute(t)
    PROVE  NearInv'
<1> SUFFICES ASSUME ~overlap'
             PROVE  (OneComputes /\ ReadsCurrent /\ SettingsGood /\ StoredGood /\ PlayingNear)'
  BY DEF NearInv
<1>0. pc \in [Threads -> Labels]
  BY DEF TypeOK, ThreadsOK
<1>1. OneComputes'
  BY <1>0 DEF NearInv, OneComputes, Compute, target, player,
     history, Goto, AfterRead, AfterCompute, Idle, Threads
<1>2. ReadsCurrent'
  BY <1>0, NormalIsGood DEF NearInv, ReadsCurrent, OneComputes, Compute, target, player,
     history, Goto, AfterRead, AfterCompute, Idle, Threads
<1>3. SettingsGood'
  <2> DEFINE s == reading[t][1]
             v == <<reading[t][2] * Multiple(tempo[s], targetBeat), tempo[s]>>
  <2>1. /\ pc[t] \in {"targetRead", "openRead", "playRead"} /\ ~overlap
        /\ setting' = [setting EXCEPT ![t] = v]
        /\ \A u \in Threads : u # t => pc'[u] = pc[u]
    BY <1>0 DEF Compute, AfterRead, AfterCompute, Goto, history
  <2>2. s \in Song /\ tempo[s] # Unknown /\ reading[t][2] = targetBeat /\ targetBeat # 0
    BY <2>1 DEF TypeOK, ReadsOK, Reads, NearInv, ReadsCurrent
  <2>3. tempo \in [Song -> Tempos \cup {Unknown}] /\ targetBeat \in Targets \cup {0}
    BY DEF TypeOK, DataOK
  <2>4. tempo[s] \in Nat \ {0}
    BY <2>2, <2>3, TempoAssumption
  <2>5. targetBeat \in Nat
    BY <2>3, TargetAssumption
  <2>6. \/ targetBeat * Multiple(tempo[s], targetBeat) = 0
        \/ NearOne(<<targetBeat * Multiple(tempo[s], targetBeat), tempo[s]>>)
    BY <2>4, <2>5, NearestMultiple
  <2>7. Good(targetBeat, v) /\ targetBeat' = targetBeat
    <3>1. Rounded(v, targetBeat, targetBeat)
      BY <2>2, <2>4, <2>5, RoundedMultiple
    <3> QED BY <2>2, <2>6, <3>1 DEF Good, Compute, target
  <2>8. DOMAIN setting = Threads
    BY DEF TypeOK, ThreadsOK
  <2> HIDE DEF v
  <2>9. setting'[t] = v /\ \A u \in Threads : u # t => setting'[u] = setting[u]
    BY <2>1, <2>8
  <2> QED BY <2>1, <2>7, <2>9 DEF NearInv, SettingsGood
<1>4. StoredGood'
  BY <1>0, NormalIsGood DEF NearInv, StoredGood, OneComputes, Compute, target, player,
     history, Goto, AfterRead, AfterCompute, Idle, Threads
<1>5. PlayingNear'
  BY <1>0, NormalIsGood DEF NearInv, PlayingNear, OneComputes, Compute, target, player,
     history, Goto, AfterRead, AfterCompute, Idle, Threads
<1> QED BY <1>1, <1>2, <1>3, <1>4, <1>5

LEMMA NearKeepNormal ==
    ASSUME TypeOK, NearInv, NEW t \in Threads, KeepNormal(t)
    PROVE  NearInv'
<1> SUFFICES ASSUME ~overlap'
             PROVE  (OneComputes /\ ReadsCurrent /\ SettingsGood /\ StoredGood /\ PlayingNear)'
  BY DEF NearInv
<1>0. pc \in [Threads -> Labels]
  BY DEF TypeOK, ThreadsOK
<1>1. OneComputes'
  BY <1>0 DEF NearInv, OneComputes, KeepNormal, target, player,
     Goto, AfterRead, AfterCompute, Idle, Threads
<1>2. ReadsCurrent'
  BY <1>0, NormalIsGood DEF NearInv, ReadsCurrent, OneComputes, KeepNormal, target, player,
     Goto, AfterRead, AfterCompute, Idle, Threads
<1>3. SettingsGood'
  <2>1. /\ setting' = [setting EXCEPT ![t] = Normal] /\ overlap' = overlap
        /\ \A u \in Threads : u # t => pc'[u] = pc[u]
    BY <1>0 DEF KeepNormal, Goto
  <2>2. DOMAIN setting = Threads
    BY DEF TypeOK, ThreadsOK
  <2>3. setting'[t] = Normal /\ \A u \in Threads : u # t => setting'[u] = setting[u]
    BY <2>1, <2>2
  <2>4. targetBeat' = targetBeat /\ ~overlap
    BY DEF KeepNormal, target
  <2> QED BY <2>1, <2>3, <2>4, NormalIsGood DEF NearInv, SettingsGood
<1>4. StoredGood'
  BY <1>0, NormalIsGood DEF NearInv, StoredGood, OneComputes, KeepNormal, target, player,
     Goto, AfterRead, AfterCompute, Idle, Threads
<1>5. PlayingNear'
  BY <1>0, NormalIsGood DEF NearInv, PlayingNear, OneComputes, KeepNormal, target, player,
     Goto, AfterRead, AfterCompute, Idle, Threads
<1> QED BY <1>1, <1>2, <1>3, <1>4, <1>5

LEMMA NearPlay ==
    ASSUME TypeOK, NearInv, NEW t \in Threads, Play(t)
    PROVE  NearInv'
<1> SUFFICES ASSUME ~overlap'
             PROVE  (OneComputes /\ ReadsCurrent /\ SettingsGood /\ StoredGood /\ PlayingNear)'
  BY DEF NearInv
<1>0. pc \in [Threads -> Labels]
  BY DEF TypeOK, ThreadsOK
<1>1. OneComputes'
  BY <1>0 DEF NearInv, OneComputes, Play, target, player, Goto,
     Begin, Idle, Other, Threads
<1>2. ReadsCurrent'
  BY <1>0, NormalIsGood DEF NearInv, ReadsCurrent, OneComputes, Play, target, player, Goto,
     Begin, Idle, Other, Threads
<1>3. SettingsGood'
  BY <1>0, NormalIsGood DEF NearInv, SettingsGood, OneComputes, Play, target, player, Goto,
     Begin, Idle, Other, Threads
<1>4. StoredGood'
  BY <1>0, NormalIsGood DEF NearInv, StoredGood, OneComputes, Play, target, player, Goto,
     Begin, Idle, Other, Threads
<1>5. PlayingNear'
  BY <1>0, NormalIsGood DEF NearInv, PlayingNear, OneComputes, Play, target, player, Goto,
     Begin, Idle, Other, Threads
<1> QED BY <1>1, <1>2, <1>3, <1>4, <1>5

LEMMA NearStoreSpeed ==
    ASSUME TypeOK, NearInv, NEW t \in Threads, StoreSpeed(t)
    PROVE  NearInv'
<1> SUFFICES ASSUME ~overlap'
             PROVE  (OneComputes /\ ReadsCurrent /\ SettingsGood /\ StoredGood /\ PlayingNear)'
  BY DEF NearInv
<1>0. pc \in [Threads -> Labels]
  BY DEF TypeOK, ThreadsOK
<1>1. OneComputes'
  BY <1>0 DEF NearInv, OneComputes, StoreSpeed, target, history,
     Goto, Idle, Threads, SetSpeed
<1>2. ReadsCurrent'
  BY <1>0, NormalIsGood DEF NearInv, ReadsCurrent, OneComputes, StoreSpeed, target, history,
     Goto, Idle, Threads, SetSpeed
<1>3. SettingsGood'
  BY <1>0, NormalIsGood DEF NearInv, SettingsGood, OneComputes, StoreSpeed, target, history,
     Goto, Idle, Threads, SetSpeed
<1>4. StoredGood'
  <2>1. /\ pc[t] = "starting" /\ mSpeed' = setting[t]
        /\ UNCHANGED <<overlap, targetBeat>>
    BY DEF StoreSpeed, SetSpeed, history, target
  <2>2. Good(targetBeat, setting[t])
    BY <2>1 DEF NearInv, SettingsGood
  <2>3. Good(targetBeat, mSpeed)'
    BY <2>1, <2>2
  <2> QED BY <2>3 DEF StoredGood
<1>5. PlayingNear'
  BY <1>0, NormalIsGood DEF NearInv, PlayingNear, OneComputes, StoreSpeed, target, history,
     Goto, Idle, Threads, SetSpeed
<1> QED BY <1>1, <1>2, <1>3, <1>4, <1>5

LEMMA NearStart ==
    ASSUME TypeOK, NearInv, NEW t \in Threads, Start(t)
    PROVE  NearInv'
<1> SUFFICES ASSUME ~overlap'
             PROVE  (OneComputes /\ ReadsCurrent /\ SettingsGood /\ StoredGood /\ PlayingNear)'
  BY DEF NearInv
<1>0. pc \in [Threads -> Labels]
  BY DEF TypeOK, ThreadsOK
<1>1. OneComputes'
  BY <1>0 DEF NearInv, OneComputes, Start, target, history, Goto,
     Idle, Threads
<1>2. ReadsCurrent'
  BY <1>0, NormalIsGood DEF NearInv, ReadsCurrent, OneComputes, Start, target, history,
     Goto, Idle, Threads
<1>3. SettingsGood'
  BY <1>0, NormalIsGood DEF NearInv, SettingsGood, OneComputes, Start, target, history,
     Goto, Idle, Threads
<1>4. StoredGood'
  BY <1>0, NormalIsGood DEF NearInv, StoredGood, OneComputes, Start, target, history, Goto,
     Idle, Threads
<1>5. PlayingNear'
  <2>1. pc[t] = "start" /\ ~overlap /\ targetBeat' = targetBeat
    BY DEF Start, history, target
  <2>2. Good(targetBeat, mSpeed)
    BY <2>1, <1>0 DEF NearInv, StoredGood, OneComputes, Idle, Threads
  <2>3. CASE track = NoSong
    BY <2>3 DEF TypeOK, Start, PlayingNear
  <2>4. CASE track # NoSong
    <3>1. isPlaying' = (mSpeed[1] # 0) /\ speed' = mSpeed
      BY <2>4 DEF Start
    <3> QED BY <2>1, <2>2, <3>1 DEF PlayingNear
  <2> QED BY <2>3, <2>4
<1> QED BY <1>1, <1>2, <1>3, <1>4, <1>5

LEMMA NearSetTargetBeat ==
    ASSUME TypeOK, NearInv, NEW on \in BOOLEAN, NEW b \in Targets \cup {0}, SetTargetBeat(on, b)
    PROVE  NearInv'
<1> SUFFICES ASSUME ~overlap'
             PROVE  (OneComputes /\ ReadsCurrent /\ SettingsGood /\ StoredGood /\ PlayingNear)'
  BY DEF NearInv
<1>0. pc \in [Threads -> Labels]
  BY DEF TypeOK, ThreadsOK
<1>1. OneComputes'
  BY <1>0 DEF NearInv, OneComputes, SetTargetBeat, player, Goto,
     Begin, Idle, Other, Threads
<1>2. ReadsCurrent'
  BY <1>0, NormalIsGood DEF NearInv, ReadsCurrent, OneComputes, SetTargetBeat, player, Goto,
     Begin, Idle, Other, Threads
<1>3. SettingsGood'
  BY <1>0, NormalIsGood DEF NearInv, SettingsGood, OneComputes, SetTargetBeat, player, Goto,
     Begin, Idle, Other, Threads
<1>4. StoredGood'
  BY <1>0, NormalIsGood DEF NearInv, StoredGood, OneComputes, SetTargetBeat, player, Goto,
     Begin, Idle, Other, Threads
<1>5. PlayingNear'
  BY <1>0, NormalIsGood DEF NearInv, PlayingNear, OneComputes, SetTargetBeat, player, Goto,
     Begin, Idle, Other, Threads
<1> QED BY <1>1, <1>2, <1>3, <1>4, <1>5

LEMMA NearWriteTargetBeat ==
    ASSUME TypeOK, NearInv, WriteTargetBeat
    PROVE  NearInv'
<1> SUFFICES ASSUME ~overlap'
             PROVE  (OneComputes /\ ReadsCurrent /\ SettingsGood /\ StoredGood /\ PlayingNear)'
  BY DEF NearInv
<1>0. pc \in [Threads -> Labels]
  BY DEF TypeOK, ThreadsOK
<1>1. OneComputes'
  BY <1>0 DEF NearInv, OneComputes, WriteTargetBeat, target,
     player, history, Goto, Idle, Threads
<1>2. ReadsCurrent'
  BY <1>0, NormalIsGood DEF NearInv, ReadsCurrent, OneComputes, WriteTargetBeat, target,
     player, history, Goto, Idle, Threads
<1>3. SettingsGood'
  BY <1>0, NormalIsGood DEF NearInv, SettingsGood, OneComputes, WriteTargetBeat, target,
     player, history, Goto, Idle, Threads
<1>4. StoredGood'
  BY <1>0, NormalIsGood DEF NearInv, StoredGood, OneComputes, WriteTargetBeat, target,
     player, history, Goto, Idle, Threads
<1>5. PlayingNear'
  BY <1>0, NormalIsGood DEF NearInv, PlayingNear, OneComputes, WriteTargetBeat, target,
     player, history, Goto, Idle, Threads
<1> QED BY <1>1, <1>2, <1>3, <1>4, <1>5

LEMMA NearApplyTarget ==
    ASSUME TypeOK, NearInv, ApplyTarget
    PROVE  NearInv'
<1> SUFFICES ASSUME ~overlap'
             PROVE  (OneComputes /\ ReadsCurrent /\ SettingsGood /\ StoredGood /\ PlayingNear)'
  BY DEF NearInv
<1>0. pc \in [Threads -> Labels]
  BY DEF TypeOK, ThreadsOK
<1>1. OneComputes'
  BY <1>0 DEF NearInv, OneComputes, ApplyTarget, target, history,
     Goto, Idle, Threads, SetSpeed
<1>2. ReadsCurrent'
  BY <1>0, NormalIsGood DEF NearInv, ReadsCurrent, OneComputes, ApplyTarget, target,
     history, Goto, Idle, Threads, SetSpeed
<1>3. SettingsGood'
  BY <1>0, NormalIsGood DEF NearInv, SettingsGood, OneComputes, ApplyTarget, target,
     history, Goto, Idle, Threads, SetSpeed
<1>a. /\ pc["main"] = "setTarget" /\ ~overlap /\ SetSpeed(setting["main"])
      /\ targetBeat' = targetBeat /\ Good(targetBeat, setting["main"])
  BY DEF ApplyTarget, history, target, NearInv, SettingsGood, Threads
<1>4. StoredGood'
  BY <1>a DEF StoredGood, SetSpeed
<1>5. PlayingNear'
  BY <1>a DEF PlayingNear, SetSpeed
<1> QED BY <1>1, <1>2, <1>3, <1>4, <1>5

LEMMA NearAsk ==
    ASSUME TypeOK, NearInv, NEW s \in Song, NEW start \in BOOLEAN, Ask(s, start)
    PROVE  NearInv'
  BY NearKept DEF Ask, target, player, thread, history

LEMMA NearPause ==
    ASSUME TypeOK, NearInv, Pause
    PROVE  NearInv'
  BY NearKept DEF Pause, target, player, thread, history

LEMMA NearOpen ==
    ASSUME TypeOK, NearInv, Open
    PROVE  NearInv'
<1> SUFFICES ASSUME ~overlap'
             PROVE  (OneComputes /\ ReadsCurrent /\ SettingsGood /\ StoredGood /\ PlayingNear)'
  BY DEF NearInv
<1>0. pc \in [Threads -> Labels]
  BY DEF TypeOK, ThreadsOK
<1>1. OneComputes'
  BY <1>0 DEF NearInv, OneComputes, Open, target, Goto, Begin,
     Idle, Other, Threads
<1>2. ReadsCurrent'
  <2>1. UNCHANGED <<targetBeat, reading, setting, mSpeed>>
    BY DEF Open, target
  <2>2. CASE pc' = pc /\ overlap' = overlap
    BY <2>1, <2>2 DEF NearInv, ReadsCurrent
  <2>3. CASE Begin("handler", "open")
    <3>1. \A u \in Threads : pc'[u] \in {"idle", "open"}
      BY <2>3, <1>0 DEF Begin, Goto, Other, Idle, Threads
    <3> QED BY <3>1 DEF ReadsCurrent
  <2> QED BY <2>2, <2>3 DEF Open
<1>3. SettingsGood'
  <2>1. UNCHANGED <<targetBeat, reading, setting, mSpeed>>
    BY DEF Open, target
  <2>2. CASE pc' = pc /\ overlap' = overlap
    BY <2>1, <2>2 DEF NearInv, SettingsGood
  <2>3. CASE Begin("handler", "open")
    <3>1. \A u \in Threads : pc'[u] \in {"idle", "open"}
      BY <2>3, <1>0 DEF Begin, Goto, Other, Idle, Threads
    <3> QED BY <3>1 DEF SettingsGood
  <2> QED BY <2>2, <2>3 DEF Open
<1>4. StoredGood'
  <2>1. UNCHANGED <<targetBeat, reading, setting, mSpeed>>
    BY DEF Open, target
  <2>2. CASE pc' = pc /\ overlap' = overlap
    BY <2>1, <2>2 DEF NearInv, StoredGood
  <2>3. CASE Begin("handler", "open")
    <3>1. pc'["handler"] = "open" /\ "handler" \in Threads
      BY <2>3, <1>0 DEF Begin, Goto, Threads
    <3> QED BY <3>1 DEF StoredGood
  <2> QED BY <2>2, <2>3 DEF Open
<1>5. PlayingNear'
  BY <1>0, NormalIsGood DEF NearInv, PlayingNear, OneComputes, Open, target, Goto, Begin,
     Idle, Other, Threads
<1> QED BY <1>1, <1>2, <1>3, <1>4, <1>5

LEMMA NearFinishOpen ==
    ASSUME TypeOK, NearInv, FinishOpen
    PROVE  NearInv'
<1> SUFFICES ASSUME ~overlap'
             PROVE  (OneComputes /\ ReadsCurrent /\ SettingsGood /\ StoredGood /\ PlayingNear)'
  BY DEF NearInv
<1>0. pc \in [Threads -> Labels]
  BY DEF TypeOK, ThreadsOK
<1>1. OneComputes'
  BY <1>0 DEF NearInv, OneComputes, FinishOpen, target, history,
     Goto, Idle, Threads, SetSpeed
<1>2. ReadsCurrent'
  BY <1>0, NormalIsGood DEF NearInv, ReadsCurrent, OneComputes, FinishOpen, target, history,
     Goto, Idle, Threads, SetSpeed
<1>3. SettingsGood'
  BY <1>0, NormalIsGood DEF NearInv, SettingsGood, OneComputes, FinishOpen, target, history,
     Goto, Idle, Threads, SetSpeed
<1>a. /\ pc["handler"] = "opening" /\ ~overlap /\ SetSpeed(setting["handler"])
      /\ targetBeat' = targetBeat /\ Good(targetBeat, setting["handler"])
  BY DEF FinishOpen, history, target, NearInv, SettingsGood, Threads
<1>4. StoredGood'
  BY <1>a DEF StoredGood, SetSpeed
<1>5. PlayingNear'
  BY <1>a DEF PlayingNear, SetSpeed
<1> QED BY <1>1, <1>2, <1>3, <1>4, <1>5

LEMMA NearHandlePrepareNext ==
    ASSUME TypeOK, NearInv, HandlePrepareNext
    PROVE  NearInv'
  BY NearKept DEF HandlePrepareNext, target, player, thread, history

LEMMA NearHandleTrackWentToNext ==
    ASSUME TypeOK, NearInv, HandleTrackWentToNext
    PROVE  NearInv'
  BY NearKept DEF HandleTrackWentToNext, target, player, thread, history

LEMMA NearComplete ==
    ASSUME TypeOK, NearInv, Complete
    PROVE  NearInv'
  BY NearKept, NormalIsGood DEF Complete, target, player, thread, history

LEMMA NearonError ==
    ASSUME TypeOK, NearInv, onError
    PROVE  NearInv'
  BY NearKept DEF onError, target, player, thread, history

LEMMA NearLearn ==
    ASSUME TypeOK, NearInv, NEW s \in Song, NEW bpm \in Tempos, Learn(s, bpm)
    PROVE  NearInv'
  BY NearKept DEF Learn, target, player, thread, history

LEMMA NearStep == TypeOK /\ OnTarget /\ NearInv /\ [Next]_vars => NearInv'
<1> SUFFICES ASSUME TypeOK, OnTarget, NearInv, [Next]_vars PROVE NearInv'
  OBVIOUS
<1>1. CASE Listener
  <2>1. ASSUME NEW b \in Targets, SetTargetBeat(TRUE, b) PROVE NearInv'
    BY <2>1, NearSetTargetBeat
  <2>2. CASE SetTargetBeat(FALSE, 0)
    BY <2>2, NearSetTargetBeat
  <2> QED BY <1>1, <2>1, <2>2, NearAsk, NearPause DEF Listener
<1>2. CASE Service
  BY <1>2, NearWriteTargetBeat, NearApplyTarget, NearOpen, NearFinishOpen,
     NearHandlePrepareNext, NearHandleTrackWentToNext, NearReadTarget, NearCompute,
     NearKeepNormal, NearPlay, NearStoreSpeed, NearStart DEF Service
<1>3. CASE Complete \/ onError \/ \E s \in Song, bpm \in Tempos : Learn(s, bpm)
  BY <1>3, NearComplete, NearonError, NearLearn
<1>4. CASE UNCHANGED vars
  BY <1>4 DEF vars, target, player, messages, thread, history, NearInv, OneComputes,
     ReadsCurrent, SettingsGood, StoredGood, PlayingNear, Idle
<1> QED BY <1>1, <1>2, <1>3, <1>4 DEF Next

SpeedInv == TypeOK /\ MixedInv /\ OnTarget /\ NearInv

LEMMA SpeedAlways == Spec => []SpeedInv
<1>1. Init => SpeedInv
  <2>1. Init => MixedInv /\ OnTarget
    BY NormalIsMixed DEF Init, MixedInv, OnTarget
  <2> QED BY <2>1, TypeInit, NearInit DEF SpeedInv
<1>2. SpeedInv /\ [Next]_vars => SpeedInv'
  BY TypeStep, MixedStep, OnTargetStep, NearStep DEF SpeedInv
<1> QED BY <1>1, <1>2, PTL DEF Spec

(* Every speed is 0, 1 or a multiple of a target over the tempo, nearest    *)
(* for that target or, if the target changed between the two reads, for     *)
(* another.  At rest, when no two computations overlapped, it is nearest    *)
(* for the target set, and a song that plays is never slowed to two thirds  *)
(* of its tempo nor sped up to more than twice.                             *)
THEOREM SpeedAlwaysNearest == Spec => []SpeedIsNearest
<1>1. SpeedInv => SpeedIsNearest
  <2> SUFFICES ASSUME SpeedInv PROVE SpeedIsNearest
    OBVIOUS
  <2>1. \A v \in {speed, mSpeed} : v = Normal \/ Mixed(v)
    BY DEF SpeedInv, MixedInv, MixedSpeeds
  <2>2. ASSUME Quiet PROVE mSpeed = Normal \/ Nearest(mSpeed)
    BY <2>2 DEF SpeedInv, NearInv, StoredGood, Good, Nearest, Quiet, Idle
  <2>3. ASSUME Quiet, isPlaying
        PROVE  (speed = Normal \/ Nearest(speed)) /\ NearOne(speed)
    BY <2>3 DEF SpeedInv, NearInv, PlayingNear, Good, Nearest, Quiet, Idle
  <2> QED BY <2>1, <2>2, <2>3 DEF SpeedIsNearest
<1> QED BY <1>1, SpeedAlways, PTL

-----------------------------------------------------------------------------
(* SpeedFollowsTarget.  The same computation, unless the track was entered  *)
(* without a gap or its tempo came late, is one of the track that is open   *)
(* and of the target that is set, from its first read to the player.        *)

Followed == ~overlap /\ ~unsynced /\ ~learnt /\ track # NoSong

ReadsTrack ==
    \A t \in Threads : pc[t] \in {"targetRead", "openRead", "playRead"} =>
        Stretched(track) /\ reading[t] = <<track, targetBeat>>
SettingsFollow ==
    \A t \in Threads :
        pc[t] \in {"setTarget", "opening", "starting"} => setting[t] = SpeedFor(track)
StoredFollows == \A t \in Threads : pc[t] = "start" => mSpeed = SpeedFor(track)
PlayingFollows ==
    isPlaying /\ (\A t \in Threads : pc[t] \in {"idle", "toPlay"}) => speed = SpeedFor(track)

FollowInv == Followed => ReadsTrack /\ SettingsFollow /\ StoredFollows /\ PlayingFollows

LEMMA FollowInit == Init => FollowInv
  BY DEF Init, FollowInv, Followed

LEMMA FollowKept ==
    ASSUME FollowInv, UNCHANGED <<pc, reading, setting, mSpeed, tempo, targetBeat>>,
           UNCHANGED <<targetBeatEnabled, overlap, learnt>>,
           \/ track' = track /\ unsynced' = unsynced /\ (isPlaying' => isPlaying /\ speed' = speed)
           \/ unsynced' \/ track' = NoSong
    PROVE  FollowInv'
  BY DEF FollowInv, Followed, ReadsTrack, SettingsFollow, StoredFollows, PlayingFollows,
     SpeedFor, Stretched, Multiple

LEMMA SpeedForKept ==
    ASSUME UNCHANGED <<targetBeatEnabled, targetBeat, track>>, tempo'[track] = tempo[track]
    PROVE  SpeedFor(track)' = SpeedFor(track) /\ Stretched(track)' = Stretched(track)
  BY DEF SpeedFor, Stretched, Multiple

LEMMA FollowReadTarget ==
    ASSUME TypeOK, NearInv, FollowInv, NEW t \in Threads, ReadTarget(t)
    PROVE  FollowInv'
<1> SUFFICES ASSUME Followed'
             PROVE  (ReadsTrack /\ SettingsFollow /\ StoredFollows /\ PlayingFollows)'
  BY DEF FollowInv
<1>0. pc \in [Threads -> Labels]
  BY DEF TypeOK, ThreadsOK
<1>1. ReadsTrack'
  <2>1. /\ reading' = [reading EXCEPT ![t] = <<song, targetBeat>>] /\ Stretched(song)
        /\ song = track /\ ~overlap /\ pc[t] # "idle"
        /\ UNCHANGED <<targetBeat, targetBeatEnabled, track, tempo>>
    BY DEF ReadTarget, Followed, AfterRead, target, player
  <2>2. \A u \in Threads : u # t => pc[u] = "idle" /\ pc'[u] = "idle"
    BY <2>1, <1>0 DEF NearInv, OneComputes, Idle, Threads, ReadTarget, Goto
  <2>3. reading'[t] = <<track, targetBeat>>
    BY <2>1 DEF TypeOK, ReadsOK
  <2>4. Stretched(track)'
    BY <2>1 DEF Stretched
  <2> QED BY <2>1, <2>2, <2>3, <2>4 DEF ReadsTrack
<1>2. SettingsFollow'
  BY <1>0 DEF FollowInv, Followed, NearInv, SettingsFollow, OneComputes, ReadTarget, target,
     player, Goto, AfterRead, Idle, Threads, SpeedFor, Stretched, Multiple
<1>3. StoredFollows'
  BY <1>0 DEF FollowInv, Followed, NearInv, StoredFollows, OneComputes, ReadTarget, target,
     player, Goto, AfterRead, Idle, Threads, SpeedFor, Stretched, Multiple
<1>4. PlayingFollows'
  BY <1>0 DEF FollowInv, Followed, NearInv, PlayingFollows, OneComputes, ReadTarget, target,
     player, Goto, AfterRead, Idle, Threads, SpeedFor, Stretched, Multiple
<1> QED BY <1>1, <1>2, <1>3, <1>4

LEMMA FollowCompute ==
    ASSUME TypeOK, NearInv, FollowInv, NEW t \in Threads, Compute(t)
    PROVE  FollowInv'
<1> SUFFICES ASSUME Followed'
             PROVE  (ReadsTrack /\ SettingsFollow /\ StoredFollows /\ PlayingFollows)'
  BY DEF FollowInv
<1>0. pc \in [Threads -> Labels]
  BY DEF TypeOK, ThreadsOK
<1>1. ReadsTrack'
  BY <1>0 DEF FollowInv, Followed, NearInv, ReadsTrack, OneComputes, Compute, target,
     player, history, Goto, AfterRead, AfterCompute, Idle, Threads, Stretched, Multiple
<1>2. SettingsFollow'
  <2> DEFINE v == <<reading[t][2] * Multiple(tempo[reading[t][1]], targetBeat),
                    tempo[reading[t][1]]>>
  <2>1. /\ pc[t] \in {"targetRead", "openRead", "playRead"} /\ Followed
        /\ setting' = [setting EXCEPT ![t] = v]
        /\ UNCHANGED <<targetBeat, targetBeatEnabled, track, tempo>>
    BY DEF Compute, AfterRead, AfterCompute, Followed, history, target, player
  <2>2. \A u \in Threads : u # t => pc[u] = "idle" /\ pc'[u] = "idle"
    BY <2>1, <1>0 DEF NearInv, OneComputes, Idle, Threads, Compute, Goto, Followed
  <2>3. Stretched(track) /\ reading[t] = <<track, targetBeat>>
    BY <2>1 DEF FollowInv, ReadsTrack
  <2>4. v = SpeedFor(track)
    BY <2>3 DEF SpeedFor
  <2> HIDE DEF v
  <2>5. setting'[t] = v
    BY <2>1 DEF TypeOK, ThreadsOK
  <2>6. SpeedFor(track)' = SpeedFor(track)
    BY <2>1, SpeedForKept
  <2> QED BY <2>2, <2>4, <2>5, <2>6 DEF SettingsFollow
<1>3. StoredFollows'
  BY <1>0 DEF FollowInv, Followed, NearInv, StoredFollows, OneComputes, Compute, target,
     player, history, Goto, AfterRead, AfterCompute, Idle, Threads, SpeedFor, Stretched,
     Multiple
<1>4. PlayingFollows'
  BY <1>0 DEF FollowInv, Followed, NearInv, PlayingFollows, OneComputes, Compute, target,
     player, history, Goto, AfterRead, AfterCompute, Idle, Threads, SpeedFor, Stretched,
     Multiple
<1> QED BY <1>1, <1>2, <1>3, <1>4

LEMMA FollowKeepNormal ==
    ASSUME TypeOK, NearInv, FollowInv, NEW t \in Threads, KeepNormal(t)
    PROVE  FollowInv'
<1> SUFFICES ASSUME Followed'
             PROVE  (ReadsTrack /\ SettingsFollow /\ StoredFollows /\ PlayingFollows)'
  BY DEF FollowInv
<1>0. pc \in [Threads -> Labels]
  BY DEF TypeOK, ThreadsOK
<1>1. ReadsTrack'
  BY <1>0 DEF FollowInv, Followed, NearInv, ReadsTrack, OneComputes, KeepNormal, target,
     player, Goto, AfterRead, AfterCompute, Idle, Threads, Stretched
<1>2. SettingsFollow'
  <2>1. /\ setting' = [setting EXCEPT ![t] = Normal] /\ ~Stretched(song)
        /\ song = track /\ ~overlap /\ pc[t] # "idle"
        /\ UNCHANGED <<targetBeat, targetBeatEnabled, track, tempo>>
    BY DEF KeepNormal, Followed, AfterRead, target, player
  <2>2. \A u \in Threads : u # t => pc[u] = "idle" /\ pc'[u] = "idle"
    BY <2>1, <1>0 DEF NearInv, OneComputes, Idle, Threads, KeepNormal, Goto
  <2>3. setting'[t] = Normal
    BY <2>1 DEF TypeOK, ThreadsOK
  <2>4. SpeedFor(track)' = Normal
    BY <2>1, SpeedForKept DEF SpeedFor
  <2> QED BY <2>2, <2>3, <2>4 DEF SettingsFollow
<1>3. StoredFollows'
  BY <1>0 DEF FollowInv, Followed, NearInv, StoredFollows, OneComputes, KeepNormal, target,
     player, Goto, AfterRead, AfterCompute, Idle, Threads, SpeedFor, Stretched, Multiple
<1>4. PlayingFollows'
  BY <1>0 DEF FollowInv, Followed, NearInv, PlayingFollows, OneComputes, KeepNormal, target,
     player, Goto, AfterRead, AfterCompute, Idle, Threads, SpeedFor, Stretched, Multiple
<1> QED BY <1>1, <1>2, <1>3, <1>4

LEMMA FollowPlay ==
    ASSUME TypeOK, NearInv, FollowInv, NEW t \in Threads, Play(t)
    PROVE  FollowInv'
<1> SUFFICES ASSUME Followed'
             PROVE  (ReadsTrack /\ SettingsFollow /\ StoredFollows /\ PlayingFollows)'
  BY DEF FollowInv
<1>0. pc \in [Threads -> Labels]
  BY DEF TypeOK, ThreadsOK
<1>1. ReadsTrack'
  BY <1>0 DEF FollowInv, Followed, NearInv, ReadsTrack, OneComputes, Play, target, player,
     Goto, Begin, Idle, Other, Threads, Stretched
<1>2. SettingsFollow'
  BY <1>0 DEF FollowInv, Followed, NearInv, SettingsFollow, OneComputes, Play, target,
     player, Goto, Begin, Idle, Other, Threads, SpeedFor, Stretched, Multiple
<1>3. StoredFollows'
  BY <1>0 DEF FollowInv, Followed, NearInv, StoredFollows, OneComputes, Play, target,
     player, Goto, Begin, Idle, Other, Threads, SpeedFor, Stretched, Multiple
<1>4. PlayingFollows'
  BY <1>0 DEF FollowInv, Followed, NearInv, PlayingFollows, OneComputes, Play, target,
     player, Goto, Begin, Idle, Other, Threads, SpeedFor, Stretched, Multiple
<1> QED BY <1>1, <1>2, <1>3, <1>4

LEMMA FollowStoreSpeed ==
    ASSUME TypeOK, NearInv, FollowInv, NEW t \in Threads, StoreSpeed(t)
    PROVE  FollowInv'
<1> SUFFICES ASSUME Followed'
             PROVE  (ReadsTrack /\ SettingsFollow /\ StoredFollows /\ PlayingFollows)'
  BY DEF FollowInv
<1>0. pc \in [Threads -> Labels]
  BY DEF TypeOK, ThreadsOK
<1>1. ReadsTrack'
  BY <1>0 DEF FollowInv, Followed, NearInv, ReadsTrack, OneComputes, StoreSpeed, target,
     history, Goto, Idle, Threads, SetSpeed, Stretched
<1>2. SettingsFollow'
  BY <1>0 DEF FollowInv, Followed, NearInv, SettingsFollow, OneComputes, StoreSpeed, target,
     history, Goto, Idle, Threads, SetSpeed, SpeedFor, Stretched, Multiple
<1>3. StoredFollows'
  <2>1. /\ pc[t] = "starting" /\ mSpeed' = setting[t] /\ Followed
        /\ UNCHANGED <<targetBeat, targetBeatEnabled, track, tempo>>
    BY DEF StoreSpeed, SetSpeed, Followed, history, target
  <2>2. setting[t] = SpeedFor(track)
    BY <2>1 DEF FollowInv, SettingsFollow
  <2>3. SpeedFor(track)' = SpeedFor(track)
    BY <2>1, SpeedForKept
  <2> QED BY <2>1, <2>2, <2>3 DEF StoredFollows
<1>4. PlayingFollows'
  BY <1>0 DEF FollowInv, Followed, NearInv, PlayingFollows, OneComputes, StoreSpeed, target,
     history, Goto, Idle, Threads, SetSpeed, SpeedFor, Stretched, Multiple
<1> QED BY <1>1, <1>2, <1>3, <1>4

LEMMA FollowStart ==
    ASSUME TypeOK, NearInv, FollowInv, NEW t \in Threads, Start(t)
    PROVE  FollowInv'
<1> SUFFICES ASSUME Followed'
             PROVE  (ReadsTrack /\ SettingsFollow /\ StoredFollows /\ PlayingFollows)'
  BY DEF FollowInv
<1>0. pc \in [Threads -> Labels]
  BY DEF TypeOK, ThreadsOK
<1>1. ReadsTrack'
  BY <1>0 DEF FollowInv, Followed, NearInv, ReadsTrack, OneComputes, Start, target, history,
     Goto, Idle, Threads, Stretched
<1>2. SettingsFollow'
  BY <1>0 DEF FollowInv, Followed, NearInv, SettingsFollow, OneComputes, Start, target,
     history, Goto, Idle, Threads, SpeedFor, Stretched, Multiple
<1>3. StoredFollows'
  BY <1>0 DEF FollowInv, Followed, NearInv, StoredFollows, OneComputes, Start, target,
     history, Goto, Idle, Threads, SpeedFor, Stretched, Multiple
<1>4. PlayingFollows'
  <2>1. /\ pc[t] = "start" /\ Followed /\ speed' = mSpeed
        /\ UNCHANGED <<targetBeat, targetBeatEnabled, track, tempo>>
    BY DEF Start, Followed, history, target
  <2>2. mSpeed = SpeedFor(track)
    BY <2>1 DEF FollowInv, StoredFollows
  <2>3. SpeedFor(track)' = SpeedFor(track)
    BY <2>1, SpeedForKept
  <2> QED BY <2>1, <2>2, <2>3 DEF PlayingFollows
<1> QED BY <1>1, <1>2, <1>3, <1>4

LEMMA FollowSetTargetBeat ==
    ASSUME TypeOK, NearInv, FollowInv, NEW on \in BOOLEAN, NEW b \in Targets \cup {0}, SetTargetBeat(on, b)
    PROVE  FollowInv'
<1> SUFFICES ASSUME Followed'
             PROVE  (ReadsTrack /\ SettingsFollow /\ StoredFollows /\ PlayingFollows)'
  BY DEF FollowInv
<1>0. pc \in [Threads -> Labels]
  BY DEF TypeOK, ThreadsOK
<1>1. ReadsTrack'
  BY <1>0 DEF FollowInv, Followed, NearInv, ReadsTrack, OneComputes, SetTargetBeat, player,
     Goto, Begin, Idle, Other, Threads, Stretched
<1>2. SettingsFollow'
  BY <1>0 DEF FollowInv, Followed, NearInv, SettingsFollow, OneComputes, SetTargetBeat,
     player, Goto, Begin, Idle, Other, Threads, SpeedFor, Stretched, Multiple
<1>3. StoredFollows'
  BY <1>0 DEF FollowInv, Followed, NearInv, StoredFollows, OneComputes, SetTargetBeat,
     player, Goto, Begin, Idle, Other, Threads, SpeedFor, Stretched, Multiple
<1>4. PlayingFollows'
  BY <1>0 DEF FollowInv, Followed, NearInv, PlayingFollows, OneComputes, SetTargetBeat,
     player, Goto, Begin, Idle, Other, Threads, SpeedFor, Stretched, Multiple
<1> QED BY <1>1, <1>2, <1>3, <1>4

LEMMA FollowWriteTargetBeat ==
    ASSUME TypeOK, NearInv, FollowInv, WriteTargetBeat
    PROVE  FollowInv'
<1> SUFFICES ASSUME Followed'
             PROVE  (ReadsTrack /\ SettingsFollow /\ StoredFollows /\ PlayingFollows)'
  BY DEF FollowInv
<1>0. pc \in [Threads -> Labels]
  BY DEF TypeOK, ThreadsOK
<1>1. ReadsTrack'
  BY <1>0 DEF FollowInv, Followed, NearInv, ReadsTrack, OneComputes, WriteTargetBeat,
     target, player, history, Goto, Idle, Threads, Stretched
<1>2. SettingsFollow'
  BY <1>0 DEF FollowInv, Followed, NearInv, SettingsFollow, OneComputes, WriteTargetBeat,
     target, player, history, Goto, Idle, Threads, SpeedFor, Stretched, Multiple
<1>3. StoredFollows'
  BY <1>0 DEF FollowInv, Followed, NearInv, StoredFollows, OneComputes, WriteTargetBeat,
     target, player, history, Goto, Idle, Threads, SpeedFor, Stretched, Multiple
<1>4. PlayingFollows'
  BY <1>0 DEF FollowInv, Followed, NearInv, PlayingFollows, OneComputes, WriteTargetBeat,
     target, player, history, Goto, Idle, Threads, SpeedFor, Stretched, Multiple
<1> QED BY <1>1, <1>2, <1>3, <1>4

LEMMA FollowApplyTarget ==
    ASSUME TypeOK, NearInv, FollowInv, ApplyTarget
    PROVE  FollowInv'
<1> SUFFICES ASSUME Followed'
             PROVE  (ReadsTrack /\ SettingsFollow /\ StoredFollows /\ PlayingFollows)'
  BY DEF FollowInv
<1>0. pc \in [Threads -> Labels]
  BY DEF TypeOK, ThreadsOK
<1>1. ReadsTrack'
  BY <1>0 DEF FollowInv, Followed, NearInv, ReadsTrack, OneComputes, ApplyTarget, target,
     history, Goto, Idle, Threads, SetSpeed, Stretched
<1>2. SettingsFollow'
  BY <1>0 DEF FollowInv, Followed, NearInv, SettingsFollow, OneComputes, ApplyTarget,
     target, history, Goto, Idle, Threads, SetSpeed, SpeedFor, Stretched, Multiple
<1>3. StoredFollows'
  BY <1>0 DEF FollowInv, Followed, NearInv, StoredFollows, OneComputes, ApplyTarget, target,
     history, Goto, Idle, Threads, SetSpeed, SpeedFor, Stretched, Multiple
<1>4. PlayingFollows'
  <2>1. /\ pc["main"] = "setTarget" /\ Followed /\ SetSpeed(setting["main"])
        /\ UNCHANGED <<targetBeat, targetBeatEnabled, track, tempo>>
    BY DEF ApplyTarget, Followed, history, target
  <2>2. setting["main"] = SpeedFor(track)
    BY <2>1 DEF FollowInv, SettingsFollow, Threads
  <2>3. SpeedFor(track)' = SpeedFor(track)
    BY <2>1, SpeedForKept
  <2>4. isPlaying' => speed' = setting["main"]
    BY <2>1 DEF SetSpeed
  <2> QED BY <2>2, <2>3, <2>4 DEF PlayingFollows
<1> QED BY <1>1, <1>2, <1>3, <1>4

LEMMA FollowAsk ==
    ASSUME FollowInv, NEW s \in Song, NEW start \in BOOLEAN, Ask(s, start)
    PROVE  FollowInv'
  BY FollowKept DEF Ask, target, player, thread, history

LEMMA FollowPause ==
    ASSUME FollowInv, Pause
    PROVE  FollowInv'
  BY FollowKept DEF Pause, target, player, thread, history

LEMMA FollowOpen ==
    ASSUME TypeOK, NearInv, FollowInv, Open
    PROVE  FollowInv'
<1> SUFFICES ASSUME Followed'
             PROVE  (ReadsTrack /\ SettingsFollow /\ StoredFollows /\ PlayingFollows)'
  BY DEF FollowInv
<1>0. pc \in [Threads -> Labels]
  BY DEF TypeOK, ThreadsOK
<1>1. ReadsTrack'
  BY <1>0 DEF FollowInv, Followed, NearInv, ReadsTrack, OneComputes, Open, target, Goto,
     Begin, Idle, Other, Threads, Stretched
<1>2. SettingsFollow'
  BY <1>0 DEF FollowInv, Followed, NearInv, SettingsFollow, OneComputes, Open, target, Goto,
     Begin, Idle, Other, Threads, SpeedFor, Stretched, Multiple
<1>3. StoredFollows'
  BY <1>0 DEF FollowInv, Followed, NearInv, StoredFollows, OneComputes, Open, target, Goto,
     Begin, Idle, Other, Threads, SpeedFor, Stretched, Multiple
<1>4. PlayingFollows'
  BY <1>0 DEF FollowInv, Followed, NearInv, PlayingFollows, OneComputes, Open, target, Goto,
     Begin, Idle, Other, Threads, SpeedFor, Stretched, Multiple
<1> QED BY <1>1, <1>2, <1>3, <1>4

LEMMA FollowFinishOpen ==
    ASSUME TypeOK, NearInv, FollowInv, FinishOpen
    PROVE  FollowInv'
<1> SUFFICES ASSUME Followed'
             PROVE  (ReadsTrack /\ SettingsFollow /\ StoredFollows /\ PlayingFollows)'
  BY DEF FollowInv
<1>0. pc \in [Threads -> Labels]
  BY DEF TypeOK, ThreadsOK
<1>1. ReadsTrack'
  BY <1>0 DEF FollowInv, Followed, NearInv, ReadsTrack, OneComputes, FinishOpen, target,
     history, Goto, Idle, Threads, SetSpeed, Stretched
<1>2. SettingsFollow'
  BY <1>0 DEF FollowInv, Followed, NearInv, SettingsFollow, OneComputes, FinishOpen, target,
     history, Goto, Idle, Threads, SetSpeed, SpeedFor, Stretched, Multiple
<1>3. StoredFollows'
  BY <1>0 DEF FollowInv, Followed, NearInv, StoredFollows, OneComputes, FinishOpen, target,
     history, Goto, Idle, Threads, SetSpeed, SpeedFor, Stretched, Multiple
<1>4. PlayingFollows'
  <2>1. /\ pc["handler"] = "opening" /\ Followed /\ SetSpeed(setting["handler"])
        /\ UNCHANGED <<targetBeat, targetBeatEnabled, track, tempo>>
    BY DEF FinishOpen, Followed, history, target
  <2>2. setting["handler"] = SpeedFor(track)
    BY <2>1 DEF FollowInv, SettingsFollow, Threads
  <2>3. SpeedFor(track)' = SpeedFor(track)
    BY <2>1, SpeedForKept
  <2>4. isPlaying' => speed' = setting["handler"]
    BY <2>1 DEF SetSpeed
  <2> QED BY <2>2, <2>3, <2>4 DEF PlayingFollows
<1> QED BY <1>1, <1>2, <1>3, <1>4

LEMMA FollowHandlePrepareNext ==
    ASSUME FollowInv, HandlePrepareNext
    PROVE  FollowInv'
  BY FollowKept DEF HandlePrepareNext, target, player, thread, history

LEMMA FollowHandleTrackWentToNext ==
    ASSUME FollowInv, HandleTrackWentToNext
    PROVE  FollowInv'
  BY FollowKept DEF HandleTrackWentToNext, target, player, thread, history

LEMMA FollowComplete ==
    ASSUME FollowInv, Complete
    PROVE  FollowInv'
  BY FollowKept DEF Complete, target, player, thread, history

LEMMA FollowonError ==
    ASSUME FollowInv, onError
    PROVE  FollowInv'
  BY FollowKept DEF onError, target, player, thread, history

LEMMA FollowLearn ==
    ASSUME TypeOK, NearInv, FollowInv, NEW s \in Song, NEW bpm \in Tempos, Learn(s, bpm)
    PROVE  FollowInv'
<1> SUFFICES ASSUME Followed'
             PROVE  (ReadsTrack /\ SettingsFollow /\ StoredFollows /\ PlayingFollows)'
  BY DEF FollowInv
<1>1. /\ Followed /\ track \in Song /\ s # track
      /\ UNCHANGED <<targetBeat, targetBeatEnabled, track, pc, reading, setting, mSpeed>>
      /\ isPlaying' = isPlaying /\ speed' = speed
  BY DEF Learn, Followed, TypeOK, DataOK, target, player, thread
<1>2. tempo'[track] = tempo[track]
  BY <1>1 DEF Learn, TypeOK, DataOK
<1>3. SpeedFor(track)' = SpeedFor(track) /\ Stretched(track)' = Stretched(track)
  BY <1>1, <1>2, SpeedForKept
<1>4. ReadsTrack'
  BY <1>1, <1>3 DEF FollowInv, ReadsTrack
<1>5. SettingsFollow'
  BY <1>1, <1>3 DEF FollowInv, SettingsFollow
<1>6. StoredFollows' /\ PlayingFollows'
  BY <1>1, <1>3 DEF FollowInv, StoredFollows, PlayingFollows
<1> QED BY <1>4, <1>5, <1>6

LEMMA FollowStep == TypeOK /\ NearInv /\ FollowInv /\ [Next]_vars => FollowInv'
<1> SUFFICES ASSUME TypeOK, NearInv, FollowInv, [Next]_vars PROVE FollowInv'
  OBVIOUS
<1>1. CASE Listener
  <2>1. ASSUME NEW b \in Targets, SetTargetBeat(TRUE, b) PROVE FollowInv'
    BY <2>1, FollowSetTargetBeat
  <2>2. CASE SetTargetBeat(FALSE, 0)
    BY <2>2, FollowSetTargetBeat
  <2> QED BY <1>1, <2>1, <2>2, FollowAsk, FollowPause DEF Listener
<1>2. CASE Service
  BY <1>2, FollowWriteTargetBeat, FollowApplyTarget, FollowOpen, FollowFinishOpen,
     FollowHandlePrepareNext, FollowHandleTrackWentToNext, FollowReadTarget, FollowCompute,
     FollowKeepNormal, FollowPlay, FollowStoreSpeed, FollowStart DEF Service
<1>3. CASE Complete \/ onError \/ \E s \in Song, bpm \in Tempos : Learn(s, bpm)
  BY <1>3, FollowComplete, FollowonError, FollowLearn
<1>4. CASE UNCHANGED vars
  BY <1>4, FollowKept DEF vars, target, player, messages, thread, history
<1> QED BY <1>1, <1>2, <1>3, <1>4 DEF Next

(* In every reachable state in which both threads are at rest, what plays   *)
(* plays at the speed that its tempo and the target call for, outside the   *)
(* cases the property names.                                                *)
THEOREM SpeedAlwaysFollows == Spec => []SpeedFollowsTarget
<1>1. Init => FollowInv
  BY FollowInit
<1>2. SpeedInv /\ FollowInv /\ [Next]_vars => FollowInv'
  BY FollowStep DEF SpeedInv
<1>3. SpeedInv /\ FollowInv => SpeedFollowsTarget
  BY DEF SpeedInv, TypeOK, FollowInv, Followed, PlayingFollows, SpeedFollowsTarget, Quiet, Idle
<1> QED BY <1>1, <1>2, <1>3, SpeedAlways, PTL DEF Spec

=============================================================================
