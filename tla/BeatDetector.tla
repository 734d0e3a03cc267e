---------------------------- MODULE BeatDetector ----------------------------
(***************************************************************************)
(* The native beat detector: each worker thread of BeatDetectionService    *)
(* owns a struct with a detector (an FFT plan and its buffers, made for    *)
(* one sampling rate) which it uses for one file after another.            *)
(* file_decoder_loop skips four analysis windows of n samples, copies the  *)
(* next n to the detector's input x and calls beatdetect.  FFTW's planner  *)
(* is guarded by one mutex.                                                *)
(*                                                                         *)
(* A sample is <<file, index>>; what beatdetect computes from a window is  *)
(* left out.  mpg123_open_fixed decodes at one rate, so that mpg123_read   *)
(* never returns MPG123_NEW_FORMAT, header is called once per file and its *)
(* check of fs_changed_since_wpos, just cleared, has no effect.            *)
(***************************************************************************)
EXTENDS DetectionThreads, Integers

CONSTANTS
    NoWorker,
    File,
    Rate,       \* sampling rate of each file, 0 if it is no audio
    Length,     \* samples of each file, up to a decoding error in a broken one
    Broken,     \* files whose decoding ends in an error
    Seconds,    \* 15, the length of the window
    Chunk       \* OUTBUFF / sizeof(float), the samples of a read

ASSUME WorkerAssumption == NoWorker \notin Worker
ASSUME FileAssumption ==
    /\ Rate \in [File -> Nat] /\ Length \in [File -> Nat] /\ Broken \subseteq File
ASSUME SizeAssumption == Seconds \in Nat \ {0} /\ Chunk \in Nat \ {0}

VARIABLES
    pc,         \* where each worker is
    file,       \* the file it works on
    opened,     \* whether mpg123 opened it
    rate,       \* the rate getformat returned
    pos,        \* samples decoded so far
    wpos, xpos, \* samples skipped, samples in the window
    fs, n, x,   \* of the worker's detector
    allocated,  \* parts allocated that the worker's detector points to
    leaked,     \* memory is allocated that no detector points to
    outcome,    \* of the last analysis
    planner,    \* the thread that holds fftw_planner_mutex
    crashed,    \* the process has ended
    noMemory,   \* history: no detector could be allocated for this file
    brokeOff    \* history: only some parts of a detector could be allocated

decoder == <<file, opened, rate, pos>>
memory == <<allocated, leaked, brokeOff>>
detector == <<fs, n, x, memory>>
vars == <<pc, decoder, wpos, xpos, detector, outcome, planner, crashed, noMemory>>

Rates == { Rate[f] : f \in File } \ {0}
Junk == <<>>
Part == {"x", "y", "filterbank_freqs", "hann", "fft_plan", "ifft_plan"}
LeastOf(i, j) == IF i < j THEN i ELSE j

-----------------------------------------------------------------------------
Init ==
    /\ pc = [w \in Worker |-> "none"]
    /\ file \in [Worker -> File]
    /\ opened = [w \in Worker |-> FALSE] /\ rate = [w \in Worker |-> 0]
    /\ pos = [w \in Worker |-> 0]
    /\ wpos = [w \in Worker |-> 0] /\ xpos = [w \in Worker |-> 0]
    /\ fs = [w \in Worker |-> 0] /\ n = [w \in Worker |-> 0]
    /\ x = [w \in Worker |-> <<>>] /\ allocated = [w \in Worker |-> {}]
    /\ outcome = [w \in Worker |-> "none"]
    /\ planner = NoWorker /\ crashed = FALSE
    /\ noMemory = [w \in Worker |-> FALSE]
    /\ leaked = FALSE /\ brokeOff = FALSE

Goto(w, label) == pc' = [pc EXCEPT ![w] = label]

(* A file is done: tempo or failed. *)
Return(w, result) ==
    /\ Goto(w, "ready")
    /\ outcome' = [outcome EXCEPT ![w] = result]

-----------------------------------------------------------------------------
createNativeStruct(w) ==
    /\ pc[w] = "none"
    /\ Goto(w, "ready")
    /\ UNCHANGED <<decoder, wpos, xpos, detector, outcome, planner, crashed, noMemory>>

analyse_file_continuing(w, f) ==
    /\ pc[w] = "ready"
    /\ file' = [file EXCEPT ![w] = f] /\ pos' = [pos EXCEPT ![w] = 0]
    /\ \E ok \in BOOLEAN : opened' = [opened EXCEPT ![w] = ok]
    /\ wpos' = [wpos EXCEPT ![w] = 0]
    /\ outcome' = [outcome EXCEPT ![w] = "none"]
    /\ noMemory' = [noMemory EXCEPT ![w] = FALSE]
    /\ Goto(w, "format")
    /\ UNCHANGED <<rate, xpos, detector, planner, crashed>>

(* The file may fail to open; the loop is entered all the same. *)
analyse_file(w, f) ==
    /\ pc[w] = "ready"
    /\ file' = [file EXCEPT ![w] = f] /\ pos' = [pos EXCEPT ![w] = 0]
    /\ \E ok \in BOOLEAN : opened' = [opened EXCEPT ![w] = ok]
    /\ wpos' = [wpos EXCEPT ![w] = 0] /\ xpos' = [xpos EXCEPT ![w] = 0]
    /\ outcome' = [outcome EXCEPT ![w] = "none"]
    /\ noMemory' = [noMemory EXCEPT ![w] = FALSE]
    /\ Goto(w, "format")
    /\ UNCHANGED <<rate, detector, planner, crashed>>

(* mpg123_new returns no handle. *)
analyse_nothing(w) ==
    /\ pc[w] = "ready" /\ outcome[w] # "failed"
    /\ opened' = [opened EXCEPT ![w] = FALSE]
    /\ Return(w, "failed")
    /\ UNCHANGED <<file, rate, pos, wpos, xpos, detector, planner, crashed, noMemory>>

headerKeepingOld(w) ==
    /\ pc[w] = "format"
    /\ \E r \in IF opened[w] THEN {Rate[file[w]]} ELSE Rates \cup {0} :
          /\ rate' = [rate EXCEPT ![w] = r]
          /\ IF r = 0 THEN Return(w, "failed")
             ELSE Goto(w, IF r = fs[w] THEN "read" ELSE "create") /\ UNCHANGED outcome
    /\ UNCHANGED <<file, opened, pos, wpos, xpos, detector, planner, crashed, noMemory>>

(* getformat and the first part of header.  Of a file that did not open     *)
(* getformat says nothing: rate is not initialized.                         *)
header(w) ==
    /\ pc[w] = "format"
    /\ \E r \in IF opened[w] THEN {Rate[file[w]]} ELSE Rates \cup {0} :
          /\ rate' = [rate EXCEPT ![w] = r]
          /\ CASE r = 0 -> Return(w, "failed")
               [] r # 0 /\ r = fs[w] -> Goto(w, "read") /\ UNCHANGED outcome
               [] r # 0 /\ r # fs[w] ->
                    /\ Goto(w, IF fs[w] # 0 THEN "free" ELSE "create") /\ UNCHANGED outcome
    /\ UNCHANGED <<file, opened, pos, wpos, xpos, detector, planner, crashed, noMemory>>

-----------------------------------------------------------------------------
(* fftw_planner_lock, before detectors are made and freed. *)
Locking == [free |-> "freeing", create |-> "creating", leave |-> "leaving"]

lockAtOnce(w) ==
    /\ pc[w] \in DOMAIN Locking
    /\ planner' = w
    /\ Goto(w, Locking[pc[w]])
    /\ UNCHANGED <<decoder, wpos, xpos, detector, outcome, crashed, noMemory>>

lock(w) ==
    /\ pc[w] \in DOMAIN Locking /\ planner = NoWorker
    /\ planner' = w
    /\ Goto(w, Locking[pc[w]])
    /\ UNCHANGED <<decoder, wpos, xpos, detector, outcome, crashed, noMemory>>

(* The struct keeps its fields, pointers to freed memory, until header      *)
(* writes the new detector over them.                                       *)
free_beat_detector_fields(w) ==
    /\ pc[w] = "freeing"
    /\ allocated' = [allocated EXCEPT ![w] = {}]
    /\ planner' = NoWorker
    /\ Goto(w, "create")
    /\ UNCHANGED <<decoder, wpos, xpos, fs, n, x, leaked, outcome, crashed, noMemory, brokeOff>>

(* The buffers and plans are allocated one by one.  If any is missing the   *)
(* detector is {0}, and nothing points to the others any more; header's     *)
(* result is not looked at.                                                 *)
create_beat_detector(w) ==
    /\ pc[w] = "creating"
    /\ \E got \in SUBSET Part :
          LET hz == IF got = Part THEN rate[w] ELSE 0 IN
          /\ fs' = [fs EXCEPT ![w] = hz]
          /\ n' = [n EXCEPT ![w] = Seconds * hz]
          /\ x' = [x EXCEPT ![w] = [i \in 0 .. Seconds * hz - 1 |-> Junk]]
          /\ allocated' = [allocated EXCEPT ![w] = IF got = Part THEN Part ELSE {}]
          /\ leaked' = (leaked \/ allocated[w] # {} \/ got \notin {{}, Part})
          /\ noMemory' = [noMemory EXCEPT ![w] = got # Part]
          /\ brokeOff' = (brokeOff \/ got \notin {{}, Part})
    /\ planner' = NoWorker
    /\ Goto(w, "read")
    /\ UNCHANGED <<decoder, wpos, xpos, outcome, crashed>>

-----------------------------------------------------------------------------
(* file_decoder_loop *)

(* What mpg123_read returns: samples, and an error with the last of a       *)
(* broken file.                                                             *)
size(w) == IF opened[w] THEN LeastOf(Chunk, Length[file[w]] - pos[w]) ELSE 0
fails(w) == file[w] \in Broken /\ pos[w] + size(w) = Length[file[w]]

isSkippingOne(w) == wpos[w] <= 4 * n[w]
isSkipping(w) == wpos[w] < 4 * n[w]

finishedUnseen(w) == pc[w] = "read" /\ size(w) = 0 /\ UNCHANGED vars
finished(w) ==
    /\ pc[w] = "read" /\ size(w) = 0
    /\ Return(w, "failed")
    /\ UNCHANGED <<decoder, wpos, xpos, detector, planner, crashed, noMemory>>

After(w) == IF fails(w) THEN Return(w, "failed") ELSE UNCHANGED <<pc, outcome>>

skip(w) ==
    /\ pc[w] = "read" /\ size(w) > 0 /\ isSkipping(w)
    /\ wpos' = [wpos EXCEPT ![w] = @ + size(w)]
    /\ pos' = [pos EXCEPT ![w] = @ + size(w)]
    /\ After(w)
    /\ UNCHANGED <<file, opened, rate, xpos, detector, planner, crashed, noMemory>>

endUnbounded(w) == xpos[w] + size(w)
endOf(w) == LeastOf(xpos[w] + size(w), n[w])

fill(w) ==
    /\ pc[w] = "read" /\ size(w) > 0 /\ ~isSkipping(w)
    /\ x' = [x EXCEPT ![w] = [i \in DOMAIN @ |->
                IF i \in xpos[w] .. endOf(w) - 1 THEN <<file[w], pos[w] + i - xpos[w]>> ELSE @[i]]]
    /\ xpos' = [xpos EXCEPT ![w] = endOf(w)]
    /\ pos' = [pos EXCEPT ![w] = @ + size(w)]
    /\ IF endOf(w) >= n[w] THEN Goto(w, "detect") /\ UNCHANGED outcome ELSE After(w)
    /\ UNCHANGED <<file, opened, rate, wpos, fs, n, memory, planner, crashed, noMemory>>

(* The transforms overwrite x.  A detector that is {0} has no plan to run. *)
beatdetect(w) ==
    /\ pc[w] = "detect"
    /\ crashed' = (n[w] = 0)
    /\ x' = [x EXCEPT ![w] = [i \in DOMAIN @ |-> Junk]]
    /\ Return(w, "tempo")
    /\ UNCHANGED <<decoder, wpos, xpos, fs, n, memory, planner, noMemory>>

-----------------------------------------------------------------------------
freeNativeStruct(w) ==
    /\ pc[w] = "ready"
    /\ \/ fs[w] # 0 /\ Goto(w, "leave") /\ UNCHANGED memory
       \/ /\ fs[w] = 0 /\ Goto(w, "none")
          /\ allocated' = [allocated EXCEPT ![w] = {}]
          /\ leaked' = (leaked \/ allocated[w] # {}) /\ UNCHANGED brokeOff
    /\ UNCHANGED <<decoder, wpos, xpos, fs, n, x, outcome, planner, crashed, noMemory>>

leave(w) ==
    /\ pc[w] = "leaving"
    /\ allocated' = [allocated EXCEPT ![w] = {}]
    /\ fs' = [fs EXCEPT ![w] = 0] /\ n' = [n EXCEPT ![w] = 0] /\ x' = [x EXCEPT ![w] = <<>>]
    /\ planner' = NoWorker
    /\ Goto(w, "none")
    /\ UNCHANGED <<decoder, wpos, xpos, leaked, outcome, crashed, noMemory, brokeOff>>

-----------------------------------------------------------------------------
Work(w) ==
    \/ header(w) \/ free_beat_detector_fields(w) \/ create_beat_detector(w)
    \/ finished(w) \/ skip(w) \/ fill(w) \/ beatdetect(w) \/ leave(w)

Service(w) ==
    \/ createNativeStruct(w) \/ analyse_nothing(w) \/ freeNativeStruct(w)
    \/ \E f \in File : analyse_file(w, f)

Next == ~crashed /\ \E w \in Worker : Service(w) \/ lock(w) \/ Work(w)

Spec == Init /\ [][Next]_vars

(* Threads run, and a waiting thread gets the mutex, which is held for a    *)
(* moment only.                                                             *)
FairSpec ==
    /\ Spec
    /\ \A w \in Worker : WF_vars(~crashed /\ Work(w)) /\ SF_vars(~crashed /\ lock(w))

-----------------------------------------------------------------------------
(* filtercomb_td: the indices of the n samples it adds up for the tempo of  *)
(* i half beats a minute, pulse l and sample k of a beat of 120 * fs / i.   *)
HalfBeats == 120 .. 499
NumPulses(len, hz) == len \div hz
CombReads(len, hz, i) ==
    { (120 * hz * l) \div i + k : l \in 0 .. NumPulses(len, hz) - 1,
                                  k \in { j \in 0 .. hz : j * i < 120 * hz } }

-----------------------------------------------------------------------------
Labels == {"none", "ready", "format", "free", "freeing", "create", "creating", "read",
           "detect", "leave", "leaving"}

ThreadsOK ==
    /\ pc \in [Worker -> Labels] /\ file \in [Worker -> File]
    /\ opened \in [Worker -> BOOLEAN] /\ rate \in [Worker -> Rates \cup {0}]
    /\ outcome \in [Worker -> {"none", "tempo", "failed"}]
    /\ planner \in Worker \cup {NoWorker} /\ crashed \in BOOLEAN
    /\ noMemory \in [Worker -> BOOLEAN]
CountersOK == pos \in [Worker -> Nat] /\ wpos \in [Worker -> Nat] /\ xpos \in [Worker -> Nat]
DetectorOK ==
    /\ fs \in [Worker -> Rates \cup {0}] /\ n = [w \in Worker |-> Seconds * fs[w]]
    /\ allocated \in [Worker -> {{}, Part}] /\ leaked \in BOOLEAN /\ brokeOff \in BOOLEAN
    /\ x = [w \in Worker |-> x[w]]
    /\ \A w \in Worker : x[w] \in [0 .. n[w] - 1 -> (File \X Nat) \cup {Junk}]
BoundsOK ==
    \A w \in Worker : /\ pc[w] \in {"read", "detect"} => xpos[w] <= n[w]
                      /\ pos[w] <= Length[file[w]]

(* Every variable has its type, the window never exceeds the detector's     *)
(* input, and what is decoded never exceeds the file.                       *)
TypeOK == ThreadsOK /\ CountersOK /\ DetectorOK /\ BoundsOK

(* A tempo is computed from consecutive samples of the file it is given     *)
(* for, taken after the four windows skipped, by a detector made for the    *)
(* rate of that file: whatever the worker analysed before, and however that *)
(* ended (analyse_file, header, file_decoder_loop).                         *)
WindowIsOfThisFile ==
    \A w \in Worker : pc[w] = "detect" /\ ~noMemory[w] =>
        /\ fs[w] = Rate[file[w]]
        /\ \E start \in 4 * n[w] .. Length[file[w]] :
              \A i \in 0 .. n[w] - 1 : x[w][i] = <<file[w], start + i>>

(* A file yields a tempo exactly when it has the samples: decoding errors,  *)
(* files that do not open and detectors of other rates before it make no    *)
(* difference.                                                              *)
Skipped(len) == Chunk * ((4 * len + Chunk - 1) \div Chunk)
HasWindow(f) ==
    LET len == Seconds * Rate[f] IN Rate[f] # 0 /\ Skipped(len) + len <= Length[f]
OutcomeIsOfThisFile ==
    \A w \in Worker : pc[w] = "ready" /\ opened[w] /\ outcome[w] # "none" /\ ~noMemory[w] =>
        (outcome[w] = "tempo" <=> HasWindow(file[w]))

(* A worker holds all parts of one detector or none: none is used after it  *)
(* was freed, freed twice, or left behind by a file of another rate or a    *)
(* thread that ends.  What is left behind are parts of a detector of which  *)
(* others could not be allocated (create_beat_detector returns {0} and does *)
(* not free them).                                                          *)
DetectorIsOwned ==
    /\ \A w \in Worker : allocated[w] =
          IF pc[w] \in {"create", "creating"} \/ fs[w] = 0 THEN {} ELSE Part
    /\ leaked => brokeOff

(* FFTW's planner is not thread-safe: plans are made and freed by one       *)
(* thread at a time (fftw_planner_lock).                                    *)
PlannerIsExclusive ==
    \A w \in Worker : pc[w] \in {"freeing", "creating", "leaving"} => planner = w

(* Every analysis ends, unless the process does. *)
AnalysisEnds == \A w \in Worker : pc[w] = "format" ~> (pc[w] = "ready" \/ crashed)

=============================================================================
