--------------------------- MODULE MCBeatDetection ---------------------------
(* The instance of BeatDetection that TLC checks. *)
EXTENDS BeatDetection

CONSTANTS a, b, c, t1, t2, t3

Songs == {a, b, c}
Workers == {t1, t2, t3}

(* One song of the library is next in the queue. *)
AllSongs == <<a, b, c>>
QueueRest == <<c, b>>
WithTempo == {b}

=============================================================================
