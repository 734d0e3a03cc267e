-------------------------- MODULE DetectionThreads --------------------------
(***************************************************************************)
(* The threads of the beat detector, which the service starts              *)
(* (BeatDetection) and the native code runs on (BeatDetector).             *)
(***************************************************************************)

CONSTANT Worker \* bound: thread objects that have not ended

=============================================================================
