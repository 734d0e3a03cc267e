---------------------------- MODULE MCPlayback ----------------------------
(* The instances of Playback that TLC checks. *)
EXTENDS Playback

CONSTANTS a, b

Songs == {a, b}
Lists == {<<a, b>>}

=============================================================================
