--------------------------- MODULE MCPlayingQueue ---------------------------
(* The instance of PlayingQueue that TLC checks. *)
EXTENDS PlayingQueue, TLC

CONSTANTS a, b

Songs == {a, b}
Lists == { <<x>> : x \in Songs } \cup { <<a, b>>, <<b, a>> }
SongsAlike == Permutations(Songs)

=============================================================================
