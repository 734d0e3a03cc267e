--------------------------- MODULE MCBeatDetector ---------------------------
(* The instance of BeatDetector that TLC checks.  At the lower rate the     *)
(* window takes one read, at the higher two.  Of four files one has just    *)
(* enough samples and one lacks a sample; one breaks off at the end of its  *)
(* window and one within it.  A file that is no audio differs from one that *)
(* does not open in nothing.                                                *)
EXTENDS BeatDetector

CONSTANTS t1, t2, enough, tail, broken, short

Workers == {t1, t2}
Files == {enough, tail, broken, short}
RateOf == [f \in Files |-> IF f \in {enough, short} THEN 1 ELSE 3]
LengthOf == [f \in Files |-> CASE f = enough -> 5 [] f = short -> 4
                               [] f = tail -> 15 [] f = broken -> 14]
BrokenFiles == {broken, tail}

=============================================================================
