---------------------------- MODULE MCTargetRate ----------------------------
(* The instance of TargetRate that TLC checks. *)
EXTENDS TargetRate, TLC

CONSTANTS s1, s2

Songs == {s1, s2}

Symmetry == Permutations(Songs)

(* 70 beats are nearest to 2 times 40; 160 is more than twice 70.           *)
TempoRange == {70}
TargetRange == {40, 160}

=============================================================================
