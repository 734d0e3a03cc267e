----------------------------- MODULE MCPlayCount -----------------------------
(* The instance of PlayCount that TLC checks. *)
EXTENDS PlayCount

CONSTANTS a, b

Songs == {a, b}

=============================================================================
