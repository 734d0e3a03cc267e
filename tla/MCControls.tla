----------------------------- MODULE MCControls -----------------------------
(* The instance of Controls that TLC checks is given by its configuration. *)
EXTENDS Controls

=============================================================================
