---------------------------- MODULE MCQueueStore ----------------------------
(* The instances of QueueStore that TLC checks. *)
EXTENDS QueueStore

CONSTANTS a, b

Songs == {a, b}
Lists == {<<a>>, <<b, a>>}

=============================================================================
