------------------------------ MODULE MCHealth ------------------------------
(* A small instance of Health: two loops, a timeout of three seconds. *)
EXTENDS Health

CONSTANTS l1, l2

MCLoop == {l1, l2}
=============================================================================
