------------------------------- MODULE MCHost -------------------------------
(* A small instance of Host: two process ids; two issues, or background *)
(* supervisors beside the teams.                                            *)
EXTENDS Host, TLC

CONSTANTS p1, p2, i1, i2

MCPid == {p1, p2}
MCIssue == {i1, i2}
MCSetups == {{"intake"}, {"daemon"}}

PidSymmetry == Permutations(MCPid) \cup Permutations(MCIssue)
=============================================================================
