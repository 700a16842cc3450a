-------------------------- MODULE MCCoordBusAdapter --------------------------
(* Two swarms that want one area and one other sender, a reader that marks *)
(* and one with a cursor; one swarm's clock is a second behind.            *)
EXTENDS CoordBusAdapter, TLC

CONSTANTS s1, s2, codex, claude, scout, ui

MCSender == {codex}
MCSwarm == {s1, s2}
MCReader == {claude}
MCCursorReader == {scout}
MCArea == {ui}
MCSkew == (s1 :> 0) @@ (s2 :> -1)
=============================================================================
