--------------------------- MODULE MCMergePipeline --------------------------
(* A small instance of MergePipeline: both workers make the change a1, and *)
(* the rest of one's work conflicts with the rest of the other's.          *)
EXTENDS MergePipeline, TLC

CONSTANTS p1, p2, a1, b1, c1, d1

MCPR == {p1, p2}
MCChange == {a1, b1, c1, d1}
MCFileOf == (a1 :> "f") @@ (b1 :> "g") @@ (c1 :> "h") @@ (d1 :> "h")
MCCommits == (p1 :> <<{a1}, {d1}>>) @@ (p2 :> <<{b1}, {a1, c1}>>)
MCClash == {{c1, d1}}

AllBatches == [rejectOverlap : BOOLEAN, stopOnFailure : BOOLEAN]
=============================================================================
