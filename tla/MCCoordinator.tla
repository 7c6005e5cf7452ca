--------------------------- MODULE MCCoordinator ---------------------------
(***************************************************************************)
(* A small instance of Coordinator: q1 and q2 serve t2, q1 also t1, and q2 *)
(* also big, which asks for more than q2 ever has.                         *)
(***************************************************************************)
EXTENDS Coordinator, TLC

CONSTANTS t1, t2, big, q1, q2

MCCandidates == (t1 :> {q1}) @@ (t2 :> {q1, q2}) @@ (big :> {q2})
MCEstimated  == (t1 :> 1) @@ (t2 :> 2) @@ (big :> 3)
MCUsed       == (t1 :> {0, 3}) @@ (t2 :> {1}) @@ (big :> {0})
MCRpm        == (q1 :> 1) @@ (q2 :> 1)
MCTpm        == (q1 :> 2) @@ (q2 :> 2)
MCRate       == (q1 :> 1) @@ (q2 :> 1)

=============================================================================
