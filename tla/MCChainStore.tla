---------------------------- MODULE MCChainStore ----------------------------
(* ChainStore on two branches of three and two blocks.                     *)
EXTENDS ChainStore, TLC

CONSTANTS g, p1, p2, p3, q1, q2

MCBlocks == {g, p1, p2, p3, q1, q2}
MCParent == g :> g @@ p1 :> g @@ p2 :> p1 @@ p3 :> p2 @@ q1 :> g @@ q2 :> q1
MCNumber == g :> 0 @@ p1 :> 1 @@ p2 :> 2 @@ p3 :> 3 @@ q1 :> 1 @@ q2 :> 2
=============================================================================
