---------------------------- MODULE MCNodeVoting ----------------------------
(* NodeVoting for TLC.  Candidates, voters and blacklisted addresses other   *)
(* than Zero are interchangeable.                                            *)
EXTENDS NodeVoting, TLC

Symmetry == Permutations(Candidates) \cup Permutations(Voters)
              \cup Permutations(Blackable \ {Zero})
=============================================================================
