----------------------------- MODULE ForkChoice -----------------------------
(***************************************************************************)
(* What the block store promises: a set of known blocks, which grows by    *)
(* children of known blocks, and a head that moves to a new block exactly  *)
(* when that block is higher, with ties decided freely.  Only a rewind     *)
(* forgets blocks; while it runs nothing is added and the head never gains *)
(* height.  A crash loses no block: the head of the restarted node is a    *)
(* known block, or the node rewinds to block 0 first.                      *)
(***************************************************************************)
EXTENDS Naturals

CONSTANTS Blocks, Genesis, Parent, Number

VARIABLES
  known, head, \* the blocks stored and the head of the chain
  mode         \* "up", "rewind" or "down"

vars == <<known, head, mode>>

Init == known = {Genesis} /\ head = Genesis /\ mode = "up"

Add(b) ==
  /\ mode = "up" /\ b \notin known /\ Parent[b] \in known
  /\ known' = known \cup {b}
  /\ \/ head' = b /\ Number[b] >= Number[head]
     \/ head' = head /\ Number[b] <= Number[head]
  /\ UNCHANGED mode

BeginRewind == mode = "up" /\ mode' = "rewind" /\ UNCHANGED <<known, head>>

Rewind ==
  /\ mode = "rewind" /\ mode' \in {"rewind", "up"}
  /\ known' \subseteq known
  /\ head' \in known' /\ Number[head'] <= Number[head]

Crash == mode # "down" /\ mode' = "down" /\ UNCHANGED <<known, head>>

Recover ==
  /\ mode = "down"
  /\ \/ mode' = "up" /\ head' \in known
     \/ mode' = "rewind" /\ head' = Genesis
  /\ UNCHANGED known

Next == (\E b \in Blocks : Add(b)) \/ BeginRewind \/ Rewind \/ Crash \/ Recover

Spec == Init /\ [][Next]_vars
=============================================================================
