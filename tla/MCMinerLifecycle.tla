-------------------------- MODULE MCMinerLifecycle --------------------------
(* MinerLifecycle with two request goroutines and up to three mint loops.  *)
EXTENDS MinerLifecycle

CONSTANTS c1, c2

MCCallers == {c1, c2}
MCLoopIds == 1 .. 3
MCBoth == {"start", "stop"}
MCStartOnly == {"start"}
=============================================================================
