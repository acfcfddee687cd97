----------------------------- MODULE MCDposMint -----------------------------
(* DposMint with two addresses, slots of three seconds and epochs of two   *)
(* slots, which do not begin at the genesis time.                          *)
EXTENDS DposMint, TLC

CONSTANTS a1, a2, l1

MCAddresses == {a1, a2}
MCOneLoop == {l1}

\* The timings for which block production promises something: loops that
\* keep up with the clock, with any ticker, or a steady ticker.
MCTimings == {t \in BOOLEAN \X BOOLEAN : t[1] => t[2]}
MCLate == {TRUE} \X BOOLEAN
=============================================================================
