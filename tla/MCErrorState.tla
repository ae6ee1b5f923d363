---------------------------- MODULE MCErrorState ----------------------------
(***************************************************************************)
(* Two threads that report, two that poll and one that registers.          *)
(***************************************************************************)
EXTENDS ErrorState

CONSTANTS r1, r2, p1, p2

TwoReporters == {r1, r2}
TwoPollers == {p1, p2}
=============================================================================
