-------------------------- MODULE MCUiOidcSession --------------------------
(***************************************************************************)
(* Two processes and two requests at a time: an earlier session or none,   *)
(* three pairs of tokens in all, two logouts and one failure.              *)
(***************************************************************************)
EXTENDS UiOidcSession, TLC

CONSTANTS p1, p2, r1, r2

MCProcesses == {p1, p2}
MCRequests == {r1, r2}
Symmetry == Permutations(MCProcesses) \cup Permutations(MCRequests)
=============================================================================
