--------------------------- MODULE MCActionRequest ---------------------------
(***************************************************************************)
(* Two members of the role and an outsider, two requests at a time and one *)
(* update by the workflow.                                                 *)
(***************************************************************************)
EXTENDS ActionRequest

CONSTANTS h1, h2, alice, bob, carol

MCHandlers == {h1, h2}
MCUsers == {alice, bob, carol}
MCMembers == {alice, bob}
=============================================================================
