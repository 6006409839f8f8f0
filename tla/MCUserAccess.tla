---------------------------- MODULE MCUserAccess ----------------------------
(***************************************************************************)
(* Two people, two requests handled at a time, two access requests and one *)
(* change of somebody's roles outside.                                     *)
(***************************************************************************)
EXTENDS UserAccess, TLC

CONSTANTS alice, bob, h1, h2

MCPeople == {alice, bob}
MCRoles == {"global:owner", "global:member"}
MCHandlers == {h1, h2}
Symmetry == Permutations(MCPeople) \cup Permutations(MCHandlers)
=============================================================================
