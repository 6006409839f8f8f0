---------------------------- MODULE MCTenantSync ----------------------------
(***************************************************************************)
(* The owner and a user of two tenants, the second of which has no members *)
(* and is only assigned by an admin; two logins at a time, two projects,   *)
(* one change of CSTAR, one edit in n8n or by an admin, and one failure.   *)
(***************************************************************************)
EXTENDS TenantSync, TLC

CONSTANTS owner, user, t1, t2, h1, h2

MCUsers == {owner, user}
MCTenants == {t1, t2}
MCAnswers == [t \in MCTenants |-> IF t = t1 THEN {Outside, {}, {Editor, Viewer}} ELSE {Outside}]
MCHandlers == {h1, h2}
Symmetry == Permutations(MCHandlers)
=============================================================================
