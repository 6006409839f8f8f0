--------------------------- MODULE ActionLifecycle ---------------------------
(***************************************************************************)
(* What the workflow interaction layer promises about one action request,  *)
(* as its services and their table of transitions have it: who may move it *)
(* where, one step at a time.  The workflow is trusted: it may create the  *)
(* action with a status of its choice, and a PATCH may do anything.  Both  *)
(* are counted, so that every other step has to be one of the transitions. *)
(***************************************************************************)
EXTENDS Naturals

CONSTANTS Users, Nobody
VARIABLES action, row, patches

Open == {"pending", "claimed", "in_progress"}
Move(to) == row' = [row EXCEPT !.status = to] /\ UNCHANGED <<action, patches>>

Claim(u) ==
  /\ action.shared /\ u \in action.actors /\ row.status = "pending"
  /\ row' = [row EXCEPT !.status = "claimed", !.claimedBy = u]
  /\ UNCHANGED <<action, patches>>

Unclaim ==
  /\ action.shared /\ row.status \in {"claimed", "in_progress"}
  /\ row' = [row EXCEPT !.status = "pending", !.claimedBy = Nobody]
  /\ UNCHANGED <<action, patches>>

Start(u) == row.status = "claimed" /\ row.claimedBy = u /\ Move("in_progress")

\* A shared action is completed out of the work somebody started.
Complete(u) ==
  /\ u \in action.actors
  /\ row.status \in {"pending", "in_progress"}
  /\ action.shared /\ patches = 0 => row.status = "in_progress"
  /\ row' = [row EXCEPT !.status = "completed", !.completedBy = u]
  /\ UNCHANGED <<action, patches>>

Cancel == action.callback /\ row.status \in Open /\ Move("cancelled")

Patch == patches' = patches + 1 /\ UNCHANGED action

Remove == Move("removed")

Init ==
  /\ row.claimedBy = Nobody /\ row.completedBy = Nobody
  /\ patches = IF row.status = "pending" THEN 0 ELSE 1

Next ==
  \/ \E u \in Users : Claim(u) \/ Start(u) \/ Complete(u)
  \/ Unclaim \/ Cancel \/ Patch \/ Remove

Spec == Init /\ [][Next]_<<action, row, patches>>
=============================================================================
