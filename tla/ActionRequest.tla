---------------------------- MODULE ActionRequest ----------------------------
(***************************************************************************)
(* One action request of the workflow interaction layer: the row, the      *)
(* requests of its actors (claim, unclaim, start, callback), the workflow's *)
(* PATCH, and the execution the callback resumes.  A request reads the row,*)
(* checks what it read and then updates the row under a WHERE of its own;  *)
(* requests run concurrently, and a callback is away at the execution's    *)
(* resume URL for up to 30 s in between.  A request that fails a check     *)
(* changes nothing and is no step of the model, nor is the first of the    *)
(* two reads of claim and unclaim, whose row is not used.                  *)
(*                                                                         *)
(* n8n is external: the node creates the action while its execution still  *)
(* runs; once it waits, the resume URL takes one delivery, and at any other *)
(* time it answers with one of the codes of CALLBACK_CANCEL_STATUS_CODES.  *)
(***************************************************************************)
EXTENDS Naturals, FiniteSets

CONSTANTS
  Users,        \* whoever can call the routes, and whom a PATCH may name
  Members,      \* those holding the role a shared action is addressed to
  Assignee,     \* the user any other action is addressed to
  Nobody,       \* null in claimed_by and completed_by
  Handlers,     \* requests handled at once
  MaxPatches    \* bound of the model: updates by the workflow

ASSUME UsersAssumption == Members \subseteq Users /\ Assignee \in Users
ASSUME NobodyAssumption == Nobody \notin Users
ASSUME MaxPatchesAssumption == MaxPatches \in Nat

VARIABLES
  action,       \* what creation fixed: the kind, its actors, a callback or none
  row,          \* the columns that change
  pc, holds,    \* where each request is, whose it is and the row it read
  execution,    \* the execution that created the action
  taken,        \* whose delivery resumed it
  strays,       \* whose deliveries are still under way though given up
  patches,      \* history: how often the workflow set the row itself
  early         \* history: a callback overtook the execution's own wait

upstream == <<execution, taken, strays, early>>
vars == <<action, row, pc, holds, patches, upstream>>

----------------------------------------------------------------------------
Statuses == {"pending", "claimed", "in_progress", "completed", "cancelled",
             "expired", "deleted"}
UserOrNobody == Users \cup {Nobody}
Row == [status : Statuses \cup {"removed"}, claimedBy : UserOrNobody,
        completedBy : UserOrNobody]
\* ACTION_REQUEST_STATUS_VALUES: what a body of the API may name.
Settable == Statuses \ {"claimed"}
Created(status) == [status |-> status, claimedBy |-> Nobody, completedBy |-> Nobody]

Places == {"idle", "claim", "unclaim", "start", "forward", "complete", "cancel"}
Nothing == <<>>
Request == [user : Users, seen : Row]

Shared == action.shared
Eligible(u) == u \in action.actors

AllowedTransitions(from) ==
  CASE from = "pending" -> {"claimed", "in_progress", "completed", "cancelled"}
    [] from = "claimed" -> {"in_progress", "pending", "cancelled"}
    [] from = "in_progress" -> {"completed", "cancelled"}
    [] OTHER -> {}

Init ==
  /\ \E shared, callback \in BOOLEAN :
       /\ action = [shared |-> shared, callback |-> callback,
                    actors |-> IF shared THEN Members ELSE {Assignee}]
       /\ execution = IF callback THEN "running" ELSE "over"
  /\ \E status \in Settable :
       row = Created(status) /\ patches = IF status = "pending" THEN 0 ELSE 1
  /\ pc = [h \in Handlers |-> "idle"]
  /\ holds = [h \in Handlers |-> Nothing]
  /\ taken = Nobody /\ strays = {} /\ early = FALSE

----------------------------------------------------------------------------
(* Requests.  Read is the query a request bases its checks on, Leave its   *)
(* end; in between it keeps the row it has seen.                           *)

Read(h, u, place) ==
  /\ pc[h] = "idle" /\ row.status # "removed"
  /\ pc' = [pc EXCEPT ![h] = place]
  /\ holds' = [holds EXCEPT ![h] = [user |-> u, seen |-> row]]
  /\ UNCHANGED <<action, row, patches, upstream>>

Leave(h) ==
  /\ pc' = [pc EXCEPT ![h] = "idle"]
  /\ holds' = [holds EXCEPT ![h] = Nothing]
  /\ UNCHANGED <<action, patches>>

\* The UPDATE that ends a request, where the row meets its WHERE.
Update(h, matches, new) ==
  /\ row' = IF matches THEN new ELSE row
  /\ Leave(h)
  /\ UNCHANGED upstream

Claim(h, u) ==
  /\ Eligible(u) /\ Shared /\ row.status = "pending"
  /\ Read(h, u, "claim")

Claimed(h) ==
  /\ pc[h] = "claim"
  /\ Update(h, row.status = "pending",
            [row EXCEPT !.status = "claimed", !.claimedBy = holds[h].user])

\* Any eligible actor may unclaim, not only the claimer.
Unclaim(h, u) ==
  /\ Eligible(u) /\ Shared /\ row.status \in {"claimed", "in_progress"}
  /\ Read(h, u, "unclaim")

Unclaimed(h) ==
  /\ pc[h] = "unclaim"
  /\ Update(h, row.status \in {"claimed", "in_progress"},
            [row EXCEPT !.status = "pending", !.claimedBy = Nobody])

Startable(u) == row.status = "claimed" /\ row.claimedBy = u

Start(h, u) == Startable(u) /\ Read(h, u, "start")

Started(h) ==
  /\ pc[h] = "start"
  /\ Update(h, Startable(holds[h].user), [row EXCEPT !.status = "in_progress"])

----------------------------------------------------------------------------
(* The callback.                                                           *)

\* The claim gate looks at who claims, not at the status.
ClaimGate(u) == Shared => row.claimedBy = u

Callback(h, u) ==
  /\ Eligible(u) /\ ClaimGate(u)
  /\ Read(h, u, IF action.callback THEN "forward" ELSE "complete")

\* (Mutant: the update goes by id alone.)
MayMoveToUnlocked(h, status) ==
  LET seen == holds[h].seen IN
  /\ status \in AllowedTransitions(seen.status)
  /\ status = "completed" /\ Shared => holds[h].user = seen.claimedBy

\* updateStatus, on the row as it was before the delivery; only the status
\* is compared again.
MayMoveTo(h, status) ==
  LET seen == holds[h].seen IN
  /\ status \in AllowedTransitions(seen.status)
  /\ status = "completed" /\ Shared => holds[h].user = seen.claimedBy
  /\ row.status = seen.status

Completed(h) ==
  /\ pc[h] = "complete"
  /\ Update(h, MayMoveTo(h, "completed"),
            [row EXCEPT !.status = "completed", !.completedBy = holds[h].user])

Cancelled(h) ==
  /\ pc[h] = "cancel"
  /\ Update(h, MayMoveTo(h, "cancelled"), [row EXCEPT !.status = "cancelled"])

\* A timeout, a network error, an answer that settles nothing, or the end of
\* the process: the request is over, what it sent may still arrive.
Lose(h) ==
  /\ pc[h] # "idle"
  /\ Leave(h)
  /\ strays' \in IF pc[h] = "forward" THEN {strays, strays \cup {holds[h].user}}
                                      ELSE {strays}
  /\ UNCHANGED <<row, execution, taken, early>>

----------------------------------------------------------------------------
(* The execution and the workflow.                                         *)

Resume(u) ==
  /\ execution = "waiting"
  /\ execution' = "over" /\ taken' = u

Waits ==
  /\ execution = "running" /\ execution' = "waiting"
  /\ UNCHANGED <<action, row, pc, holds, patches, taken, strays, early>>

\* The wait times out, or the execution fails.
Ends ==
  /\ execution # "over" /\ execution' = "over"
  /\ UNCHANGED <<action, row, pc, holds, patches, taken, strays, early>>

Accepts(h) ==
  /\ pc[h] = "forward"
  /\ Resume(holds[h].user)
  /\ pc' = [pc EXCEPT ![h] = "complete"]
  /\ UNCHANGED <<action, row, holds, patches, strays, early>>

\* (Mutant: every error cancels the action.)
AnswersWithError(h) ==
  /\ pc[h] = "forward"
  /\ pc' = [pc EXCEPT ![h] = "cancel"]
  /\ early' = (early \/ execution = "running")
  /\ UNCHANGED <<action, row, holds, patches, execution, taken, strays>>

AnswersGone(h) ==
  /\ pc[h] = "forward" /\ execution # "waiting"
  /\ pc' = [pc EXCEPT ![h] = "cancel"]
  /\ early' = (early \/ execution = "running")
  /\ UNCHANGED <<action, row, holds, patches, execution, taken, strays>>

StrayArrives(u) ==
  /\ u \in strays /\ strays' = strays \ {u}
  /\ Resume(u) \/ (execution # "waiting" /\ UNCHANGED <<execution, taken>>)
  /\ UNCHANGED <<action, row, pc, holds, patches, early>>

\* directUpdate sets any of the columns, without the state machine; a body that
\* names no status keeps it.
Patch(new) ==
  /\ patches < MaxPatches /\ row.status # "removed"
  /\ new.status \in Settable \cup {row.status}
  /\ patches' = patches + 1 /\ row' = new
  /\ UNCHANGED <<action, pc, holds, upstream>>

\* A login removes the rows of a project that is gone.
Remove ==
  /\ row.status # "removed"
  /\ row' = [row EXCEPT !.status = "removed"]
  /\ UNCHANGED <<action, pc, holds, patches, upstream>>

----------------------------------------------------------------------------
Asks(h, u) == Claim(h, u) \/ Unclaim(h, u) \/ Start(h, u) \/ Callback(h, u)
Writes(h) == Claimed(h) \/ Unclaimed(h) \/ Started(h) \/ Completed(h) \/ Cancelled(h)
Answered(h) == Accepts(h) \/ AnswersGone(h)

Next ==
  \/ \E h \in Handlers : Writes(h) \/ Answered(h) \/ Lose(h)
  \/ \E h \in Handlers, u \in Users : Asks(h, u)
  \/ \E u \in Users : StrayArrives(u)
  \/ \E new \in Row : Patch(new)
  \/ Waits \/ Ends \/ Remove

Spec == Init /\ [][Next]_vars

----------------------------------------------------------------------------
\* The row has its columns, a request in flight holds a user and the row read.
TypeOK ==
  /\ action \in [shared : BOOLEAN, callback : BOOLEAN, actors : SUBSET Users]
  /\ row \in Row
  /\ pc \in [Handlers -> Places]
  /\ holds \in [Handlers -> Request \cup {Nothing}]
  /\ \A h \in Handlers : pc[h] = "idle" <=> holds[h] = Nothing
  /\ execution \in {"running", "waiting", "over"}
  /\ taken \in UserOrNobody /\ strays \subseteq Users
  /\ patches \in Nat /\ early \in BOOLEAN

\* Checks on a row read earlier and updates guarded by the status alone still
\* move the action only along the documented transitions, by those they are
\* open to, whatever requests race (claim.service.ts, updateStatus).
Lifecycle == INSTANCE ActionLifecycle
ImplementsLifecycle == Lifecycle!Spec

\* The row tells what happened at the resume URL, although both change apart
\* (wil.ts, the callback route): the user recorded as completing an action is
\* the one whose delivery resumed the execution, and an action is cancelled
\* only if nothing waits for it any more, or a callback came before the wait.
OutcomeMatchesUpstream ==
  patches = 0 /\ action.callback =>
    /\ row.status = "completed" => taken = row.completedBy
    /\ row.status = "cancelled" => execution = "over" \/ early

\* "Claim gate: role/group actions require the claiming actor to complete"
\* (wil.ts:202), "Only the claiming actor can complete this action".
CompletedByClaimant ==
  patches = 0 /\ Shared /\ row.status = "completed" => row.completedBy = row.claimedBy
=============================================================================
