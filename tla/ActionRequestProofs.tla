------------------------- MODULE ActionRequestProofs -------------------------
(***************************************************************************)
(* For every set of users, members and concurrent requests and any number  *)
(* of patches: ActionRequest implements ActionLifecycle, and the row tells  *)
(* what happened at the resume URL.                                        *)
(***************************************************************************)
EXTENDS ActionRequest, TLAPS

\* A request in flight is no empty one.
LEMMA RequestIsSomething == Nothing \notin Request
<1>1. \A r \in Request : DOMAIN r # {}
  BY DEF Request
<1>2. DOMAIN Nothing = {}
  BY DEF Nothing
<1> QED
  BY <1>1, <1>2

\* What a request in flight holds.
LEMMA RequestOf ==
  ASSUME TypeOK, NEW h \in Handlers, pc[h] # "idle"
  PROVE  holds[h] \in Request /\ holds[h].user \in Users /\ holds[h].seen \in Row
BY DEF TypeOK, Request

\* Nobody is no user.
LEMMA UserIsSomebody == \A u \in Users : u # Nobody /\ u \in UserOrNobody
BY NobodyAssumption DEF UserOrNobody

\* Columns of the row changed one by one leave a row.
LEMMA RowOf ==
  ASSUME NEW r \in Row, NEW s \in Statuses \cup {"removed"}, NEW u \in UserOrNobody
  PROVE  /\ r.status \in Statuses \cup {"removed"}
         /\ r.claimedBy \in UserOrNobody /\ r.completedBy \in UserOrNobody
         /\ [r EXCEPT !.status = s] \in Row
         /\ [r EXCEPT !.status = s, !.claimedBy = u] \in Row
         /\ [r EXCEPT !.status = s, !.completedBy = u] \in Row
BY DEF Row

----------------------------------------------------------------------------
(* The inductive invariant.  Entitled: a request carries what the checks on *)
(* the columns fixed at creation found.  Unclaimed: until a PATCH, nobody  *)
(* holds a pending action, nor did in the row a request has seen; so the   *)
(* claimer who completes a shared action does it out of started work.      *)
(* Delivered: the execution was resumed once at most, and the delivery that *)
(* resumed it is the one that completes or has completed the action; an    *)
(* error answer means that nothing waits any more, or not yet.             *)

Entitled ==
  \A h \in Handlers :
    /\ pc[h] \in {"claim", "unclaim"} => action.shared
    /\ pc[h] \in {"claim", "forward", "complete", "cancel"} =>
         holds[h].user \in action.actors
    /\ pc[h] \in {"forward", "cancel"} => action.callback

PendingIsFree(r) == r.status = "pending" => r.claimedBy = Nobody

UnclaimedWhilePending ==
  patches = 0 =>
    /\ PendingIsFree(row)
    /\ \A h \in Handlers : pc[h] # "idle" => PendingIsFree(holds[h].seen)

NothingWaits == execution = "over" \/ early

Delivered ==
  /\ taken # Nobody => execution = "over"
  /\ action.callback =>
       \A h \in Handlers : /\ pc[h] = "complete" => taken = holds[h].user
                           /\ pc[h] = "cancel" => NothingWaits
  /\ action.callback /\ patches = 0 =>
       /\ row.status = "completed" => taken = row.completedBy /\ taken # Nobody
       /\ row.status = "cancelled" => NothingWaits

IInv == TypeOK /\ Entitled /\ UnclaimedWhilePending /\ Delivered

\* The invariant holds at the start.
LEMMA InitIInv == Init => IInv
<1> SUFFICES ASSUME Init PROVE IInv
  OBVIOUS
<1>1. TypeOK
  <2>1. action \in [shared : BOOLEAN, callback : BOOLEAN, actors : SUBSET Users]
    BY UsersAssumption DEF Init
  <2>2. row \in Row
    BY DEF Init, Created, Settable, Row, Statuses, UserOrNobody
  <2>3. \A h \in Handlers : pc[h] = "idle" /\ holds[h] = Nothing
    BY DEF Init
  <2>4. execution \in {"running", "waiting", "over"}
    BY DEF Init
  <2>5. /\ pc \in [Handlers -> Places] /\ taken \in UserOrNobody /\ strays \subseteq Users
        /\ holds \in [Handlers -> Request \cup {Nothing}]
        /\ early \in BOOLEAN
    BY DEF Init, Places, UserOrNobody
  <2>6. patches \in Nat
    BY DEF Init
  <2> QED
    BY <2>1, <2>2, <2>3, <2>4, <2>5, <2>6 DEF TypeOK
<1>2. \A h \in Handlers : pc[h] = "idle"
  BY DEF Init
<1>3. taken = Nobody /\ (patches = 0 => row = Created("pending"))
  BY DEF Init
<1> QED
  BY <1>1, <1>2, <1>3
  DEF IInv, Entitled, UnclaimedWhilePending, PendingIsFree, Delivered, Created

\* Where a request is and what it holds stay well-typed when it moves on.
LEMMA PlaceType ==
  ASSUME TypeOK, NEW h \in Handlers, NEW place \in Places, NEW r,
         IF place = "idle" THEN r = Nothing ELSE r \in Request,
         pc' = [pc EXCEPT ![h] = place], holds' = [holds EXCEPT ![h] = r]
  PROVE  /\ pc' \in [Handlers -> Places]
         /\ holds' \in [Handlers -> Request \cup {Nothing}]
         /\ \A j \in Handlers : pc'[j] = "idle" <=> holds'[j] = Nothing
         /\ pc'[h] = place /\ holds'[h] = r
         /\ \A j \in Handlers : j # h => pc'[j] = pc[j] /\ holds'[j] = holds[j]
BY RequestIsSomething DEF TypeOK

\* A read whose user passed the checks keeps the invariant.
LEMMA ReadStep ==
  ASSUME IInv, NEW h \in Handlers, NEW u \in Users, NEW place \in Places,
         Read(h, u, place), place # "idle",
         place \in {"claim", "unclaim"} => action.shared,
         place # "unclaim" /\ place # "start" => u \in action.actors,
         place \in {"forward", "cancel"} => action.callback,
         place # "cancel", place = "complete" => ~ action.callback
  PROVE  IInv'
<1> DEFINE r == [user |-> u, seen |-> row]
<1>1. r \in Request
  BY DEF IInv, TypeOK, Request
<1>2. /\ pc' \in [Handlers -> Places]
      /\ holds' \in [Handlers -> Request \cup {Nothing}]
      /\ \A j \in Handlers : pc'[j] = "idle" <=> holds'[j] = Nothing
      /\ pc'[h] = place /\ holds'[h] = r
      /\ \A j \in Handlers : j # h => pc'[j] = pc[j] /\ holds'[j] = holds[j]
  <2> HIDE DEF r
  <2>1. pc' = [pc EXCEPT ![h] = place] /\ holds' = [holds EXCEPT ![h] = r]
    BY DEF Read, r
  <2> QED
    BY <1>1, <2>1, PlaceType DEF IInv
<1>3. UNCHANGED <<action, row, patches, execution, taken, strays, early>>
  BY DEF Read, upstream
<1>4. r.user = u /\ r.seen = row
  OBVIOUS
<1> HIDE DEF r
<1>5. TypeOK'
  BY <1>2, <1>3 DEF IInv, TypeOK
<1>6. Entitled'
  BY <1>2, <1>3, <1>4 DEF IInv, Entitled
<1>7. UnclaimedWhilePending'
  BY <1>2, <1>3, <1>4 DEF IInv, UnclaimedWhilePending, PendingIsFree
<1>8. Delivered'
  BY <1>2, <1>3, <1>4 DEF IInv, Delivered, NothingWaits
<1> QED
  BY <1>5, <1>6, <1>7, <1>8 DEF IInv

\* Every check of a route is followed by a read that keeps the invariant.
LEMMA AskStep ==
  ASSUME IInv, NEW h \in Handlers, NEW u \in Users, Asks(h, u)
  PROVE  IInv'
<1>1. CASE Claim(h, u)
  BY <1>1, ReadStep DEF Claim, Eligible, Shared, Places
<1>2. CASE Unclaim(h, u)
  BY <1>2, ReadStep DEF Unclaim, Eligible, Shared, Places
<1>3. CASE Start(h, u)
  BY <1>3, ReadStep DEF Start, Places
<1>4. CASE Callback(h, u)
  <2>1. CASE action.callback
    BY <1>4, <2>1, ReadStep DEF Callback, Eligible, Places
  <2>2. CASE ~ action.callback
    BY <1>4, <2>2, ReadStep DEF Callback, Eligible, Places
  <2> QED
    BY <2>1, <2>2
<1> QED
  BY <1>1, <1>2, <1>3, <1>4 DEF Asks

\* The end of a request, after which the row meets the invariant, does too.
LEMMA LeaveStep ==
  ASSUME IInv, NEW h \in Handlers, Leave(h), row' \in Row,
         strays' \subseteq Users, UNCHANGED <<execution, taken, early>>,
         patches = 0 => PendingIsFree(row'),
         action.callback /\ patches = 0 =>
           /\ row'.status = "completed" => taken = row'.completedBy /\ taken # Nobody
           /\ row'.status = "cancelled" => NothingWaits
  PROVE  IInv'
<1>1. /\ pc' \in [Handlers -> Places]
      /\ holds' \in [Handlers -> Request \cup {Nothing}]
      /\ \A j \in Handlers : pc'[j] = "idle" <=> holds'[j] = Nothing
      /\ pc'[h] = "idle" /\ holds'[h] = Nothing
      /\ \A j \in Handlers : j # h => pc'[j] = pc[j] /\ holds'[j] = holds[j]
  BY PlaceType DEF Leave, Places, IInv
<1>2. UNCHANGED <<action, patches>>
  BY DEF Leave
<1>3. TypeOK'
  BY <1>1, <1>2 DEF IInv, TypeOK
<1>4. Entitled'
  BY <1>1, <1>2 DEF IInv, Entitled
<1>5. UnclaimedWhilePending'
  BY <1>1, <1>2 DEF IInv, UnclaimedWhilePending, PendingIsFree
<1>6. Delivered'
  BY <1>1, <1>2 DEF IInv, Delivered, NothingWaits
<1> QED
  BY <1>3, <1>4, <1>5, <1>6 DEF IInv

----------------------------------------------------------------------------
(* The updates.                                                            *)

\* What the state machine lets through.
LEMMA TransitionsInto ==
  ASSUME NEW from
  PROVE  /\ "completed" \in AllowedTransitions(from) => from \in {"pending", "in_progress"}
         /\ "cancelled" \in AllowedTransitions(from) =>
              from \in {"pending", "claimed", "in_progress"}
<1> DEFINE T == AllowedTransitions(from)
<1>1. CASE from = "pending"
  BY <1>1
<1>2. CASE from = "claimed"
  BY <1>2 DEF AllowedTransitions
<1>3. CASE from = "in_progress"
  BY <1>3
<1>4. CASE from \notin {"pending", "claimed", "in_progress"}
  BY <1>4 DEF AllowedTransitions
<1> QED
  BY <1>1, <1>2, <1>3, <1>4

\* A completion that is let through: the actor is one the action is open to,
\* and a shared action no PATCH has touched is in progress.
LEMMA CompletionOf ==
  ASSUME IInv, NEW h \in Handlers, pc[h] = "complete", MayMoveTo(h, "completed")
  PROVE  /\ row.status \in {"pending", "in_progress"}
         /\ action.shared /\ patches = 0 => row.status = "in_progress"
<1>1. /\ "completed" \in AllowedTransitions(holds[h].seen.status)
      /\ action.shared => holds[h].user = holds[h].seen.claimedBy
      /\ row.status = holds[h].seen.status
  BY DEF MayMoveTo, Shared
<1>2. row.status \in {"pending", "in_progress"}
  BY <1>1, TransitionsInto
<1>3. ASSUME action.shared, patches = 0, row.status = "pending" PROVE FALSE
  <2>1. holds[h].seen.claimedBy = Nobody
    BY <1>1, <1>3 DEF IInv, UnclaimedWhilePending, PendingIsFree
  <2> QED
    BY <1>1, <1>3, <2>1, RequestOf, UserIsSomebody DEF IInv
<1> QED
  BY <1>2, <1>3

\* A cancellation that is let through finds the action open.
LEMMA CancellationOf ==
  ASSUME NEW h \in Handlers, MayMoveTo(h, "cancelled")
  PROVE  row.status \in {"pending", "claimed", "in_progress"}
<1>1. /\ "cancelled" \in AllowedTransitions(holds[h].seen.status)
      /\ row.status = holds[h].seen.status
  BY DEF MayMoveTo
<1> QED
  BY <1>1, TransitionsInto

\* The five updates keep the invariant.
LEMMA WriteStep ==
  ASSUME IInv, NEW h \in Handlers, Writes(h)
  PROVE  IInv'
<1> DEFINE u == holds[h].user
<1>1. /\ Leave(h) /\ pc[h] # "idle"
      /\ UNCHANGED <<execution, taken, early>> /\ strays' \subseteq Users
  BY DEF Writes, Claimed, Unclaimed, Started, Completed, Cancelled, Update, upstream,
         IInv, TypeOK
<1>2. u \in Users /\ u \in UserOrNobody /\ u # Nobody /\ row \in Row
  BY <1>1, RequestOf, UserIsSomebody DEF IInv, TypeOK
<1>3. CASE row' = row
  BY <1>1, <1>2, <1>3, LeaveStep DEF IInv, UnclaimedWhilePending, Delivered
<1>4. CASE Claimed(h) /\ row' # row
  <2>1. row' = [row EXCEPT !.status = "claimed", !.claimedBy = u]
    BY <1>4 DEF Claimed, Update
  <2>2. row' \in Row /\ row'.status = "claimed"
    BY <1>2, <2>1, RowOf DEF Statuses, Row
  <2> QED
    BY <1>1, <2>2, LeaveStep DEF PendingIsFree
<1>5. CASE Unclaimed(h) /\ row' # row
  <2>1. row' = [row EXCEPT !.status = "pending", !.claimedBy = Nobody]
    BY <1>5 DEF Unclaimed, Update
  <2>2. row' \in Row /\ row'.status = "pending" /\ row'.claimedBy = Nobody
    BY <1>2, <2>1, RowOf DEF Statuses, Row, UserOrNobody
  <2> QED
    BY <1>1, <2>2, LeaveStep DEF PendingIsFree
<1>6. CASE Started(h) /\ row' # row
  <2>1. row' = [row EXCEPT !.status = "in_progress"]
    BY <1>6 DEF Started, Update
  <2>2. row' \in Row /\ row'.status = "in_progress"
    BY <1>2, <2>1, RowOf DEF Statuses, Row
  <2> QED
    BY <1>1, <2>2, LeaveStep DEF PendingIsFree
<1>7. CASE Completed(h) /\ row' # row
  <2>1. row' = [row EXCEPT !.status = "completed", !.completedBy = u]
    BY <1>7 DEF Completed, Update
  <2>2. row' \in Row /\ row'.status = "completed" /\ row'.completedBy = u
    BY <1>2, <2>1, RowOf DEF Statuses, Row
  <2>3. action.callback => taken = u
    BY <1>7 DEF Completed, IInv, Delivered
  <2> QED
    BY <1>1, <1>2, <2>2, <2>3, LeaveStep DEF PendingIsFree
<1>8. CASE Cancelled(h) /\ row' # row
  <2>1. row' = [row EXCEPT !.status = "cancelled"]
    BY <1>8 DEF Cancelled, Update
  <2>2. row' \in Row /\ row'.status = "cancelled"
    BY <1>2, <2>1, RowOf DEF Statuses, Row
  <2>3. action.callback => NothingWaits
    BY <1>8 DEF Cancelled, IInv, Delivered
  <2> QED
    BY <1>1, <2>2, <2>3, LeaveStep DEF PendingIsFree
<1> QED
  BY <1>3, <1>4, <1>5, <1>6, <1>7, <1>8 DEF Writes

\* A lost request leaves the row alone; its delivery may still arrive.
LEMMA LoseStep ==
  ASSUME IInv, NEW h \in Handlers, Lose(h)
  PROVE  IInv'
<1>1. pc[h] # "idle" /\ Leave(h) /\ UNCHANGED <<row, execution, taken, early>>
  BY DEF Lose
<1>2. strays' \subseteq Users
  BY <1>1, RequestOf DEF Lose, IInv, TypeOK
<1> QED
  BY <1>1, <1>2, LeaveStep DEF IInv, TypeOK, UnclaimedWhilePending, Delivered

----------------------------------------------------------------------------
(* The execution and the workflow.                                         *)

\* The delivery that resumes the execution is the first: nobody holds an
\* accepted one, and nobody has completed the action with one.
LEMMA FirstDelivery ==
  ASSUME IInv, execution = "waiting"
  PROVE  /\ taken = Nobody
         /\ action.callback => \A h \in Handlers : pc[h] # "complete"
         /\ action.callback /\ patches = 0 => row.status # "completed"
<1>1. taken = Nobody
  BY DEF IInv, Delivered
<1>2. ASSUME action.callback, NEW h \in Handlers, pc[h] = "complete" PROVE FALSE
  BY <1>1, <1>2, RequestOf, UserIsSomebody DEF IInv, Delivered
<1> QED
  BY <1>1, <1>2 DEF IInv, Delivered

\* An answer of the resume URL keeps the invariant.
LEMMA AnswerStep ==
  ASSUME IInv, NEW h \in Handlers, Answered(h)
  PROVE  IInv'
<1> DEFINE place == IF Accepts(h) THEN "complete" ELSE "cancel"
<1>1. /\ pc[h] = "forward" /\ pc' = [pc EXCEPT ![h] = place] /\ place \in Places
      /\ UNCHANGED <<action, row, holds, patches, strays>>
      /\ execution' \in {execution, "over"} /\ (execution = "over" => execution' = "over")
      /\ early' \in BOOLEAN /\ (early => early')
  BY DEF Answered, Accepts, AnswersGone, Resume, Places, IInv, TypeOK
<1> DEFINE user == holds[h].user
<1>2. user \in Users /\ user # Nobody /\ user \in UserOrNobody
  BY <1>1, RequestOf, UserIsSomebody DEF IInv
<1>3. taken' \in UserOrNobody
  BY <1>2 DEF Answered, Accepts, AnswersGone, Resume, IInv, TypeOK
<1>4. pc'[h] = place /\ \A j \in Handlers : j # h => pc'[j] = pc[j]
  BY <1>1 DEF IInv, TypeOK
<1>5. TypeOK'
  <2>1. pc' \in [Handlers -> Places]
    BY <1>1 DEF IInv, TypeOK
  <2>2. \A j \in Handlers : pc'[j] = "idle" <=> holds'[j] = Nothing
    BY <1>1, <1>4 DEF IInv, TypeOK
  <2> QED
    BY <1>1, <1>3, <2>1, <2>2 DEF IInv, TypeOK
<1>6. Entitled'
  BY <1>1, <1>4 DEF IInv, Entitled
<1>7. UnclaimedWhilePending'
  BY <1>1, <1>4 DEF IInv, UnclaimedWhilePending, PendingIsFree
<1>8. Delivered'
  <2>1. CASE Accepts(h)
    <3>1. execution = "waiting" /\ execution' = "over" /\ taken' = user
      BY <2>1 DEF Accepts, Resume
    <3> QED
      BY <1>1, <1>2, <1>4, <2>1, <3>1, FirstDelivery DEF IInv, Delivered, NothingWaits
  <2>2. CASE AnswersGone(h) /\ ~ Accepts(h)
    <3>1. UNCHANGED <<execution, taken>> /\ (execution = "over" \/ early')
      BY <2>2 DEF AnswersGone, IInv, TypeOK
    <3> QED
      BY <1>1, <1>4, <2>2, <3>1 DEF IInv, Delivered, NothingWaits
  <2> QED
    BY <2>1, <2>2 DEF Answered
<1> QED
  BY <1>5, <1>6, <1>7, <1>8 DEF IInv

\* So does every other step of the execution and of the workflow.
LEMMA OutsideStep ==
  ASSUME IInv,
         \/ \E u \in Users : StrayArrives(u)
         \/ \E new \in Row : Patch(new)
         \/ Waits \/ Ends \/ Remove
  PROVE  IInv'
<1>1. ASSUME NEW u \in Users, StrayArrives(u) PROVE IInv'
  <2>1. /\ UNCHANGED <<action, row, pc, holds, patches, early>> /\ strays' \subseteq Users
        /\ \/ UNCHANGED <<execution, taken>>
           \/ execution = "waiting" /\ execution' = "over" /\ taken' = u
    BY <1>1 DEF StrayArrives, Resume, IInv, TypeOK
  <2>2. TypeOK'
    BY <2>1, UserIsSomebody DEF IInv, TypeOK
  <2>3. Delivered'
    BY <2>1, UserIsSomebody, FirstDelivery DEF IInv, Delivered, NothingWaits
  <2> QED
    BY <2>1, <2>2, <2>3 DEF IInv, Entitled, UnclaimedWhilePending, PendingIsFree
<1>2. ASSUME NEW new \in Row, Patch(new) PROVE IInv'
  <2>1. /\ UNCHANGED <<action, pc, holds, execution, taken, strays, early>>
        /\ row' \in Row /\ patches' \in Nat /\ patches' # 0
    BY <1>2 DEF Patch, upstream, IInv, TypeOK
  <2> QED
    BY <2>1 DEF IInv, TypeOK, Entitled, UnclaimedWhilePending, Delivered, NothingWaits
<1>3. CASE Waits \/ Ends
  <2>1. /\ UNCHANGED <<action, row, pc, holds, patches, taken, strays, early>>
        /\ execution' \in {"running", "waiting", "over"}
        /\ execution = "over" => execution' = "over"
    BY <1>3 DEF Waits, Ends
  <2> QED
    BY <2>1
    DEF IInv, TypeOK, Entitled, UnclaimedWhilePending, PendingIsFree, Delivered, NothingWaits
<1>4. CASE Remove
  <2>1. /\ UNCHANGED <<action, pc, holds, patches, execution, taken, strays, early>>
        /\ row' \in Row /\ row'.status = "removed"
    BY <1>4, RowOf DEF Remove, upstream, IInv, TypeOK, Row
  <2> QED
    BY <2>1
    DEF IInv, TypeOK, Entitled, UnclaimedWhilePending, PendingIsFree, Delivered, NothingWaits
<1> QED
  BY <1>1, <1>2, <1>3, <1>4

\* Every step keeps the invariant.
LEMMA NextIInv == IInv /\ [Next]_vars => IInv'
<1> SUFFICES ASSUME IInv, [Next]_vars PROVE IInv'
  OBVIOUS
<1>1. CASE UNCHANGED vars
  BY <1>1
  DEF vars, upstream, IInv, TypeOK, Entitled, UnclaimedWhilePending, PendingIsFree,
      Delivered, NothingWaits
<1>2. ASSUME NEW h \in Handlers, Writes(h) \/ Answered(h) \/ Lose(h) PROVE IInv'
  BY <1>2, WriteStep, AnswerStep, LoseStep
<1> QED
  BY <1>1, <1>2, AskStep, OutsideStep DEF Next

\* The invariant always holds.
LEMMA AlwaysIInv == Spec => []IInv
BY InitIInv, NextIInv, PTL DEF Spec

----------------------------------------------------------------------------
\* Every variable keeps its type (the columns and the requests of wil.ts).
THEOREM TypeCorrect == Spec => []TypeOK
<1>1. IInv => TypeOK
  BY DEF IInv
<1> QED
  BY <1>1, AlwaysIInv, PTL

\* The row and the execution tell the same story, however many callbacks race
\* (the callback route of wil.ts): who is recorded as completing the action is
\* the one whose delivery resumed the workflow, and a cancelled action is one
\* nothing waits for.
THEOREM RowTellsOutcome == Spec => []OutcomeMatchesUpstream
<1>1. IInv => OutcomeMatchesUpstream
  BY DEF IInv, Delivered, NothingWaits, OutcomeMatchesUpstream
<1> QED
  BY <1>1, AlwaysIInv, PTL

\* An update is a documented transition of the row, or touches nothing.
LEMMA WriteRefines ==
  ASSUME IInv, NEW h \in Handlers, Writes(h)
  PROVE  Lifecycle!Next \/ UNCHANGED <<action, row, patches>>
<1> DEFINE u == holds[h].user
<1>1. pc[h] # "idle" /\ UNCHANGED <<action, patches>>
  BY DEF Writes, Claimed, Unclaimed, Started, Completed, Cancelled, Update, Leave
<1>2. u \in Users
  BY <1>1, RequestOf DEF IInv
<1>3. CASE row' = row
  BY <1>1, <1>3
<1>4. CASE Claimed(h) /\ row' # row
  <2>1. Lifecycle!Claim(u)
    BY <1>1, <1>4 DEF Claimed, Update, IInv, Entitled, Lifecycle!Claim
  <2> QED
    BY <1>2, <2>1 DEF Lifecycle!Next
<1>5. CASE Unclaimed(h) /\ row' # row
  <2>1. Lifecycle!Unclaim
    BY <1>1, <1>5 DEF Unclaimed, Update, IInv, Entitled, Lifecycle!Unclaim
  <2> QED
    BY <2>1 DEF Lifecycle!Next
<1>6. CASE Started(h) /\ row' # row
  <2>1. Lifecycle!Start(u)
    BY <1>1, <1>6 DEF Started, Startable, Update, Lifecycle!Start, Lifecycle!Move
  <2> QED
    BY <1>2, <2>1 DEF Lifecycle!Next
<1>7. CASE Completed(h) /\ row' # row
  <2>1. pc[h] = "complete" /\ MayMoveTo(h, "completed")
        /\ row' = [row EXCEPT !.status = "completed", !.completedBy = u]
    BY <1>7 DEF Completed, Update
  <2>2. Lifecycle!Complete(u)
    BY <1>1, <2>1, CompletionOf DEF IInv, Entitled, Lifecycle!Complete
  <2> QED
    BY <1>2, <2>2 DEF Lifecycle!Next
<1>8. CASE Cancelled(h) /\ row' # row
  <2>1. pc[h] = "cancel" /\ MayMoveTo(h, "cancelled")
        /\ row' = [row EXCEPT !.status = "cancelled"]
    BY <1>8 DEF Cancelled, Update
  <2>2. Lifecycle!Cancel
    BY <1>1, <2>1, CancellationOf
    DEF IInv, Entitled, Lifecycle!Cancel, Lifecycle!Open, Lifecycle!Move
  <2> QED
    BY <2>2 DEF Lifecycle!Next
<1> QED
  BY <1>3, <1>4, <1>5, <1>6, <1>7, <1>8 DEF Writes

\* Every step is a step of the lifecycle, or leaves the action as it is.
LEMMA NextRefines ==
  IInv /\ [Next]_vars => Lifecycle!Next \/ UNCHANGED <<action, row, patches>>
<1> SUFFICES ASSUME IInv, [Next]_vars
             PROVE  Lifecycle!Next \/ UNCHANGED <<action, row, patches>>
  OBVIOUS
<1>1. ASSUME NEW h \in Handlers, NEW u \in Users, Asks(h, u)
      PROVE  UNCHANGED <<action, row, patches>>
  BY <1>1 DEF Asks, Claim, Unclaim, Start, Callback, Read
<1>2. ASSUME NEW h \in Handlers, Answered(h) \/ Lose(h)
      PROVE  UNCHANGED <<action, row, patches>>
  BY <1>2 DEF Answered, Accepts, AnswersGone, Lose, Leave
<1>3. ASSUME NEW new \in Row, Patch(new) PROVE Lifecycle!Next
  BY <1>3 DEF Patch, Lifecycle!Patch, Lifecycle!Next
<1>4. CASE Remove
  BY <1>4 DEF Remove, Lifecycle!Remove, Lifecycle!Move, Lifecycle!Next
<1>5. CASE (\E u \in Users : StrayArrives(u)) \/ Waits \/ Ends
  BY <1>5 DEF StrayArrives, Waits, Ends
<1>6. CASE UNCHANGED vars
  BY <1>6 DEF vars
<1> QED
  BY <1>1, <1>2, <1>3, <1>4, <1>5, <1>6, WriteRefines DEF Next

\* The racing requests, each checking a row it read earlier, implement the
\* lifecycle in which every transition is one step (ALLOWED_TRANSITIONS).
THEOREM RequestsFollowLifecycle == Spec => ImplementsLifecycle
<1>1. Init => Lifecycle!Init
  BY DEF Init, Created, Lifecycle!Init
<1>2. IInv /\ [Next]_vars => [Lifecycle!Next]_<<action, row, patches>>
  BY NextRefines
<1> QED
  BY <1>1, <1>2, AlwaysIInv, PTL DEF Spec, ImplementsLifecycle, Lifecycle!Spec

----------------------------------------------------------------------------
(* What the lifecycle entails.  Stated of its steps, it holds of the        *)
(* requests, which take no others.                                          *)

\* Whoever holds or settled the action was entitled to: a shared action is held
\* by an actor and completed by one, another is never held, a pending one is
\* nobody's, and only one with a callback is cancelled.
HeldByActors ==
  patches = 0 =>
    /\ row.status = "pending" => row.claimedBy = Nobody
    /\ row.status \in {"claimed", "in_progress"} =>
         action.shared /\ row.claimedBy \in action.actors
    /\ row.status = "completed" =>
         /\ row.completedBy \in action.actors
         /\ action.shared => row.claimedBy \in action.actors
    /\ row.status = "cancelled" => action.callback

\* A step of the lifecycle keeps the holder an actor.
LEMMA LifecycleHolds ==
  ASSUME TypeOK, HeldByActors, Lifecycle!Next
  PROVE  HeldByActors'
<1>1. row \in Row /\ patches \in Nat
  BY DEF TypeOK
<1>2. CASE Lifecycle!Patch
  BY <1>1, <1>2, SMT DEF Lifecycle!Patch, HeldByActors
<1>3. CASE Lifecycle!Unclaim
  BY <1>1, <1>3 DEF Lifecycle!Unclaim, HeldByActors, Row
<1>4. CASE Lifecycle!Cancel
  BY <1>1, <1>4 DEF Lifecycle!Cancel, Lifecycle!Move, HeldByActors, Row
<1>5. CASE Lifecycle!Remove
  BY <1>1, <1>5 DEF Lifecycle!Remove, Lifecycle!Move, HeldByActors, Row
<1>6. ASSUME NEW u \in Users, Lifecycle!Claim(u) PROVE HeldByActors'
  BY <1>1, <1>6 DEF Lifecycle!Claim, HeldByActors, Row
<1>7. ASSUME NEW u \in Users, Lifecycle!Start(u) PROVE HeldByActors'
  BY <1>1, <1>7 DEF Lifecycle!Start, Lifecycle!Move, HeldByActors, Row
<1>8. ASSUME NEW u \in Users, Lifecycle!Complete(u) PROVE HeldByActors'
  BY <1>1, <1>8 DEF Lifecycle!Complete, HeldByActors, Row
<1> QED
  BY <1>2, <1>3, <1>4, <1>5, <1>6, <1>7, <1>8 DEF Lifecycle!Next

\* Nobody holds or settles an action who may not, whatever requests race (the
\* checks of claim.service.ts and of the callback route): of many that read the
\* row before any wrote it, those that write are still entitled to.
THEOREM ActionsAreHeldByActors == Spec => []HeldByActors
<1>1. Init => HeldByActors
  BY DEF Init, Created, HeldByActors
<1>2. IInv /\ HeldByActors /\ [Next]_vars => HeldByActors'
  <2> SUFFICES ASSUME IInv, HeldByActors, [Next]_vars PROVE HeldByActors'
    OBVIOUS
  <2>1. CASE Lifecycle!Next
    BY <2>1, LifecycleHolds DEF IInv
  <2>2. CASE UNCHANGED <<action, row, patches>>
    BY <2>2 DEF HeldByActors
  <2> QED
    BY <2>1, <2>2, NextRefines
<1> QED
  BY <1>1, <1>2, AlwaysIInv, PTL DEF Spec

\* A settled action stays as it is until it is removed.
Settled == row.status \in {"completed", "cancelled"}
SettledStays ==
  [][Settled /\ patches' = patches =>
       row' = row \/ row' = [row EXCEPT !.status = "removed"]]_vars

\* A late answer or a second callback does not reopen, complete or cancel an
\* action once it is settled (updateStatus and its WHERE on the status); only
\* the workflow's own PATCH changes it.
THEOREM SettledActionsStay == Spec => SettledStays
<1>1. IInv /\ [Next]_vars =>
        [Settled /\ patches' = patches =>
           row' = row \/ row' = [row EXCEPT !.status = "removed"]]_vars
  <2> SUFFICES ASSUME IInv, [Next]_vars, Settled, patches' = patches
               PROVE  row' = row \/ row' = [row EXCEPT !.status = "removed"]
    OBVIOUS
  <2>1. CASE Lifecycle!Patch
    BY <2>1, SMT DEF Lifecycle!Patch, IInv, TypeOK
  <2>2. CASE Lifecycle!Remove
    BY <2>2 DEF Lifecycle!Remove, Lifecycle!Move
  <2>3. CASE \/ Lifecycle!Unclaim \/ Lifecycle!Cancel
             \/ \E u \in Users : \/ Lifecycle!Claim(u) \/ Lifecycle!Start(u)
                                 \/ Lifecycle!Complete(u)
    BY <2>3 DEF Settled, Lifecycle!Unclaim, Lifecycle!Cancel, Lifecycle!Open,
         Lifecycle!Claim, Lifecycle!Start, Lifecycle!Complete
  <2> QED
    BY <2>1, <2>2, <2>3, NextRefines DEF Lifecycle!Next
<1> QED
  BY <1>1, AlwaysIInv, PTL DEF Spec, SettledStays
=============================================================================
