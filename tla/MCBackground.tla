---------------------------- MODULE MCBackground ----------------------------
(***************************************************************************)
(* What goes on behind the requests: callbacks of a multi-webhook wait,    *)
(* resubmissions of a CHEFS form, and the mails about limits.  They share  *)
(* no state, so one run checks them side by side: in a behaviour one part  *)
(* moves and the others stay as they were at first.                        *)
(***************************************************************************)
EXTENDS MCMultiWebhookWait, MCChefsResubmit, MCLimitNotification

VARIABLE part

Parts == {"wait", "resubmission", "mails"}

BackgroundInit ==
  /\ part \in Parts
  /\ Init /\ ChefsInit /\ NotificationInit
  /\ part # "mails" => members = [p \in Projects |-> {}]

BackgroundNext ==
  /\ \/ part = "wait" /\ Next /\ UNCHANGED <<chefsVars, notificationVars>>
     \/ part = "resubmission" /\ ChefsNext /\ UNCHANGED <<vars, notificationVars>>
     \/ part = "mails" /\ NotificationNext /\ UNCHANGED <<vars, chefsVars>>
  /\ UNCHANGED part

Resubmits == part = "resubmission"

\* The fairness of each part.  One that stays has no handler and no dispatch that
\* could go on; a form may always be submitted, so what ChefsResubmit calls its
\* Fairness is asked only where that part moves.
BackgroundFairness ==
  /\ \A h \in Handlers : WF_vars(HandlerStep(h))
  /\ \A e \in Executions : WF_chefsVars(Resubmits /\ EnterWait(e))
  /\ \A c \in Callbacks :
       /\ WF_chefsVars(Resubmits /\ Submit(c)) /\ SF_chefsVars(Resubmits /\ Resume(c))
       /\ WF_chefsVars(Resubmits /\ (Refuse(c) \/ StartFresh(c) \/ Confirm(c)))
  /\ \A i \in Dispatches : WF_notificationVars(DispatchStep(i))

BackgroundSpec ==
  BackgroundInit /\ [][BackgroundNext]_<<vars, chefsVars, notificationVars, part>>
    /\ BackgroundFairness
=============================================================================
