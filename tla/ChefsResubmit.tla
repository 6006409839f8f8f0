---------------------------- MODULE ChefsResubmit ----------------------------
(***************************************************************************)
(* One CHEFS submission and the executions waiting for it to be submitted  *)
(* again.  The CHEFS Resubmit Wait node registers the execution under the  *)
(* form and the submission and then waits; CHEFS calls back at every       *)
(* submission, and the callback is forwarded to the resume URL registered, *)
(* or, when there is none, to the webhook that starts a workflow.  The row *)
(* is deleted once the resume URL has accepted.                            *)
(*                                                                         *)
(* n8n is external: a resume URL takes one delivery while its execution    *)
(* waits and refuses any other.  Events of CHEFS other than submissions    *)
(* are ignored by the code and left out.                                   *)
(***************************************************************************)
EXTENDS Naturals, FiniteSets

CONSTANTS
  Executions, Callbacks,
  NoExecution,
  MaxRegistrations   \* bound of the model: waits of an execution

ASSUME NoExecutionAssumption == NoExecution \notin Executions
ASSUME MaxRegistrationsAssumption == MaxRegistrations \in Nat \ {0}

VARIABLES
  row,            \* chefs_submission_webhook: who is to be resumed
  run, rounds,    \* the executions, and how often each has registered
  at, found,      \* per callback: its step and the row it found
  strays,         \* deliveries still under way though given up
  superseded,     \* history: waits another registration replaced
  swept           \* history: waits whose row an earlier delivery deleted

n8n == <<run, rounds>>
history == <<superseded, swept>>
chefsVars == <<row, n8n, at, found, strays, history>>

----------------------------------------------------------------------------
\* The number of the wait is history: the code has the execution only.
Registration == [execution : Executions \cup {NoExecution}, wait : 0..MaxRegistrations]
NoRow == [execution |-> NoExecution, wait |-> 0]
Waiting(e) == run[e] = "waiting"

ChefsInit ==
  /\ row = NoRow
  /\ run = [e \in Executions |-> "new"] /\ rounds = [e \in Executions |-> 0]
  /\ at = [h \in Callbacks |-> "idle"] /\ found = [h \in Callbacks |-> NoRow]
  /\ strays = {} /\ superseded = {} /\ swept = {}

----------------------------------------------------------------------------
(* Executions.                                                             *)

Run(e, state) == run' = [run EXCEPT ![e] = state]

\* An execution starts by a trigger of its own.
Start(e) ==
  /\ run[e] = "new" /\ Run(e, "running")
  /\ UNCHANGED <<row, rounds, at, found, strays, history>>

\* (Mutant: the first registration stays.)
UpsertFirst(e) ==
  row' = IF row = NoRow THEN [execution |-> e, wait |-> rounds[e] + 1] ELSE row

\* The latest wins.
Upsert(e) == row' = [execution |-> e, wait |-> rounds[e] + 1]

\* The node registers before the execution waits.
Register(e) ==
  /\ run[e] = "running" /\ rounds[e] < MaxRegistrations
  /\ Upsert(e)
  /\ Run(e, "registered") /\ rounds' = [rounds EXCEPT ![e] = @ + 1]
  /\ superseded' = (superseded \ {e}) \cup
                     { other \in Executions \ {e} : run[other] \in {"registered", "waiting"} }
  /\ swept' = swept \ {e}
  /\ UNCHANGED <<at, found, strays>>

EnterWait(e) ==
  /\ run[e] = "registered" /\ Run(e, "waiting")
  /\ UNCHANGED <<row, rounds, at, found, strays, history>>

\* It fails, is stopped, or its wait reaches its limit.  The row stays.
Ends(e) ==
  /\ run[e] \notin {"new", "over"} /\ Run(e, "over")
  /\ UNCHANGED <<row, rounds, at, found, strays, history>>

----------------------------------------------------------------------------
(* Callbacks.                                                              *)

To(h, place) == at' = [at EXCEPT ![h] = place]
End(h) == To(h, "idle") /\ found' = [found EXCEPT ![h] = NoRow]

\* resolveForward: the row there is decides where to.
Submit(h) ==
  /\ at[h] = "idle"
  /\ To(h, IF row = NoRow THEN "fresh" ELSE "resume")
  /\ found' = [found EXCEPT ![h] = row]
  /\ UNCHANGED <<row, n8n, strays, history>>

Target(h) == found[h].execution

Resume(h) ==
  /\ at[h] = "resume" /\ Waiting(Target(h))
  /\ Run(Target(h), "running")
  /\ To(h, "confirm")
  /\ UNCHANGED <<row, rounds, found, strays, history>>

\* The answer goes back to CHEFS; the row stays.
Refuse(h) ==
  /\ at[h] = "resume" /\ ~Waiting(Target(h))
  /\ End(h)
  /\ UNCHANGED <<row, n8n, strays, history>>

\* A workflow that waits for this submission starts, or another one.
StartFresh(h) ==
  /\ at[h] = "fresh"
  /\ \/ \E e \in Executions : run[e] = "new" /\ Run(e, "running")
     \/ UNCHANGED run
  /\ To(h, "confirm")
  /\ UNCHANGED <<row, rounds, found, strays, history>>

\* (Mutant: the row goes whichever way the callback went.)
ConfirmsAny(h) == TRUE

\* confirmDelivered: a callback that found a row deletes the row there is.
Confirms(h) == found[h] # NoRow

Confirm(h) ==
  /\ at[h] = "confirm"
  /\ row' = IF Confirms(h) THEN NoRow ELSE row
  /\ swept' = IF found[h] # NoRow /\ row \notin {NoRow, found[h]}
                THEN swept \cup {row.execution} ELSE swept
  /\ End(h)
  /\ UNCHANGED <<n8n, strays, superseded>>

\* A timeout, an error, or the end of the process: what was sent may arrive.
LoseCallback(h) ==
  /\ at[h] # "idle"
  /\ strays' \in IF at[h] = "resume" THEN {strays, strays \cup {Target(h)}} ELSE {strays}
  /\ End(h)
  /\ UNCHANGED <<row, n8n, history>>

StrayArrives(e) ==
  /\ e \in strays /\ strays' = strays \ {e}
  /\ IF Waiting(e) THEN Run(e, "running") ELSE UNCHANGED run
  /\ UNCHANGED <<row, rounds, at, found, history>>

----------------------------------------------------------------------------
Executes(e) == Start(e) \/ Register(e) \/ EnterWait(e) \/ Ends(e) \/ StrayArrives(e)
CallsBack(h) ==
  Submit(h) \/ Resume(h) \/ Refuse(h) \/ StartFresh(h) \/ Confirm(h) \/ LoseCallback(h)

ChefsNext == (\E e \in Executions : Executes(e)) \/ (\E h \in Callbacks : CallsBack(h))

\* Somebody keeps submitting, and not every callback is lost on its way.
Fairness ==
  /\ \A e \in Executions : WF_chefsVars(EnterWait(e))
  /\ \A h \in Callbacks :
       /\ WF_chefsVars(Submit(h)) /\ SF_chefsVars(Resume(h))
       /\ WF_chefsVars(Refuse(h) \/ StartFresh(h) \/ Confirm(h))

ChefsSpec == ChefsInit /\ [][ChefsNext]_chefsVars /\ Fairness

----------------------------------------------------------------------------
\* Rows name waits, callbacks hold rows.
ChefsTypeOK ==
  /\ row \in Registration
  /\ run \in [Executions -> {"new", "running", "registered", "waiting", "over"}]
  /\ rounds \in [Executions -> 0..MaxRegistrations]
  /\ at \in [Callbacks -> {"idle", "resume", "fresh", "confirm"}]
  /\ found \in [Callbacks -> Registration]
  /\ strays \subseteq Executions /\ superseded \subseteq Executions /\ swept \subseteq Executions

Excused(e) == e \in superseded \cup swept

\* The row of a waiting execution is there for the next submission, unless a
\* later execution took its place or a delivery to an earlier wait deleted it
\* afterwards: neither a refused, a lost nor a fresh delivery costs anyone the
\* row (register before waiting, delete after a 2xx to the row's own URL).
WaitReachable ==
  \A e \in Executions : run[e] \in {"registered", "waiting"} /\ ~Excused(e) =>
    row = [execution |-> e, wait |-> rounds[e]]

\* If the submission is submitted again and again, a waiting execution stops
\* waiting: callbacks refused before it waited, dead rows of earlier waits and
\* lost callbacks do not block it for good.
ResubmissionResumes ==
  \A e \in Executions : Waiting(e) ~> (~Waiting(e) \/ Excused(e))
=============================================================================
