-------------------------- MODULE MultiWebhookWait --------------------------
(***************************************************************************)
(* One n8n execution that waits for several webhook callbacks: the         *)
(* MultiWebhookWait node, the routes it calls and the two tables that hold *)
(* the wait.  A callback is handled by the node's webhook(), which calls   *)
(* the callback route; every query of either is one action, and handlers   *)
(* run concurrently with each other and with the execution.                *)
(*                                                                         *)
(* n8n itself is external: it hands a callback to the node only while the  *)
(* execution waits, and resumes a waiting execution when webhook() returns *)
(* workflowData or when the timer fires.                                   *)
(***************************************************************************)
EXTENDS Integers, FiniteSets

CONSTANTS
  Keys,         \* match keys, "actor=alice"
  Payloads,     \* what a callback carries
  Unset,        \* the payload of a call not received
  Handlers,     \* callbacks handled at once
  MaxWaits      \* bound of the model: waits the execution enters

ASSUME KeysAssumption == IsFiniteSet(Keys)
ASSUME PayloadsAssumption == Unset \notin Payloads
ASSUME MaxWaitsAssumption == MaxWaits \in Nat

VARIABLES
  step,         \* what the execution is doing
  expecting,    \* the expected calls of the node it is in
  wait, calls,  \* multi_webhook_wait and multi_webhook_wait_call
  pc, holds,    \* where each handler is and what it holds
  output,       \* the calls the last completion to resume a wait carried
  waits,        \* waits entered
  lost          \* history: a handler that was to end a complete wait was lost

nodeVars == <<step, expecting, output, waits>>
tableVars == <<wait, calls>>
vars == <<nodeVars, tableVars, pc, holds, lost>>

----------------------------------------------------------------------------
Rows == UNION { [keys -> Payloads \cup {Unset}] : keys \in SUBSET Keys }
NoRows == [k \in {} |-> Unset]
Wait == [number : Nat \ {0}, total : Nat, received : Nat]
NoWait == [number |-> 0, total |-> 0, received |-> 0]

Registering == {"delete", "insertWait", "insertCalls", "putToWait"}
Step == Registering \cup {"free", "waiting", "clearing", "over"}
Places == {"lookup", "mark", "read", "cleanup", "answer"}

\* What a handler holds: the callback, then the rows it read back and
\* (history) the number of their wait.
Callback == [key : Keys, payload : Payloads]
Result == [seen : Rows, of : Nat]
Nothing == <<>>

Received(rows) == { k \in DOMAIN rows : rows[k] # Unset }

\* All expected calls are in when no row read is pending.
\* (Mutant: when some row read is not.)
SomeReceived(rows) == Received(rows) # {}
Complete(rows) == Received(rows) = DOMAIN rows

\* A handler holds the callback until it has read the rows back, then those rows,
\* and nothing once it has answered, whichever way it ends.
TypeOK ==
  /\ step \in Step
  /\ expecting \in SUBSET Keys
  /\ wait \in Wait \cup {NoWait}
  /\ calls \in Rows
  /\ pc \in [Handlers -> Places \cup {"idle"}]
  /\ holds \in [Handlers -> {Nothing} \cup Callback \cup Result]
  /\ \A h \in Handlers :
       /\ pc[h] = "idle" => holds[h] = Nothing
       /\ pc[h] \in {"lookup", "mark", "read"} => holds[h] \in Callback
       /\ pc[h] \in {"cleanup", "answer"} => holds[h] \in Result
  /\ output \subseteq SUBSET Keys
  /\ waits \in Nat
  /\ lost \in BOOLEAN

Init ==
  /\ step = "free" /\ expecting = {} /\ output = {} /\ waits = 0
  /\ wait = NoWait /\ calls = NoRows
  /\ pc = [h \in Handlers |-> "idle"]
  /\ holds = [h \in Handlers |-> Nothing]
  /\ lost = FALSE

----------------------------------------------------------------------------
(* The execution *)

\* Deleting the wait takes its calls along, and who was to end it does not matter.
DeleteWait == wait' = NoWait /\ calls' = NoRows /\ lost' = FALSE

\* The node is executed with the operation Wait, possibly again in a loop or
\* in a retry, and calls the register route.
StartWait(keys) ==
  /\ step = "free" /\ waits < MaxWaits /\ keys # {}
  /\ step' = "delete"
  /\ expecting' = keys /\ waits' = waits + 1 /\ output' = {}
  /\ UNCHANGED <<tableVars, pc, holds, lost>>

\* registerWait replaces what the execution has by three statements.
DeleteOldWait ==
  /\ step = "delete" /\ step' = "insertWait"
  /\ DeleteWait
  /\ UNCHANGED <<expecting, output, waits, pc, holds>>

InsertWait ==
  /\ step = "insertWait" /\ step' = "insertCalls"
  /\ wait' = [number |-> waits, total |-> Cardinality(expecting), received |-> 0]
  /\ UNCHANGED <<expecting, output, waits, calls, pc, holds, lost>>

\* The calls refer to the wait, which must still be there.
InsertCalls ==
  /\ step = "insertCalls" /\ wait # NoWait
  /\ step' = "putToWait"
  /\ calls' = [k \in expecting |-> Unset]
  /\ UNCHANGED <<expecting, output, waits, wait, pc, holds, lost>>

PutToWait ==
  /\ step = "putToWait" /\ step' = "waiting"
  /\ UNCHANGED <<expecting, output, waits, tableVars, pc, holds, lost>>

\* Registering or notifying fails, or the process stops: the node may be
\* executed again or the execution is over.  The timer resumes a wait.
\* Clear leaves its report and deletes what it found.
NodeFails ==
  /\ step \in Registering \cup {"clearing"}
  /\ step' \in {"free", "over"}
  /\ UNCHANGED <<expecting, output, waits, tableVars, pc, holds, lost>>

Timeout ==
  /\ step = "waiting" /\ step' = "free"
  /\ UNCHANGED <<expecting, output, waits, tableVars, pc, holds, lost>>

StartClear ==
  /\ step = "free" /\ wait # NoWait
  /\ step' = "clearing"
  /\ UNCHANGED <<expecting, output, waits, tableVars, pc, holds, lost>>

FinishClear ==
  /\ step = "clearing" /\ step' = "free"
  /\ DeleteWait
  /\ UNCHANGED <<expecting, output, waits, pc, holds>>

EndExecution ==
  /\ step = "free" /\ step' = "over"
  /\ UNCHANGED <<expecting, output, waits, tableVars, pc, holds, lost>>

----------------------------------------------------------------------------
(* Callbacks *)

\* webhook(): a callback whose query matches an expected call.
Arrive(h, k, payload) ==
  /\ pc[h] = "idle" /\ step = "waiting" /\ k \in expecting
  /\ pc' = [pc EXCEPT ![h] = "lookup"]
  /\ holds' = [holds EXCEPT ![h] = [key |-> k, payload |-> payload]]
  /\ UNCHANGED <<nodeVars, tableVars, lost>>

\* The handler is done with its callback.  (Mutant: and keeps it.)
LeaveHolding(h) ==
  /\ pc' = [pc EXCEPT ![h] = "idle"]
  /\ UNCHANGED holds
Leave(h) ==
  /\ pc' = [pc EXCEPT ![h] = "idle"]
  /\ holds' = [holds EXCEPT ![h] = Nothing]

\* Without a wait the route answers 404 and the node fails.
LookUp(h) ==
  /\ pc[h] = "lookup"
  /\ IF wait = NoWait THEN Leave(h)
     ELSE /\ pc' = [pc EXCEPT ![h] = "mark"]
          /\ UNCHANGED holds
  /\ UNCHANGED <<nodeVars, tableVars, lost>>

\* Only a call not received yet is updated.  (Mutant: a received one too.)
UpdatesAnyCall(k) == k \in DOMAIN calls
Updates(k) == k \in DOMAIN calls /\ calls[k] = Unset

\* The increment belongs to the same transaction.  (Mutant: is made anyway.)
CountsAnyCall(k) == wait # NoWait
Counts(k) == Updates(k)

Mark(h) ==
  LET k == holds[h].key
  IN  /\ pc[h] = "mark"
      /\ calls' = IF Updates(k) THEN [calls EXCEPT ![k] = holds[h].payload] ELSE calls
      /\ wait' = IF Counts(k) THEN [wait EXCEPT !.received = @ + 1] ELSE wait
      /\ pc' = [pc EXCEPT ![h] = "read"]
      /\ UNCHANGED <<nodeVars, holds, lost>>

\* The rows are read back, marked or not; a complete wait is cleaned up.
\* (Mutant: none is.)
NeverCleansUp(rows) == "answer"
AfterRead(rows) == IF Complete(rows) THEN "cleanup" ELSE "answer"

Read(h) ==
  /\ pc[h] = "read"
  /\ holds' = [holds EXCEPT ![h] = [seen |-> calls, of |-> wait.number]]
  /\ pc' = [pc EXCEPT ![h] = AfterRead(calls)]
  /\ UNCHANGED <<nodeVars, tableVars, lost>>

CleanUp(h) ==
  /\ pc[h] = "cleanup"
  /\ DeleteWait
  /\ pc' = [pc EXCEPT ![h] = "answer"]
  /\ UNCHANGED <<nodeVars, holds>>

\* webhook() has the answer; a complete one resumes the execution if it waits.
Answer(h) ==
  /\ pc[h] = "answer"
  /\ Leave(h)
  /\ IF Complete(holds[h].seen) /\ step = "waiting"
     THEN step' = "free" /\ output' = {Received(holds[h].seen)}
     ELSE UNCHANGED <<step, output>>
  /\ UNCHANGED <<expecting, waits, tableVars, lost>>

AllIn == wait # NoWait /\ calls # NoRows /\ Received(calls) = DOMAIN calls

\* The route or the node fails or its process stops, between two queries.
Lose(h) ==
  /\ pc[h] # "idle"
  /\ Leave(h)
  /\ lost' = (lost \/ (AllIn /\ pc[h] \in {"read", "cleanup"}))
  /\ UNCHANGED <<nodeVars, tableVars>>

----------------------------------------------------------------------------
NodeStep ==
  \/ \E keys \in SUBSET Keys : StartWait(keys)
  \/ DeleteOldWait \/ InsertWait \/ InsertCalls \/ PutToWait
  \/ NodeFails \/ Timeout \/ StartClear \/ FinishClear \/ EndExecution

HandlerStep(h) == LookUp(h) \/ Mark(h) \/ Read(h) \/ CleanUp(h) \/ Answer(h)

Next ==
  \/ NodeStep
  \/ \E h \in Handlers, k \in Keys, payload \in Payloads : Arrive(h, k, payload)
  \/ \E h \in Handlers : HandlerStep(h) \/ Lose(h)

\* A handler goes on: its queries are answered, or fail.
Spec == Init /\ [][Next]_vars /\ \A h \in Handlers : WF_vars(HandlerStep(h))

----------------------------------------------------------------------------
(* Properties *)

\* The counter of a wait is the number of its calls received, in whatever
\* order callbacks, duplicates, registrations and clean-ups come.
CounterMatchesCalls ==
  wait # NoWait => wait.received = Cardinality(Received(calls))

\* Handlers that have found the same wait complete hold the same data: the first
\* callback of each call counts, and no duplicate changes what was handed out.
Completing ==
  { h \in Handlers : /\ pc[h] \in {"cleanup", "answer"}
                     /\ holds[h].seen # NoRows /\ Complete(holds[h].seen) }

CompletionsAgree ==
  \A g, h \in Completing :
    holds[g].of = holds[h].of => holds[g].seen = holds[h].seen

\* Of the last callbacks one finds the wait complete: while all calls are in
\* and the wait stands, some handler is still to read them or clean up, unless
\* one was lost that was to do so for this wait.
CompletionWatched ==
  AllIn => lost \/ \E h \in Handlers : pc[h] \in {"read", "cleanup"}

\* ... and so the wait is eventually cleaned up, unless that handler is lost.
CompletionNoticed == AllIn ~> (~AllIn \/ lost)

\* As long as a wait stands, what was received for a call stays: the first
\* callback counts, and no duplicate, registration or clean-up changes its data
\* (markCallReceived updates a pending call only).
ReceivedStays ==
  [][\A k \in Received(calls) : wait'.number = wait.number =>
       k \in DOMAIN calls' /\ calls'[k] = calls[k]]_vars

\* Of its first wait an execution resumes with the data of every call or, by a
\* duplicate that found nothing, with none: never with some of them.
FirstWaitAllOrNothing == waits = 1 => output \subseteq {{}, expecting}

\* docs/community-nodes/multi-webhook-wait/README.md: "Crash-safe: State is
\* persisted in PostgreSQL, survives n8n restarts", "No data loss if a callback
\* arrives during a restart".  An execution in its first wait whose wait is gone
\* can only be resumed by the handler that deleted it.
AboutToResume(h) == pc[h] = "answer" /\ Complete(holds[h].seen)

WaitSurvivesRestart ==
  step = "waiting" /\ waits = 1 /\ wait = NoWait => \E h \in Handlers : AboutToResume(h)

\* docs/community-nodes/multi-webhook-wait/README.md: "When ALL callbacks
\* received: Execution resumes, Output contains all call data", and
\* "Idempotent: Duplicate callbacks are safely ignored".
ResumedWithEveryCall ==
  \A keys \in output : keys = expecting
=============================================================================
