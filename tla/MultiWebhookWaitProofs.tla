----------------------- MODULE MultiWebhookWaitProofs -----------------------
(***************************************************************************)
(* The safety properties of MultiWebhookWait, for every number of expected *)
(* calls, concurrent callbacks and waits.                                  *)
(***************************************************************************)
EXTENDS MultiWebhookWait, FiniteSetTheorems, TLAPS

\* Calls exist only with their wait, and none while one is being replaced; a
\* wait that is being registered has a number.
Stored ==
  /\ wait = NoWait => calls = NoRows
  /\ step \in {"insertWait", "insertCalls"} => calls = NoRows
  /\ step \in Registering => waits # 0

Base == TypeOK /\ Stored

\* A wait differs from none, and calls are stored by their match keys.
LEMMA Shapes ==
  /\ \A w \in Wait : w # NoWait
  /\ NoRows \in Rows
  /\ \A rows \in Rows : Received(rows) \subseteq DOMAIN rows /\ DOMAIN rows \subseteq Keys
<1>1. \A w \in Wait : w # NoWait
  BY DEF Wait, NoWait
<1>2. NoRows \in Rows
  <2>1. NoRows \in [{} -> Payloads \cup {Unset}]
    BY DEF NoRows
  <2> QED
    BY <2>1 DEF Rows
<1> QED
  BY <1>1, <1>2 DEF Rows, Received

\* The base invariant holds at the start.
LEMMA BaseInit == Init => Base
<1> SUFFICES ASSUME Init PROVE Base
  OBVIOUS
<1>1. lost \in BOOLEAN
  BY DEF Init
<1>2. Stored
  BY DEF Init, Stored, Registering
<1> QED
  BY <1>1, <1>2, Shapes DEF Init, Base, TypeOK, Step, Registering, Nothing

\* The execution's steps keep the base invariant.
LEMMA NodeBase == Base /\ NodeStep => Base'
<1> SUFFICES ASSUME Base, NodeStep PROVE Base'
  OBVIOUS
<1>1. ASSUME NEW keys \in SUBSET Keys, StartWait(keys) PROVE Base'
  BY <1>1 DEF StartWait, Base, TypeOK, Stored, Step, Registering, tableVars
<1>2. CASE DeleteOldWait
  BY <1>2, Shapes DEF DeleteOldWait, DeleteWait, Base, TypeOK, Stored, Step, Registering
<1>3. CASE InsertWait
  <2>1. Cardinality(expecting) \in Nat
    BY KeysAssumption, FS_Subset, FS_CardinalityType DEF Base, TypeOK
  <2>2. wait' \in Wait
    BY <1>3, <2>1 DEF InsertWait, Wait, Base, TypeOK, Stored, Registering
  <2> QED
    BY <1>3, <2>2, Shapes DEF InsertWait, Base, TypeOK, Stored, Step, Registering
<1>4. CASE InsertCalls
  <2>1. calls' \in Rows
    BY <1>4 DEF InsertCalls, Rows, Base, TypeOK
  <2> QED
    BY <1>4, <2>1 DEF InsertCalls, Base, TypeOK, Stored, Step, Registering
<1>5. CASE PutToWait \/ NodeFails \/ Timeout \/ StartClear \/ EndExecution
  BY <1>5 DEF PutToWait, NodeFails, Timeout, StartClear, EndExecution, Base, TypeOK,
              Stored, Step, Registering, tableVars
<1>6. CASE FinishClear
  BY <1>6, Shapes DEF FinishClear, DeleteWait, Base, TypeOK, Stored, Step, Registering
<1> QED
  BY <1>1, <1>2, <1>3, <1>4, <1>5, <1>6 DEF NodeStep

\* A handler moves to a place with what belongs there.
LEMMA HandlerMoves ==
  ASSUME Base, NEW h \in Handlers, NEW place \in Places \cup {"idle"},
         NEW held \in {Nothing} \cup Callback \cup Result,
         place = "idle" => held = Nothing,
         place \in {"lookup", "mark", "read"} => held \in Callback,
         place \in {"cleanup", "answer"} => held \in Result,
         pc' = [pc EXCEPT ![h] = place], holds' = [holds EXCEPT ![h] = held]
  PROVE  /\ pc' \in [Handlers -> Places \cup {"idle"}]
         /\ holds' \in [Handlers -> {Nothing} \cup Callback \cup Result]
         /\ \A g \in Handlers :
              /\ pc'[g] = "idle" => holds'[g] = Nothing
              /\ pc'[g] \in {"lookup", "mark", "read"} => holds'[g] \in Callback
              /\ pc'[g] \in {"cleanup", "answer"} => holds'[g] \in Result
BY DEF Base, TypeOK

\* A callback that arrives keeps the base invariant.
LEMMA ArriveBase ==
  ASSUME Base, NEW h \in Handlers, NEW k \in Keys, NEW payload \in Payloads,
         Arrive(h, k, payload)
  PROVE  Base'
<1>1. [key |-> k, payload |-> payload] \in Callback
  BY DEF Callback
<1> QED
  BY <1>1, HandlerMoves DEF Arrive, nodeVars, tableVars, Base, TypeOK, Stored, Places

\* Marking a call keeps the base invariant.
LEMMA MarkBase ==
  ASSUME Base, NEW h \in Handlers, Mark(h)
  PROVE  Base'
<1> DEFINE k == holds[h].key
<1>1. holds[h] \in Callback /\ k \in Keys /\ holds[h].payload \in Payloads
  BY DEF Mark, Base, TypeOK, Callback
<1>2. holds' = [holds EXCEPT ![h] = holds[h]]
  BY DEF Mark, Base, TypeOK
<1>3. CASE Updates(k)
  <2>1. calls # NoRows
    BY <1>3 DEF Updates, NoRows
  <2>2. wait \in Wait
    BY <2>1 DEF Base, TypeOK, Stored
  <2>3. wait' \in Wait
    BY <1>3, <2>2 DEF Mark, Counts, Wait
  <2>4. calls' = [calls EXCEPT ![k] = holds[h].payload]
    BY <1>3 DEF Mark
  <2>5. PICK keys \in SUBSET Keys : calls \in [keys -> Payloads \cup {Unset}]
    BY DEF Base, TypeOK, Rows
  <2>6. calls' \in [keys -> Payloads \cup {Unset}]
    BY <1>1, <2>4, <2>5
  <2>7. calls' \in Rows
    BY <2>6 DEF Rows
  <2> QED
    BY <1>1, <1>2, <2>1, <2>3, <2>7, Shapes, HandlerMoves
       DEF Mark, nodeVars, Base, TypeOK, Stored, Places
<1>4. CASE ~Updates(k)
  BY <1>1, <1>2, <1>4, HandlerMoves
     DEF Mark, Counts, nodeVars, Base, TypeOK, Stored, Places
<1> QED
  BY <1>3, <1>4

\* The other steps of a handler keep the base invariant.
LEMMA HandlerBase ==
  ASSUME Base, NEW h \in Handlers, HandlerStep(h) \/ Lose(h)
  PROVE  Base'
<1>1. CASE LookUp(h)
  <2>1. holds' = [holds EXCEPT ![h] = IF wait = NoWait THEN Nothing ELSE holds[h]]
    BY <1>1 DEF LookUp, Leave, Base, TypeOK
  <2> QED
    BY <1>1, <2>1, HandlerMoves DEF LookUp, Leave, nodeVars, tableVars, Base, TypeOK,
       Stored, Places
<1>2. CASE Mark(h)
  BY <1>2, MarkBase
<1>3. CASE Read(h)
  <2> DEFINE result == [seen |-> calls, of |-> wait.number]
  <2>1. result \in Result
    BY DEF Result, Base, TypeOK, Wait, NoWait
  <2>2. AfterRead(calls) \in {"cleanup", "answer"}
    BY DEF AfterRead
  <2> HIDE DEF result
  <2>3. holds' = [holds EXCEPT ![h] = result]
    BY <1>3 DEF Read, result
  <2> QED
    BY <1>3, <2>1, <2>2, <2>3, HandlerMoves
       DEF Read, nodeVars, tableVars, Base, TypeOK, Stored, Places
<1>4. CASE CleanUp(h)
  <2>1. holds' = [holds EXCEPT ![h] = holds[h]] /\ holds[h] \in Result
    BY <1>4 DEF CleanUp, Base, TypeOK
  <2> QED
    BY <1>4, <2>1, Shapes, HandlerMoves
       DEF CleanUp, DeleteWait, nodeVars, Base, TypeOK, Stored, Places
<1>5. CASE Answer(h)
  <2>1. holds[h].seen \in Rows
    BY <1>5 DEF Answer, Base, TypeOK, Result
  <2>2. output' \subseteq SUBSET Keys /\ step' \in Step /\ step' \in {step, "free"}
    BY <1>5, <2>1, Shapes DEF Answer, Base, TypeOK, Step
  <2> QED
    BY <1>5, <2>2, HandlerMoves DEF Answer, Leave, tableVars, Base, TypeOK, Stored,
       Places, Registering
<1>6. CASE Lose(h)
  <2>1. lost' \in BOOLEAN
    BY <1>6 DEF Lose
  <2> QED
    BY <1>6, <2>1, HandlerMoves DEF Lose, Leave, nodeVars, tableVars, Base, TypeOK,
       Stored, Places
<1> QED
  BY <1>1, <1>2, <1>3, <1>4, <1>5, <1>6 DEF HandlerStep

\* Every step keeps the base invariant.
LEMMA BaseStep == Base /\ [Next]_vars => Base'
<1> SUFFICES ASSUME Base, [Next]_vars PROVE Base'
  OBVIOUS
<1>1. CASE NodeStep
  BY <1>1, NodeBase
<1>2. ASSUME NEW h \in Handlers, NEW k \in Keys, NEW payload \in Payloads,
             Arrive(h, k, payload)
      PROVE  Base'
  BY <1>2, ArriveBase
<1>3. ASSUME NEW h \in Handlers, HandlerStep(h) \/ Lose(h) PROVE Base'
  BY <1>3, HandlerBase
<1>4. CASE UNCHANGED vars
  BY <1>4 DEF vars, nodeVars, tableVars, Base, TypeOK, Stored
<1> QED
  BY <1>1, <1>2, <1>3, <1>4 DEF Next

\* The base invariant holds in every reachable state.
LEMMA AlwaysBase == Spec => []Base
BY BaseInit, BaseStep, PTL DEF Spec

\* The tables, the execution and the handlers keep their shape in every
\* interleaving of registrations, callbacks, clean-ups and failures.
THEOREM TypeCorrect == Spec => []TypeOK
<1>1. Base => TypeOK
  BY DEF Base
<1> QED
  BY <1>1, AlwaysBase, PTL

----------------------------------------------------------------------------
(* The counter.  It starts at zero with calls none of which is received,   *)
(* and moves with the row that its transaction updates.                    *)

\* No call of an empty table is received.
LEMMA NoneReceived == Received(NoRows) = {} /\ Cardinality(Received(NoRows)) = 0
BY FS_EmptySet DEF Received, NoRows

\* Marking a call keeps the counter: it and the row change together or not at all.
LEMMA MarkCounts ==
  ASSUME Base, CounterMatchesCalls, NEW h \in Handlers, Mark(h)
  PROVE  CounterMatchesCalls'
<1> DEFINE k == holds[h].key
<1>1. holds[h].payload \in Payloads
  BY DEF Mark, Base, TypeOK, Callback
<1>2. CASE Updates(k)
  <2>1. wait \in Wait /\ wait # NoWait
    BY <1>2 DEF Updates, NoRows, Base, TypeOK, Stored
  <2>2. wait' = [wait EXCEPT !.received = wait.received + 1]
    BY <1>2 DEF Mark, Counts
  <2>3. calls' = [calls EXCEPT ![k] = holds[h].payload] /\ holds[h].payload # Unset
    BY <1>1, <1>2, PayloadsAssumption DEF Mark
  <2>4. Received(calls') = Received(calls) \cup {k} /\ k \notin Received(calls)
    BY <1>2, <2>3 DEF Updates, Received
  <2>5. IsFiniteSet(Received(calls))
    BY Shapes, KeysAssumption, FS_Subset DEF Base, TypeOK
  <2>6. Cardinality(Received(calls')) = Cardinality(Received(calls)) + 1
    BY <2>4, <2>5, FS_AddElement
  <2> QED
    BY <2>1, <2>2, <2>6 DEF CounterMatchesCalls, Wait
<1>3. CASE ~Updates(k)
  BY <1>3 DEF Mark, Counts, CounterMatchesCalls
<1> QED
  BY <1>2, <1>3

\* Every step keeps the counter equal to the calls received.
LEMMA CounterStep == Base /\ CounterMatchesCalls /\ [Next]_vars => CounterMatchesCalls'
<1> SUFFICES ASSUME Base, CounterMatchesCalls, [Next]_vars PROVE CounterMatchesCalls'
  OBVIOUS
<1>1. CASE UNCHANGED tableVars
  BY <1>1 DEF tableVars, CounterMatchesCalls
<1>2. CASE DeleteWait
  BY <1>2 DEF DeleteWait, CounterMatchesCalls
<1>3. CASE InsertWait
  BY <1>3, NoneReceived DEF InsertWait, CounterMatchesCalls, Base, Stored
<1>4. CASE InsertCalls
  <2>1. Received(calls') = {}
    BY <1>4 DEF InsertCalls, Received
  <2>2. wait' = wait /\ wait.received = 0
    BY <1>4, NoneReceived DEF InsertCalls, CounterMatchesCalls, Base, Stored
  <2> QED
    BY <2>1, <2>2, FS_EmptySet DEF CounterMatchesCalls
<1>5. ASSUME NEW h \in Handlers, Mark(h) PROVE CounterMatchesCalls'
  BY <1>5, MarkCounts
<1> QED
  BY <1>1, <1>2, <1>3, <1>4, <1>5
     DEF Next, NodeStep, HandlerStep, vars, StartWait, DeleteOldWait, PutToWait,
         NodeFails, Timeout, StartClear, FinishClear, EndExecution, Arrive, LookUp,
         Read, CleanUp, Answer, Lose

\* The counter of a wait is the number of its calls received.
THEOREM CounterIsRight == Spec => []CounterMatchesCalls
<1>1. Init => CounterMatchesCalls
  BY DEF Init, CounterMatchesCalls
<1> QED
  BY <1>1, CounterStep, AlwaysBase, PTL DEF Spec

----------------------------------------------------------------------------
(* Completions.  Waits are numbered in the order they are registered, and  *)
(* rows read complete are the rows that are stored while their wait        *)
(* stands, since no callback changes a call that was received.             *)

Numbered ==
  /\ wait # NoWait => wait.number <= waits
  /\ \A h \in Handlers : pc[h] \in {"cleanup", "answer"} => holds[h].of <= waits
  /\ step \in {"delete", "insertWait"} =>
       /\ wait # NoWait => wait.number < waits
       /\ \A h \in Handlers : pc[h] \in {"cleanup", "answer"} => holds[h].of < waits

StillStored ==
  \A h \in Completing :
    wait # NoWait /\ wait.number = holds[h].of => holds[h].seen = calls

Completions == Numbered /\ StillStored /\ CompletionsAgree

\* Steps of the execution that leave the tables and the handlers alone.
LEMMA QuietCompletions ==
  ASSUME Base, Completions, UNCHANGED <<tableVars, pc, holds>>,
         \/ \E keys \in SUBSET Keys : StartWait(keys)
         \/ step' \notin {"delete", "insertWait"} /\ waits' = waits
         \/ step' = step /\ waits' = waits
  PROVE  Completions'
<1>1. Completing' = Completing
  BY DEF Completing
<1>2. StillStored' /\ CompletionsAgree'
  BY <1>1 DEF Completions, StillStored, CompletionsAgree, tableVars
<1>3. \A h \in Handlers : pc[h] \in {"cleanup", "answer"} => holds[h].of \in Nat
  BY DEF Base, TypeOK, Result
<1>4. wait.number \in Nat /\ waits \in Nat
  BY DEF Base, TypeOK, Wait, NoWait
<1>5. Numbered'
  BY <1>3, <1>4 DEF Completions, Numbered, StartWait, tableVars
<1> QED
  BY <1>2, <1>5 DEF Completions

\* Every step keeps the completions of a wait in agreement.
LEMMA CompletionsStep == Base /\ Completions /\ [Next]_vars => Completions'
<1> SUFFICES ASSUME Base, Completions, [Next]_vars PROVE Completions'
  OBVIOUS
<1>1. CASE \/ \E keys \in SUBSET Keys : StartWait(keys)
           \/ PutToWait \/ NodeFails \/ Timeout \/ StartClear \/ EndExecution
           \/ UNCHANGED vars
  BY <1>1, QuietCompletions DEF StartWait, PutToWait, NodeFails, Timeout, StartClear,
     EndExecution, vars, nodeVars, tableVars
<1>2. CASE DeleteOldWait \/ FinishClear
  <2>1. /\ UNCHANGED <<pc, holds, waits>> /\ wait' = NoWait
        /\ step' \in {"delete", "insertWait"} => step \in {"delete", "insertWait"}
    BY <1>2 DEF DeleteOldWait, FinishClear, DeleteWait
  <2>2. Completing' = Completing
    BY <2>1 DEF Completing
  <2> QED
    BY <2>1, <2>2 DEF Completions, Numbered, StillStored, CompletionsAgree
<1>3. CASE InsertWait
  <2>1. /\ UNCHANGED <<pc, holds, waits>> /\ wait'.number = waits /\ step' = "insertCalls"
        /\ step = "insertWait"
    BY <1>3 DEF InsertWait
  <2>2. Completing' = Completing /\ Completing \subseteq Handlers
    BY <2>1 DEF Completing
  <2>3. \A h \in Completing : holds[h].of # waits
    BY <2>1, <2>2 DEF Completions, Numbered, Completing, Base, TypeOK, Result
  <2>4. waits \in Nat
    BY DEF Base, TypeOK
  <2> QED
    BY <2>1, <2>2, <2>3, <2>4
       DEF Completions, Numbered, StillStored, CompletionsAgree, Completing
<1>4. CASE InsertCalls
  <2>1. UNCHANGED <<pc, holds, waits, wait>> /\ step' = "putToWait" /\ calls = NoRows
    BY <1>4 DEF InsertCalls, Base, Stored
  <2>2. Completing' = Completing /\ \A h \in Completing : holds[h].seen # NoRows
    BY <2>1 DEF Completing
  <2>3. StillStored'
    BY <1>4, <2>1, <2>2 DEF Completions, StillStored, InsertCalls
  <2> QED
    BY <2>1, <2>2, <2>3 DEF Completions, Numbered, CompletionsAgree
<1>5. ASSUME NEW h \in Handlers,
             \/ \E k \in Keys, payload \in Payloads : Arrive(h, k, payload)
             \/ LookUp(h) \/ Answer(h) \/ Lose(h)
      PROVE  Completions'
  <2>1. /\ UNCHANGED <<tableVars, waits>>
        /\ step' = step \/ step' = "free"
        /\ pc'[h] \notin {"cleanup", "answer"}
        /\ \A g \in Handlers : g # h => pc'[g] = pc[g] /\ holds'[g] = holds[g]
    BY <1>5 DEF Arrive, LookUp, Answer, Lose, Leave, nodeVars, tableVars, Base, TypeOK
  <2>2. \A g \in Completing' : g \in Completing /\ holds'[g] = holds[g]
    BY <2>1 DEF Completing
  <2>3. StillStored' /\ CompletionsAgree'
    BY <2>1, <2>2 DEF Completions, StillStored, CompletionsAgree, tableVars
  <2>4. Numbered'
    BY <2>1 DEF Completions, Numbered, tableVars
  <2> QED
    BY <2>3, <2>4 DEF Completions
<1>6. ASSUME NEW h \in Handlers, Mark(h) PROVE Completions'
  <2>1. /\ UNCHANGED <<step, waits, holds>>
        /\ wait'.number = wait.number /\ (wait' # NoWait => wait # NoWait)
        /\ pc' = [pc EXCEPT ![h] = "read"] /\ pc[h] = "mark"
    <3>1. Updates(holds[h].key) => wait \in Wait
      BY DEF Updates, NoRows, Base, TypeOK, Stored
    <3> QED
      BY <1>6, <3>1, Shapes DEF Mark, Counts, nodeVars, Wait
  <2>2. Completing' = Completing
    BY <2>1 DEF Completing, Base, TypeOK
  <2>3. ASSUME NEW g \in Completing, wait # NoWait, wait.number = holds[g].of
        PROVE  calls' = calls
    <3>1. calls = holds[g].seen /\ Received(calls) = DOMAIN calls
      BY <2>3 DEF Completions, StillStored, Completing, Complete
    <3>2. ~Updates(holds[h].key)
      BY <3>1 DEF Updates, Received
    <3> QED
      BY <1>6, <3>2 DEF Mark
  <2>4. StillStored'
    BY <2>1, <2>2, <2>3 DEF Completions, StillStored
  <2> QED
    BY <2>1, <2>2, <2>4 DEF Completions, Numbered, CompletionsAgree, Base, TypeOK
<1>7. ASSUME NEW h \in Handlers, Read(h) PROVE Completions'
  <2>1. /\ UNCHANGED <<step, waits, wait, calls>>
        /\ \A g \in Handlers : g # h => pc'[g] = pc[g] /\ holds'[g] = holds[g]
        /\ holds'[h] = [seen |-> calls, of |-> wait.number]
        /\ pc[h] = "read" /\ pc'[h] \in {"cleanup", "answer"}
    BY <1>7 DEF Read, AfterRead, nodeVars, tableVars, Base, TypeOK
  <2>2. \A g \in Completing' : g # h => g \in Completing /\ holds'[g] = holds[g]
    BY <2>1 DEF Completing
  <2>3. StillStored'
    BY <2>1, <2>2 DEF Completions, StillStored
  <2>4. h \in Completing' => wait # NoWait
    BY <2>1 DEF Completing, Base, Stored
  <2>5. \A g \in Completing' : g # h /\ holds'[g].of = holds'[h].of /\ h \in Completing'
          => holds'[g].seen = holds'[h].seen
    BY <2>1, <2>2, <2>4 DEF Completions, StillStored
  <2>6. CompletionsAgree'
    BY <2>2, <2>5 DEF Completions, CompletionsAgree
  <2>7. wait = NoWait => wait.number = 0 /\ (step \in Registering => waits > 0)
    BY DEF NoWait, Base, TypeOK, Stored
  <2>8. Numbered'
    BY <2>1, <2>7 DEF Completions, Numbered, Registering, Base, TypeOK
  <2> QED
    BY <2>3, <2>6, <2>8 DEF Completions
<1>8. ASSUME NEW h \in Handlers, CleanUp(h) PROVE Completions'
  <2>1. /\ UNCHANGED <<step, waits, holds>> /\ wait' = NoWait
        /\ pc[h] = "cleanup" /\ pc' = [pc EXCEPT ![h] = "answer"]
    BY <1>8 DEF CleanUp, DeleteWait, nodeVars
  <2>2. Completing' = Completing
    BY <2>1 DEF Completing, Base, TypeOK
  <2> QED
    BY <2>1, <2>2 DEF Completions, Numbered, StillStored, CompletionsAgree, Base, TypeOK
<1> QED
  BY <1>1, <1>2, <1>3, <1>4, <1>5, <1>6, <1>7, <1>8 DEF Next, NodeStep, HandlerStep

\* Handlers that have found the same wait complete hold the same data.
THEOREM CompletionsAlwaysAgree == Spec => []CompletionsAgree
<1>1. Init => Completions
  BY DEF Init, Completions, Numbered, StillStored, CompletionsAgree, Completing
<1>2. Completions => CompletionsAgree
  BY DEF Completions
<1> QED
  BY <1>1, <1>2, CompletionsStep, AlwaysBase, PTL DEF Spec

----------------------------------------------------------------------------
(* Noticing.  The handler that marks the last call is one that will read   *)
(* it, and whoever reads a complete wait cleans it up.                     *)

\* Every step keeps a complete wait watched.
LEMMA WatchedStep == Base /\ CompletionWatched /\ [Next]_vars => CompletionWatched'
<1> SUFFICES ASSUME Base, CompletionWatched, [Next]_vars, AllIn', ~lost'
             PROVE  \E h \in Handlers : pc'[h] \in {"read", "cleanup"}
  BY DEF CompletionWatched
<1>1. CASE UNCHANGED <<tableVars, pc, lost>>
  BY <1>1 DEF CompletionWatched, AllIn, tableVars
<1>2. CASE DeleteWait
  BY <1>2 DEF DeleteWait, AllIn
<1>3. CASE InsertWait
  BY <1>3 DEF InsertWait, AllIn, Base, Stored
<1>4. CASE InsertCalls
  <2>1. calls' = [k \in expecting |-> Unset] /\ Received(calls') = {}
    BY <1>4 DEF InsertCalls, Received
  <2>2. expecting = {}
    BY <2>1 DEF AllIn
  <2> QED
    BY <2>1, <2>2 DEF AllIn, NoRows
<1>5. ASSUME NEW h \in Handlers, Mark(h)
      PROVE  \E g \in Handlers : pc'[g] \in {"read", "cleanup"}
  BY <1>5 DEF Mark, Base, TypeOK
<1>6. ASSUME NEW h \in Handlers, Read(h)
      PROVE  \E g \in Handlers : pc'[g] \in {"read", "cleanup"}
  <2>1. Complete(calls)
    BY <1>6 DEF Read, AllIn, Complete, tableVars
  <2> QED
    BY <1>6, <2>1 DEF Read, AfterRead, Base, TypeOK
<1>7. ASSUME NEW h \in Handlers,
             \/ \E k \in Keys, payload \in Payloads : Arrive(h, k, payload)
             \/ LookUp(h) \/ Answer(h)
      PROVE  \E g \in Handlers : pc'[g] \in {"read", "cleanup"}
  <2>1. UNCHANGED <<tableVars, lost>> /\ pc[h] \notin {"read", "cleanup"}
    BY <1>7 DEF Arrive, LookUp, Answer
  <2>2. \A g \in Handlers : g # h => pc'[g] = pc[g]
    BY <1>7 DEF Arrive, LookUp, Answer, Leave, Base, TypeOK
  <2> QED
    BY <2>1, <2>2 DEF CompletionWatched, AllIn, tableVars
<1>8. ASSUME NEW h \in Handlers, Lose(h)
      PROVE  \E g \in Handlers : pc'[g] \in {"read", "cleanup"}
  <2>1. UNCHANGED tableVars /\ AllIn
    BY <1>8 DEF Lose, AllIn, tableVars
  <2>2. ~lost /\ pc[h] \notin {"read", "cleanup"}
    BY <1>8, <2>1 DEF Lose
  <2>3. \A g \in Handlers : g # h => pc'[g] = pc[g]
    BY <1>8 DEF Lose, Leave, Base, TypeOK
  <2> QED
    BY <2>1, <2>2, <2>3 DEF CompletionWatched
<1> QED
  BY <1>1, <1>2, <1>3, <1>4, <1>5, <1>6, <1>7, <1>8
     DEF Next, NodeStep, HandlerStep, vars, StartWait, DeleteOldWait, PutToWait,
         NodeFails, Timeout, StartClear, FinishClear, EndExecution, CleanUp

\* While all calls are in and the wait stands, some handler is still to read them
\* or to clean up, unless one was lost that was to do so for this wait.
THEOREM CompletionsAreWatched == Spec => []CompletionWatched
<1>1. Init => CompletionWatched
  BY DEF Init, CompletionWatched, AllIn
<1> QED
  BY <1>1, WatchedStep, AlwaysBase, PTL DEF Spec

----------------------------------------------------------------------------
(* The first wait.  No handler runs while it is registered, so it is there *)
(* when the execution starts to wait; only a handler that found it         *)
(* complete deletes it then.                                               *)

AllIdle == \A h \in Handlers : pc[h] = "idle"

FirstWait ==
  /\ waits = 0 => AllIdle /\ step \notin Registering \cup {"waiting"}
  /\ waits = 1 /\ step \in Registering => AllIdle
  /\ waits = 1 /\ step \in {"insertCalls", "putToWait"} => wait # NoWait
  /\ \A h \in Handlers : pc[h] = "cleanup" => Complete(holds[h].seen)

\* Steps of the execution by themselves.
LEMMA NodeFirstWait ==
  ASSUME Base, Base', FirstWait, NodeStep
  PROVE  FirstWait'
<1>1. UNCHANGED <<pc, holds>>
  BY DEF NodeStep, StartWait, DeleteOldWait, InsertWait, InsertCalls, PutToWait,
         NodeFails, Timeout, StartClear, FinishClear, EndExecution
<1>2. AllIdle' <=> AllIdle
  BY <1>1 DEF AllIdle
<1>3. \A h \in Handlers : pc'[h] = "cleanup" => Complete(holds'[h].seen)
  BY <1>1 DEF FirstWait
<1>4. waits \in Nat
  BY DEF Base, TypeOK
<1>5. ASSUME NEW keys \in SUBSET Keys, StartWait(keys) PROVE FirstWait'
  BY <1>2, <1>3, <1>4, <1>5 DEF FirstWait, StartWait, Registering
<1>6. CASE InsertWait
  <2>1. wait' # NoWait
    BY <1>4, <1>6 DEF InsertWait, NoWait, Base, Stored, Registering
  <2> QED
    BY <1>2, <1>3, <1>6, <2>1 DEF FirstWait, InsertWait, Registering
<1>7. CASE DeleteOldWait \/ InsertCalls \/ PutToWait
  <2>1. waits # 0 /\ waits' = waits
    BY <1>7 DEF FirstWait, DeleteOldWait, InsertCalls, PutToWait, Registering
  <2>2. waits = 1 => AllIdle
    BY <1>7 DEF FirstWait, DeleteOldWait, InsertCalls, PutToWait, Registering
  <2>3. \/ step' = "insertWait"
        \/ step' \in {"putToWait", "waiting"} /\ (waits = 1 => wait' # NoWait)
    BY <1>7 DEF FirstWait, DeleteOldWait, InsertCalls, PutToWait, tableVars
  <2> QED
    BY <1>2, <1>3, <2>1, <2>2, <2>3 DEF FirstWait
<1>8. CASE NodeFails \/ Timeout \/ StartClear \/ FinishClear \/ EndExecution
  BY <1>2, <1>3, <1>8 DEF FirstWait, NodeFails, Timeout, StartClear, FinishClear,
     EndExecution, Registering
<1> QED
  BY <1>5, <1>6, <1>7, <1>8 DEF NodeStep

\* Steps of one handler, which is not idle and finds a wait complete before it
\* deletes it.
LEMMA HandlerFirstWait ==
  ASSUME Base, FirstWait, NEW h \in Handlers,
         \/ \E k \in Keys, payload \in Payloads : Arrive(h, k, payload)
         \/ HandlerStep(h) \/ Lose(h)
  PROVE  FirstWait'
<1>1. /\ waits' = waits
      /\ step' = step \/ step' = "free"
      /\ \A g \in Handlers : g # h => pc'[g] = pc[g] /\ holds'[g] = holds[g]
  BY DEF Arrive, HandlerStep, LookUp, Mark, Read, CleanUp, Answer, Lose, Leave, nodeVars,
         Base, TypeOK
<1>2. waits # 0 /\ ~(waits = 1 /\ step \in Registering)
  BY DEF FirstWait, AllIdle, Arrive, HandlerStep, LookUp, Mark, Read, CleanUp, Answer,
         Lose, Registering
<1>3. pc'[h] = "cleanup" => Complete(holds'[h].seen)
  <2>1. CASE Read(h)
    BY <2>1 DEF Read, AfterRead, Base, TypeOK
  <2>2. CASE ~Read(h)
    BY <2>2 DEF Arrive, HandlerStep, LookUp, Mark, CleanUp, Answer, Lose, Leave, Base, TypeOK
  <2> QED
    BY <2>1, <2>2
<1>4. \A g \in Handlers : pc'[g] = "cleanup" => Complete(holds'[g].seen)
  BY <1>1, <1>3 DEF FirstWait
<1>5. step' \in Registering => step' = step
  BY <1>1 DEF Registering
<1>6. waits' # 0 /\ ~(waits' = 1 /\ step' \in Registering)
  BY <1>1, <1>2, <1>5
<1> QED
  BY <1>4, <1>6 DEF FirstWait, Registering

\* Every step keeps what is known of the first wait.
LEMMA FirstWaitStep == Base /\ Base' /\ FirstWait /\ [Next]_vars => FirstWait'
<1> SUFFICES ASSUME Base, Base', FirstWait, [Next]_vars PROVE FirstWait'
  OBVIOUS
<1>1. CASE UNCHANGED vars
  BY <1>1 DEF vars, nodeVars, tableVars, FirstWait, AllIdle
<1> QED
  BY <1>1, NodeFirstWait, HandlerFirstWait DEF Next

\* What is known of the first wait holds in every reachable state.
LEMMA AlwaysFirstWait == Spec => []FirstWait
<1>1. Init => FirstWait
  BY DEF Init, FirstWait, AllIdle, Registering
<1> QED
  BY <1>1, FirstWaitStep, AlwaysBase, PTL DEF Spec

\* A step of the execution does not strand it: it starts its first wait with the
\* wait in the table, and takes a wait away only when it does not wait.
LEMMA NodeStrandsNone ==
  ASSUME FirstWait, WaitSurvivesRestart, NodeStep
  PROVE  WaitSurvivesRestart'
<1>1. CASE PutToWait
  BY <1>1 DEF PutToWait, FirstWait, WaitSurvivesRestart, tableVars
<1>2. step' # "waiting" \/ PutToWait
  BY DEF NodeStep, StartWait, DeleteOldWait, InsertWait, InsertCalls, NodeFails, Timeout,
         StartClear, FinishClear, EndExecution
<1> QED
  BY <1>1, <1>2 DEF WaitSurvivesRestart

\* Nor does a step of a handler that is not lost: it deletes only what it found
\* complete, and then is about to resume the execution; answering so resumes it.
LEMMA HandlerStrandsNone ==
  ASSUME Base, FirstWait, WaitSurvivesRestart, NEW h \in Handlers,
         \/ \E k \in Keys, payload \in Payloads : Arrive(h, k, payload)
         \/ HandlerStep(h)
         \/ Lose(h) /\ ~AboutToResume(h)
  PROVE  WaitSurvivesRestart'
<1> SUFFICES ASSUME step' = "waiting", waits' = 1, wait' = NoWait
             PROVE  \E g \in Handlers : AboutToResume(g)'
  BY DEF WaitSurvivesRestart
<1>1. /\ step = "waiting" /\ waits = 1
      /\ \A g \in Handlers : g # h => pc'[g] = pc[g] /\ holds'[g] = holds[g]
  BY DEF Arrive, HandlerStep, LookUp, Mark, Read, CleanUp, Answer, Lose, Leave, nodeVars,
         Base, TypeOK
<1>2. \A g \in Handlers : g # h /\ AboutToResume(g) => AboutToResume(g)'
  BY <1>1 DEF AboutToResume
<1>3. CASE CleanUp(h)
  BY <1>3 DEF CleanUp, FirstWait, AboutToResume, Base, TypeOK
<1>4. CASE ~CleanUp(h)
  <2>1. wait = NoWait
    <3>1. Updates(holds[h].key) => wait \in Wait
      BY DEF Updates, NoRows, Base, TypeOK, Stored
    <3>2. Mark(h) => wait' = wait \/ wait' \in Wait
      BY <3>1 DEF Mark, Counts, Wait
    <3> QED
      BY <1>4, <3>2, Shapes DEF Arrive, HandlerStep, LookUp, Read, Answer, Lose, tableVars
  <2>2. \E g \in Handlers : AboutToResume(g)
    BY <1>1, <2>1 DEF WaitSurvivesRestart
  <2>3. ~AboutToResume(h)
    BY <1>1, <1>4 DEF AboutToResume, Arrive, HandlerStep, LookUp, Mark, Read, Answer
  <2> QED
    BY <1>2, <2>2, <2>3
<1> QED
  BY <1>3, <1>4

\* An execution in its first wait is left with the wait gone and nobody to resume
\* it only by the loss of a handler that had cleaned up and not answered yet.
THEOREM OnlyLossStrands ==
  Spec => [][WaitSurvivesRestart /\ ~WaitSurvivesRestart' =>
               \E h \in Handlers : AboutToResume(h) /\ Lose(h)]_vars
<1>1. Base /\ FirstWait /\ [Next]_vars =>
        [WaitSurvivesRestart /\ ~WaitSurvivesRestart' =>
           \E h \in Handlers : AboutToResume(h) /\ Lose(h)]_vars
  <2> SUFFICES ASSUME Base, FirstWait, Next, WaitSurvivesRestart,
                      \A h \in Handlers : ~(AboutToResume(h) /\ Lose(h))
               PROVE  WaitSurvivesRestart'
    OBVIOUS
  <2> QED
    BY NodeStrandsNone, HandlerStrandsNone DEF Next
<1> QED
  BY <1>1, AlwaysBase, AlwaysFirstWait, PTL DEF Spec

----------------------------------------------------------------------------
(* The data of a wait.                                                      *)

\* The first callback of each call counts, and no duplicate, registration or
\* clean-up changes its data while the wait is there (markCallReceived updates a
\* pending call only).
THEOREM FirstCallbackCounts == Spec => ReceivedStays
<1>1. Base /\ Base' /\ [Next]_vars =>
        [\A k \in Received(calls) : wait'.number = wait.number =>
           k \in DOMAIN calls' /\ calls'[k] = calls[k]]_vars
  <2> SUFFICES ASSUME Base, [Next]_vars, NEW k \in Received(calls),
                      wait'.number = wait.number
               PROVE  k \in DOMAIN calls' /\ calls'[k] = calls[k]
    OBVIOUS
  <2>1. k \in DOMAIN calls /\ calls[k] # Unset /\ calls # NoRows /\ wait \in Wait
    BY DEF Received, NoRows, Base, TypeOK, Stored
  <2>2. CASE UNCHANGED calls
    BY <2>1, <2>2
  <2>3. CASE DeleteWait
    BY <2>1, <2>3 DEF DeleteWait, NoWait, Wait
  <2>4. ~InsertCalls
    BY <2>1 DEF InsertCalls, Base, Stored
  <2>5. ASSUME NEW h \in Handlers, Mark(h)
        PROVE  k \in DOMAIN calls' /\ calls'[k] = calls[k]
    BY <2>1, <2>5 DEF Mark, Updates, Base, TypeOK
  <2> QED
    BY <2>2, <2>3, <2>4, <2>5
    DEF Next, NodeStep, HandlerStep, vars, tableVars, StartWait, DeleteOldWait, InsertWait,
        PutToWait, NodeFails, Timeout, StartClear, FinishClear, EndExecution, Arrive, LookUp,
        Read, CleanUp, Answer, Lose
<1> QED
  BY <1>1, AlwaysBase, PTL DEF Spec, ReceivedStays

\* Before the first wait there are no calls; in it the tables and whoever reads
\* them have its expected calls, or none.
FirstData ==
  /\ waits = 0 => calls = NoRows
  /\ waits = 1 =>
       /\ DOMAIN calls \in {{}, expecting}
       /\ \A h \in Handlers : pc[h] \in {"cleanup", "answer"} =>
            DOMAIN holds[h].seen \in {{}, expecting}
       /\ output \subseteq {{}, expecting}

\* Steps of the execution by themselves.
LEMMA NodeFirstData ==
  ASSUME Base, FirstWait, FirstData, NodeStep
  PROVE  FirstData'
<1>1. UNCHANGED <<pc, holds>> /\ waits \in Nat
  BY DEF NodeStep, StartWait, DeleteOldWait, InsertWait, InsertCalls, PutToWait,
         NodeFails, Timeout, StartClear, FinishClear, EndExecution, Base, TypeOK
<1>2. ASSUME NEW keys \in SUBSET Keys, StartWait(keys)
      PROVE  FirstData'
  <2>1. waits' = waits + 1 /\ calls' = calls /\ output' = {}
    BY <1>2 DEF StartWait, tableVars
  <2>2. waits' = 1 => calls' = NoRows /\ AllIdle
    BY <1>1, <2>1 DEF FirstData, FirstWait
  <2> QED
    BY <1>1, <2>1, <2>2 DEF FirstData, AllIdle, NoRows
<1>3. CASE DeleteOldWait \/ FinishClear
  BY <1>1, <1>3 DEF DeleteOldWait, FinishClear, DeleteWait, FirstData, NoRows
<1>4. CASE InsertCalls
  BY <1>1, <1>4 DEF InsertCalls, FirstData, FirstWait, Registering
<1>5. CASE InsertWait \/ PutToWait \/ NodeFails \/ Timeout \/ StartClear \/ EndExecution
  BY <1>1, <1>5 DEF InsertWait, PutToWait, NodeFails, Timeout, StartClear, EndExecution,
     tableVars, FirstData
<1> QED
  BY <1>2, <1>3, <1>4, <1>5 DEF NodeStep

\* Steps of one handler.
LEMMA HandlerFirstData ==
  ASSUME Base, FirstWait, FirstData, NEW h \in Handlers,
         \/ \E k \in Keys, payload \in Payloads : Arrive(h, k, payload)
         \/ HandlerStep(h) \/ Lose(h)
  PROVE  FirstData'
<1>1. /\ waits' = waits /\ expecting' = expecting /\ waits # 0
      /\ \A g \in Handlers : g # h => pc'[g] = pc[g] /\ holds'[g] = holds[g]
  BY DEF Arrive, HandlerStep, LookUp, Mark, Read, CleanUp, Answer, Lose, Leave, nodeVars,
         Base, TypeOK, FirstWait, AllIdle, Registering
<1>2. SUFFICES ASSUME waits = 1
      PROVE  /\ DOMAIN calls' \in {{}, expecting}
             /\ pc'[h] \in {"cleanup", "answer"} => DOMAIN holds'[h].seen \in {{}, expecting}
             /\ output' \subseteq {{}, expecting}
  BY <1>1 DEF FirstData
<1>3. /\ DOMAIN calls \in {{}, expecting} /\ output \subseteq {{}, expecting}
      /\ pc[h] \in {"cleanup", "answer"} => DOMAIN holds[h].seen \in {{}, expecting}
  BY <1>2 DEF FirstData
<1>4. CASE (\E k \in Keys, payload \in Payloads : Arrive(h, k, payload)) \/ LookUp(h) \/ Lose(h)
  BY <1>3, <1>4 DEF Arrive, LookUp, Lose, Leave, nodeVars, tableVars, Base, TypeOK
<1>5. CASE Mark(h)
  <2>1. DOMAIN calls' = DOMAIN calls
    BY <1>5 DEF Mark, Updates
  <2> QED
    BY <1>3, <1>5, <2>1 DEF Mark, nodeVars, Base, TypeOK
<1>6. CASE Read(h)
  <2>1. holds'[h].seen = calls /\ calls' = calls /\ output' = output
    BY <1>6 DEF Read, nodeVars, tableVars, Base, TypeOK
  <2> QED
    BY <1>3, <2>1
<1>7. CASE CleanUp(h)
  BY <1>3, <1>7 DEF CleanUp, DeleteWait, NoRows, nodeVars, Base, TypeOK
<1>8. CASE Answer(h)
  <2>1. output' = output \/ output' = {DOMAIN holds[h].seen}
    BY <1>8 DEF Answer, Complete
  <2>2. pc[h] = "answer" /\ pc'[h] = "idle" /\ calls' = calls
    BY <1>8 DEF Answer, Leave, tableVars, Base, TypeOK
  <2> QED
    BY <1>3, <2>1, <2>2
<1> QED
  BY <1>4, <1>5, <1>6, <1>7, <1>8 DEF HandlerStep

\* An execution that a completion resumes from its first wait has the data of
\* every expected call, or none at all (a handler that read the tables after
\* another had cleaned up, allReceived being true of no rows): never of some.
THEOREM FirstWaitResumesAllOrNothing == Spec => []FirstWaitAllOrNothing
<1>1. Init => FirstWait /\ FirstData
  BY DEF Init, FirstWait, AllIdle, Registering, FirstData
<1>2. Base /\ Base' /\ FirstWait /\ FirstData /\ [Next]_vars => FirstWait' /\ FirstData'
  <2> SUFFICES ASSUME Base, Base', FirstWait, FirstData, [Next]_vars
               PROVE  FirstWait' /\ FirstData'
    OBVIOUS
  <2>1. FirstWait'
    BY FirstWaitStep
  <2>2. CASE UNCHANGED vars
    BY <2>1, <2>2 DEF vars, nodeVars, tableVars, FirstData
  <2>3. CASE NodeStep
    BY <2>1, <2>3, NodeFirstData
  <2>4. ASSUME NEW h \in Handlers,
               \/ \E k \in Keys, payload \in Payloads : Arrive(h, k, payload)
               \/ HandlerStep(h) \/ Lose(h)
        PROVE  FirstData'
    BY <2>4, HandlerFirstData
  <2> QED
    BY <2>1, <2>2, <2>3, <2>4 DEF Next
<1>3. FirstData => FirstWaitAllOrNothing
  BY DEF FirstData, FirstWaitAllOrNothing
<1> QED
  BY <1>1, <1>2, <1>3, AlwaysBase, PTL DEF Spec
=============================================================================
