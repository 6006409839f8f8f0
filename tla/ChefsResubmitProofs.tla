------------------------ MODULE ChefsResubmitProofs ------------------------
(***************************************************************************)
(* The safety of ChefsResubmit, for every set of executions and callbacks  *)
(* and any number of waits.  WaitReachable becomes inductive with what a   *)
(* callback holds: a row that a callback on its way to delete it found is  *)
(* of a wait that is over.                                                 *)
(***************************************************************************)
EXTENDS ChefsResubmit, TLAPS

\* Registered for a resubmission, and not resumed since.
Pending(e) == run[e] \in {"registered", "waiting"}

\* A row names the last wait of an execution.
RowIsLatest ==
  row # NoRow => /\ row.execution \in Executions /\ row.wait >= 1
                 /\ row.wait = rounds[row.execution]

\* A callback holds a row while it resumes and none on its way to a fresh start;
\* the row was of a wait entered; a resumption that was accepted ended that wait.
HeldRow(h) ==
  /\ at[h] = "resume" => found[h] # NoRow
  /\ at[h] = "fresh" => found[h] = NoRow
  /\ found[h] # NoRow =>
       LET e == found[h].execution
       IN  /\ e \in Executions /\ found[h].wait >= 1 /\ found[h].wait <= rounds[e]
           /\ at[h] = "confirm" => found[h].wait < rounds[e] \/ ~Pending(e)

HeldRows == \A h \in Callbacks : HeldRow(h)

IInv == ChefsTypeOK /\ RowIsLatest /\ HeldRows /\ WaitReachable

\* The invariant holds at the start.
LEMMA InitHolds ==
  ASSUME ChefsInit
  PROVE  IInv
BY NoExecutionAssumption, MaxRegistrationsAssumption DEF ChefsInit, IInv, ChefsTypeOK, RowIsLatest, HeldRows, HeldRow,
       WaitReachable, NoRow, Registration

\* A registration replaces the row and excuses whoever held it; no other step of
\* an execution, and no stray delivery, makes one wait.
LEMMA ExecutionsKeep ==
  ASSUME IInv, NEW e \in Executions, Executes(e)
  PROVE  IInv'
<1> USE DEF IInv, ChefsTypeOK, history, n8n, Run, Excused
<1>1. CASE Register(e)
  <2> DEFINE new == [execution |-> e, wait |-> rounds[e] + 1]
  <2>1. /\ row' = new /\ run' = [run EXCEPT ![e] = "registered"] /\ run[e] = "running"
        /\ rounds' = [rounds EXCEPT ![e] = @ + 1]
        /\ superseded' = (superseded \ {e}) \cup
                           { other \in Executions \ {e} : run[other] \in {"registered", "waiting"} }
        /\ swept' = swept \ {e} /\ UNCHANGED <<at, found, strays>>
    BY <1>1 DEF Register, Upsert
  <2>2. rounds[e] + 1 \in 0..MaxRegistrations /\ rounds[e] \in Nat
    BY <1>1, MaxRegistrationsAssumption DEF Register
  <2>3. new \in Registration /\ new # NoRow
    BY <2>2, NoExecutionAssumption DEF Registration, NoRow
  <2>4. ChefsTypeOK'
    BY <2>1, <2>2, <2>3
  <2>5. RowIsLatest'
    BY <2>1, <2>2 DEF RowIsLatest
  <2>6. HeldRows'
    <3> SUFFICES ASSUME NEW h \in Callbacks, found[h] # NoRow
                 PROVE  LET o == found[h].execution
                        IN  /\ found[h].wait <= rounds'[o]
                            /\ at[h] = "confirm" =>
                                 found[h].wait < rounds'[o] \/ ~Pending(o)'
      BY <2>1 DEF HeldRows, HeldRow
    <3>1. PICK o \in Executions, w \in Nat :
            /\ o = found[h].execution /\ w = found[h].wait /\ w <= rounds[o]
            /\ at[h] = "confirm" => w < rounds[o] \/ ~Pending(o)
      BY DEF HeldRows, HeldRow, Registration
    <3>2. CASE o = e
      BY <2>1, <2>2, <3>1, <3>2
    <3>3. CASE o # e
      BY <2>1, <3>1, <3>3 DEF Pending
    <3> QED BY <3>2, <3>3
  <2>7. WaitReachable'
    BY <2>1 DEF WaitReachable
  <2> QED BY <2>4, <2>5, <2>6, <2>7
<1>2. ASSUME NEW state \in {"running", "waiting", "over"}, run' = [run EXCEPT ![e] = state],
             state = "waiting" => run[e] = "registered",
             UNCHANGED <<row, rounds, at, found, superseded, swept>>,
             strays' \subseteq strays
      PROVE  IInv'
  <2>1. ChefsTypeOK'
    BY <1>2
  <2>2. RowIsLatest'
    BY <1>2 DEF RowIsLatest
  <2>3. \A o \in Executions : Pending(o)' => Pending(o)
    BY <1>2 DEF Pending
  <2>4. HeldRows'
    BY <1>2, <2>3 DEF HeldRows, HeldRow
  <2>5. WaitReachable'
    BY <1>2, <2>3 DEF WaitReachable, Pending
  <2> QED BY <2>1, <2>2, <2>4, <2>5
<1>3. CASE Start(e)
  <2>1. /\ UNCHANGED <<row, rounds, at, found, superseded, swept, strays>>
        /\ run' = [run EXCEPT ![e] = "running"]
    BY <1>3 DEF Start
  <2> QED BY <1>2, <2>1
<1>4. CASE EnterWait(e)
  <2>1. /\ UNCHANGED <<row, rounds, at, found, superseded, swept, strays>>
        /\ run' = [run EXCEPT ![e] = "waiting"] /\ run[e] = "registered"
    BY <1>4 DEF EnterWait
  <2> QED BY <1>2, <2>1
<1>5. CASE Ends(e)
  <2>1. /\ UNCHANGED <<row, rounds, at, found, superseded, swept, strays>>
        /\ run' = [run EXCEPT ![e] = "over"]
    BY <1>5 DEF Ends
  <2> QED BY <1>2, <2>1
<1>6. CASE StrayArrives(e)
  <2>1. CASE Waiting(e)
    <3>1. /\ UNCHANGED <<row, rounds, at, found, superseded, swept>>
          /\ run' = [run EXCEPT ![e] = "running"] /\ strays' \subseteq strays
      BY <1>6, <2>1 DEF StrayArrives
    <3> QED BY <1>2, <3>1
  <2>2. CASE ~Waiting(e)
    <3>1. /\ UNCHANGED <<row, run, rounds, at, found, superseded, swept>>
          /\ strays' \subseteq strays
      BY <1>6, <2>2 DEF StrayArrives
    <3>2. ChefsTypeOK' /\ RowIsLatest' /\ WaitReachable'
      BY <3>1 DEF RowIsLatest, WaitReachable
    <3>3. HeldRows'
      BY <3>1 DEF HeldRows, HeldRow, Pending
    <3> QED BY <3>2, <3>3
  <2> QED BY <2>1, <2>2
<1> QED BY <1>1, <1>3, <1>4, <1>5, <1>6 DEF Executes

\* A callback changes no wait; when it confirms, the row it deletes is its own,
\* whose wait is over, or the deletion is remembered.
LEMMA CallbacksKeep ==
  ASSUME IInv, NEW h \in Callbacks, CallsBack(h)
  PROVE  IInv'
<1> USE DEF IInv, ChefsTypeOK, history, n8n, Run, Excused, To,
            End, Target
<1>0. NoRow \in Registration /\ \A r \in Registration : r.wait \in Nat
  BY MaxRegistrationsAssumption DEF NoRow, Registration
<1>1. ASSUME UNCHANGED <<row, rounds, superseded, swept>>,
             run' \in [Executions -> {"new", "running", "registered", "waiting", "over"}],
             \A e \in Executions : Pending(e)' => Pending(e)
      PROVE  RowIsLatest' /\ WaitReachable'
  BY <1>1 DEF RowIsLatest, WaitReachable, Pending
<1>2. ASSUME UNCHANGED rounds, \A e \in Executions : Pending(e)' => Pending(e),
             at' = [at EXCEPT ![h] = "idle"],
             found' = [found EXCEPT ![h] = NoRow]
      PROVE  HeldRows'
  BY <1>2 DEF HeldRows, HeldRow
<1>3. CASE Submit(h)
  <2>1. /\ UNCHANGED <<row, run, rounds, strays, superseded, swept>>
        /\ at' = [at EXCEPT ![h] = IF row = NoRow THEN "fresh" ELSE "resume"]
        /\ found' = [found EXCEPT ![h] = row]
    BY <1>3 DEF Submit
  <2>2. \A e \in Executions : Pending(e)' <=> Pending(e)
    BY <2>1 DEF Pending
  <2>3. ChefsTypeOK' /\ RowIsLatest' /\ WaitReachable'
    BY <1>1, <2>1, <2>2
  <2>4. HeldRows'
    <3> SUFFICES ASSUME NEW g \in Callbacks PROVE HeldRow(g)'
      BY DEF HeldRows
    <3>1. CASE g = h
      <4>1. /\ found'[g] = row /\ at'[g] # "confirm"
            /\ at'[g] = "resume" <=> row # NoRow
        BY <2>1, <3>1
      <4>2. row # NoRow => row.execution \in Executions /\ row.wait >= 1
                                 /\ row.wait <= rounds[row.execution]
        BY <1>0 DEF RowIsLatest
      <4> QED BY <2>1, <3>1, <4>1, <4>2 DEF HeldRow
    <3>2. CASE g # h
      BY <2>1, <2>2, <3>2 DEF HeldRows, HeldRow
    <3> QED BY <3>1, <3>2
  <2> QED BY <2>3, <2>4
<1>4. CASE Resume(h)
  <2> DEFINE e == found[h].execution
  <2>1. /\ UNCHANGED <<row, rounds, found, strays, superseded, swept>>
        /\ at[h] = "resume" /\ at' = [at EXCEPT ![h] = "confirm"]
        /\ run' = [run EXCEPT ![e] = "running"]
    BY <1>4 DEF Resume
  <2>2. e \in Executions /\ found[h] # NoRow
    BY <2>1 DEF HeldRows, HeldRow
  <2>3. ~Pending(e)' /\ \A o \in Executions : Pending(o)' => Pending(o)
    BY <2>1, <2>2 DEF Pending
  <2>4. ChefsTypeOK' /\ RowIsLatest' /\ WaitReachable'
    BY <1>1, <2>1, <2>3
  <2>5. HeldRows'
    <3> SUFFICES ASSUME NEW g \in Callbacks PROVE HeldRow(g)'
      BY DEF HeldRows
    <3>1. CASE g = h
      BY <2>1, <2>2, <2>3, <3>1 DEF HeldRows, HeldRow
    <3>2. CASE g # h
      BY <2>1, <2>3, <3>2 DEF HeldRows, HeldRow
    <3> QED BY <3>1, <3>2
  <2> QED BY <2>4, <2>5
<1>5. CASE Refuse(h) \/ LoseCallback(h)
  <2>1. /\ UNCHANGED <<row, run, rounds, superseded, swept>>
        /\ strays' \subseteq Executions
        /\ at' = [at EXCEPT ![h] = "idle"]
        /\ found' = [found EXCEPT ![h] = NoRow]
    <3>1. at[h] = "resume" => found[h].execution \in Executions
      BY DEF HeldRows, HeldRow
    <3> QED BY <1>5, <3>1 DEF Refuse, LoseCallback
  <2>2. \A e \in Executions : Pending(e)' <=> Pending(e)
    BY <2>1 DEF Pending
  <2> QED BY <1>0, <1>1, <1>2, <2>1, <2>2
<1>6. CASE StartFresh(h)
  <2>1. /\ UNCHANGED <<row, rounds, found, strays, superseded, swept>>
        /\ at[h] = "fresh" /\ at' = [at EXCEPT ![h] = "confirm"]
        /\ \/ \E e \in Executions : run' = [run EXCEPT ![e] = "running"]
           \/ UNCHANGED run
    BY <1>6 DEF StartFresh
  <2>2. /\ run' \in [Executions -> {"new", "running", "registered", "waiting", "over"}]
        /\ \A o \in Executions : Pending(o)' => Pending(o)
    BY <2>1 DEF Pending
  <2>3. ChefsTypeOK' /\ RowIsLatest' /\ WaitReachable'
    BY <1>1, <2>1, <2>2
  <2>4. HeldRows'
    BY <2>1, <2>2 DEF HeldRows, HeldRow
  <2> QED BY <2>3, <2>4
<1>7. CASE Confirm(h)
  <2>1. /\ UNCHANGED <<run, rounds, strays, superseded>>
        /\ at[h] = "confirm" /\ at' = [at EXCEPT ![h] = "idle"]
        /\ found' = [found EXCEPT ![h] = NoRow]
        /\ row' = IF found[h] # NoRow THEN NoRow ELSE row
        /\ swept' = IF found[h] # NoRow /\ row \notin {NoRow, found[h]}
                    THEN swept \cup {row.execution} ELSE swept
    BY <1>7 DEF Confirm, Confirms
  <2>2. \A e \in Executions : Pending(e)' <=> Pending(e)
    BY <2>1 DEF Pending
  <2>3. HeldRows'
    BY <1>2, <2>1, <2>2
  <2>4. ChefsTypeOK'
    BY <1>0, <2>1 DEF RowIsLatest
  <2>5. RowIsLatest'
    BY <2>1 DEF RowIsLatest
  <2>6. WaitReachable'
    <3> SUFFICES ASSUME NEW e \in Executions, Pending(e), ~Excused(e)'
                 PROVE  row' = [execution |-> e, wait |-> rounds[e]]
      BY <2>1, <2>2 DEF WaitReachable, Pending
    <3>1. row = [execution |-> e, wait |-> rounds[e]]
      BY <2>1 DEF WaitReachable, Pending
    <3>2. row # NoRow
      BY <3>1, NoExecutionAssumption DEF NoRow
    <3>3. CASE found[h] # NoRow
      <4>1. row = found[h]
        BY <2>1, <3>1, <3>2, <3>3
      <4>2. found[h].wait < rounds[e]
        BY <2>1, <3>1, <3>3, <4>1 DEF HeldRows, HeldRow
      <4>3. rounds[e] \in Nat /\ found[h].wait = rounds[e]
        BY <3>1, <4>1
      <4> QED BY <4>2, <4>3
    <3>4. CASE found[h] = NoRow
      BY <2>1, <3>1, <3>4
    <3> QED BY <3>3, <3>4
  <2> QED BY <2>3, <2>4, <2>5, <2>6
<1> QED BY <1>3, <1>4, <1>5, <1>6, <1>7 DEF CallsBack

\* The invariant holds throughout.
LEMMA Always == ChefsSpec => []IInv
<1>1. IInv /\ [ChefsNext]_chefsVars => IInv'
  <2> SUFFICES ASSUME IInv, [ChefsNext]_chefsVars PROVE IInv'
    OBVIOUS
  <2>1. CASE UNCHANGED chefsVars
    <3>1. UNCHANGED <<row, run, rounds, at, found, strays, superseded, swept>>
      BY <2>1 DEF chefsVars, n8n, history
    <3> QED
      BY <3>1 DEF IInv, ChefsTypeOK, RowIsLatest, HeldRows, HeldRow, Pending,
                  WaitReachable, Excused
  <2> QED
    BY <2>1, ExecutionsKeep, CallbacksKeep DEF ChefsNext
<1>2. ChefsInit => IInv
  BY InitHolds
<1> QED
  BY <1>1, <1>2, PTL DEF ChefsSpec

\* Rows name waits within their bound, and callbacks hold rows.
THEOREM TypeCorrect == ChefsSpec => []ChefsTypeOK
<1>1. IInv => ChefsTypeOK
  BY DEF IInv
<1> QED
  BY <1>1, Always, PTL

\* A waiting execution's row is there for the next submission: a callback that
\* is refused, lost or goes to a fresh start deletes no row, and one that is
\* accepted deletes its own, after the wait it names (confirmDelivered of
\* ChefsSubmissionService).
THEOREM WaitsAreReachable == ChefsSpec => []WaitReachable
<1>1. IInv => WaitReachable
  BY DEF IInv
<1> QED
  BY <1>1, Always, PTL

=============================================================================
