-------------------------- MODULE RateLimitProofs --------------------------
(***************************************************************************)
(* Theorems about RateLimit, for every set of slots, projects, workflows   *)
(* and top-ups and every calendar: the type invariant; the bound on how    *)
(* far concurrent runs can overshoot a limit; that rejections and charges  *)
(* are justified by what the run itself read; that the project's counters  *)
(* and its workflows' agree.  Then, for every start and every horizon, the *)
(* properties of the period keys (PeriodRollover), and that the keys       *)
(* computed for any run of days are a calendar as RateLimit assumes one.   *)
(***************************************************************************)
EXTENDS RateLimit, PeriodRollover, FunctionTheorems, FiniteSetTheorems, SequenceTheorems,
        WellFoundedInduction, TLAPS

----------------------------------------------------------------------------
(* Types *)

\* What is assumed of the calendar, read for the days of the model.
LEMMA Calendar ==
  /\ LastDay \in Nat
  /\ Weeks \subseteq Nat /\ Years \subseteq Nat /\ Weeks \cap Years = {}
  /\ WeekOf \in [Day -> Weeks] /\ YearOf \in [Day -> Years]
  /\ WeeksOverlapping \in [Years -> SUBSET Weeks]
  /\ \A d \in Day : WeekOf[d] \in WeeksOverlapping[YearOf[d]]
  /\ \A d, e \in Day : d <= e => WeekOf[d] <= WeekOf[e] /\ YearOf[d] <= YearOf[e]
BY CalendarAssumption DEF IsCalendar, Day

\* A day has a key for each period.
LEMMA KeysType ==
  ASSUME NEW d \in Day
  PROVE  Keys(d) \in PeriodKeys
BY Calendar DEF Keys, PeriodKeys, PeriodType, PeriodKey

\* The two periods.
LEMMA PeriodTypes == PeriodType = {"weekly", "yearly"} /\ "weekly" # "yearly"
BY DEF PeriodType

\* Stored and coalesced limits are limits.
LEMMA PolicyTypes ==
  /\ Unconfigured \in Config
  /\ \A b \in Config : Normalized(b) \in Config
  /\ \A c \in Config : OwnLimits(c) \in ScopeDefaults
  /\ \A own, d \in ScopeDefaults : WithDefaults(own, d) \in ScopeDefaults
<1>1. NoDefaults \in ScopeDefaults
  BY DEF NoDefaults, ScopeDefaults, Limit
<1>2. Unconfigured \in Config
  BY <1>1 DEF Unconfigured, Config, StopBehavior
<1>3. \A own, d \in ScopeDefaults : WithDefaults(own, d) \in ScopeDefaults
  BY DEF WithDefaults, ScopeDefaults, Coalesce
<1>4. \A c \in Config : OwnLimits(c) \in ScopeDefaults
  BY <1>1 DEF OwnLimits, Config
<1> QED
  BY <1>2, <1>3, <1>4 DEF Normalized

\* A slot in the middle of a check holds a complete job.
LEMMA JobOfCheck ==
  ASSUME TypeOK, NEW s \in Slots, pc[s] \in Querying \cup {"decide"}
  PROVE  job[s] \in RunJob
BY DEF TypeOK, SlotsTyped, Querying, Reading, Charging, Resting

\* A check begins well-typed.
LEMMA NewJobType ==
  ASSUME TypeOK, NEW wf \in Workflows, NEW proc \in Procs, NEW p \in Projects
  PROVE  NewJob(wf, proc, p) \in RunJob
BY KeysType, PolicyTypes DEF NewJob, RunJob, TypeOK, NoDefaults, ScopeDefaults, Limit

\* Passing the hook empties the slot or queues the execution.
LEMMA LetPassType ==
  ASSUME TypeOK, NEW s \in Slots, NEW wf \in Workflows, NEW proc \in Procs,
         LetPass(s, wf, proc)
  PROVE  SlotsTyped' /\ charged' \in [Slots -> Nat]
<1>1. [workflow |-> wf] \in QueuedJob
  BY DEF QueuedJob
<1>2. CASE QueueMode /\ proc = "main"
  BY <1>1, <1>2 DEF LetPass, TypeOK, SlotsTyped, Resting, Querying, Reading, Charging
<1>3. CASE ~(QueueMode /\ proc = "main")
  <2>1. /\ pc' = [pc EXCEPT ![s] = "idle"]
        /\ job' = [job EXCEPT ![s] = NoJob]
        /\ charged' = [charged EXCEPT ![s] = 0]
    BY <1>3 DEF LetPass
  <2>2. charged' \in [Slots -> Nat]
    BY <2>1 DEF TypeOK
  <2> QED
    BY <2>1, <2>2 DEF TypeOK, SlotsTyped, Resting, Querying, Reading, Charging
<1> QED
  BY <1>1, <1>2, <1>3

\* A step to a new place in the check, with a complete job.
LEMMA CheckGoesOn ==
  ASSUME TypeOK, NEW s \in Slots, NEW place \in Querying \cup {"decide"},
         NEW j \in RunJob,
         pc' = [pc EXCEPT ![s] = place], job' = [job EXCEPT ![s] = j]
  PROVE  SlotsTyped'
BY DEF TypeOK, SlotsTyped, Resting, Querying, Reading, Charging

\* ... and stays so when the base limits arrive.
LEMMA WithBaseType ==
  ASSUME NEW j \in RunJob, NEW base \in ScopeDefaults
  PROVE  WithBase(j, base) \in RunJob
BY DEF WithBase, RunJob

\* The limit a run is admitted under is a limit.
LEMMA GrantedType ==
  ASSUME NEW j \in RunJob, NEW t \in PeriodType
  PROVE  Granted(j, t) \in Limit
BY DEF Granted, EffectiveLimit, RunJob, ScopeDefaults, Limit

\* ... and so is the larger of two.
LEMMA RaisedType ==
  ASSUME NEW old \in Limit, NEW new \in Limit
  PROVE  Raised(old, new) \in Limit
BY DEF Raised, Limit

\* Peaks stay limits.
LEMMA RaisedByType ==
  ASSUME NEW j \in RunJob, NEW peaks \in [PeriodKey -> Limit]
  PROVE  RaisedBy(peaks, j) \in [PeriodKey -> Limit]
<1>1. Granted(j, "weekly") \in Limit /\ Granted(j, "yearly") \in Limit
  BY GrantedType, PeriodTypes
<1>2. \A k \in PeriodKey : /\ Raised(peaks[k], Granted(j, "weekly")) \in Limit
                           /\ Raised(peaks[k], Granted(j, "yearly")) \in Limit
  BY <1>1, RaisedType
<1> QED
  BY <1>2 DEF RaisedBy

\* The tables, the counters and what each slot has read keep their shape in every
\* interleaving of checks, failures, admin edits and day changes.
THEOREM TypeCorrect == Spec => []TypeOK
<1>1. Init => TypeOK
  <2> SUFFICES ASSUME Init PROVE TypeOK
    OBVIOUS
  <2>1. config \in [Projects -> Config]
    BY PolicyTypes, BodiesAssumption DEF Init
  <2>2. defaults \in [Kind -> ScopeDefaults] /\ topups \subseteq Topup
    BY BodiesAssumption, BoundsAssumption DEF Init
  <2>3. peak \in [Projects -> [PeriodKey -> Limit]]
    BY DEF Init, Limit
  <2> QED
    BY <2>1, <2>2, <2>3, Calendar, ModeAssumption
    DEF Init, TypeOK, SlotsTyped, Day, Resting, Querying, Reading, Charging
<1>2. TypeOK /\ [Next]_vars => TypeOK'
  <2> SUFFICES ASSUME TypeOK, [Next]_vars PROVE TypeOK'
    OBVIOUS
  <2> USE DEF dbVars, counterVars, historyVars, adminUnchanged
  <2>1. ASSUME NEW s \in Slots, NEW wf \in Workflows, NEW proc \in Procs,
               BeginCheck(s, wf, proc)
        PROVE  TypeOK'
    <3>1. PICK p \in SharedWith[wf] : job' = [job EXCEPT ![s] = NewJob(wf, proc, p)]
      BY <2>1 DEF BeginCheck
    <3>2. NewJob(wf, proc, p) \in RunJob
      BY NewJobType, SharingAssumption
    <3>3. executions' \in Nat
      BY <2>1 DEF BeginCheck, Fires, TypeOK
    <3> QED
      BY <2>1, <3>1, <3>2, <3>3
      DEF BeginCheck, TypeOK, SlotsTyped, Querying, Reading, Charging, Resting
  <2>2. ASSUME NEW s \in Slots, NEW wf \in Workflows, NEW proc \in Procs,
               BypassCheck(s, wf, proc)
        PROVE  TypeOK'
    <3>1. executions' \in Nat
      BY <2>2 DEF BypassCheck, Fires, TypeOK
    <3>2. service' \in [Procs -> {"unbuilt", "ready", "disabled"}]
      BY <2>2 DEF BypassCheck, TypeOK
    <3> QED
      BY <2>2, <3>1, <3>2, LetPassType DEF BypassCheck, TypeOK
  <2>3. ASSUME NEW s \in Slots, ReadConfig(s)
        PROVE  TypeOK'
    <3> DEFINE j == [job[s] EXCEPT !.config = config[job[s].project],
                                   !.key = Keys(today)]
    <3>1. job[s] \in RunJob
      BY <2>3, JobOfCheck DEF ReadConfig, Querying, Reading
    <3>2. config[job[s].project] \in Config /\ Keys(today) \in PeriodKeys
      BY <3>1, KeysType DEF TypeOK, RunJob
    <3>3. j \in RunJob
      BY <3>1, <3>2 DEF RunJob
    <3>4. SlotsTyped'
      BY <2>3, <3>3, CheckGoesOn DEF ReadConfig, TypeOK, SlotsTyped, Querying, Reading
    <3> QED
      BY <2>3, <3>4 DEF ReadConfig, TypeOK
  <2>4. ASSUME NEW s \in Slots, ReadCounts(s)
        PROVE  TypeOK'
    <3> DEFINE own == OwnLimits(job[s].config)
               counts == [t \in PeriodType |-> usage[job[s].project][job[s].key[t]]]
               counted == [job[s] EXCEPT !.count = counts]
    <3>1. job[s] \in RunJob
      BY <2>4, JobOfCheck DEF ReadCounts, Querying, Reading
    <3>2. counts \in [PeriodType -> Nat]
      BY <3>1 DEF TypeOK, RunJob, PeriodKeys
    <3>3. counted \in RunJob /\ own \in ScopeDefaults
      BY <3>1, <3>2, PolicyTypes DEF RunJob
    <3>4. WithBase(counted, own) \in RunJob
      BY <3>3, WithBaseType
    <3>5. SlotsTyped'
      <4>1. CASE NeedsDefaults(own)
        BY <2>4, <3>3, <4>1, CheckGoesOn
        DEF ReadCounts, Querying, Reading
      <4>2. CASE ~NeedsDefaults(own)
        BY <2>4, <3>4, <4>2, CheckGoesOn
        DEF ReadCounts, AfterBase, Querying, Reading
      <4> QED
        BY <4>1, <4>2
    <3> QED
      BY <2>4, <3>5 DEF ReadCounts, TypeOK
  <2>5. ASSUME NEW s \in Slots, ReadDefaults(s)
        PROVE  TypeOK'
    <3> DEFINE own == OwnLimits(job[s].config)
               base == WithDefaults(own, defaults[KindOf[job[s].project]])
    <3>1. job[s] \in RunJob
      BY <2>5, JobOfCheck DEF ReadDefaults, Querying, Reading
    <3>2. own \in ScopeDefaults /\ defaults[KindOf[job[s].project]] \in ScopeDefaults
      BY <3>1, PolicyTypes, SharingAssumption DEF TypeOK, RunJob
    <3>3. WithBase(job[s], base) \in RunJob
      BY <3>1, <3>2, PolicyTypes, WithBaseType
    <3>4. SlotsTyped'
      BY <2>5, <3>3, CheckGoesOn DEF ReadDefaults, AfterBase, Querying, Reading
    <3> QED
      BY <2>5, <3>4 DEF ReadDefaults, TypeOK
  <2>6. ASSUME NEW s \in Slots, NEW t \in PeriodType, ReadTopups(s, t)
        PROVE  TypeOK'
    <3> DEFINE sum == TopupSum(job[s].project, WeeksRaising(t, job[s].key[t]))
               j == [job[s] EXCEPT !.raise = [job[s].raise EXCEPT ![t] = sum],
                                   !.unread = job[s].unread \ {t}]
    <3>1. job[s] \in RunJob
      BY <2>6, JobOfCheck DEF ReadTopups, Querying, Reading
    <3>2. sum \in Nat
      BY <2>6, BoundsAssumption DEF ReadTopups
    <3> HIDE DEF sum
    <3>3. [job[s].raise EXCEPT ![t] = sum] \in [PeriodType -> Nat]
      BY <3>1, <3>2 DEF RunJob
    <3>4. j \in RunJob
      BY <3>1, <3>3 DEF RunJob
    <3>5. job' = [job EXCEPT ![s] = j]
      BY <2>6 DEF ReadTopups, sum
    <3>6. PICK place \in {"topups", "decide"} : pc' = [pc EXCEPT ![s] = place]
      BY <2>6 DEF ReadTopups
    <3>7. SlotsTyped'
      BY <3>4, <3>5, <3>6, CheckGoesOn DEF Querying, Reading
    <3> QED
      BY <2>6, <3>7 DEF ReadTopups, TypeOK
  <2>7. ASSUME NEW s \in Slots, Reject(s)
        PROVE  TypeOK'
    BY <2>7 DEF Reject, TypeOK, SlotsTyped, Resting, Querying, Reading, Charging
  <2>8. ASSUME NEW s \in Slots, Admit(s)
        PROVE  TypeOK'
    <3>1. job[s] \in RunJob
      BY <2>8, JobOfCheck DEF Admit
    <3>2. CASE CountsUsage(job[s].proc)
      <4>1. SlotsTyped'
        BY <2>8, <3>2, <3>1 DEF Admit, TypeOK, SlotsTyped, Resting, Querying, Reading, Charging
      <4>2. peak' \in [Projects -> [PeriodKey -> Limit]]
        <5>1. job[s].project \in Projects
          BY <3>1 DEF RunJob
        <5>2. RaisedBy(peak[job[s].project], job[s]) \in [PeriodKey -> Limit]
          BY <3>1, <5>1, RaisedByType DEF TypeOK
        <5> QED
          BY <2>8, <3>2, <5>1, <5>2 DEF Admit, TypeOK
      <4> QED
        BY <2>8, <3>2, <4>1, <4>2 DEF Admit, TypeOK
    <3>3. CASE ~CountsUsage(job[s].proc)
      <4>1. LetPass(s, job[s].workflow, job[s].proc)
        BY <2>8, <3>3 DEF Admit
      <4>2. SlotsTyped' /\ charged' \in [Slots -> Nat]
        BY <4>1, <3>1, LetPassType DEF RunJob
      <4> QED
        BY <2>8, <3>3, <4>2 DEF Admit, TypeOK
    <3> QED
      BY <3>2, <3>3
  <2>9. ASSUME NEW s \in Slots, NEW t \in PeriodType, ChargeProject(s, t)
        PROVE  TypeOK'
    <3>1. job[s] \in RunJob /\ ChargedKey(s, t) \in PeriodKey
      BY <2>9, JobOfCheck, PeriodTypes
      DEF ChargeProject, Querying, Charging, ChargedKey, RunJob, PeriodKeys
    <3>2. usage' \in [Projects -> [PeriodKey -> Nat]]
      BY <2>9, <3>1 DEF ChargeProject, TypeOK, RunJob
    <3>3. charged' \in [Slots -> Nat]
      BY <2>9 DEF ChargeProject, TypeOK
    <3>4. SlotsTyped'
      BY <2>9, <3>1, PeriodTypes
      DEF ChargeProject, TypeOK, SlotsTyped, Resting, Querying, Reading, Charging
    <3> QED
      BY <2>9, <3>2, <3>3, <3>4 DEF ChargeProject, TypeOK
  <2>10. ASSUME NEW s \in Slots, NEW t \in PeriodType, ChargeWorkflow(s, t)
         PROVE  TypeOK'
    <3>1. job[s] \in RunJob /\ ChargedKey(s, t) \in PeriodKey
      BY <2>10, JobOfCheck, PeriodTypes
      DEF ChargeWorkflow, Querying, Charging, ChargedKey, RunJob, PeriodKeys
    <3>2. wfUsage' \in [Projects -> [Workflows -> [PeriodKey -> Nat]]]
      BY <2>10, <3>1 DEF ChargeWorkflow, TypeOK, RunJob
    <3>3. SlotsTyped' /\ charged' \in [Slots -> Nat]
      <4>1. CASE t = "weekly"
        BY <2>10, <4>1, <3>1
        DEF ChargeWorkflow, TypeOK, SlotsTyped, Resting, Querying, Reading, Charging
      <4>2. CASE t # "weekly"
        BY <2>10, <4>2, <3>1, LetPassType DEF ChargeWorkflow, RunJob
      <4> QED
        BY <4>1, <4>2
    <3> QED
      BY <2>10, <3>2, <3>3 DEF ChargeWorkflow, TypeOK
  <2>11. ASSUME NEW s \in Slots, Outage(s)
         PROVE  TypeOK'
    <3>1. job[s] \in RunJob
      BY <2>11, JobOfCheck DEF Outage
    <3>2. SlotsTyped' /\ charged' \in [Slots -> Nat]
      BY <2>11, <3>1, LetPassType DEF Outage, RunJob
    <3>3. torn' \in [Projects -> [PeriodKey -> Nat]]
      BY <2>11, <3>1 DEF Outage, TypeOK, RunJob
    <3> QED
      BY <2>11, <3>2, <3>3 DEF Outage, TypeOK
  <2>12. ASSUME AdminStep
         PROVE  TypeOK'
    <3>1. CASE \E p \in Projects, w \in Weeks, n \in TopupAmounts : ValidateTopup(p, w, n)
      <4>1. PICK p \in Projects, w \in Weeks, n \in TopupAmounts : ValidateTopup(p, w, n)
        BY <3>1
      <4>2. [id |-> edits, project |-> p, week |-> w, amount |-> n] \in Topup
        BY BoundsAssumption DEF Topup, TypeOK
      <4>3. requests' \subseteq Request
        BY <4>1, <4>2 DEF ValidateTopup, TypeOK, Request
      <4> QED
        BY <4>1, <4>3 DEF ValidateTopup, TypeOK, SlotsTyped
    <3>2. CASE \E row \in topups : ValidateDelete(row)
      <4>1. PICK row \in topups : ValidateDelete(row)
        BY <3>2
      <4>2. requests' \subseteq Request
        BY <4>1 DEF ValidateDelete, TypeOK, Request
      <4> QED
        BY <4>1, <4>2 DEF ValidateDelete, TypeOK, SlotsTyped
    <3>3. CASE \E r \in requests : WriteTopup(r)
      <4>1. PICK r \in requests : WriteTopup(r)
        BY <3>3
      <4>2. r.row \in Topup
        BY DEF TypeOK, Request
      <4> QED
        BY <4>1, <4>2 DEF WriteTopup, TypeOK, SlotsTyped
    <3>4. CASE \E p \in Projects, body \in LimitBodies : UpdateRateLimit(p, body)
      BY <3>4, PolicyTypes, BodiesAssumption DEF UpdateRateLimit, TypeOK, SlotsTyped
    <3>5. CASE \E body \in DefaultsBodies : UpdateRateLimitDefaults(body)
      BY <3>5, BodiesAssumption DEF UpdateRateLimitDefaults, TypeOK, SlotsTyped
    <3> QED
      BY <2>12, <3>1, <3>2, <3>3, <3>4, <3>5 DEF AdminStep
  <2>13. CASE NextDay
    BY <2>13, Calendar DEF NextDay, TypeOK, SlotsTyped, Day
  <2>14. CASE UNCHANGED vars
    BY <2>14 DEF vars, TypeOK, SlotsTyped
  <2> QED
    BY <2>1, <2>2, <2>3, <2>4, <2>5, <2>6, <2>7, <2>8, <2>9, <2>10, <2>11,
       <2>12, <2>13, <2>14
    DEF Next, HookStep
<1> QED
  BY <1>1, <1>2, PTL DEF Spec

----------------------------------------------------------------------------
(* How far concurrent runs can overshoot                                   *)
(*                                                                         *)
(* BoundedOvershoot is not inductive: what keeps a counter below its bound *)
(* is that every run still to charge it read a count that was already      *)
(* visible.  For every b at or above the peak, the counter plus the runs   *)
(* that read a count below b and have yet to charge it stay within         *)
(* b + Cardinality(Slots) - 1: reading adds a run only while the counter   *)
(* is below b, and charging moves one from the second term to the first.   *)

\* The places from which the charge of period t, its count read, is ahead.
Due(t) ==
  {"defaults", "topups", "decide", "weekly"} \cup (IF t = "yearly" THEN {"yearly"} ELSE {})

ToCharge(s, p, k, b) ==
  \E t \in PeriodType : /\ pc[s] \in Due(t)
                        /\ job[s].project = p /\ job[s].key[t] = k
                        /\ job[s].count[t] < b

Pending(p, k, b) == { s \in Slots : ToCharge(s, p, k, b) }

Slack ==
  \A p \in Projects, k \in PeriodKey, b \in Nat :
    peak[p][k] # NoLimit /\ peak[p][k] <= b =>
      usage[p][k] + Cardinality(Pending(p, k, b)) <= b + Cardinality(Slots) - 1

\* A run that is charging was admitted under no more than the peak.
AdmittedBelowPeak ==
  \A s \in Slots, t \in PeriodType :
    pc[s] \in Due(t) \cap Charging =>
      LET limit == peak[job[s].project][job[s].key[t]]
      IN  limit = NoLimit \/ job[s].count[t] < limit

OvershootInv == TypeOK /\ Slack /\ AdmittedBelowPeak

\* What a run in the middle of its check or of its charges has seen.
CountsSeen ==
  \A s \in Slots, t \in PeriodType :
    pc[s] \in {"defaults", "topups", "decide"} =>
      job[s].count[t] <= usage[job[s].project][job[s].key[t]]

CheckPassed ==
  \A s \in Slots :
    pc[s] \in {"weekly", "yearly"} =>
      IsSoft(job[s].config) \/ \A t \in PeriodType : ~Breached(job[s], t)

ChargesMade ==
  \A s \in Slots :
    /\ pc[s] \in Charging => CountsUsage(job[s].proc)
    /\ charged[s] = IF pc[s] \in {"yearly", "wfWeekly", "wfYearly"} THEN 1 ELSE 0

\* Sets of slots can be counted.
LEMMA SlotsFinite ==
  /\ Cardinality(Slots) \in Nat /\ Cardinality(Slots) >= 1
  /\ \A S \in SUBSET Slots : IsFiniteSet(S) /\ Cardinality(S) \in Nat
                            /\ Cardinality(S) <= Cardinality(Slots)
<1>1. Cardinality(Slots) \in Nat /\ Cardinality(Slots) # 0
  BY SlotsAssumption, FS_CardinalityType, FS_EmptySet
<1>2. \A S \in SUBSET Slots : IsFiniteSet(S) /\ Cardinality(S) <= Cardinality(Slots)
  BY SlotsAssumption, FS_Subset
<1> QED
  BY <1>1, <1>2, FS_CardinalityType

\* ... and a subset has no more of them.
LEMMA PendingSubset ==
  ASSUME NEW S \in SUBSET Slots, NEW T \in SUBSET S
  PROVE  Cardinality(T) <= Cardinality(S)
BY SlotsFinite, FS_Subset

\* The places where a charge of a period is due.
LEMMA DuePlaces ==
  /\ \A t : "config" \notin Due(t) /\ "counts" \notin Due(t)
  /\ \A t : \A place \in {"defaults", "topups", "decide"} :
       place \in Due(t) /\ place \notin Charging
  /\ \A t : Due(t) \subseteq {"defaults", "topups", "decide", "weekly", "yearly"}
  /\ "weekly" \in Due("weekly") /\ "weekly" \in Due("yearly")
  /\ "yearly" \in Due("yearly") /\ "yearly" \notin Due("weekly")
BY DEF Due, Charging

\* A step after which no further run owes a charge, and which neither charges
\* nor lowers a peak, keeps the slack.
LEMMA SlackKept ==
  ASSUME TypeOK, Slack, usage' = usage,
         \A p \in Projects, k \in PeriodKey, b \in Nat :
           peak'[p][k] # NoLimit /\ peak'[p][k] <= b
             => peak[p][k] # NoLimit /\ peak[p][k] <= b,
         \A s \in Slots, p \in Projects, k \in PeriodKey, b \in Nat :
           ToCharge(s, p, k, b)' => ToCharge(s, p, k, b)
  PROVE  Slack'
<1> SUFFICES ASSUME NEW p \in Projects, NEW k \in PeriodKey, NEW b \in Nat,
                    peak'[p][k] # NoLimit, peak'[p][k] <= b
             PROVE  usage'[p][k] + Cardinality(Pending(p, k, b)')
                      <= b + Cardinality(Slots) - 1
  BY DEF Slack
<1>1. Pending(p, k, b)' \subseteq Pending(p, k, b) /\ Pending(p, k, b) \subseteq Slots
  BY DEF Pending
<1>2. usage[p][k] + Cardinality(Pending(p, k, b)) <= b + Cardinality(Slots) - 1
  BY DEF Slack
<1>3. Cardinality(Pending(p, k, b)') <= Cardinality(Pending(p, k, b))
  BY <1>1, PendingSubset
<1>4. /\ Cardinality(Pending(p, k, b)') \in Nat /\ Cardinality(Pending(p, k, b)) \in Nat
      /\ Cardinality(Slots) \in Nat /\ usage[p][k] \in Nat
  BY <1>1, SlotsFinite DEF TypeOK
<1> QED
  BY <1>2, <1>3, <1>4

\* Two kinds of quiet step of a slot: it leaves for a place where no charge is
\* due, or it goes on reading with the keys and counts it had.
LEMMA QuietStep ==
  ASSUME OvershootInv, NEW s \in Slots,
         usage' = usage, peak' = peak,
         \A r \in Slots : r # s => pc'[r] = pc[r] /\ job'[r] = job[r],
         \/ \A t \in PeriodType : pc'[s] \notin Due(t)
         \/ /\ pc[s] \in {"defaults", "topups", "decide"}
            /\ pc'[s] \in {"defaults", "topups", "decide"}
            /\ job'[s].project = job[s].project
            /\ job'[s].key = job[s].key /\ job'[s].count = job[s].count
  PROVE  Slack' /\ AdmittedBelowPeak'
<1>1. \A r \in Slots, p \in Projects, k \in PeriodKey, b \in Nat :
        ToCharge(r, p, k, b)' => ToCharge(r, p, k, b)
  BY DuePlaces DEF ToCharge
<1>2. Slack'
  BY <1>1, SlackKept DEF OvershootInv
<1>3. AdmittedBelowPeak'
  BY DuePlaces DEF AdmittedBelowPeak, OvershootInv
<1> QED
  BY <1>2, <1>3

\* The read: a run becomes pending below b only if the counter is below b.
LEMMA ReadCountsKeepsSlack ==
  ASSUME OvershootInv, NEW s \in Slots, ReadCounts(s)
  PROVE  Slack' /\ AdmittedBelowPeak'
<1> USE DEF dbVars, counterVars, historyVars
<1>1. /\ usage' = usage /\ peak' = peak /\ pc[s] = "counts"
      /\ pc'[s] \in {"defaults", "topups", "decide"}
      /\ \A r \in Slots : r # s => pc'[r] = pc[r] /\ job'[r] = job[r]
  BY DEF ReadCounts, AfterBase, OvershootInv, TypeOK, SlotsTyped
<1>2. job[s] \in RunJob
  BY <1>1, JobOfCheck DEF OvershootInv, Querying, Reading
<1>3. /\ job'[s].project = job[s].project /\ job'[s].key = job[s].key
      /\ job'[s].count = [t \in PeriodType |-> usage[job[s].project][job[s].key[t]]]
  <2> DEFINE own == OwnLimits(job[s].config)
             counts == [t \in PeriodType |-> usage[job[s].project][job[s].key[t]]]
             counted == [job[s] EXCEPT !.count = counts]
  <2>1. job'[s] = IF NeedsDefaults(own) THEN counted ELSE WithBase(counted, own)
    BY DEF ReadCounts, OvershootInv, TypeOK, SlotsTyped
  <2>2. /\ counted.project = job[s].project /\ counted.key = job[s].key
        /\ counted.count = counts
    BY <1>2 DEF RunJob
  <2>3. LET based == WithBase(counted, own)
        IN  /\ based.project = counted.project /\ based.key = counted.key
            /\ based.count = counted.count
    BY <1>2 DEF WithBase, RunJob
  <2> HIDE DEF own, counted
  <2> QED
    BY <2>1, <2>2, <2>3
<1>4. AdmittedBelowPeak'
  BY <1>1, DuePlaces DEF AdmittedBelowPeak, OvershootInv
<1>5. Slack'
  <2> SUFFICES ASSUME NEW p \in Projects, NEW k \in PeriodKey, NEW b \in Nat,
                      peak[p][k] # NoLimit, peak[p][k] <= b
               PROVE  usage[p][k] + Cardinality(Pending(p, k, b)')
                        <= b + Cardinality(Slots) - 1
    BY <1>1 DEF Slack
  <2>1. Pending(p, k, b)' \subseteq Slots /\ Pending(p, k, b) \subseteq Slots
    BY DEF Pending
  <2>2. /\ Cardinality(Pending(p, k, b)') \in Nat /\ Cardinality(Pending(p, k, b)) \in Nat
        /\ Cardinality(Pending(p, k, b)') <= Cardinality(Slots)
        /\ Cardinality(Slots) \in Nat /\ usage[p][k] \in Nat
    BY <2>1, SlotsFinite DEF OvershootInv, TypeOK
  <2>3. CASE ToCharge(s, p, k, b)'
    <3>1. usage[p][k] < b
      BY <2>3, <1>3 DEF ToCharge
    <3> QED
      BY <2>2, <3>1
  <2>4. CASE ~ToCharge(s, p, k, b)'
    <3>1. Pending(p, k, b)' \subseteq Pending(p, k, b)
      BY <2>4, <1>1 DEF Pending, ToCharge
    <3>2. Cardinality(Pending(p, k, b)') <= Cardinality(Pending(p, k, b))
      BY <2>1, <3>1, PendingSubset
    <3>3. usage[p][k] + Cardinality(Pending(p, k, b)) <= b + Cardinality(Slots) - 1
      BY DEF OvershootInv, Slack
    <3> QED
      BY <2>2, <3>2, <3>3
  <2> QED
    BY <2>3, <2>4
<1> QED
  BY <1>4, <1>5

\* The admission: a peak only grows, and to more than the count admitted.
LEMMA AdmitKeepsSlack ==
  ASSUME OvershootInv, NEW s \in Slots, Admit(s), CountsUsage(job[s].proc)
  PROVE  Slack' /\ AdmittedBelowPeak'
<1> USE DEF dbVars, counterVars, historyVars
<1>1. /\ usage' = usage /\ job' = job /\ pc[s] = "decide" /\ pc'[s] = "weekly"
      /\ \A r \in Slots : r # s => pc'[r] = pc[r]
  BY DEF Admit, OvershootInv, TypeOK, SlotsTyped
<1>2. job[s] \in RunJob
  BY <1>1, JobOfCheck DEF OvershootInv
<1>3. /\ job[s].project \in Projects
      /\ job[s].key["weekly"] \in PeriodKey /\ job[s].key["yearly"] \in PeriodKey
      /\ job[s].key["weekly"] # job[s].key["yearly"]
  BY <1>2, PeriodTypes, Calendar DEF RunJob, PeriodKeys
<1>4. \A t \in PeriodType : /\ Granted(job[s], t) \in Limit
                            /\ \/ Granted(job[s], t) = NoLimit
                               \/ job[s].count[t] < Granted(job[s], t)
  <2> TAKE t \in PeriodType
  <2>1. Granted(job[s], t) \in Limit
    BY <1>2, GrantedType
  <2>2. job[s].count[t] \in Nat /\ job[s].base[t] \in Limit /\ job[s].raise[t] \in Nat
    BY <1>2 DEF RunJob, ScopeDefaults
  <2> QED
    BY <2>1, <2>2, NoLimitAssumption DEF Granted, EffectiveLimit, Breached, Reached, Limit
<1>5. \A old, new \in Limit :
        LET raised == Raised(old, new)
        IN  raised # NoLimit => /\ old # NoLimit /\ new # NoLimit
                                /\ raised \in Nat /\ old <= raised /\ new <= raised
  BY NoLimitAssumption DEF Raised, Limit
<1>6. peak' = [peak EXCEPT ![job[s].project] = RaisedBy(peak[job[s].project], job[s])]
  BY DEF Admit
<1>7. \A p \in Projects, k \in PeriodKey :
        peak'[p][k] # NoLimit => /\ peak[p][k] # NoLimit /\ peak'[p][k] \in Nat
                                 /\ peak[p][k] \in Nat /\ peak[p][k] <= peak'[p][k]
  <2> TAKE p \in Projects, k \in PeriodKey
  <2>1. peak[p][k] \in Limit
    BY DEF OvershootInv, TypeOK
  <2>2. CASE p = job[s].project
    <3>1. peak'[p][k] = RaisedBy(peak[p], job[s])[k]
      BY <1>6, <2>2 DEF OvershootInv, TypeOK
    <3>2. \/ peak'[p][k] = peak[p][k]
          \/ \E t \in PeriodType : peak'[p][k] = Raised(peak[p][k], Granted(job[s], t))
      BY <3>1, PeriodTypes DEF RaisedBy
    <3>3. CASE peak'[p][k] = peak[p][k]
      BY <2>1, <3>3 DEF Limit
    <3>4. ASSUME NEW t \in PeriodType,
                 peak'[p][k] = Raised(peak[p][k], Granted(job[s], t)),
                 peak'[p][k] # NoLimit
          PROVE  /\ peak[p][k] # NoLimit /\ peak'[p][k] \in Nat
                 /\ peak[p][k] \in Nat /\ peak[p][k] <= peak'[p][k]
      <4>1. Granted(job[s], t) \in Limit
        BY <1>4
      <4> QED
        BY <2>1, <3>4, <4>1, <1>5 DEF Limit
    <3> QED
      BY <3>2, <3>3, <3>4
  <2>3. CASE p # job[s].project
    BY <2>1, <2>3, <1>6 DEF OvershootInv, TypeOK, Limit
  <2> QED
    BY <2>2, <2>3
<1>8. \A r \in Slots, p \in Projects, k \in PeriodKey, b \in Nat :
        ToCharge(r, p, k, b)' => ToCharge(r, p, k, b)
  BY <1>1, DuePlaces DEF ToCharge
<1>9. Slack'
  BY <1>1, <1>7, <1>8, SlackKept DEF OvershootInv
<1>10. AdmittedBelowPeak'
  <2> SUFFICES ASSUME NEW r \in Slots, NEW t \in PeriodType, pc'[r] \in Due(t) \cap Charging,
                      peak'[job[r].project][job[r].key[t]] # NoLimit
               PROVE  job[r].count[t] < peak'[job[r].project][job[r].key[t]]
    BY <1>1 DEF AdmittedBelowPeak
  <2>1. job[r] \in RunJob
    <3>1. pc[r] \in Querying \cup {"decide"}
      BY <1>1 DEF Querying
    <3> QED
      BY <3>1, JobOfCheck DEF OvershootInv
  <2>2. /\ job[r].project \in Projects /\ job[r].key[t] \in PeriodKey
        /\ job[r].count[t] \in Nat
    BY <2>1 DEF RunJob, PeriodKeys
  <2>3. CASE r = s
    <3>1. peak'[job[s].project][job[s].key[t]]
            = Raised(peak[job[s].project][job[s].key[t]], Granted(job[s], t))
      BY <1>3, <1>6, PeriodTypes DEF OvershootInv, TypeOK, RaisedBy
    <3>2. peak[job[s].project][job[s].key[t]] \in Limit
      BY <2>2, <2>3 DEF OvershootInv, TypeOK
    <3>3. Granted(job[s], t) \in Limit
      BY <1>4
    <3>4. LET raised == Raised(peak[job[s].project][job[s].key[t]], Granted(job[s], t))
          IN  /\ Granted(job[s], t) # NoLimit
              /\ raised \in Nat /\ Granted(job[s], t) <= raised
      BY <2>3, <3>1, <3>2, <3>3, <1>5
    <3>5. Granted(job[s], t) \in Nat /\ job[s].count[t] < Granted(job[s], t)
      BY <1>4, <3>3, <3>4 DEF Limit
    <3> QED
      BY <2>2, <2>3, <3>1, <3>4, <3>5
  <2>4. CASE r # s
    <3>1. pc[r] \in Due(t) \cap Charging
      BY <1>1, <2>4
    <3>2. /\ peak[job[r].project][job[r].key[t]] # NoLimit
          /\ peak[job[r].project][job[r].key[t]] \in Nat
          /\ peak'[job[r].project][job[r].key[t]] \in Nat
          /\ peak[job[r].project][job[r].key[t]] <= peak'[job[r].project][job[r].key[t]]
      BY <1>7, <2>2
    <3>3. job[r].count[t] < peak[job[r].project][job[r].key[t]]
      BY <3>1, <3>2 DEF OvershootInv, AdmittedBelowPeak
    <3> QED
      BY <2>2, <3>2, <3>3
  <2> QED
    BY <2>3, <2>4
<1> QED
  BY <1>9, <1>10

\* The charge: the run leaves the pending set of the key whose counter grows.
LEMMA ChargeKeepsSlack ==
  ASSUME OvershootInv, NEW s \in Slots, NEW t \in PeriodType, ChargeProject(s, t)
  PROVE  Slack' /\ AdmittedBelowPeak'
<1> USE DEF dbVars, counterVars, historyVars
<1> DEFINE project == job[s].project
           key == job[s].key[t]
<1>1. /\ peak' = peak /\ job' = job /\ pc[s] = t
      /\ pc'[s] = (IF t = "weekly" THEN "yearly" ELSE "wfWeekly")
      /\ \A r \in Slots : r # s => pc'[r] = pc[r]
      /\ usage' = [usage EXCEPT ![project][key] = @ + 1]
  BY DEF ChargeProject, ChargedKey, OvershootInv, TypeOK, SlotsTyped
<1>2. job[s] \in RunJob
  BY <1>1, JobOfCheck, PeriodTypes DEF OvershootInv, Querying, Charging
<1>3. /\ project \in Projects /\ key \in PeriodKey /\ job[s].count[t] \in Nat
      /\ job[s].key["weekly"] # job[s].key["yearly"]
  BY <1>2, PeriodTypes, Calendar DEF RunJob, PeriodKeys
<1>4. pc[s] \in Due(t) \cap Charging
  BY <1>1, PeriodTypes, DuePlaces DEF Charging
<1>5. \A u \in PeriodType : pc'[s] \in Due(u) => pc[s] \in Due(u) /\ u # t
  BY <1>1, PeriodTypes, DuePlaces
<1>6. AdmittedBelowPeak'
  <2> SUFFICES ASSUME NEW r \in Slots, NEW u \in PeriodType,
                      pc'[r] \in Due(u) \cap Charging,
                      peak[job[r].project][job[r].key[u]] # NoLimit
               PROVE  job[r].count[u] < peak[job[r].project][job[r].key[u]]
    BY <1>1 DEF AdmittedBelowPeak
  <2>1. pc[r] \in Due(u) \cap Charging
    BY <1>1, <1>4, <1>5
  <2> QED
    BY <2>1 DEF OvershootInv, AdmittedBelowPeak
<1>7. \A r \in Slots, p \in Projects, k \in PeriodKey, b \in Nat :
        ToCharge(r, p, k, b)' => ToCharge(r, p, k, b) /\ (r = s => p # project \/ k # key)
  BY <1>1, <1>3, <1>5, PeriodTypes DEF ToCharge
<1>8. Slack'
  <2> SUFFICES ASSUME NEW p \in Projects, NEW k \in PeriodKey, NEW b \in Nat,
                      peak[p][k] # NoLimit, peak[p][k] <= b
               PROVE  usage'[p][k] + Cardinality(Pending(p, k, b)')
                        <= b + Cardinality(Slots) - 1
    BY <1>1 DEF Slack
  <2> DEFINE before == Pending(p, k, b)
             after == Pending(p, k, b)'
  <2>1. after \subseteq before /\ before \subseteq Slots
    BY <1>7 DEF Pending
  <2>2. /\ Cardinality(before) \in Nat /\ Cardinality(after) \in Nat
        /\ Cardinality(after) <= Cardinality(before) /\ IsFiniteSet(before)
        /\ Cardinality(Slots) \in Nat /\ usage[p][k] \in Nat
    BY <2>1, SlotsFinite, PendingSubset DEF OvershootInv, TypeOK
  <2>3. usage[p][k] + Cardinality(before) <= b + Cardinality(Slots) - 1
    BY DEF OvershootInv, Slack
  <2>4. CASE p = project /\ k = key
    <3>1. job[s].count[t] < peak[p][k]
      BY <1>4, <2>4 DEF OvershootInv, AdmittedBelowPeak
    <3>2. job[s].count[t] < b
      <4>1. peak[p][k] \in Nat
        BY DEF OvershootInv, TypeOK, Limit
      <4> QED
        BY <1>3, <3>1, <4>1
    <3>3. s \in before /\ s \notin after
      BY <1>4, <1>7, <2>4, <3>2 DEF Pending, ToCharge
    <3>4. after \subseteq before \ {s} /\ before \ {s} \subseteq Slots
      BY <2>1, <3>3
    <3>5. /\ Cardinality(before \ {s}) = Cardinality(before) - 1
          /\ Cardinality(after) <= Cardinality(before \ {s})
      BY <2>2, <3>3, <3>4, FS_RemoveElement, PendingSubset
    <3>6. usage'[p][k] = usage[p][k] + 1
      BY <1>1, <2>4 DEF OvershootInv, TypeOK
    <3> QED
      BY <2>2, <2>3, <3>5, <3>6
  <2>5. CASE ~(p = project /\ k = key)
    <3>1. usage'[p][k] = usage[p][k]
      BY <1>1, <1>3, <2>5 DEF OvershootInv, TypeOK
    <3> QED
      BY <2>2, <2>3, <3>1
  <2> QED
    BY <2>4, <2>5
<1> QED
  BY <1>6, <1>8

\* Every step keeps the room left under the peak.
LEMMA OvershootStep == OvershootInv /\ [Next]_vars => Slack' /\ AdmittedBelowPeak'
<1> SUFFICES ASSUME OvershootInv, [Next]_vars PROVE Slack' /\ AdmittedBelowPeak'
  OBVIOUS
<1> USE DEF dbVars, counterVars, historyVars, adminUnchanged
<1>1. ASSUME NEW s \in Slots, NEW wf \in Workflows, NEW proc \in Procs,
             BeginCheck(s, wf, proc)
      PROVE  Slack' /\ AdmittedBelowPeak'
  BY <1>1, DuePlaces, QuietStep DEF BeginCheck, OvershootInv, TypeOK, SlotsTyped
<1>2. ASSUME NEW s \in Slots, NEW wf \in Workflows, NEW proc \in Procs,
             LetPass(s, wf, proc), usage' = usage, peak' = peak
      PROVE  Slack' /\ AdmittedBelowPeak'
  <2>1. PICK j : \E place \in {"queued", "idle"} : /\ pc' = [pc EXCEPT ![s] = place]
                                                   /\ job' = [job EXCEPT ![s] = j]
    BY <1>2 DEF LetPass
  <2>2. /\ pc'[s] \in {"queued", "idle"}
        /\ \A r \in Slots : r # s => pc'[r] = pc[r] /\ job'[r] = job[r]
    BY <2>1 DEF OvershootInv, TypeOK, SlotsTyped
  <2>3. \A t : pc'[s] \notin Due(t)
    BY <2>2, DuePlaces
  <2> QED
    BY <1>2, <2>2, <2>3, QuietStep
<1>3. ASSUME NEW s \in Slots, ReadConfig(s)
      PROVE  Slack' /\ AdmittedBelowPeak'
  BY <1>3, DuePlaces, QuietStep DEF ReadConfig, OvershootInv, TypeOK, SlotsTyped
<1>4. ASSUME NEW s \in Slots, ReadDefaults(s)
      PROVE  Slack' /\ AdmittedBelowPeak'
  <2>1. job[s] \in RunJob
    BY <1>4, JobOfCheck DEF ReadDefaults, OvershootInv, Querying, Reading
  <2>2. /\ job'[s].project = job[s].project /\ job'[s].key = job[s].key
        /\ job'[s].count = job[s].count
    BY <1>4, <2>1 DEF ReadDefaults, WithBase, RunJob, OvershootInv, TypeOK, SlotsTyped
  <2> QED
    BY <1>4, <2>2, QuietStep DEF ReadDefaults, AfterBase, OvershootInv, TypeOK, SlotsTyped
<1>5. ASSUME NEW s \in Slots, NEW t \in PeriodType, ReadTopups(s, t)
      PROVE  Slack' /\ AdmittedBelowPeak'
  <2>1. job[s] \in RunJob
    BY <1>5, JobOfCheck DEF ReadTopups, OvershootInv, Querying, Reading
  <2>2. /\ job'[s].project = job[s].project /\ job'[s].key = job[s].key
        /\ job'[s].count = job[s].count
    BY <1>5, <2>1 DEF ReadTopups, RunJob, OvershootInv, TypeOK, SlotsTyped
  <2> QED
    BY <1>5, <2>2, QuietStep DEF ReadTopups, OvershootInv, TypeOK, SlotsTyped
<1>6. ASSUME NEW s \in Slots, Reject(s)
      PROVE  Slack' /\ AdmittedBelowPeak'
  BY <1>6, DuePlaces, QuietStep DEF Reject, OvershootInv, TypeOK, SlotsTyped
<1>7. ASSUME NEW s \in Slots, Admit(s)
      PROVE  Slack' /\ AdmittedBelowPeak'
  <2>1. job[s] \in RunJob
    BY <1>7, JobOfCheck DEF Admit, OvershootInv
  <2>2. CASE CountsUsage(job[s].proc)
    BY <1>7, <2>2, AdmitKeepsSlack
  <2>3. CASE ~CountsUsage(job[s].proc)
    BY <1>2, <1>7, <2>1, <2>3 DEF Admit, RunJob
  <2> QED
    BY <2>2, <2>3
<1>8. ASSUME NEW s \in Slots, NEW t \in PeriodType, ChargeWorkflow(s, t)
      PROVE  Slack' /\ AdmittedBelowPeak'
  <2>1. job[s] \in RunJob
    BY <1>8, JobOfCheck DEF ChargeWorkflow, OvershootInv, Querying, Charging
  <2>2. CASE t = "weekly"
    BY <1>8, <2>2, DuePlaces, QuietStep DEF ChargeWorkflow, OvershootInv, TypeOK, SlotsTyped
  <2>3. CASE t # "weekly"
    BY <1>2, <1>8, <2>1, <2>3 DEF ChargeWorkflow, RunJob
  <2> QED
    BY <2>2, <2>3
<1>9. ASSUME NEW s \in Slots, Outage(s)
      PROVE  Slack' /\ AdmittedBelowPeak'
  <2>1. job[s] \in RunJob
    BY <1>9, JobOfCheck DEF Outage, OvershootInv
  <2> QED
    BY <1>2, <1>9, <2>1 DEF Outage, RunJob
<1>10. CASE UNCHANGED <<usage, peak, pc, job>>
  <2>1. \A r \in Slots, p \in Projects, k \in PeriodKey, b \in Nat :
          ToCharge(r, p, k, b)' => ToCharge(r, p, k, b)
    BY <1>10 DEF ToCharge
  <2>2. Slack'
    BY <1>10, <2>1, SlackKept DEF OvershootInv
  <2>3. AdmittedBelowPeak'
    BY <1>10 DEF OvershootInv, AdmittedBelowPeak
  <2> QED
    BY <2>2, <2>3
<1>11. ASSUME AdminStep \/ NextDay \/ UNCHANGED vars
       PROVE  UNCHANGED <<usage, peak, pc, job>>
  BY <1>11
  DEF AdminStep, ValidateTopup, ValidateDelete, WriteTopup, UpdateRateLimit,
      UpdateRateLimitDefaults, NextDay, vars
<1>12. ASSUME NEW s \in Slots, NEW wf \in Workflows, NEW proc \in Procs,
              BypassCheck(s, wf, proc)
       PROVE  Slack' /\ AdmittedBelowPeak'
  BY <1>2, <1>12 DEF BypassCheck
<1> QED
  BY <1>1, <1>3, <1>4, <1>5, <1>6, <1>7, <1>8, <1>9, <1>10, <1>11, <1>12,
     ReadCountsKeepsSlack, ChargeKeepsSlack
  DEF Next, HookStep

\* A period's counter exceeds the largest limit a run was admitted under by
\* fewer than the number of executions the hook holds at once, for every
\* number of slots and every interleaving (the concurrent-run overshoot of
\* enforceExecution's check-then-increment).
THEOREM OvershootBounded == Spec => []BoundedOvershoot
<1>1. Init => Slack /\ AdmittedBelowPeak
  <2> SUFFICES ASSUME Init PROVE Slack /\ AdmittedBelowPeak
    OBVIOUS
  <2>1. \A p \in Projects, k \in PeriodKey, b \in Nat : Pending(p, k, b) = {}
    BY DuePlaces DEF Init, Pending, ToCharge
  <2>2. \A p \in Projects, k \in PeriodKey, b \in Nat : Cardinality(Pending(p, k, b)) = 0
    BY <2>1, FS_EmptySet
  <2>3. \A p \in Projects, k \in PeriodKey : usage[p][k] = 0
    BY DEF Init
  <2>4. Slack
    BY <2>2, <2>3, SlotsFinite DEF Slack
  <2>5. AdmittedBelowPeak
    BY DEF Init, AdmittedBelowPeak, Charging
  <2> QED
    BY <2>4, <2>5
<1>2. OvershootInv => BoundedOvershoot
  <2> SUFFICES ASSUME OvershootInv, NEW p \in Projects, NEW k \in PeriodKey,
                      peak[p][k] # NoLimit
               PROVE  usage[p][k] < peak[p][k] + Cardinality(Slots)
    BY DEF BoundedOvershoot
  <2>1. peak[p][k] \in Nat /\ usage[p][k] \in Nat
    BY DEF OvershootInv, TypeOK, Limit
  <2>2. usage[p][k] + Cardinality(Pending(p, k, peak[p][k]))
          <= peak[p][k] + Cardinality(Slots) - 1
    BY <2>1 DEF OvershootInv, Slack
  <2>3. Cardinality(Pending(p, k, peak[p][k])) \in Nat /\ Cardinality(Slots) \in Nat
    BY SlotsFinite DEF Pending
  <2> QED
    BY <2>1, <2>2, <2>3
<1>3. Spec => []OvershootInv
  <2>1. Init /\ TypeOK => OvershootInv
    BY <1>1 DEF OvershootInv
  <2>2. OvershootInv /\ [Next]_vars /\ TypeOK' => OvershootInv'
    BY OvershootStep DEF OvershootInv
  <2> QED
    BY <2>1, <2>2, TypeCorrect, PTL DEF Spec
<1> QED
  BY <1>2, <1>3, PTL

----------------------------------------------------------------------------
(* Rejections, charges, top-ups *)

\* Counters never go down.
LEMMA UsageGrows ==
  ASSUME TypeOK, [Next]_vars, NEW p \in Projects, NEW k \in PeriodKey
  PROVE  usage[p][k] \in Nat /\ usage'[p][k] \in Nat /\ usage[p][k] <= usage'[p][k]
<1> USE DEF dbVars, counterVars, historyVars, adminUnchanged
<1>1. usage[p][k] \in Nat
  BY DEF TypeOK
<1>2. CASE usage' = usage
  BY <1>1, <1>2
<1>3. ASSUME NEW s \in Slots, NEW t \in PeriodType, ChargeProject(s, t)
      PROVE  usage'[p][k] \in Nat /\ usage[p][k] <= usage'[p][k]
  BY <1>1, <1>3 DEF ChargeProject, TypeOK
<1>4. ASSUME ~ \E s \in Slots, t \in PeriodType : ChargeProject(s, t)
      PROVE  usage' = usage
  BY <1>4
  DEF Next, HookStep, BeginCheck, BypassCheck, ReadConfig, ReadCounts, ReadDefaults,
      ReadTopups, Reject, Admit, ChargeWorkflow, Outage, AdminStep, ValidateTopup,
      ValidateDelete, WriteTopup, UpdateRateLimit, UpdateRateLimitDefaults, NextDay, vars
<1> QED
  BY <1>1, <1>2, <1>3, <1>4

\* A slot's step leaves the other slots where they are.
LEMMA OnlyOneSlotMoves ==
  ASSUME TypeOK, NEW r \in Slots, HookStep(r), NEW s \in Slots, s # r
  PROVE  pc'[s] = pc[s] /\ job'[s] = job[s] /\ charged'[s] = charged[s]
<1> USE DEF TypeOK, SlotsTyped, dbVars, counterVars, historyVars
<1>1. CASE \E wf \in Workflows, proc \in Procs : BeginCheck(r, wf, proc) \/ BypassCheck(r, wf, proc)
  BY <1>1 DEF BeginCheck, BypassCheck, LetPass
<1>2. CASE ReadConfig(r) \/ ReadCounts(r) \/ ReadDefaults(r) \/ \E t \in PeriodType : ReadTopups(r, t)
  BY <1>2 DEF ReadConfig, ReadCounts, ReadDefaults, ReadTopups
<1>3. CASE Reject(r) \/ Admit(r) \/ Outage(r)
  BY <1>3 DEF Reject, Admit, Outage, LetPass
<1>4. CASE \E t \in PeriodType : ChargeProject(r, t) \/ ChargeWorkflow(r, t)
  BY <1>4 DEF ChargeProject, ChargeWorkflow, LetPass
<1> QED
  BY <1>1, <1>2, <1>3, <1>4 DEF HookStep

\* Only the throw of a hard stop rejects.
LEMMA OnlyRejectRejects ==
  ASSUME TypeOK, [Next]_vars, NEW s \in Slots, pc'[s] = "rejected", pc[s] # "rejected"
  PROVE  Reject(s)
<1> USE DEF dbVars, counterVars, historyVars, adminUnchanged
<1>1. ASSUME AdminStep \/ NextDay \/ UNCHANGED vars
      PROVE  pc'[s] = pc[s]
  BY <1>1
  DEF AdminStep, ValidateTopup, ValidateDelete, WriteTopup, UpdateRateLimit,
      UpdateRateLimitDefaults, NextDay, vars
<1>2. PICK r \in Slots : HookStep(r)
  BY <1>1 DEF Next
<1>3. r = s
  BY <1>2, OnlyOneSlotMoves
<1>4. ASSUME HookStep(s), ~Reject(s)
      PROVE  pc'[s] # "rejected"
  BY <1>4
  DEF HookStep, BeginCheck, BypassCheck, LetPass, ReadConfig, ReadCounts, AfterBase,
      ReadDefaults, ReadTopups, Admit, ChargeProject, ChargeWorkflow, Outage, TypeOK,
      SlotsTyped
<1> QED
  BY <1>2, <1>3, <1>4

\* Every step keeps what checks read below the counters.
LEMMA CountsSeenStep == TypeOK /\ CountsSeen /\ [Next]_vars => CountsSeen'
<1> SUFFICES ASSUME TypeOK, CountsSeen, [Next]_vars,
                    NEW s \in Slots, NEW t \in PeriodType,
                    pc'[s] \in {"defaults", "topups", "decide"}
             PROVE  job'[s].count[t] <= usage'[job'[s].project][job'[s].key[t]]
  BY DEF CountsSeen
<1> USE DEF dbVars, counterVars, historyVars, adminUnchanged
<1>1. ASSUME ReadCounts(s)
      PROVE  job'[s].count[t] <= usage'[job'[s].project][job'[s].key[t]]
  <2> DEFINE own == OwnLimits(job[s].config)
             counts == [u \in PeriodType |-> usage[job[s].project][job[s].key[u]]]
             counted == [job[s] EXCEPT !.count = counts]
  <2>1. job[s] \in RunJob
    BY <1>1, JobOfCheck DEF ReadCounts, Querying, Reading
  <2>2. job'[s] = IF NeedsDefaults(own) THEN counted ELSE WithBase(counted, own)
    BY <1>1 DEF ReadCounts, TypeOK, SlotsTyped
  <2>3. /\ counted.project = job[s].project /\ counted.key = job[s].key
        /\ counted.count = counts
    BY <2>1 DEF RunJob
  <2>4. LET based == WithBase(counted, own)
        IN  /\ based.project = counted.project /\ based.key = counted.key
            /\ based.count = counted.count
    BY <2>1 DEF WithBase, RunJob
  <2> HIDE DEF own, counted
  <2>5. /\ job'[s].project = job[s].project /\ job'[s].key = job[s].key
        /\ job'[s].count = counts
    BY <2>2, <2>3, <2>4
  <2>6. job[s].project \in Projects /\ job[s].key[t] \in PeriodKey
    BY <2>1 DEF RunJob, PeriodKeys
  <2>7. usage' = usage /\ usage[job[s].project][job[s].key[t]] \in Nat
    BY <1>1, <2>6 DEF ReadCounts, TypeOK
  <2> QED
    BY <2>5, <2>7
<1>2. ASSUME pc[s] \in {"defaults", "topups", "decide"},
             job'[s].project = job[s].project, job'[s].key = job[s].key,
             job'[s].count = job[s].count
      PROVE  job'[s].count[t] <= usage'[job'[s].project][job'[s].key[t]]
  <2>1. job[s] \in RunJob
    BY <1>2, JobOfCheck DEF Querying, Reading
  <2>2. /\ job[s].project \in Projects /\ job[s].key[t] \in PeriodKey
        /\ job[s].count[t] \in Nat
    BY <2>1 DEF RunJob, PeriodKeys
  <2>3. job[s].count[t] <= usage[job[s].project][job[s].key[t]]
    BY <1>2 DEF CountsSeen
  <2> QED
    BY <1>2, <2>2, <2>3, UsageGrows
<1>3. ASSUME ~ReadCounts(s)
      PROVE  /\ pc[s] \in {"defaults", "topups", "decide"}
             /\ job'[s].project = job[s].project /\ job'[s].key = job[s].key
             /\ job'[s].count = job[s].count
  <2>1. CASE pc'[s] = pc[s] /\ job'[s] = job[s]
    BY <2>1
  <2>2. ASSUME ReadDefaults(s)
        PROVE  /\ pc[s] = "defaults"
               /\ job'[s].project = job[s].project /\ job'[s].key = job[s].key
               /\ job'[s].count = job[s].count
    <3>1. job[s] \in RunJob
      BY <2>2, JobOfCheck DEF ReadDefaults, Querying, Reading
    <3> QED
      BY <2>2, <3>1 DEF ReadDefaults, WithBase, RunJob, TypeOK, SlotsTyped
  <2>3. ASSUME NEW u \in PeriodType, ReadTopups(s, u)
        PROVE  /\ pc[s] = "topups"
               /\ job'[s].project = job[s].project /\ job'[s].key = job[s].key
               /\ job'[s].count = job[s].count
    <3>1. job[s] \in RunJob
      BY <2>3, JobOfCheck DEF ReadTopups, Querying, Reading
    <3> QED
      BY <2>3, <3>1 DEF ReadTopups, RunJob, TypeOK, SlotsTyped
  <2>4. ASSUME NEW r \in Slots, HookStep(r), r # s
        PROVE  pc'[s] = pc[s] /\ job'[s] = job[s]
    BY <2>4, OnlyOneSlotMoves
  <2>5. ASSUME AdminStep \/ NextDay \/ UNCHANGED vars
        PROVE  pc'[s] = pc[s] /\ job'[s] = job[s]
    BY <2>5
    DEF AdminStep, ValidateTopup, ValidateDelete, WriteTopup, UpdateRateLimit,
        UpdateRateLimitDefaults, NextDay, vars
  <2>6. ASSUME HookStep(s)
        PROVE  \/ ReadDefaults(s) \/ \E u \in PeriodType : ReadTopups(s, u)
    BY <2>6, <1>3
    DEF HookStep, BeginCheck, BypassCheck, LetPass, ReadConfig, Reject, Admit,
        ChargeProject, ChargeWorkflow, Outage, TypeOK, SlotsTyped
  <2> QED
    BY <2>1, <2>2, <2>3, <2>4, <2>5, <2>6 DEF Next
<1> QED
  BY <1>1, <1>2, <1>3

\* A rejected run really was over the limit it computed, then and now: the
\* counter only grows between the read and the throw of enforceExecution.
THEOREM RejectionsAreJustified == Spec => RejectionJustified
<1>1. Init => CountsSeen
  BY DEF Init, CountsSeen
<1>2. TypeOK /\ CountsSeen /\ [Next]_vars
        => [\A s \in Slots : pc'[s] = "rejected" /\ pc[s] # "rejected" =>
              \E t \in PeriodType :
                /\ job[s].base[t] # NoLimit
                /\ usage[job[s].project][job[s].key[t]] >= job[s].base[t] + job[s].raise[t]]_vars
  <2> SUFFICES ASSUME TypeOK, CountsSeen, [Next]_vars, NEW s \in Slots,
                      pc'[s] = "rejected", pc[s] # "rejected"
               PROVE  \E t \in PeriodType :
                        /\ job[s].base[t] # NoLimit
                        /\ usage[job[s].project][job[s].key[t]]
                             >= job[s].base[t] + job[s].raise[t]
    OBVIOUS
  <2>1. Reject(s)
    BY OnlyRejectRejects
  <2>2. PICK t \in PeriodType : Breached(job[s], t)
    BY <2>1 DEF Reject
  <2>3. job[s] \in RunJob /\ pc[s] = "decide"
    BY <2>1, JobOfCheck DEF Reject
  <2>4. /\ job[s].count[t] \in Nat /\ job[s].base[t] \in Limit /\ job[s].raise[t] \in Nat
        /\ job[s].project \in Projects /\ job[s].key[t] \in PeriodKey
    BY <2>3 DEF RunJob, ScopeDefaults, PeriodKeys
  <2>5. job[s].count[t] <= usage[job[s].project][job[s].key[t]]
    BY <2>3 DEF CountsSeen
  <2>6. usage[job[s].project][job[s].key[t]] \in Nat
    BY <2>4 DEF TypeOK
  <2>7. /\ job[s].base[t] # NoLimit
        /\ job[s].count[t] >= job[s].base[t] + job[s].raise[t]
    BY <2>2 DEF Breached, Reached, EffectiveLimit
  <2> QED
    BY <2>4, <2>5, <2>6, <2>7 DEF Limit
<1>3. Spec => []CountsSeen
  BY <1>1, CountsSeenStep, TypeCorrect, PTL DEF Spec
<1> QED
  BY <1>2, <1>3, TypeCorrect, PTL DEF Spec, RejectionJustified

\* Steps that are no slot's leave every slot alone.
LEMMA OtherSteps ==
  ASSUME AdminStep \/ NextDay \/ UNCHANGED vars
  PROVE  UNCHANGED <<usage, pc, job, charged>>
BY DEF AdminStep, ValidateTopup, ValidateDelete, WriteTopup, UpdateRateLimit,
       UpdateRateLimitDefaults, NextDay, vars, adminUnchanged, dbVars, counterVars, historyVars

\* The two ways of being at a project charge after a step.
LEMMA ReachesCharge ==
  ASSUME TypeOK, [Next]_vars, NEW s \in Slots, pc'[s] \in {"weekly", "yearly"}
  PROVE  \/ pc'[s] = pc[s] /\ job'[s] = job[s]
         \/ Admit(s) /\ CountsUsage(job[s].proc) /\ job'[s] = job[s]
         \/ ChargeProject(s, "weekly") /\ job'[s] = job[s]
<1>1. CASE AdminStep \/ NextDay \/ UNCHANGED vars
  BY <1>1, OtherSteps
<1>2. ASSUME NEW r \in Slots, HookStep(r), r # s
      PROVE  pc'[s] = pc[s] /\ job'[s] = job[s]
  BY <1>2, OnlyOneSlotMoves
<1>3. ASSUME HookStep(s)
      PROVE  \/ Admit(s) /\ CountsUsage(job[s].proc) /\ job'[s] = job[s]
             \/ ChargeProject(s, "weekly") /\ job'[s] = job[s]
  BY <1>3, PeriodTypes
  DEF HookStep, BeginCheck, BypassCheck, LetPass, ReadConfig, ReadCounts, AfterBase,
      ReadDefaults, ReadTopups, Reject, Admit, ChargeProject, ChargeWorkflow, Outage,
      TypeOK, SlotsTyped
<1> QED
  BY <1>1, <1>2, <1>3 DEF Next

\* Every step keeps charging slots to the checks they passed.
LEMMA CheckPassedStep == TypeOK /\ CheckPassed /\ [Next]_vars => CheckPassed'
<1> SUFFICES ASSUME TypeOK, CheckPassed, [Next]_vars,
                    NEW s \in Slots, pc'[s] \in {"weekly", "yearly"}
             PROVE  \/ IsSoft(job'[s].config)
                    \/ \A t \in PeriodType : ~Breached(job'[s], t)
  BY DEF CheckPassed
<1>1. CASE pc'[s] = pc[s] /\ job'[s] = job[s]
  BY <1>1 DEF CheckPassed
<1>2. CASE Admit(s) /\ job'[s] = job[s]
  BY <1>2 DEF Admit
<1>3. CASE ChargeProject(s, "weekly") /\ job'[s] = job[s]
  BY <1>3 DEF ChargeProject, CheckPassed
<1> QED
  BY <1>1, <1>2, <1>3, ReachesCharge

\* A counter moves by one, and only for a run that passed the check of that
\* period: the keys are captured once and used for both check and charge.
THEOREM ChargesFollowChecks == Spec => ChargedWhereChecked
<1>1. Init => CheckPassed
  BY DEF Init, CheckPassed
<1>2. TypeOK /\ CheckPassed /\ [Next]_vars
        => [\A p \in Projects, k \in PeriodKey : usage'[p][k] # usage[p][k] =>
              /\ usage'[p][k] = usage[p][k] + 1
              /\ \E s \in Slots : \E t \in PeriodType :
                   /\ pc[s] = t /\ pc'[s] # t
                   /\ job[s].project = p /\ job[s].key[t] = k
                   /\ IsSoft(job[s].config) \/ ~Breached(job[s], t)]_vars
  <2> SUFFICES ASSUME TypeOK, CheckPassed, [Next]_vars,
                      NEW p \in Projects, NEW k \in PeriodKey, usage'[p][k] # usage[p][k]
               PROVE  /\ usage'[p][k] = usage[p][k] + 1
                      /\ \E s \in Slots : \E t \in PeriodType :
                           /\ pc[s] = t /\ pc'[s] # t
                           /\ job[s].project = p /\ job[s].key[t] = k
                           /\ IsSoft(job[s].config) \/ ~Breached(job[s], t)
    OBVIOUS
  <2>1. PICK s \in Slots, t \in PeriodType : ChargeProject(s, t)
    BY DEF Next, HookStep, BeginCheck, BypassCheck, ReadConfig, ReadCounts, ReadDefaults,
           ReadTopups, Reject, Admit, ChargeWorkflow, Outage, AdminStep, ValidateTopup,
           ValidateDelete, WriteTopup, UpdateRateLimit, UpdateRateLimitDefaults, NextDay,
           vars, adminUnchanged, dbVars, counterVars, historyVars
  <2>2. /\ pc[s] = t /\ pc'[s] # t
        /\ usage' = [usage EXCEPT ![job[s].project][job[s].key[t]] = @ + 1]
    BY <2>1, PeriodTypes DEF ChargeProject, ChargedKey, TypeOK, SlotsTyped
  <2>3. /\ usage'[p][k] = usage[p][k] + 1
        /\ job[s].project = p /\ job[s].key[t] = k
    BY <2>2 DEF TypeOK
  <2>4. IsSoft(job[s].config) \/ ~Breached(job[s], t)
    BY <2>2, PeriodTypes DEF CheckPassed
  <2> QED
    BY <2>2, <2>3, <2>4
<1>3. Spec => []CheckPassed
  BY <1>1, CheckPassedStep, TypeCorrect, PTL DEF Spec
<1> QED
  BY <1>2, <1>3, TypeCorrect, PTL DEF Spec, ChargedWhereChecked

\* Every step keeps the charges made in agreement with the place.
LEMMA ChargesMadeStep == TypeOK /\ ChargesMade /\ [Next]_vars => ChargesMade'
<1> SUFFICES ASSUME TypeOK, ChargesMade, [Next]_vars, NEW s \in Slots
             PROVE  /\ pc'[s] \in Charging => CountsUsage(job'[s].proc)
                    /\ charged'[s] = IF pc'[s] \in {"yearly", "wfWeekly", "wfYearly"}
                                     THEN 1 ELSE 0
  BY DEF ChargesMade
<1> DEFINE Goal == /\ pc'[s] \in Charging => CountsUsage(job'[s].proc)
                   /\ charged'[s] = IF pc'[s] \in {"yearly", "wfWeekly", "wfYearly"}
                                    THEN 1 ELSE 0
<1> USE DEF dbVars, counterVars, historyVars
<1>0. /\ pc[s] \in Charging => CountsUsage(job[s].proc)
      /\ charged[s] = IF pc[s] \in {"yearly", "wfWeekly", "wfYearly"} THEN 1 ELSE 0
  BY DEF ChargesMade
<1>1. CASE pc'[s] = pc[s] /\ job'[s] = job[s] /\ charged'[s] = charged[s]
  BY <1>0, <1>1
<1>2. ASSUME NEW wf, NEW proc, LetPass(s, wf, proc),
             charged[s] = 0 \/ CountsUsage(proc)
      PROVE  Goal
  <2>1. CASE QueueMode /\ proc = "main"
    BY <1>2, <2>1 DEF LetPass, CountsUsage, Charging, TypeOK, SlotsTyped
  <2>2. CASE ~(QueueMode /\ proc = "main")
    BY <1>2, <2>2 DEF LetPass, Charging, TypeOK, SlotsTyped
  <2> QED
    BY <2>1, <2>2
<1>3. ASSUME NEW wf \in Workflows, NEW proc \in Procs,
             BeginCheck(s, wf, proc) \/ BypassCheck(s, wf, proc)
      PROVE  Goal
  <2>1. charged[s] = 0
    BY <1>0, <1>3 DEF BeginCheck, BypassCheck, Fires, Resting
  <2> QED
    BY <1>2, <1>3, <2>1 DEF BeginCheck, BypassCheck, Charging, TypeOK, SlotsTyped
<1>4. ASSUME \/ ReadConfig(s) \/ ReadCounts(s) \/ ReadDefaults(s) \/ Reject(s)
             \/ \E t \in PeriodType : ReadTopups(s, t)
      PROVE  Goal
  BY <1>0, <1>4
  DEF ReadConfig, ReadCounts, ReadDefaults, ReadTopups, AfterBase, Reject, Charging,
      TypeOK, SlotsTyped
<1>5. ASSUME Admit(s)
      PROVE  Goal
  <2>1. charged[s] = 0
    BY <1>0, <1>5 DEF Admit
  <2> QED
    BY <1>2, <1>5, <2>1 DEF Admit, Charging, TypeOK, SlotsTyped
<1>6. ASSUME NEW t \in PeriodType, ChargeProject(s, t)
      PROVE  Goal
  BY <1>0, <1>6, PeriodTypes DEF ChargeProject, Charging, TypeOK, SlotsTyped
<1>7. ASSUME NEW t \in PeriodType, ChargeWorkflow(s, t)
      PROVE  Goal
  <2>1. CountsUsage(job[s].proc)
    BY <1>0, <1>7, PeriodTypes DEF ChargeWorkflow, Charging
  <2> QED
    BY <1>0, <1>2, <1>7, <2>1 DEF ChargeWorkflow, Charging, TypeOK, SlotsTyped
<1>8. ASSUME Outage(s)
      PROVE  Goal
  <2>1. charged[s] = 0 \/ CountsUsage(job[s].proc)
    BY <1>0, <1>8 DEF Charging
  <2> QED
    BY <1>2, <1>8, <2>1 DEF Outage
<1>9. ASSUME NEW r \in Slots, HookStep(r), r # s
      PROVE  Goal
  BY <1>1, <1>9, OnlyOneSlotMoves
<1>10. CASE AdminStep \/ NextDay \/ UNCHANGED vars
  BY <1>1, <1>10, OtherSteps
<1> QED
  BY <1>3, <1>4, <1>5, <1>6, <1>7, <1>8, <1>9, <1>10 DEF Next, HookStep

\* Though main and a worker both run the hook for a queued execution, it is
\* charged once, by the process isWorkerProcess names.
THEOREM ChargedOnce == Spec => []ChargedAtMostOnce
<1>1. Init => ChargesMade
  BY DEF Init, ChargesMade, Charging
<1>2. TypeOK /\ ChargesMade => ChargedAtMostOnce
  BY DEF TypeOK, ChargesMade, ChargedAtMostOnce, Charging
<1> QED
  BY <1>1, <1>2, ChargesMadeStep, TypeCorrect, PTL DEF Spec

\* enrichProjectsWithRateLimits and enforceExecution resolve the limits of a
\* project in separate code; they agree on every configuration and defaults.
THEOREM DisplayAgrees == Spec => []DisplayedAsEnforced
<1>1. TypeOK => DisplayedAsEnforced
  <2> SUFFICES ASSUME TypeOK, NEW p \in Projects
               PROVE  LET own == OwnLimits(config[p])
                          d == defaults[KindOf[p]]
                      IN  DisplayedBase(config[p], d)
                            = IF NeedsDefaults(own) THEN WithDefaults(own, d) ELSE own
    BY DEF DisplayedAsEnforced, ConfiguredBase, DisplayedSoft, IsSoft
  <2>1. config[p] \in Config /\ defaults[KindOf[p]] \in ScopeDefaults
    BY SharingAssumption DEF TypeOK
  <2>2. OwnLimits(config[p]) \in ScopeDefaults
    BY <2>1, PolicyTypes
  <2>3. CASE config[p].usesDefaults
    BY <2>1, <2>3
    DEF DisplayedBase, OwnLimits, NoDefaults, NeedsDefaults, WithDefaults, Coalesce,
        ScopeDefaults, PeriodType
  <2>4. CASE ~config[p].usesDefaults
    BY <2>1, <2>2, <2>4
    DEF DisplayedBase, OwnLimits, NeedsDefaults, WithDefaults, Coalesce, ScopeDefaults
  <2> QED
    BY <2>3, <2>4
<1> QED
  BY <1>1, TypeCorrect, PTL

----------------------------------------------------------------------------
(* Sums over finite sets                                                   *)
(*                                                                         *)
(* The community module's fold is a recursive function over the subsets of *)
(* what is summed: the workflows, or the top-ups of a project.  The        *)
(* library's induction theorems take an operator, so that the function     *)
(* exists, and what it adds up to, goes by a least set or number where it  *)
(* would fail.                                                             *)

First(us) == CHOOSE u \in us : TRUE

Adds(f, S, g) ==
  g = [us \in SUBSET S |-> IF us = {} THEN 0 ELSE f[First(us)] + g[us \ {First(us)}]]

Total(f, S) == (CHOOSE g : Adds(f, S, g))[S]

\* One summand is by n more.
Grows(f, grown, S, u0, n) == \A u \in S : grown[u] = f[u] + (IF u = u0 THEN n ELSE 0)

\* Of a nonempty collection of subsets of a finite set, one contains no other one.
LEMMA SmallestSet ==
  ASSUME NEW S, IsFiniteSet(S), NEW C \in SUBSET SUBSET S, C # {}
  PROVE  \E us \in C : \A vs \in C : vs \subseteq us => vs = us
<1>1. IsWellFoundedOn(StrictSubsetOrdering(S), FiniteSubsetsOf(S))
  BY FS_StrictSubsetOrderingWellFounded
<1>2. C \in SUBSET FiniteSubsetsOf(S)
  BY FS_Subset DEF FiniteSubsetsOf
<1>3. PICK us \in C : \A vs \in C : <<vs, us>> \notin StrictSubsetOrdering(S)
  BY <1>1, <1>2, WFMin
<1> QED BY <1>3 DEF StrictSubsetOrdering

\* A set without its first element.
LEMMA FirstOut ==
  ASSUME NEW S, IsFiniteSet(S), NEW us \in SUBSET S, us # {}
  PROVE  /\ First(us) \in us /\ First(us) \in S
         /\ us \ {First(us)} \in SUBSET S /\ us \ {First(us)} # us
         /\ IsFiniteSet(us) /\ Cardinality(us) \in Nat \ {0}
         /\ Cardinality(us \ {First(us)}) = Cardinality(us) - 1
<1>1. First(us) \in us
  BY DEF First
<1>2. IsFiniteSet(us)
  BY FS_Subset
<1> HIDE DEF First
<1>3. Cardinality(us) \in Nat /\ Cardinality(us) # 0
  BY <1>2, FS_CardinalityType, FS_EmptySet
<1>4. Cardinality(us \ {First(us)}) = Cardinality(us) - 1
  BY <1>1, <1>2, FS_RemoveElement
<1> QED BY <1>1, <1>2, <1>3, <1>4

\* The recursive function exists.
LEMMA AddsExists ==
  ASSUME NEW S, IsFiniteSet(S), NEW f \in [S -> Nat]
  PROVE  \E g : Adds(f, S, g)
<1> DEFINE Step(g, us) == IF us = {} THEN 0 ELSE f[First(us)] + g[us \ {First(us)}]
           Upto(n) == \E g \in [SUBSET S -> Nat] :
                        \A us \in SUBSET S : Cardinality(us) <= n => g[us] = Step(g, us)
           Short == { n \in Nat : ~Upto(n) }
<1>1. Upto(0)
  <2> DEFINE zero == [us \in SUBSET S |-> 0]
  <2>1. ASSUME NEW us \in SUBSET S, Cardinality(us) <= 0
        PROVE  zero[us] = Step(zero, us)
    <3>1. us # {} => Cardinality(us) \in Nat \ {0}
      BY FirstOut
    <3>2. us = {}
      BY <2>1, <3>1
    <3> QED BY <3>2
  <2>2. zero \in [SUBSET S -> Nat]
    OBVIOUS
  <2> HIDE DEF zero
  <2> QED BY <2>1, <2>2
<1>2. ASSUME NEW n \in Nat, Upto(n)
      PROVE  Upto(n + 1)
  <2>1. PICK g \in [SUBSET S -> Nat] :
          \A us \in SUBSET S : Cardinality(us) <= n => g[us] = Step(g, us)
    BY <1>2
  <2> DEFINE h == [us \in SUBSET S |-> IF Cardinality(us) <= n THEN g[us] ELSE Step(g, us)]
  <2>2. ASSUME NEW us \in SUBSET S PROVE Step(g, us) \in Nat
    <3>1. CASE us = {}
      BY <3>1
    <3>2. CASE us # {}
      <4>1. First(us) \in S /\ us \ {First(us)} \in SUBSET S
        BY <3>2, FirstOut
      <4>2. f[First(us)] \in Nat /\ g[us \ {First(us)}] \in Nat
        BY <4>1
      <4> QED BY <3>2, <4>2
    <3> QED BY <3>1, <3>2
  <2>3. h \in [SUBSET S -> Nat]
    BY <2>2
  <2>4. ASSUME NEW us \in SUBSET S, Cardinality(us) <= n + 1
        PROVE  h[us] = Step(h, us)
    <3>1. h[us] = Step(g, us)
      BY <2>1
    <3>2. CASE us = {}
      BY <3>1, <3>2
    <3>3. CASE us # {}
      <4>1. Cardinality(us \ {First(us)}) <= n /\ us \ {First(us)} \in SUBSET S
        BY <2>4, <3>3, FirstOut
      <4>2. h[us \ {First(us)}] = g[us \ {First(us)}]
        BY <4>1
      <4> QED BY <3>1, <3>3, <4>2
    <3> QED BY <3>2, <3>3
  <2> HIDE DEF h
  <2> QED BY <2>3, <2>4
<1>3. \A n \in Nat : Upto(n)
  <2> SUFFICES ASSUME Short # {} PROVE FALSE
    OBVIOUS
  <2> HIDE DEF Upto
  <2>1. PICK n \in Short : \A m \in Short : <<m, n>> \notin OpToRel(<, Nat)
    BY NatLessThanWellFounded, WFMin
  <2>2. n \in Nat /\ n # 0 /\ ~Upto(n)
    BY <1>1, <2>1
  <2>3. n - 1 \in Nat /\ n - 1 < n
    BY <2>2
  <2>4. <<n - 1, n>> \in OpToRel(<, Nat)
    BY <2>2, <2>3 DEF OpToRel
  <2>5. n - 1 \notin Short
    BY <2>1, <2>4
  <2>6. Upto(n - 1 + 1)
    BY <1>2, <2>3, <2>5
  <2>7. n - 1 + 1 = n
    BY <2>2
  <2> QED BY <2>2, <2>6, <2>7
<1>4. Cardinality(S) \in Nat
  BY FS_CardinalityType
<1>5. PICK g \in [SUBSET S -> Nat] :
        \A us \in SUBSET S : Cardinality(us) <= Cardinality(S) => g[us] = Step(g, us)
  BY <1>3, <1>4
<1>6. \A us \in SUBSET S : Cardinality(us) <= Cardinality(S)
  BY FS_Subset
<1>7. \A us \in SUBSET S : g[us] = Step(g, us)
  BY <1>5, <1>6
<1> QED BY <1>7 DEF Adds

\* What the function adds up to is a natural number, and by n more where one
\* summand is.
LEMMA AddsUp ==
  ASSUME NEW S, IsFiniteSet(S), NEW f \in [S -> Nat], NEW grown \in [S -> Nat],
         NEW u0, NEW n \in Nat, Grows(f, grown, S, u0, n),
         NEW g, Adds(f, S, g), NEW h, Adds(grown, S, h), NEW us \in SUBSET S
  PROVE  g[us] \in Nat /\ h[us] = g[us] + (IF u0 \in us THEN n ELSE 0)
<1> DEFINE Right(vs) == g[vs] \in Nat /\ h[vs] = g[vs] + (IF u0 \in vs THEN n ELSE 0)
           Wrong == { vs \in SUBSET S : ~Right(vs) }
<1>0. /\ \A vs \in SUBSET S :
           g[vs] = IF vs = {} THEN 0 ELSE f[First(vs)] + g[vs \ {First(vs)}]
      /\ \A vs \in SUBSET S :
           h[vs] = IF vs = {} THEN 0 ELSE grown[First(vs)] + h[vs \ {First(vs)}]
  BY DEF Adds
<1>1. SUFFICES ASSUME Wrong # {} PROVE FALSE
  OBVIOUS
<1>2. PICK vs \in Wrong : \A ws \in Wrong : ws \subseteq vs => ws = vs
  <2>1. Wrong \in SUBSET SUBSET S
    OBVIOUS
  <2> HIDE DEF Wrong
  <2> QED BY <1>1, <2>1, SmallestSet
<1>3. vs # {}
  <2>1. CASE vs = {}
    <3>1. g[vs] = 0 /\ h[vs] = 0 /\ u0 \notin vs
      BY <1>0, <1>2, <2>1
    <3>2. Right(vs)
      BY <3>1
    <3> QED BY <1>2, <3>2
  <2> QED BY <2>1
<1> DEFINE x == First(vs)
           rest == vs \ {x}
<1>4. x \in vs /\ x \in S /\ rest \in SUBSET S /\ rest # vs
  BY <1>2, <1>3, FirstOut
<1>5. Right(rest)
  BY <1>2, <1>4
<1>6. /\ f[x] \in Nat /\ grown[x] = f[x] + (IF x = u0 THEN n ELSE 0)
      /\ u0 \in vs <=> (x = u0 \/ u0 \in rest)
  BY <1>4 DEF Grows
<1>7. g[vs] = f[x] + g[rest] /\ h[vs] = grown[x] + h[rest]
  BY <1>0, <1>2, <1>3
<1> HIDE DEF x, rest
<1>8. x \notin rest
  BY DEF rest
<1>9. Right(vs)
  BY <1>5, <1>6, <1>7, <1>8
<1> QED BY <1>2, <1>9

\* The sum is a natural number; it grows as one summand does.
LEMMA TotalGrows ==
  ASSUME NEW S, IsFiniteSet(S), NEW f \in [S -> Nat], NEW grown \in [S -> Nat],
         NEW u0, NEW n \in Nat, Grows(f, grown, S, u0, n)
  PROVE  /\ Total(f, S) \in Nat
         /\ Total(grown, S) = Total(f, S) + (IF u0 \in S THEN n ELSE 0)
<1>1. PICK g : g = (CHOOSE a : Adds(f, S, a)) /\ Adds(f, S, g)
  BY AddsExists
<1>2. PICK h : h = (CHOOSE a : Adds(grown, S, a)) /\ Adds(grown, S, h)
  BY AddsExists
<1>3. Total(f, S) = g[S] /\ Total(grown, S) = h[S]
  BY <1>1, <1>2 DEF Total
<1>4. S \in SUBSET S
  OBVIOUS
<1>5. g[S] \in Nat /\ h[S] = g[S] + (IF u0 \in S THEN n ELSE 0)
  BY <1>1, <1>2, <1>4, AddsUp
<1> QED BY <1>3, <1>5

\* A sum of natural numbers is one.
LEMMA TotalType ==
  ASSUME NEW S, IsFiniteSet(S), NEW f \in [S -> Nat]
  PROVE  Total(f, S) \in Nat
<1>1. Grows(f, f, S, 0, 0)
  BY DEF Grows
<1> QED BY <1>1, TotalGrows

\* A sum of zeros is zero.
LEMMA TotalZero ==
  ASSUME NEW S, IsFiniteSet(S), NEW f \in [S -> Nat], \A u \in S : f[u] = 0
  PROVE  Total(f, S) = 0
<1>1. PICK g : g = (CHOOSE a : Adds(f, S, a)) /\ Adds(f, S, g)
  BY AddsExists
<1>2. \A vs \in SUBSET S :
        g[vs] = IF vs = {} THEN 0 ELSE f[First(vs)] + g[vs \ {First(vs)}]
  BY <1>1 DEF Adds
<1> DEFINE Wrong == { vs \in SUBSET S : g[vs] # 0 }
<1>3. Wrong = {}
  <2> SUFFICES ASSUME Wrong # {} PROVE FALSE
    OBVIOUS
  <2>1. PICK vs \in Wrong : \A ws \in Wrong : ws \subseteq vs => ws = vs
    <3>1. Wrong \in SUBSET SUBSET S
      OBVIOUS
    <3> HIDE DEF Wrong
    <3> QED BY <3>1, SmallestSet
  <2>2. vs # {}
    BY <1>2, <2>1
  <2>3. PICK x, rest : x = First(vs) /\ rest = vs \ {First(vs)}
    OBVIOUS
  <2>4. x \in S /\ rest \in SUBSET S /\ rest # vs /\ rest \subseteq vs
    BY <2>1, <2>2, <2>3, FirstOut
  <2>5. g[rest] = 0 /\ f[x] = 0
    BY <2>1, <2>4
  <2>6. g[vs] = f[x] + g[rest]
    BY <1>2, <2>1, <2>2, <2>3
  <2>7. g[vs] = 0
    BY <2>5, <2>6
  <2> QED BY <2>1, <2>7
<1> QED BY <1>1, <1>3 DEF Total

\* What the workflows of a project were charged for one key.
Ledger == [Workflows -> [PeriodKey -> Nat]]
Column(ledger, k) == [w \in Workflows |-> ledger[w][k]]
LedgerTotal(ledger, k) == Total(Column(ledger, k), Workflows)

\* The fold in LedgerBalances is their total.
LEMMA LedgerIsTotal ==
  ASSUME NEW ledger, NEW k
  PROVE  MapThenSumSet(LAMBDA w : ledger[w][k], Workflows) = LedgerTotal(ledger, k)
<1> DEFINE Step(g) == [us \in SUBSET Workflows |->
                         IF us = {} THEN 0 ELSE ledger[First(us)][k] + g[us \ {First(us)}]]
<1>1. MapThenSumSet(LAMBDA w : ledger[w][k], Workflows) = (CHOOSE g : g = Step(g))[Workflows]
  BY DEF MapThenSumSet, MapThenFoldSet, First
<1>2. ASSUME NEW g PROVE Adds(Column(ledger, k), Workflows, g) <=> g = Step(g)
  <2>1. \A us \in SUBSET Workflows :
          us # {} => Column(ledger, k)[First(us)] = ledger[First(us)][k]
    BY DEF First, Column
  <2> QED BY <2>1 DEF Adds
<1> HIDE DEF Step
<1>3. (CHOOSE g : g = Step(g)) = (CHOOSE g : Adds(Column(ledger, k), Workflows, g))
  BY <1>2, Zenon
<1> QED BY <1>1, <1>3 DEF LedgerTotal, Total

\* It is a natural number, and grows as one workflow's counter does.
LEMMA LedgerGrows ==
  ASSUME NEW ledger \in Ledger, NEW grown \in Ledger, NEW k \in PeriodKey, NEW w0, NEW n \in Nat,
         \A w \in Workflows : grown[w][k] = ledger[w][k] + (IF w = w0 THEN n ELSE 0)
  PROVE  /\ LedgerTotal(ledger, k) \in Nat
         /\ LedgerTotal(grown, k) = LedgerTotal(ledger, k) + (IF w0 \in Workflows THEN n ELSE 0)
<1>1. PICK f, h : f = Column(ledger, k) /\ h = Column(grown, k)
  OBVIOUS
<1>2. f \in [Workflows -> Nat] /\ h \in [Workflows -> Nat]
  BY <1>1 DEF Ledger, Column
<1>3. Grows(f, h, Workflows, w0, n)
  BY <1>1 DEF Column, Grows
<1>4. /\ Total(f, Workflows) \in Nat
      /\ Total(h, Workflows) = Total(f, Workflows) + (IF w0 \in Workflows THEN n ELSE 0)
  BY <1>2, <1>3, SharingAssumption, TotalGrows
<1> QED BY <1>1, <1>4 DEF LedgerTotal

\* Without a charge it is zero.
LEMMA LedgerZero ==
  ASSUME NEW ledger \in Ledger, NEW k \in PeriodKey, \A w \in Workflows : ledger[w][k] = 0
  PROVE  LedgerTotal(ledger, k) = 0
<1>1. Column(ledger, k) \in [Workflows -> Nat] /\ \A w \in Workflows : Column(ledger, k)[w] = 0
  BY DEF Ledger, Column
<1> QED BY <1>1, SharingAssumption, TotalZero DEF LedgerTotal

----------------------------------------------------------------------------
(* The ledger                                                              *)
(*                                                                         *)
(* LedgerBalances is inductive account by account: a step changes the      *)
(* place of one slot, and what it adds to the project's counter, to one    *)
(* workflow's, or to what is torn, it takes from that slot's debt.         *)

One(b) == IF b THEN 1 ELSE 0

\* An execution between the project's charge of key k and its workflow's.
Owing(s, p, k) == pc[s] \in Charging /\ job[s].project = p /\ k \in OwedKeys(s)

Between(p, k) == { s \in Slots : Owing(s, p, k) }

Balanced(p, k) ==
  usage[p][k] = LedgerTotal(wfUsage[p], k) + Cardinality(Between(p, k)) + torn[p][k]

AllBalanced == \A p \in Projects, k \in PeriodKey : Balanced(p, k)

\* What a step of one slot must do for an account to stay balanced.
LEMMA AccountKept ==
  ASSUME TypeOK, TypeOK', NEW p \in Projects, NEW k \in PeriodKey, Balanced(p, k),
         NEW s \in Slots, NEW w0 \in Workflows,
         NEW u \in {0, 1}, NEW n \in {0, 1}, NEW lost \in {0, 1},
         \A r \in Slots : r # s => (Owing(r, p, k)' <=> Owing(r, p, k)),
         usage'[p][k] = usage[p][k] + u, torn'[p][k] = torn[p][k] + lost,
         \A w \in Workflows :
           wfUsage'[p][w][k] = wfUsage[p][w][k] + (IF w = w0 THEN n ELSE 0),
         u + One(Owing(s, p, k)) = n + lost + One(Owing(s, p, k)')
  PROVE  Balanced(p, k)'
<1> DEFINE before == Between(p, k)
           after == Between(p, k)'
           rest == before \ {s}
<1>1. before \subseteq Slots /\ after \subseteq Slots /\ rest \subseteq Slots
  BY DEF Between
<1>2. /\ s \in before <=> Owing(s, p, k)
      /\ s \in after <=> Owing(s, p, k)'
      /\ after \ {s} = rest
  BY DEF Between
<1> HIDE DEF before, after
<1>3. /\ IsFiniteSet(before) /\ IsFiniteSet(after)
      /\ Cardinality(before) \in Nat /\ Cardinality(after) \in Nat
      /\ Cardinality(rest) \in Nat
  BY <1>1, SlotsFinite
<1>a. PICK i \in {0, 1} : i = One(Owing(s, p, k)) /\ (s \in before <=> i = 1)
  BY <1>2 DEF One
<1>b. PICK j \in {0, 1} : j = One(Owing(s, p, k)') /\ (s \in after <=> j = 1)
  BY <1>2 DEF One
<1>4. Cardinality(before) = Cardinality(rest) + i
  <2>1. CASE s \in before
    <3>1. Cardinality(rest) = Cardinality(before) - 1
      BY <1>3, <2>1, FS_RemoveElement
    <3>2. i = 1
      BY <1>a, <2>1
    <3> QED BY <1>3, <3>1, <3>2
  <2>2. CASE s \notin before
    <3>1. rest = before /\ i = 0
      BY <1>a, <2>2
    <3> HIDE DEF rest
    <3> QED BY <1>3, <3>1
  <2> QED BY <2>1, <2>2
<1>5. Cardinality(after) = Cardinality(rest) + j
  <2> DEFINE left == after \ {s}
  <2>0. left = rest
    BY <1>2
  <2>1. Cardinality(left) = Cardinality(rest)
    BY <2>0
  <2>2. CASE s \in after
    <3>1. Cardinality(left) = Cardinality(after) - 1
      BY <1>3, <2>2, FS_RemoveElement
    <3>2. j = 1
      BY <1>b, <2>2
    <3> QED BY <1>3, <2>1, <3>1, <3>2
  <2>3. CASE s \notin after
    <3>1. left = after /\ j = 0
      BY <1>b, <2>3
    <3> HIDE DEF left, rest
    <3> QED BY <1>3, <2>1, <3>1
  <2> QED BY <2>2, <2>3
<1>6. /\ LedgerTotal(wfUsage[p], k) \in Nat
      /\ LedgerTotal(wfUsage'[p], k) = LedgerTotal(wfUsage[p], k) + n
  <2>1. wfUsage[p] \in Ledger /\ wfUsage'[p] \in Ledger
    BY DEF TypeOK, Ledger
  <2>2. PICK ledger \in Ledger, grown \in Ledger : ledger = wfUsage[p] /\ grown = wfUsage'[p]
    BY <2>1
  <2>3. /\ n \in Nat
        /\ \A w \in Workflows : grown[w][k] = ledger[w][k] + (IF w = w0 THEN n ELSE 0)
    BY <2>2
  <2>4. /\ LedgerTotal(ledger, k) \in Nat
        /\ LedgerTotal(grown, k) = LedgerTotal(ledger, k) + (IF w0 \in Workflows THEN n ELSE 0)
    BY <2>3, LedgerGrows
  <2> QED BY <2>2, <2>4
<1>7. usage[p][k] \in Nat /\ torn[p][k] \in Nat
  BY DEF TypeOK
<1>8. usage[p][k] = LedgerTotal(wfUsage[p], k) + Cardinality(before) + torn[p][k]
  BY DEF Balanced, before
<1>9. u + i = n + lost + j
  BY <1>a, <1>b
<1>10. usage'[p][k] = LedgerTotal(wfUsage'[p], k) + Cardinality(after) + torn'[p][k]
  BY <1>3, <1>4, <1>5, <1>6, <1>7, <1>8, <1>9
<1> QED BY <1>10 DEF Balanced, after

\* Initially nothing is charged and no execution is in the hook.
LEMMA LedgerInit == Init => AllBalanced
<1> SUFFICES ASSUME Init, NEW p \in Projects, NEW k \in PeriodKey
             PROVE  Balanced(p, k)
  BY DEF AllBalanced
<1>1. Between(p, k) = {}
  BY DEF Between, Owing, Init, Charging
<1>2. wfUsage[p] \in Ledger /\ \A w \in Workflows : wfUsage[p][w][k] = 0
  BY DEF Init, Ledger
<1>3. LedgerTotal(wfUsage[p], k) = 0
  BY <1>2, LedgerZero
<1>4. usage[p][k] = 0 /\ torn[p][k] = 0
  BY DEF Init
<1> QED BY <1>1, <1>3, <1>4, FS_EmptySet DEF Balanced

\* The two keys of a check are different, and both are keys.
LEMMA KeysOfJob ==
  ASSUME TypeOK, NEW s \in Slots, pc[s] \in Querying \cup {"decide"}
  PROVE  /\ job[s].project \in Projects /\ job[s].workflow \in Workflows
         /\ job[s].key["weekly"] \in PeriodKey /\ job[s].key["yearly"] \in PeriodKey
         /\ job[s].key["weekly"] # job[s].key["yearly"]
BY JobOfCheck, Calendar, PeriodTypes DEF RunJob, PeriodKeys, PeriodKey

\* A charging slot's keys, place by place.
LEMMA OwedAt ==
  ASSUME NEW s
  PROVE  /\ pc[s] = "yearly" => OwedKeys(s) = {job[s].key["weekly"]}
         /\ pc[s] = "wfWeekly" => OwedKeys(s) = {job[s].key["weekly"], job[s].key["yearly"]}
         /\ pc[s] = "wfYearly" => OwedKeys(s) = {job[s].key["yearly"]}
         /\ pc[s] \notin {"yearly", "wfWeekly", "wfYearly"} => OwedKeys(s) = {}
<1>1. { job[s].key[t] : t \in PeriodType } = {job[s].key["weekly"], job[s].key["yearly"]}
  BY PeriodTypes
<1> QED BY <1>1 DEF OwedKeys

\* A step that owes nothing before or after and counts nothing.
LEMMA QuietLedger ==
  ASSUME TypeOK, TypeOK', AllBalanced, UNCHANGED <<usage, wfUsage, torn>>,
         \A r \in Slots, p \in Projects, k \in PeriodKey :
           Owing(r, p, k)' <=> Owing(r, p, k)
  PROVE  AllBalanced'
<1> SUFFICES ASSUME NEW p \in Projects, NEW k \in PeriodKey
             PROVE  Balanced(p, k)'
  BY DEF AllBalanced
<1>1. Between(p, k)' = Between(p, k)
  BY DEF Between
<1>2. usage'[p][k] = LedgerTotal(wfUsage'[p], k) + Cardinality(Between(p, k)') + torn'[p][k]
  BY <1>1 DEF AllBalanced, Balanced
<1> QED BY <1>2 DEF Balanced

\* The project's charge: the key joins those owed to the workflow.
LEMMA ProjectCharged ==
  ASSUME TypeOK, TypeOK', AllBalanced, NEW s \in Slots, NEW t \in PeriodType,
         ChargeProject(s, t)
  PROVE  AllBalanced'
<1> DEFINE project == job[s].project
           key == job[s].key[t]
<1>1. /\ job' = job /\ pc[s] = t /\ UNCHANGED <<wfUsage, torn>>
      /\ pc'[s] = (IF t = "weekly" THEN "yearly" ELSE "wfWeekly")
      /\ \A r \in Slots : r # s => pc'[r] = pc[r]
      /\ usage' = [usage EXCEPT ![project][key] = @ + 1]
  BY DEF ChargeProject, ChargedKey, TypeOK, SlotsTyped, historyVars
<1>2. /\ project \in Projects /\ job[s].workflow \in Workflows
      /\ key \in PeriodKey /\ job[s].key["weekly"] # job[s].key["yearly"]
  BY <1>1, KeysOfJob, PeriodTypes DEF Querying, Charging
<1>3. OwedKeys(s)' = OwedKeys(s) \cup {key} /\ key \notin OwedKeys(s)
  BY <1>1, <1>2, OwedAt, PeriodTypes DEF OwedKeys
<1>4. pc[s] \in Charging /\ pc'[s] \in Charging
  BY <1>1, PeriodTypes DEF Charging
<1> SUFFICES ASSUME NEW p \in Projects, NEW k \in PeriodKey
             PROVE  Balanced(p, k)'
  BY DEF AllBalanced
<1>5. \A r \in Slots : r # s => (Owing(r, p, k)' <=> Owing(r, p, k))
  BY <1>1 DEF Owing, OwedKeys
<1>6. /\ Owing(s, p, k) <=> project = p /\ k \in OwedKeys(s)
      /\ Owing(s, p, k)' <=> project = p /\ k \in OwedKeys(s)'
  BY <1>1, <1>4 DEF Owing
<1> DEFINE u == One(p = project /\ k = key)
<1>7. u \in {0, 1}
  BY DEF One
<1>8. usage'[p][k] = usage[p][k] + u
  BY <1>1, <1>2 DEF TypeOK, One
<1>9. u + One(Owing(s, p, k)) = 0 + 0 + One(Owing(s, p, k)')
  BY <1>3, <1>6 DEF One
<1>10. torn'[p][k] = torn[p][k] + 0
  BY <1>1 DEF TypeOK
<1>11. \A w \in Workflows :
         wfUsage'[p][w][k] = wfUsage[p][w][k] + (IF w = job[s].workflow THEN 0 ELSE 0)
  BY <1>1 DEF TypeOK
<1> HIDE DEF u
<1>12. Balanced(p, k)
  BY DEF AllBalanced
<1> QED BY <1>2, <1>5, <1>7, <1>8, <1>9, <1>10, <1>11, <1>12, AccountKept

\* What letting an execution pass does to its slot.
LEMMA PassedOn ==
  ASSUME TypeOK, NEW s \in Slots, NEW wf, NEW proc, LetPass(s, wf, proc)
  PROVE  /\ pc'[s] \in {"idle", "queued"}
         /\ \A r \in Slots : r # s => pc'[r] = pc[r] /\ job'[r] = job[r]
BY DEF LetPass, TypeOK, SlotsTyped

\* The workflow's charge: the key leaves those owed.
LEMMA WorkflowCharged ==
  ASSUME TypeOK, TypeOK', AllBalanced, NEW s \in Slots, NEW t \in PeriodType,
         ChargeWorkflow(s, t)
  PROVE  AllBalanced'
<1> DEFINE project == job[s].project
           workflow == job[s].workflow
           key == job[s].key[t]
<1>1. /\ pc[s] = (IF t = "weekly" THEN "wfWeekly" ELSE "wfYearly")
      /\ UNCHANGED <<usage, torn>>
      /\ wfUsage' = [wfUsage EXCEPT ![project][workflow][key] = @ + 1]
  BY DEF ChargeWorkflow, ChargedKey
<1>2. /\ project \in Projects /\ workflow \in Workflows
      /\ key \in PeriodKey /\ job[s].key["weekly"] # job[s].key["yearly"]
  BY <1>1, KeysOfJob, PeriodTypes DEF Querying, Charging
<1>3. \A r \in Slots : r # s => pc'[r] = pc[r] /\ job'[r] = job[r]
  BY PassedOn DEF ChargeWorkflow, TypeOK, SlotsTyped
<1> SUFFICES ASSUME NEW p \in Projects, NEW k \in PeriodKey
             PROVE  Balanced(p, k)'
  BY DEF AllBalanced
<1>5. \A r \in Slots : r # s => (Owing(r, p, k)' <=> Owing(r, p, k))
  BY <1>3 DEF Owing, OwedKeys
<1>6. /\ Owing(s, p, k) <=> project = p /\ k \in OwedKeys(s)
      /\ key \in OwedKeys(s)
  BY <1>1, OwedAt, PeriodTypes DEF Owing, Charging
<1>7. Owing(s, p, k)' <=> project = p /\ k \in OwedKeys(s) \ {key}
  <2>1. CASE t = "weekly"
    <3>1. pc'[s] = "wfYearly" /\ job' = job
      BY <2>1 DEF ChargeWorkflow, TypeOK, SlotsTyped
    <3>2. OwedKeys(s)' = {job[s].key["yearly"]}
      BY <3>1 DEF OwedKeys
    <3>3. OwedKeys(s) \ {key} = {job[s].key["yearly"]}
      BY <1>1, <1>2, <2>1, OwedAt
    <3> QED BY <3>1, <3>2, <3>3 DEF Owing, Charging
  <2>2. CASE t # "weekly"
    <3>1. pc'[s] \in {"idle", "queued"}
      BY <2>2, PassedOn DEF ChargeWorkflow
    <3>2. OwedKeys(s) \ {key} = {}
      BY <1>1, <2>2, OwedAt, PeriodTypes
    <3> QED BY <3>1, <3>2 DEF Owing, Charging
  <2> QED BY <2>1, <2>2
<1> DEFINE n == One(p = project /\ k = key)
<1>8. n \in {0, 1}
  BY DEF One
<1>9. 0 + One(Owing(s, p, k)) = n + 0 + One(Owing(s, p, k)')
  BY <1>6, <1>7 DEF One
<1>10. usage'[p][k] = usage[p][k] + 0 /\ torn'[p][k] = torn[p][k] + 0
  BY <1>1 DEF TypeOK
<1>11. \A w \in Workflows :
         wfUsage'[p][w][k] = wfUsage[p][w][k] + (IF w = workflow THEN n ELSE 0)
  BY <1>1, <1>2 DEF TypeOK, One
<1> HIDE DEF n
<1>12. Balanced(p, k)
  BY DEF AllBalanced
<1> QED BY <1>2, <1>5, <1>8, <1>9, <1>10, <1>11, <1>12, AccountKept

\* A failed query: what was owed is written off as torn.
LEMMA OutageTears ==
  ASSUME TypeOK, TypeOK', AllBalanced, NEW s \in Slots, Outage(s)
  PROVE  AllBalanced'
<1> DEFINE project == job[s].project
<1>1. /\ pc[s] \in Querying /\ UNCHANGED <<usage, wfUsage>>
      /\ torn' = [torn EXCEPT ![project] =
                    [k \in PeriodKey |-> IF k \in OwedKeys(s) THEN @[k] + 1 ELSE @[k]]]
      /\ LetPass(s, job[s].workflow, job[s].proc)
  BY DEF Outage, counterVars
<1>2. project \in Projects /\ job[s].workflow \in Workflows
  BY <1>1, KeysOfJob
<1>3. /\ \A r \in Slots : r # s => pc'[r] = pc[r] /\ job'[r] = job[r]
      /\ pc'[s] \in {"idle", "queued"}
  BY <1>1, PassedOn
<1> SUFFICES ASSUME NEW p \in Projects, NEW k \in PeriodKey
             PROVE  Balanced(p, k)'
  BY DEF AllBalanced
<1>5. \A r \in Slots : r # s => (Owing(r, p, k)' <=> Owing(r, p, k))
  BY <1>3 DEF Owing, OwedKeys
<1>6. /\ Owing(s, p, k) <=> project = p /\ k \in OwedKeys(s)
      /\ ~Owing(s, p, k)'
  <2>1. ~Owing(s, p, k)'
    BY <1>3 DEF Owing, Charging
  <2>2. k \in OwedKeys(s) => pc[s] \in Charging
    BY OwedAt DEF Charging
  <2> QED BY <2>1, <2>2 DEF Owing
<1> DEFINE lost == One(p = project /\ k \in OwedKeys(s))
<1>8. lost \in {0, 1}
  BY DEF One
<1>9. 0 + One(Owing(s, p, k)) = 0 + lost + One(Owing(s, p, k)')
  BY <1>6 DEF One
<1>10. usage'[p][k] = usage[p][k] + 0 /\ torn'[p][k] = torn[p][k] + lost
  BY <1>1, <1>2 DEF TypeOK, One
<1>11. \A w \in Workflows :
         wfUsage'[p][w][k] = wfUsage[p][w][k] + (IF w = job[s].workflow THEN 0 ELSE 0)
  BY <1>1 DEF TypeOK
<1> HIDE DEF lost
<1>12. Balanced(p, k)
  BY DEF AllBalanced
<1> QED BY <1>2, <1>5, <1>8, <1>9, <1>10, <1>11, <1>12, AccountKept

\* Every step keeps every account balanced.
LEMMA LedgerStep == TypeOK /\ TypeOK' /\ AllBalanced /\ [Next]_vars => AllBalanced'
<1> SUFFICES ASSUME TypeOK, TypeOK', AllBalanced, [Next]_vars PROVE AllBalanced'
  OBVIOUS
<1> USE DEF dbVars, counterVars, historyVars
<1> DEFINE Owes == {"yearly", "wfWeekly", "wfYearly"}
<1>1. ASSUME NEW s \in Slots, pc[s] \notin Owes, pc'[s] \notin Owes, HookStep(s),
             UNCHANGED <<usage, wfUsage, torn>>
      PROVE  AllBalanced'
  <2>1. ASSUME NEW r \in Slots, NEW p \in Projects, NEW k \in PeriodKey
        PROVE  Owing(r, p, k)' <=> Owing(r, p, k)
    <3>1. CASE r = s
      BY <1>1, <3>1 DEF Owing, OwedKeys
    <3>2. CASE r # s
      BY <1>1, <3>2, OnlyOneSlotMoves DEF Owing, OwedKeys
    <3> QED BY <3>1, <3>2
  <2> QED BY <1>1, <2>1, QuietLedger
<1>2. ASSUME NEW s \in Slots, NEW wf \in Workflows, NEW proc \in Procs,
             BeginCheck(s, wf, proc) \/ BypassCheck(s, wf, proc)
      PROVE  AllBalanced'
  <2>1. HookStep(s) /\ UNCHANGED <<usage, wfUsage, torn>>
    BY <1>2 DEF HookStep, BeginCheck, BypassCheck
  <2>2. pc[s] \notin Owes
    BY <1>2 DEF BeginCheck, BypassCheck, Fires, Resting
  <2>3. pc'[s] \notin Owes
    BY <1>2, PassedOn DEF BeginCheck, BypassCheck, TypeOK, SlotsTyped
  <2> QED BY <1>1, <2>1, <2>2, <2>3
<1>3. ASSUME NEW s \in Slots,
             \/ ReadConfig(s) \/ ReadCounts(s) \/ ReadDefaults(s)
             \/ \E t \in PeriodType : ReadTopups(s, t)
             \/ Reject(s)
      PROVE  AllBalanced'
  <2>1. HookStep(s) /\ UNCHANGED <<usage, wfUsage, torn>>
    BY <1>3 DEF HookStep, ReadConfig, ReadCounts, ReadDefaults, ReadTopups, Reject
  <2>2. pc[s] \notin Owes /\ pc'[s] \notin Owes
    BY <1>3
    DEF ReadConfig, ReadCounts, ReadDefaults, ReadTopups, Reject, AfterBase,
        TypeOK, SlotsTyped
  <2> QED BY <1>1, <2>1, <2>2
<1>4. ASSUME NEW s \in Slots, Admit(s)
      PROVE  AllBalanced'
  <2>1. HookStep(s) /\ UNCHANGED <<usage, wfUsage, torn>>
    BY <1>4 DEF HookStep, Admit
  <2>2. pc[s] \notin Owes
    BY <1>4 DEF Admit
  <2>3. pc'[s] \notin Owes
    BY <1>4, PassedOn DEF Admit, TypeOK, SlotsTyped
  <2> QED BY <1>1, <2>1, <2>2, <2>3
<1>5. ASSUME NEW s \in Slots, NEW t \in PeriodType, ChargeProject(s, t) \/ ChargeWorkflow(s, t)
      PROVE  AllBalanced'
  BY <1>5, ProjectCharged, WorkflowCharged
<1>6. ASSUME NEW s \in Slots, Outage(s)
      PROVE  AllBalanced'
  BY <1>6, OutageTears
<1>7. CASE AdminStep \/ NextDay \/ UNCHANGED vars
  <2>1. UNCHANGED <<usage, wfUsage, torn, pc, job>>
    BY <1>7
    DEF AdminStep, ValidateTopup, ValidateDelete, WriteTopup, UpdateRateLimit,
        UpdateRateLimitDefaults, NextDay, vars, adminUnchanged
  <2>2. \A r \in Slots, p \in Projects, k \in PeriodKey : Owing(r, p, k)' <=> Owing(r, p, k)
    BY <2>1 DEF Owing, OwedKeys
  <2> QED BY <2>1, <2>2, QuietLedger
<1> QED
  BY <1>2, <1>3, <1>4, <1>5, <1>6, <1>7 DEF Next, HookStep

\* The project's counter agrees with its workflows' counters, up to the runs
\* now between the two charges of enforceExecution and those a failed query
\* left there, whatever the number of workflows and of concurrent runs.
THEOREM LedgerBalanced == Spec => []LedgerBalances
<1>1. AllBalanced => LedgerBalances
  <2> SUFFICES ASSUME AllBalanced, NEW p \in Projects, NEW k \in PeriodKey
               PROVE  usage[p][k] =
                        MapThenSumSet(LAMBDA w : wfUsage[p][w][k], Workflows)
                        + Cardinality({ s \in Slots : pc[s] \in Charging /\ job[s].project = p
                                                      /\ k \in OwedKeys(s) })
                        + torn[p][k]
    BY DEF LedgerBalances
  <2>1. MapThenSumSet(LAMBDA w : wfUsage[p][w][k], Workflows) = LedgerTotal(wfUsage[p], k)
    BY LedgerIsTotal
  <2> QED
    BY <2>1 DEF AllBalanced, Balanced, Between, Owing
<1> QED
  BY <1>1, LedgerInit, LedgerStep, TypeCorrect, PTL DEF Spec

----------------------------------------------------------------------------
(* The configured limit                                                    *)
(*                                                                         *)
(* OvershootBounded and RejectionsAreJustified speak of the limits runs    *)
(* computed.  While no admin changes anything these are the configured     *)
(* ones: each check pieces together, over up to four queries, the limit    *)
(* its project has.                                                        *)

\* What a check has put together so far is part of the configured limit.
ConfiguredJob(s) ==
  /\ pc[s] \in {"counts", "defaults", "topups", "decide"} =>
       job[s].config = config[job[s].project]
  /\ pc[s] \in {"topups", "decide"} =>
       /\ job[s].base = ConfiguredBase(job[s].project)
       /\ \A t \in PeriodType \ job[s].unread :
            EffectiveLimit(job[s], t) = ConfiguredLimit(job[s].project, t, job[s].key[t])
  /\ pc[s] = "decide" => job[s].unread = {}

\* Runs that a hard stop applies to were admitted under the configured limit.
ConfiguredPeaks ==
  \A p \in Projects, t \in PeriodType : \A k \in KeysOf(t) :
    ~IsSoft(config[p]) => peak[p][k] \in {0, ConfiguredLimit(p, t, k)}

Unedited ==
  edits = 0 =>
    /\ requests = {} /\ IsFiniteSet(topups)
    /\ \A s \in Slots : ConfiguredJob(s)
    /\ ConfiguredPeaks

\* The fold in TopupSum is a total.
LEMMA TopupsAreTotal ==
  ASSUME NEW R
  PROVE  MapThenSumSet(LAMBDA row : row.amount, R) = Total([row \in R |-> row.amount], R)
<1> DEFINE f == [row \in R |-> row.amount]
           Step(g) == [us \in SUBSET R |->
                         IF us = {} THEN 0 ELSE First(us).amount + g[us \ {First(us)}]]
<1>1. MapThenSumSet(LAMBDA row : row.amount, R) = (CHOOSE g : g = Step(g))[R]
  BY DEF MapThenSumSet, MapThenFoldSet, First
<1>2. ASSUME NEW g PROVE Adds(f, R, g) <=> g = Step(g)
  <2>1. \A us \in SUBSET R : us # {} => f[First(us)] = First(us).amount
    BY DEF First
  <2> HIDE DEF f
  <2> QED BY <2>1 DEF Adds
<1> HIDE DEF f, Step
<1>3. (CHOOSE g : g = Step(g)) = (CHOOSE g : Adds(f, R, g))
  BY <1>2, Zenon
<1> QED BY <1>1, <1>3 DEF Total, f

\* Top-ups raise a limit by a natural number.
LEMMA TopupSumType ==
  ASSUME TypeOK, IsFiniteSet(topups), NEW p, NEW weeks
  PROVE  TopupSum(p, weeks) \in Nat
<1> DEFINE R == { row \in topups : row.project = p /\ row.week \in weeks }
           f == [row \in R |-> row.amount]
<1>1. IsFiniteSet(R)
  BY FS_Subset
<1>2. f \in [R -> Nat]
  BY DEF TypeOK, Topup
<1>3. TopupSum(p, weeks) = Total(f, R)
  BY TopupsAreTotal DEF TopupSum
<1> HIDE DEF f, R
<1> QED BY <1>1, <1>2, <1>3, TotalType

\* A configured base consists of limits.
LEMMA ConfiguredBaseType ==
  ASSUME TypeOK, NEW p \in Projects
  PROVE  ConfiguredBase(p) \in ScopeDefaults
BY PolicyTypes, SharingAssumption DEF ConfiguredBase, TypeOK

\* A step after which there were no edits changed no table an admin may.
LEMMA NothingEdited ==
  ASSUME TypeOK, Unedited, [Next]_vars, edits' = 0
  PROVE  edits = 0 /\ UNCHANGED <<dbVars, requests>>
<1> USE DEF dbVars, counterVars, historyVars, adminUnchanged
<1>1. edits \in Nat
  BY DEF TypeOK
<1>2. CASE NextDay \/ UNCHANGED vars
  BY <1>2 DEF NextDay, vars
<1>3. CASE AdminStep
  <2>1. edits' # edits + 1
    BY <1>1
  <2>2. PICK r \in requests : WriteTopup(r)
    BY <1>3, <2>1
    DEF AdminStep, ValidateTopup, ValidateDelete, UpdateRateLimit, UpdateRateLimitDefaults
  <2>3. edits = 0
    BY <2>2 DEF WriteTopup
  <2> QED BY <2>2, <2>3 DEF Unedited
<1>4. ASSUME NEW s \in Slots, HookStep(s)
      PROVE  UNCHANGED <<dbVars, requests, edits>>
  BY <1>4
  DEF HookStep, BeginCheck, BypassCheck, ReadConfig, ReadCounts, ReadDefaults, ReadTopups,
      Reject, Admit, ChargeProject, ChargeWorkflow, Outage
<1> QED BY <1>2, <1>3, <1>4 DEF Next

\* Configured limits change with those tables only.
LEMMA LimitsStay ==
  ASSUME UNCHANGED dbVars
  PROVE  /\ \A p : ConfiguredBase(p)' = ConfiguredBase(p)
         /\ \A p, t, k : ConfiguredLimit(p, t, k)' = ConfiguredLimit(p, t, k)
<1>1. \A p : ConfiguredBase(p)' = ConfiguredBase(p)
  BY DEF ConfiguredBase, dbVars
<1>2. \A p, weeks : TopupSum(p, weeks)' = TopupSum(p, weeks)
  BY DEF TopupSum, MapThenSumSet, MapThenFoldSet, dbVars
<1> QED BY <1>1, <1>2 DEF ConfiguredLimit

\* A base limit that has arrived, where it is the configured one.
LEMMA BaseArrives ==
  ASSUME TypeOK, NEW s \in Slots, NEW j \in RunJob, UNCHANGED dbVars,
         j.config = config[j.project],
         job' = [job EXCEPT ![s] = WithBase(j, ConfiguredBase(j.project))],
         pc' = [pc EXCEPT ![s] = AfterBase(ConfiguredBase(j.project))]
  PROVE  ConfiguredJob(s)'
<1>1. PICK base : base = ConfiguredBase(j.project)
  OBVIOUS
<1>2. j.project \in Projects
  BY DEF RunJob
<1>3. base \in ScopeDefaults
  BY <1>1, <1>2, ConfiguredBaseType
<1>4. /\ job'[s] = WithBase(j, base) /\ pc'[s] = AfterBase(base)
      /\ config' = config
  BY <1>1 DEF TypeOK, SlotsTyped, dbVars
<1>5. /\ job'[s].config = j.config /\ job'[s].project = j.project /\ job'[s].key = j.key
      /\ job'[s].base = base /\ job'[s].unread = { t \in PeriodType : base[t] # NoLimit }
  <2>1. PICK unread : unread = { t \in PeriodType : base[t] # NoLimit }
    OBVIOUS
  <2>2. PICK new : new = [j EXCEPT !.base = base, !.unread = unread]
    OBVIOUS
  <2>3. j \in RunJob
    OBVIOUS
  <2>4. /\ new.config = j.config /\ new.project = j.project /\ new.key = j.key
        /\ new.base = base /\ new.unread = unread
    BY <2>2, <2>3 DEF RunJob
  <2>5. job'[s] = new
    BY <1>4, <2>1, <2>2 DEF WithBase
  <2> QED BY <2>1, <2>4, <2>5
<1>6. pc'[s] = "decide" => job'[s].unread = {}
  BY <1>4, <1>5 DEF AfterBase
<1>7. ASSUME NEW t \in PeriodType \ job'[s].unread
      PROVE  EffectiveLimit(job[s], t)'
               = ConfiguredLimit(j.project, t, j.key[t])
  BY <1>1, <1>5 DEF EffectiveLimit, ConfiguredLimit
<1>8. /\ ConfiguredBase(j.project)' = base
      /\ \A t : ConfiguredLimit(j.project, t, j.key[t])' = ConfiguredLimit(j.project, t, j.key[t])
  BY <1>1, LimitsStay
<1> QED BY <1>4, <1>5, <1>6, <1>7, <1>8 DEF ConfiguredJob

\* A step of the hook puts together what is configured.
LEMMA JobStep ==
  ASSUME TypeOK, NEW s \in Slots, ConfiguredJob(s), HookStep(s), UNCHANGED dbVars
  PROVE  ConfiguredJob(s)'
<1> USE DEF dbVars
<1>1. ASSUME pc'[s] \notin {"counts", "defaults", "topups", "decide"}
      PROVE  ConfiguredJob(s)'
  BY <1>1 DEF ConfiguredJob
<1>2. CASE ReadConfig(s)
  <2>1. job[s] \in RunJob /\ pc'[s] = "counts"
    BY <1>2, JobOfCheck DEF ReadConfig, Querying, Reading, TypeOK, SlotsTyped
  <2>2. job'[s].config = config[job[s].project] /\ job'[s].project = job[s].project
    BY <1>2, <2>1 DEF ReadConfig, RunJob, TypeOK, SlotsTyped
  <2> QED BY <2>1, <2>2 DEF ConfiguredJob
<1>3. CASE ReadCounts(s)
  <2> DEFINE counts == [t \in PeriodType |-> usage[job[s].project][job[s].key[t]]]
  <2>1. PICK own, j : own = OwnLimits(job[s].config) /\ j = [job[s] EXCEPT !.count = counts]
    OBVIOUS
  <2>2. job[s] \in RunJob /\ job[s].config = config[job[s].project]
    BY <1>3, JobOfCheck DEF ReadCounts, Querying, Reading, ConfiguredJob
  <2>3. counts \in [PeriodType -> Nat]
    BY <2>2 DEF RunJob, PeriodKeys, TypeOK
  <2>4. /\ j \in RunJob /\ j.project = job[s].project /\ j.config = job[s].config
    BY <2>1, <2>2, <2>3 DEF RunJob
  <2>5. CASE NeedsDefaults(own)
    <3>1. job'[s] = j /\ pc'[s] = "defaults"
      BY <1>3, <2>1, <2>5 DEF ReadCounts, TypeOK, SlotsTyped
    <3> QED BY <2>2, <2>4, <3>1 DEF ConfiguredJob
  <2>6. CASE ~NeedsDefaults(own)
    <3>1. ConfiguredBase(j.project) = own
      BY <2>1, <2>2, <2>4, <2>6 DEF ConfiguredBase
    <3>2. /\ job' = [job EXCEPT ![s] = WithBase(j, own)]
          /\ pc' = [pc EXCEPT ![s] = AfterBase(own)]
      BY <1>3, <2>1, <2>6 DEF ReadCounts
    <3> QED BY <2>2, <2>4, <3>1, <3>2, BaseArrives
  <2> QED BY <2>5, <2>6
<1>4. CASE ReadDefaults(s)
  <2>1. /\ job[s] \in RunJob /\ job[s].config = config[job[s].project]
    BY <1>4, JobOfCheck DEF ReadDefaults, Querying, Reading, ConfiguredJob
  <2>2. PICK base : base = WithDefaults(OwnLimits(job[s].config), defaults[KindOf[job[s].project]])
    OBVIOUS
  <2>3. base = ConfiguredBase(job[s].project)
    <3>1. CASE NeedsDefaults(OwnLimits(job[s].config))
      BY <2>1, <2>2, <3>1 DEF ConfiguredBase
    <3>2. CASE ~NeedsDefaults(OwnLimits(job[s].config))
      <4>1. OwnLimits(job[s].config) \in ScopeDefaults
        BY <2>1, PolicyTypes DEF RunJob
      <4> QED
        BY <2>1, <2>2, <3>2, <4>1
        DEF ConfiguredBase, WithDefaults, NeedsDefaults, Coalesce, ScopeDefaults
    <3> QED BY <3>1, <3>2
  <2>4. /\ job' = [job EXCEPT ![s] = WithBase(job[s], base)]
        /\ pc' = [pc EXCEPT ![s] = AfterBase(base)]
    BY <1>4, <2>2 DEF ReadDefaults
  <2> QED BY <2>1, <2>3, <2>4, BaseArrives
<1>5. ASSUME NEW t \in PeriodType, ReadTopups(s, t)
      PROVE  ConfiguredJob(s)'
  <2>1. PICK sum, unread : /\ sum = TopupSum(job[s].project, WeeksRaising(t, job[s].key[t]))
                           /\ unread = job[s].unread \ {t}
    OBVIOUS
  <2>2. PICK j, raise : /\ raise = [job[s].raise EXCEPT ![t] = sum]
                        /\ j = [job[s] EXCEPT !.raise = raise, !.unread = unread]
    OBVIOUS
  <2>3. /\ job[s] \in RunJob /\ pc[s] = "topups"
    BY <1>5, JobOfCheck DEF ReadTopups, Querying, Reading
  <2>4. /\ job'[s] = j
        /\ pc'[s] = IF unread = {} THEN "decide" ELSE "topups"
    BY <1>5, <2>1, <2>2 DEF ReadTopups, TypeOK, SlotsTyped
  <2>5. /\ j.config = job[s].config /\ j.project = job[s].project /\ j.key = job[s].key
        /\ j.base = job[s].base /\ j.unread = unread /\ j.raise = raise
    BY <2>2, <2>3 DEF RunJob
  <2>6. /\ job[s].config = config[job[s].project]
        /\ job[s].base = ConfiguredBase(job[s].project)
        /\ \A u \in PeriodType \ job[s].unread :
             EffectiveLimit(job[s], u) = ConfiguredLimit(job[s].project, u, job[s].key[u])
    BY <2>3 DEF ConfiguredJob
  <2>7. ASSUME NEW u \in PeriodType \ unread
        PROVE  EffectiveLimit(j, u) = ConfiguredLimit(j.project, u, j.key[u])
    <3>1. CASE u = t
      <4>1. raise[t] = sum
        BY <2>2, <2>3 DEF RunJob
      <4> QED BY <2>1, <2>5, <2>6, <3>1, <4>1 DEF EffectiveLimit, ConfiguredLimit
    <3>2. CASE u # t
      <4>1. u \in PeriodType \ job[s].unread /\ raise[u] = job[s].raise[u]
        BY <2>1, <2>2, <2>3, <2>7, <3>2 DEF RunJob
      <4>2. EffectiveLimit(j, u) = EffectiveLimit(job[s], u)
        BY <2>5, <4>1 DEF EffectiveLimit
      <4> QED BY <2>5, <2>6, <4>1, <4>2
    <3> QED BY <3>1, <3>2
  <2>8. /\ ConfiguredBase(j.project)' = ConfiguredBase(j.project)
        /\ \A u : ConfiguredLimit(j.project, u, j.key[u])' = ConfiguredLimit(j.project, u, j.key[u])
    BY LimitsStay
  <2>9. ASSUME NEW u \in PeriodType PROVE EffectiveLimit(job[s], u)' = EffectiveLimit(j, u)
    BY <2>4 DEF EffectiveLimit
  <2> QED BY <2>4, <2>5, <2>6, <2>7, <2>8, <2>9 DEF ConfiguredJob
<1>6. ASSUME ~ReadConfig(s), ~ReadCounts(s), ~ReadDefaults(s),
             \A t \in PeriodType : ~ReadTopups(s, t)
      PROVE  pc'[s] \notin {"counts", "defaults", "topups", "decide"}
  BY <1>6
  DEF HookStep, BeginCheck, BypassCheck, LetPass, Reject, Admit, ChargeProject,
      ChargeWorkflow, Outage, TypeOK, SlotsTyped
<1> QED BY <1>1, <1>2, <1>3, <1>4, <1>5, <1>6

\* A hard-stop run is admitted under the configured limit.
LEMMA PeakStep ==
  ASSUME TypeOK, NEW s \in Slots, ConfiguredJob(s), ConfiguredPeaks, HookStep(s),
         UNCHANGED dbVars
  PROVE  ConfiguredPeaks'
<1> USE DEF dbVars
<1> SUFFICES ASSUME NEW p \in Projects, NEW t \in PeriodType, NEW k \in KeysOf(t),
                    ~IsSoft(config[p])
             PROVE  peak'[p][k] \in {0, ConfiguredLimit(p, t, k)}
  BY LimitsStay DEF ConfiguredPeaks, KeysOf
<1>1. peak[p][k] \in {0, ConfiguredLimit(p, t, k)}
  BY DEF ConfiguredPeaks
<1>2. CASE peak' = peak
  BY <1>1, <1>2
<1>3. CASE Admit(s) /\ CountsUsage(job[s].proc)
  <2>1. PICK j : j = job[s]
    OBVIOUS
  <2>2. j \in RunJob /\ pc[s] = "decide"
    BY <1>3, <2>1, JobOfCheck DEF Admit
  <2>3. peak' = [peak EXCEPT ![j.project] = RaisedBy(@, j)]
    BY <1>3, <2>1 DEF Admit
  <2>4. CASE p # j.project
    BY <1>1, <2>2, <2>3, <2>4 DEF TypeOK, RunJob
  <2>5. CASE p = j.project
    <3>1. peak'[p] = RaisedBy(peak[p], j)
      BY <2>2, <2>3, <2>5 DEF TypeOK, RunJob
    <3>2. k \in PeriodKey /\ j.key["weekly"] \in Weeks /\ j.key["yearly"] \in Years
      BY <2>2 DEF KeysOf, PeriodKey, RunJob, PeriodKeys
    <3>3. CASE k # j.key[t]
      <4>1. k # j.key["weekly"] /\ k # j.key["yearly"]
        BY <3>2, <3>3, Calendar DEF KeysOf, PeriodType
      <4> QED BY <1>1, <3>1, <3>2, <4>1 DEF RaisedBy
    <3>4. CASE k = j.key[t]
      <4>1. peak'[p][k] = Raised(peak[p][k], Granted(j, t))
        BY <3>1, <3>2, <3>4, Calendar DEF KeysOf, PeriodType, RaisedBy
      <4>2. ~Breached(j, t)
        BY <1>3, <2>1, <2>2, <2>5 DEF Admit, ConfiguredJob
      <4>3. Granted(j, t) = ConfiguredLimit(p, t, k)
        BY <2>1, <2>2, <2>5, <3>4, <4>2 DEF Granted, ConfiguredJob
      <4> QED BY <1>1, <4>1, <4>3 DEF Raised
    <3> QED BY <3>3, <3>4
  <2> QED BY <2>4, <2>5
<1>4. CASE ~(Admit(s) /\ CountsUsage(job[s].proc))
  <2>1. peak' = peak
    BY <1>4
    DEF HookStep, BeginCheck, BypassCheck, ReadConfig, ReadCounts, ReadDefaults, ReadTopups,
        Reject, Admit, ChargeProject, ChargeWorkflow, Outage, historyVars
  <2> QED BY <1>2, <2>1
<1> QED BY <1>3, <1>4

\* Every step keeps what is put together and what was admitted as configured.
LEMMA UneditedStep == TypeOK /\ Unedited /\ [Next]_vars => Unedited'
<1> SUFFICES ASSUME TypeOK, Unedited, [Next]_vars, edits' = 0
             PROVE  /\ requests' = {} /\ IsFiniteSet(topups')
                    /\ \A s \in Slots : ConfiguredJob(s)'
                    /\ ConfiguredPeaks'
  BY DEF Unedited
<1>1. edits = 0 /\ UNCHANGED dbVars /\ UNCHANGED requests
  BY NothingEdited
<1>2. requests' = {} /\ IsFiniteSet(topups')
  BY <1>1 DEF Unedited, dbVars
<1>3. ASSUME NEW s \in Slots, pc'[s] = pc[s], job'[s] = job[s]
      PROVE  ConfiguredJob(s)'
  <2>1. ConfiguredJob(s) /\ config' = config
    BY <1>1 DEF Unedited, dbVars
  <2> QED
    BY <1>1, <1>3, <2>1, LimitsStay DEF ConfiguredJob, EffectiveLimit
<1>4. ASSUME peak' = peak PROVE ConfiguredPeaks'
  BY <1>1, <1>4, LimitsStay DEF Unedited, ConfiguredPeaks, KeysOf, dbVars
<1>5. CASE AdminStep \/ NextDay \/ UNCHANGED vars
  <2>1. UNCHANGED <<pc, job, peak>>
    BY <1>5
    DEF AdminStep, ValidateTopup, ValidateDelete, WriteTopup, UpdateRateLimit,
        UpdateRateLimitDefaults, NextDay, vars, adminUnchanged, historyVars
  <2> QED BY <1>2, <1>3, <1>4, <2>1
<1>6. ASSUME NEW r \in Slots, HookStep(r)
      PROVE  (\A s \in Slots : ConfiguredJob(s)') /\ ConfiguredPeaks'
  <2>1. ConfiguredJob(r) /\ ConfiguredPeaks
    BY <1>1 DEF Unedited
  <2>2. ConfiguredJob(r)' /\ ConfiguredPeaks'
    BY <1>1, <1>6, <2>1, JobStep, PeakStep
  <2>3. \A s \in Slots : s # r => ConfiguredJob(s)'
    BY <1>3, <1>6, OnlyOneSlotMoves
  <2> QED BY <2>2, <2>3
<1> QED BY <1>2, <1>5, <1>6 DEF Next

\* Nothing is edited at the start.
LEMMA UneditedInit == Init => Unedited
<1> SUFFICES ASSUME Init PROVE Unedited
  OBVIOUS
<1>1. requests = {} /\ IsFiniteSet(topups)
  BY BoundsAssumption DEF Init
<1>2. \A s \in Slots : ConfiguredJob(s)
  BY DEF Init, ConfiguredJob
<1>3. ConfiguredPeaks
  BY DEF Init, ConfiguredPeaks, KeysOf, PeriodKey
<1> QED BY <1>1, <1>2, <1>3 DEF Unedited

LEMMA AlwaysUnedited == Spec => []Unedited
BY UneditedInit, UneditedStep, TypeCorrect, PTL DEF Spec

\* With the configuration left alone, a hard stop's counter stays below the
\* configured limit plus the executions the hook holds at once: each check adds
\* up, over its separate queries, the limit the project really has.
THEOREM UsageStaysWithinLimit == Spec => []WithinConfiguredLimit
<1>1. TypeOK /\ Unedited /\ BoundedOvershoot => WithinConfiguredLimit
  <2> SUFFICES ASSUME TypeOK, Unedited, BoundedOvershoot, edits = 0,
                      NEW p \in Projects, NEW t \in PeriodType, NEW k \in KeysOf(t),
                      ~IsSoft(config[p]), ConfiguredLimit(p, t, k) # NoLimit
               PROVE  usage[p][k] < ConfiguredLimit(p, t, k) + Cardinality(Slots)
    BY DEF WithinConfiguredLimit
  <2>1. PICK limit : limit = ConfiguredLimit(p, t, k)
    OBVIOUS
  <2>2. limit \in Nat
    <3>1. ConfiguredBase(p)[t] \in Limit
      BY ConfiguredBaseType DEF ScopeDefaults
    <3>2. TopupSum(p, WeeksRaising(t, k)) \in Nat
      BY TopupSumType DEF Unedited
    <3> QED BY <2>1, <3>1, <3>2 DEF ConfiguredLimit, Limit
  <2>3. peak[p][k] \in {0, limit} /\ k \in PeriodKey
    BY <2>1 DEF Unedited, ConfiguredPeaks, KeysOf, PeriodKey
  <2>4. peak[p][k] \in Nat /\ peak[p][k] <= limit
    BY <2>2, <2>3
  <2>5. peak[p][k] # NoLimit
    BY <2>4, NoLimitAssumption
  <2>6. usage[p][k] < peak[p][k] + Cardinality(Slots)
    BY <2>3, <2>5 DEF BoundedOvershoot
  <2>7. usage[p][k] \in Nat /\ Cardinality(Slots) \in Nat
    BY <2>3, SlotsFinite DEF TypeOK
  <2> QED BY <2>1, <2>2, <2>4, <2>6, <2>7
<1> QED BY <1>1, TypeCorrect, AlwaysUnedited, OvershootBounded, PTL

\* With the configuration left alone, an execution is rejected only when the
\* counter of a period really is at or above the configured limit.
THEOREM RejectionsAtTheLimit == Spec => RejectedAtConfiguredLimit
<1>1. TypeOK /\ CountsSeen /\ Unedited /\ [Next]_vars =>
        [\A s \in Slots : edits = 0 /\ pc'[s] = "rejected" /\ pc[s] # "rejected" =>
           \E t \in PeriodType :
             LET limit == ConfiguredLimit(job[s].project, t, job[s].key[t])
             IN  limit # NoLimit /\ usage[job[s].project][job[s].key[t]] >= limit]_vars
  <2> SUFFICES ASSUME TypeOK, CountsSeen, Unedited, [Next]_vars, edits = 0,
                      NEW s \in Slots, pc'[s] = "rejected", pc[s] # "rejected"
               PROVE  \E t \in PeriodType :
                        LET limit == ConfiguredLimit(job[s].project, t, job[s].key[t])
                        IN  limit # NoLimit
                              /\ usage[job[s].project][job[s].key[t]] >= limit
    OBVIOUS
  <2>1. Reject(s)
    BY OnlyRejectRejects
  <2>2. PICK t \in PeriodType : Breached(job[s], t)
    BY <2>1 DEF Reject
  <2>3. job[s] \in RunJob /\ pc[s] = "decide"
    BY <2>1, JobOfCheck DEF Reject
  <2>4. EffectiveLimit(job[s], t) = ConfiguredLimit(job[s].project, t, job[s].key[t])
    BY <2>3 DEF Unedited, ConfiguredJob
  <2>5. /\ job[s].count[t] \in Nat /\ job[s].base[t] \in Limit /\ job[s].raise[t] \in Nat
        /\ job[s].project \in Projects /\ job[s].key[t] \in PeriodKey
    BY <2>3 DEF RunJob, ScopeDefaults, PeriodKeys
  <2>6. /\ job[s].count[t] <= usage[job[s].project][job[s].key[t]]
        /\ usage[job[s].project][job[s].key[t]] \in Nat
    BY <2>3, <2>5 DEF CountsSeen, TypeOK
  <2>7. /\ EffectiveLimit(job[s], t) \in Nat
        /\ job[s].count[t] >= EffectiveLimit(job[s], t)
    BY <2>2, <2>5 DEF Breached, Reached, EffectiveLimit, Limit
  <2>8. EffectiveLimit(job[s], t) # NoLimit
    BY <2>7, NoLimitAssumption
  <2> QED BY <2>4, <2>5, <2>6, <2>7, <2>8
<1>2. Spec => []CountsSeen
  <2>1. Init => CountsSeen
    BY DEF Init, CountsSeen
  <2> QED BY <2>1, CountsSeenStep, TypeCorrect, PTL DEF Spec
<1> QED
  BY <1>1, <1>2, TypeCorrect, AlwaysUnedited, PTL DEF Spec, RejectedAtConfiguredLimit

----------------------------------------------------------------------------
(* Years *)

\* Years follow each other: Jan1 does not decrease.
LEMMA Jan1Monotone ==
  ASSUME NEW y \in Nat, NEW z \in Nat, 1 <= y, y <= z
  PROVE  Jan1(y) <= Jan1(z)
BY SMT DEF Jan1

\* Days are counted from the first January 1.
LEMMA Jan1Type == ASSUME NEW y \in Nat, 1 <= y PROVE Jan1(y) \in Nat
BY SMT DEF Jan1

\* A year has 365 days or 366.
LEMMA YearLength ==
  ASSUME NEW y \in Nat, 1 <= y
  PROVE  Jan1(y + 1) - Jan1(y) \in 365..366
BY SMT DEF Jan1

\* A nonempty set of naturals has a least element.
LEMMA LeastNatural ==
  ASSUME NEW T \in SUBSET Nat, T # {}
  PROVE  \E x \in T : \A y \in T : x <= y
<1>1. PICK x \in T : \A y \in T : <<y, x>> \notin OpToRel(<, Nat)
  BY NatLessThanWellFounded, WFMin
<1>2. \A y \in T : ~(y < x)
  BY <1>1 DEF OpToRel
<1>3. \A y \in T : x <= y
  BY <1>2, SMT
<1>. QED  BY <1>3

\* Every day lies in the year FullYear gives, and in no other.
LEMMA DayInYear ==
  ASSUME NEW n \in Nat
  PROVE  /\ FullYear(n) \in Nat /\ FullYear(n) >= 1
         /\ n \in Jan1(FullYear(n))..Dec31(FullYear(n))
<1>. DEFINE lo == n \div 366 + 1
            hi == n \div 365 + 1
            T == { y \in lo..hi : n < Jan1(y + 1) }
<1>1. /\ lo \in Nat /\ lo >= 1 /\ hi \in Nat /\ lo <= hi
      /\ Jan1(lo) <= n /\ n < Jan1(hi + 1)
  BY SMT DEF Jan1
<1>2. hi \in T
  BY <1>1, SMT
<1>3. PICK x \in T : \A y \in T : x <= y
  <2>1. T \in SUBSET Nat
    BY <1>1, SMT
  <2>2. T # {}
    BY <1>2
  <2>. HIDE DEF T
  <2>. QED  BY <2>1, <2>2, LeastNatural
<1>4. Jan1(x) <= n
  <2>1. CASE x = lo
    BY <2>1, <1>1
  <2>2. CASE x # lo
    BY <2>2, <1>1, <1>3, Jan1Type, SMT
  <2>. QED  BY <2>1, <2>2
<1>5. n \in Jan1(x)..Dec31(x)
  BY <1>1, <1>3, <1>4, Jan1Type, SMT DEF Dec31
<1>6. \E y \in lo..hi : n \in Jan1(y)..Dec31(y)
  BY <1>3, <1>5
<1>7. FullYear(n) \in lo..hi /\ n \in Jan1(FullYear(n))..Dec31(FullYear(n))
  BY <1>6, Zenon DEF FullYear
<1>. QED  BY <1>1, <1>7, SMT

\* No other year holds the day.
LEMMA YearUnique ==
  ASSUME NEW n \in Nat, NEW y \in Nat, 1 <= y, n \in Jan1(y)..Dec31(y)
  PROVE  FullYear(n) = y
<1>1. /\ FullYear(n) \in Nat /\ FullYear(n) >= 1
      /\ n \in Jan1(FullYear(n))..Dec31(FullYear(n))
  BY DayInYear
<1>2. ~(FullYear(n) < y)
  <2>. SUFFICES ASSUME FullYear(n) + 1 <= y PROVE FALSE
    BY <1>1, SMT
  <2>1. Jan1(FullYear(n) + 1) <= Jan1(y)
    BY <1>1, Jan1Monotone
  <2>. QED  BY <1>1, <2>1, Jan1Type, SMT DEF Dec31
<1>3. ~(y < FullYear(n))
  <2>. SUFFICES ASSUME y + 1 <= FullYear(n) PROVE FALSE
    BY <1>1, SMT
  <2>1. Jan1(y + 1) <= Jan1(FullYear(n))
    BY <1>1, Jan1Monotone
  <2>. QED  BY <1>1, <2>1, Jan1Type, SMT DEF Dec31
<1>. QED  BY <1>1, <1>2, <1>3, SMT

\* Later days lie in later years.
LEMMA YearsFollowDays ==
  ASSUME NEW m \in Nat, NEW n \in Nat, m <= n
  PROVE  FullYear(m) <= FullYear(n)
<1>. SUFFICES ASSUME FullYear(n) + 1 <= FullYear(m) PROVE FALSE
  BY DayInYear, SMT
<1>1. Jan1(FullYear(n) + 1) <= Jan1(FullYear(m))
  BY DayInYear, Jan1Monotone
<1>. QED  BY <1>1, DayInYear, Jan1Type, SMT DEF Dec31

----------------------------------------------------------------------------
(* Weeks *)

\* The week of a day starts with a Monday, at most six days earlier.
LEMMA WeekArithmetic ==
  ASSUME NEW n \in Nat
  PROVE  /\ IsoDayOfWeek(n) \in 1..7
         /\ Thursday(n) = WeekStart(n) + 3
         /\ Thursday(n) \in Nat /\ Thursday(n) % 7 = 3
         /\ Thursday(n) \in (n - 3)..(n + 3)
         /\ WeekStart(n) % 7 = 0
         /\ WeekStart(n) \in Nat /\ WeekStart(n) \in (n - 6)..n
         /\ DaysSinceMonday(n) = n - WeekStart(n)
         /\ Monday(n) = WeekStart(n)
BY SMT DEF UTCDay, IsoDayOfWeek, Thursday, WeekStart, DaysSinceMonday, Monday

\* The Thursday of a week lies in the week's ISO year, at a whole number of weeks
\* after the year's first Thursday, at most 52.
LEMMA IsoWeekBounds ==
  ASSUME NEW n \in Nat
  PROVE  /\ IsoYear(n) \in Nat /\ IsoYear(n) >= 1
         /\ IsoWeek(n) \in 1..53
         /\ Thursday(n) = Thursday(Jan1(IsoYear(n)) + 3) + 7 * (IsoWeek(n) - 1)
<1>. DEFINE y == IsoYear(n)
            j == Jan1(y)
            t == Thursday(n)
            f == Thursday(j + 3)
<1>1. t \in Nat /\ t % 7 = 3
  BY WeekArithmetic
<1>2. y \in Nat /\ y >= 1 /\ t \in j..Dec31(y)
  BY <1>1, DayInYear DEF IsoYear
<1>3. j \in Nat /\ t <= j + 365
  BY <1>1, <1>2, Jan1Type, YearLength, SMT DEF Dec31
<1>4. f \in j..(j + 6) /\ f % 7 = 3
  <2>1. j + 3 \in Nat
    BY <1>3, SMT
  <2>. QED  BY <1>3, <2>1, WeekArithmetic, SMT
<1>. HIDE DEF t, f, j
<1>5. t - f >= 0 /\ t - f <= 365 /\ t = f + 7 * ((t - f) \div 7) /\ (t - f) \div 7 \in 0..52
  BY <1>1, <1>3, <1>4, <1>2, SMT
<1>6. IsoWeek(n) = 1 + ((t - f) \div 7)
  BY DEF IsoWeek, t, f, j
<1>. QED  BY <1>2, <1>5, <1>6, SMT DEF t, f, j

\* The weekly key of a later week is larger: keys are equal only within a week.
LEMMA KeysFollowWeeks ==
  ASSUME NEW m \in Nat, NEW n \in Nat
  PROVE  /\ WeeklyPeriodKey(m) \in Nat
         /\ WeekStart(m) = WeekStart(n) => WeeklyPeriodKey(m) = WeeklyPeriodKey(n)
         /\ WeekStart(m) < WeekStart(n) => WeeklyPeriodKey(m) < WeeklyPeriodKey(n)
<1>1. /\ WeekStart(m) \in Nat /\ WeekStart(n) \in Nat
      /\ Thursday(m) = WeekStart(m) + 3 /\ Thursday(n) = WeekStart(n) + 3
  BY WeekArithmetic
<1>2. /\ IsoYear(m) \in Nat /\ IsoWeek(m) \in 1..53
      /\ IsoYear(n) \in Nat /\ IsoWeek(n) \in 1..53
  BY IsoWeekBounds
<1>3. WeeklyPeriodKey(m) \in Nat
  BY <1>2, SMT DEF WeeklyPeriodKey, WeeklyKey
<1>4. ASSUME WeekStart(m) = WeekStart(n) PROVE WeeklyPeriodKey(m) = WeeklyPeriodKey(n)
  BY <1>1, <1>4 DEF WeeklyPeriodKey, IsoWeek, IsoYear
<1>5. ASSUME WeekStart(m) < WeekStart(n) PROVE WeeklyPeriodKey(m) < WeeklyPeriodKey(n)
  <2>1. Thursday(m) \in Nat /\ Thursday(n) \in Nat /\ Thursday(m) < Thursday(n)
    BY <1>1, <1>5, SMT
  <2>2. IsoYear(m) <= IsoYear(n)
    BY <2>1, YearsFollowDays, SMT DEF IsoYear
  <2>3. CASE IsoYear(m) = IsoYear(n)
    <3>. DEFINE f == Thursday(Jan1(IsoYear(n)) + 3)
    <3>1. Thursday(m) = f + 7 * (IsoWeek(m) - 1) /\ Thursday(n) = f + 7 * (IsoWeek(n) - 1)
      BY <2>3, IsoWeekBounds
    <3>2. f \in Int
      <4>1. Jan1(IsoYear(n)) \in Nat
        BY Jan1Type, IsoWeekBounds
      <4>2. Jan1(IsoYear(n)) + 3 \in Nat
        BY <4>1, SMT
      <4>. QED  BY <4>2, WeekArithmetic, SMT
    <3>. HIDE DEF f
    <3>3. IsoWeek(m) < IsoWeek(n)
      BY <1>2, <2>1, <3>1, <3>2, SMT
    <3>. QED  BY <1>2, <2>3, <3>3, SMT DEF WeeklyPeriodKey, WeeklyKey
  <2>4. CASE IsoYear(m) < IsoYear(n)
    BY <1>2, <2>4, SMT DEF WeeklyPeriodKey, WeeklyKey
  <2>. QED  BY <1>2, <2>2, <2>3, <2>4, SMT
<1>. QED  BY <1>3, <1>4, <1>5

\* AllKeys tell weeks apart.
LEMMA KeysTellWeeks ==
  ASSUME NEW m \in Nat, NEW n \in Nat
  PROVE  WeeklyPeriodKey(m) = WeeklyPeriodKey(n) <=> WeekStart(m) = WeekStart(n)
<1>1. WeekStart(m) \in Nat /\ WeekStart(n) \in Nat
  BY WeekArithmetic
<1>. QED  BY <1>1, KeysFollowWeeks, SMT

----------------------------------------------------------------------------
(* The days of the specification *)

DateTyped == date \in FirstDate..LastDate

\* The day stays within the days considered.
THEOREM DatesTyped == Rollover => []DateTyped
<1>1. Start => DateTyped
  BY RolloverAssumption, SMT DEF Start, DateTyped, RolloverAssumption
<1>2. DateTyped /\ [Midnight]_date => DateTyped'
  BY RolloverAssumption, SMT DEF DateTyped, Midnight, RolloverAssumption
<1>. QED  BY <1>1, <1>2, PTL DEF Rollover

\* ... and so is a day of the third year or a later one.
LEMMA DateIsADay == ASSUME DateTyped PROVE date \in Nat /\ date >= 732
BY RolloverAssumption, SMT DEF DateTyped, RolloverAssumption

\* The days of a week have the same start of the week.
LEMMA DaysOfWeek ==
  ASSUME NEW n \in Nat, n >= 732, NEW d \in Week(n)
  PROVE  d \in Nat /\ d >= 726 /\ WeekStart(d) = WeekStart(n)
BY SMT DEF Week, Monday, WeekStart, IsoDayOfWeek, UTCDay

\* A Monday starts its own week.
LEMMA MondayStarts == ASSUME NEW n \in Nat, n % 7 = 0 PROVE WeekStart(n) = n
BY SMT DEF WeekStart, IsoDayOfWeek, UTCDay

\* Days whose weeks start on the same day are in the same week.
LEMMA WeekContains ==
  ASSUME NEW n \in Nat, NEW d \in Nat, WeekStart(d) = WeekStart(n)
  PROVE  d \in Week(n)
BY SMT DEF Week, Monday, WeekStart, IsoDayOfWeek, UTCDay

\* A day of the third year or later has a year before its own.
LEMMA YearLater == ASSUME NEW n \in Nat, n >= 732 PROVE FullYear(n) >= 2
<1>1. FullYear(n) \in Nat /\ FullYear(n) >= 1 /\ n <= Dec31(FullYear(n))
  BY DayInYear, SMT DEF Dec31, Jan1
<1>2. Dec31(1) = 364
  BY SMT DEF Dec31, Jan1
<1>. QED  BY <1>1, <1>2, SMT

\* The days listed for a year are Mondays.
LEMMA MondaysAreMondays ==
  ASSUME NEW y \in Nat, y >= 1, NEW m \in MondaysFrom(Jan1(y), Dec31(y))
  PROVE  m \in Nat /\ WeekStart(m) = m
<1>1. PICK k \in 0..53 : m = WeekStart(Jan1(y)) + 7 * k
  BY DEF MondaysFrom
<1>2. WeekStart(Jan1(y)) \in Nat /\ WeekStart(Jan1(y)) % 7 = 0
  BY Jan1Type, WeekArithmetic
<1>3. m \in Nat /\ m % 7 = 0
  BY <1>1, <1>2, SMT
<1>. QED  BY <1>3, MondayStarts

\* The Mondays from which a year's overlapping weeks are listed are those of the
\* weeks that contain one of its days.
LEMMA MondaysOverlap ==
  ASSUME NEW y \in Nat, y >= 1, NEW monday \in Nat, WeekStart(monday) = monday
  PROVE  monday \in MondaysFrom(Jan1(y), Dec31(y))
           <=> \E d \in Nat : WeekStart(d) = monday /\ FullYear(d) = y
<1>. DEFINE j == Jan1(y)
            e == Dec31(y)
            first == WeekStart(j)
<1>1. j \in Nat /\ e \in Nat /\ e \in (j + 364)..(j + 365)
  BY Jan1Type, YearLength, SMT DEF Dec31
<1>2. first \in Nat /\ first \in (j - 6)..j /\ first % 7 = 0
  BY <1>1, WeekArithmetic
<1>3. monday % 7 = 0
  BY WeekArithmetic
<1>4. ASSUME monday \in MondaysFrom(j, e)
      PROVE  \E d \in Nat : WeekStart(d) = monday /\ FullYear(d) = y
  <2>1. PICK k \in 0..53 : monday = first + 7 * k /\ monday <= e
    BY <1>4 DEF MondaysFrom
  <2>2. CASE k = 0
    <3>1. WeekStart(j) = monday
      BY <2>1, <2>2, <1>2, SMT
    <3>2. FullYear(j) = y
      BY <1>1, YearUnique, SMT
    <3>. QED  BY <3>1, <3>2, <1>1
  <2>3. CASE k # 0
    <3>. HIDE DEF j, e, first
    <3>1. monday \in j..e
      BY <2>1, <2>3, <1>1, <1>2, SMT
    <3>. QED  BY <3>1, YearUnique DEF j, e
  <2>. QED  BY <2>2, <2>3
<1>5. ASSUME NEW d \in Nat, WeekStart(d) = monday, FullYear(d) = y
      PROVE  monday \in MondaysFrom(j, e)
  <2>1. d \in j..e
    BY <1>5, DayInYear
  <2>2. monday \in (d - 6)..d
    BY <1>5, WeekArithmetic
  <2>. HIDE DEF j, e, first
  <2>. DEFINE k == (monday - first) \div 7
  <2>3. monday >= first
    BY <1>1, <1>2, <1>3, <2>1, <2>2, SMT
  <2>4. k \in 0..53 /\ monday = first + 7 * k /\ monday <= e
    BY <1>1, <1>2, <1>3, <2>1, <2>2, <2>3, SMT
  <2>. QED  BY <2>4 DEF MondaysFrom, first
<1>. QED  BY <1>4, <1>5

\* The week of any day raises the limit of exactly the years one of its days is
\* charged to.
THEOREM WeeksRaiseTheirYears == Rollover => []RaisedWhereCounted
<1>1. ASSUME DateTyped PROVE RaisedWhereCounted
  <2>1. date \in Nat /\ date >= 732 /\ FullYear(date) \in Nat /\ FullYear(date) >= 2
    BY <1>1, DateIsADay, DayInYear, YearLater
  <2>. SUFFICES ASSUME NEW y \in (FullYear(date) - 1)..(FullYear(date) + 1)
                PROVE  WeeklyPeriodKey(date) \in WeeklyPeriodKeysOverlapping(y)
                         <=> \E d \in Week(date) : YearlyPeriodKey(d) = y
    BY DEF RaisedWhereCounted
  <2>2. y \in Nat /\ y >= 1
    BY <2>1, SMT
  <2>. DEFINE monday == WeekStart(date)
  <2>3. monday \in Nat /\ WeekStart(monday) = monday
    BY <2>1, WeekArithmetic, MondayStarts
  <2>4. ASSUME WeeklyPeriodKey(date) \in WeeklyPeriodKeysOverlapping(y)
        PROVE  \E d \in Week(date) : YearlyPeriodKey(d) = y
    <3>1. PICK m \in MondaysFrom(Jan1(y), Dec31(y)) :
            WeeklyPeriodKey(date) = WeeklyPeriodKey(m)
      BY <2>4 DEF WeeklyPeriodKeysOverlapping
    <3>2. m \in Nat /\ WeekStart(m) = m
      BY <2>2, <3>1, MondaysAreMondays
    <3>3. m = monday
      BY <2>1, <3>1, <3>2, KeysTellWeeks
    <3>4. PICK d \in Nat : WeekStart(d) = monday /\ FullYear(d) = y
      BY <2>2, <2>3, <3>1, <3>3, MondaysOverlap
    <3>5. d \in Week(date)
      BY <2>1, <3>4, WeekContains
    <3>. QED  BY <3>4, <3>5 DEF YearlyPeriodKey
  <2>5. ASSUME NEW d \in Week(date), YearlyPeriodKey(d) = y
        PROVE  WeeklyPeriodKey(date) \in WeeklyPeriodKeysOverlapping(y)
    <3>1. d \in Nat /\ WeekStart(d) = monday /\ FullYear(d) = y
      BY <2>1, <2>5, DaysOfWeek DEF YearlyPeriodKey
    <3>2. monday \in MondaysFrom(Jan1(y), Dec31(y))
      BY <2>2, <2>3, <3>1, MondaysOverlap
    <3>3. WeeklyPeriodKey(monday) = WeeklyPeriodKey(date)
      BY <2>1, <2>3, KeysTellWeeks
    <3>. QED  BY <3>2, <3>3 DEF WeeklyPeriodKeysOverlapping
  <2>. QED  BY <2>4, <2>5
<1>. QED  BY <1>1, DatesTyped, PTL

\* A week ends where the reset announced on each of its days says.
LEMMA WeekEnds ==
  ASSUME NEW n \in Nat
  PROVE  /\ WeekStart(n + 1) # WeekStart(n) <=> n + 1 = NextWeeklyReset(n)
         /\ WeekStart(n + 1) = WeekStart(n) => NextWeeklyReset(n + 1) = NextWeeklyReset(n)
BY SMT DEF NextWeeklyReset, DaysSinceMonday, WeekStart, IsoDayOfWeek, UTCDay

\* A year's last day announces the day after it.
LEMMA YearEnds ==
  ASSUME NEW n \in Nat
  PROVE  FullYear(n + 1) # FullYear(n) <=> n + 1 = NextYearlyReset(n)
<1>. DEFINE y == FullYear(n)
<1>1. /\ y \in Nat /\ y >= 1 /\ n \in Jan1(y)..Dec31(y)
      /\ Jan1(y) \in Nat /\ Jan1(y + 1) \in Nat
  BY DayInYear, Jan1Type, SMT
<1>2. ASSUME n + 1 = Jan1(y + 1) PROVE FullYear(n + 1) = y + 1
  <2>1. y + 1 \in Nat /\ y + 1 >= 1 /\ Jan1(y + 1) <= Dec31(y + 1) /\ Dec31(y + 1) \in Int
    BY <1>1, YearLength, Jan1Type, SMT DEF Dec31
  <2>. HIDE DEF y
  <2>2. n + 1 \in Nat /\ n + 1 \in Jan1(y + 1)..Dec31(y + 1)
    BY <1>1, <1>2, <2>1, SMT
  <2>. QED  BY <2>1, <2>2, YearUnique
<1>3. ASSUME n + 1 # Jan1(y + 1) PROVE FullYear(n + 1) = y
  <2>. HIDE DEF y
  <2>1. n + 1 \in Nat /\ n + 1 \in Jan1(y)..Dec31(y)
    BY <1>1, <1>3, SMT DEF Dec31
  <2>. QED  BY <1>1, <2>1, YearUnique
<1>. QED  BY <1>1, <1>2, <1>3, SMT DEF NextYearlyReset

\* A counter resets on the day announced and on no other.
THEOREM CountersResetSharply == Rollover => ResetsAreSharp
<1>. DEFINE Sharp ==
       /\ WeeklyPeriodKey(date') # WeeklyPeriodKey(date) <=> date' = NextWeeklyReset(date)
       /\ WeeklyPeriodKey(date') = WeeklyPeriodKey(date)
            => NextWeeklyReset(date') = NextWeeklyReset(date)
       /\ YearlyPeriodKey(date') # YearlyPeriodKey(date) <=> date' = NextYearlyReset(date)
       /\ YearlyPeriodKey(date') = YearlyPeriodKey(date)
            => NextYearlyReset(date') = NextYearlyReset(date)
<1>1. ASSUME DateTyped, Midnight PROVE Sharp
  <2>1. date \in Nat /\ date' = date + 1 /\ date + 1 \in Nat
    BY <1>1, DateIsADay, SMT DEF Midnight
  <2>2. WeeklyPeriodKey(date') = WeeklyPeriodKey(date)
          <=> WeekStart(date') = WeekStart(date)
    BY <2>1, KeysTellWeeks
  <2>3. /\ WeekStart(date') # WeekStart(date) <=> date' = NextWeeklyReset(date)
        /\ WeekStart(date') = WeekStart(date)
             => NextWeeklyReset(date') = NextWeeklyReset(date)
    BY <2>1, WeekEnds
  <2>4. FullYear(date') # FullYear(date) <=> date' = NextYearlyReset(date)
    BY <2>1, YearEnds
  <2>5. FullYear(date') = FullYear(date)
          => NextYearlyReset(date') = NextYearlyReset(date)
    BY DEF NextYearlyReset
  <2>. QED  BY <2>2, <2>3, <2>4, <2>5 DEF YearlyPeriodKey
<1>. HIDE DEF Sharp
<1>2. DateTyped /\ [Midnight]_date => [Sharp]_date
  BY <1>1
<1>3. Rollover => [][Sharp]_date
  BY <1>2, DatesTyped, PTL DEF Rollover
<1>. QED  BY <1>3 DEF ResetsAreSharp, Sharp

\* The weeks offered are whole weeks.
LEMMA Offered ==
  ASSUME NEW n \in Nat, NEW k \in Nat, k >= 1
  PROVE  /\ WeekStart(n) + 7 * (k - 1) \in Nat
         /\ WeekStart(WeekStart(n) + 7 * (k - 1)) = WeekStart(n) + 7 * (k - 1)
<1>. DEFINE m == WeekStart(n) + 7 * (k - 1)
<1>1. WeekStart(n) \in Nat /\ WeekStart(n) % 7 = 0
  BY WeekArithmetic
<1>2. m \in Nat /\ m % 7 = 0
  BY <1>1, SMT
<1>. QED  BY <1>2, MondayStarts

\* AllKeys order as days do, and the weeks offered move on one at a time.
THEOREM OffersFollowDays == Rollover => KeysFollowDays
<1>. DEFINE offered == UpcomingWeeklyPeriodKeys(HorizonWeeks, date)
            next == UpcomingWeeklyPeriodKeys(HorizonWeeks, date')
            Shift == IF WeeklyPeriodKey(date') = WeeklyPeriodKey(date)
                     THEN next = offered
                     ELSE SubSeq(next, 1, HorizonWeeks - 1) = Tail(offered)
<1>1. ASSUME DateTyped, Midnight
      PROVE  /\ offered[1] = WeeklyPeriodKey(date)
             /\ \A k \in 1..(HorizonWeeks - 1) : offered[k] < offered[k + 1]
             /\ Shift
  <2>1. /\ date \in Nat /\ date' = date + 1 /\ date + 1 \in Nat
        /\ HorizonWeeks \in Nat /\ HorizonWeeks >= 1
    BY <1>1, DateIsADay, RolloverAssumption, SMT DEF Midnight, RolloverAssumption
  <2>2. offered[1] = WeeklyPeriodKey(date)
    <3>1. offered[1] = WeeklyPeriodKey(WeekStart(date) + 7 * (1 - 1))
      BY <2>1, SMT DEF UpcomingWeeklyPeriodKeys
    <3>2. WeekStart(date) + 7 * (1 - 1) = WeekStart(date)
      BY <2>1, WeekArithmetic, SMT
    <3>3. WeekStart(date) \in Nat /\ WeekStart(WeekStart(date)) = WeekStart(date)
      BY <2>1, WeekArithmetic, MondayStarts
    <3>. QED  BY <2>1, <3>1, <3>2, <3>3, KeysTellWeeks
  <2>3. ASSUME NEW k \in 1..(HorizonWeeks - 1) PROVE offered[k] < offered[k + 1]
    <3>. DEFINE m == WeekStart(date) + 7 * (k - 1)
                o == WeekStart(date) + 7 * ((k + 1) - 1)
    <3>1. offered[k] = WeeklyPeriodKey(m) /\ offered[k + 1] = WeeklyPeriodKey(o)
      BY <2>1, SMT DEF UpcomingWeeklyPeriodKeys
    <3>2. /\ m \in Nat /\ WeekStart(m) = m /\ o \in Nat /\ WeekStart(o) = o
      <4>1. k \in Nat /\ k >= 1 /\ k + 1 \in Nat /\ k + 1 >= 1
        BY <2>1, SMT
      <4>. QED  BY <2>1, <4>1, Offered
    <3>3. m < o
      BY <2>1, WeekArithmetic, SMT
    <3>. QED  BY <3>1, <3>2, <3>3, KeysFollowWeeks
  <2>4. CASE WeeklyPeriodKey(date') = WeeklyPeriodKey(date)
    <3>1. WeekStart(date') = WeekStart(date)
      BY <2>1, <2>4, KeysTellWeeks
    <3>. QED  BY <2>2, <2>3, <2>4, <3>1 DEF UpcomingWeeklyPeriodKeys
  <2>5. CASE WeeklyPeriodKey(date') # WeeklyPeriodKey(date)
    <3>1. WeekStart(date') = WeekStart(date) + 7
      <4>1. WeekStart(date') # WeekStart(date)
        BY <2>1, <2>5, KeysTellWeeks
      <4>. QED  BY <2>1, <4>1, SMT DEF WeekStart, IsoDayOfWeek, UTCDay
    <3>2. \A k \in 1..(HorizonWeeks - 1) : next[k] = offered[k + 1]
      <4>. SUFFICES ASSUME NEW k \in 1..(HorizonWeeks - 1) PROVE next[k] = offered[k + 1]
        OBVIOUS
      <4>1. next[k] = WeeklyPeriodKey(WeekStart(date') + 7 * (k - 1))
        BY <2>1, SMT DEF UpcomingWeeklyPeriodKeys
      <4>2. offered[k + 1] = WeeklyPeriodKey(WeekStart(date) + 7 * ((k + 1) - 1))
        BY <2>1, SMT DEF UpcomingWeeklyPeriodKeys
      <4>3. WeekStart(date') + 7 * (k - 1) = WeekStart(date) + 7 * ((k + 1) - 1)
        BY <2>1, <3>1, WeekArithmetic, SMT
      <4>. QED  BY <4>1, <4>2, <4>3
    <3>. DEFINE AllKeys == { WeeklyPeriodKey(n) : n \in Nat }
    <3>3. next \in Seq(AllKeys) /\ Len(next) = HorizonWeeks
      <4>1. \A k \in 1..HorizonWeeks : WeeklyPeriodKey(WeekStart(date') + 7 * (k - 1)) \in AllKeys
        BY <2>1, Offered
      <4>. QED  BY <2>1, <4>1, SMT DEF UpcomingWeeklyPeriodKeys
    <3>4. offered \in Seq(AllKeys) /\ Len(offered) = HorizonWeeks
      <4>1. \A k \in 1..HorizonWeeks : WeeklyPeriodKey(WeekStart(date) + 7 * (k - 1)) \in AllKeys
        BY <2>1, Offered
      <4>. QED  BY <2>1, <4>1, SMT DEF UpcomingWeeklyPeriodKeys
    <3>. HIDE DEF next, offered, AllKeys
    <3>5. HorizonWeeks - 1 \in Nat /\ offered # << >>
      BY <2>1, <3>4, SMT
    <3>6. /\ SubSeq(next, 1, HorizonWeeks - 1) \in Seq(AllKeys)
          /\ Len(SubSeq(next, 1, HorizonWeeks - 1)) = HorizonWeeks - 1
          /\ \A k \in 1..(HorizonWeeks - 1) : SubSeq(next, 1, HorizonWeeks - 1)[k] = next[k]
      BY <2>1, <3>3, <3>5, SMT
    <3>7. /\ Tail(offered) \in Seq(AllKeys)
          /\ Len(Tail(offered)) = HorizonWeeks - 1
          /\ \A k \in 1..(HorizonWeeks - 1) : Tail(offered)[k] = offered[k + 1]
      BY <2>1, <3>4, <3>5, HeadTailProperties
    <3>8. SubSeq(next, 1, HorizonWeeks - 1) = Tail(offered)
      BY <3>2, <3>6, <3>7, SeqEqual
    <3>. QED  BY <2>2, <2>3, <2>5, <3>8
  <2>. QED  BY <2>2, <2>3, <2>4, <2>5
<1>2. DateTyped /\ [Midnight]_date =>
        [/\ offered[1] = WeeklyPeriodKey(date)
         /\ \A k \in 1..(HorizonWeeks - 1) : offered[k] < offered[k + 1]
         /\ Shift]_date
  BY <1>1
<1>. QED  BY <1>2, DatesTyped, PTL DEF Rollover, KeysFollowDays

----------------------------------------------------------------------------
(* ISO weeks                                                               *)
(*                                                                         *)
(* A year is longer than a week, so the year of a week's Thursday holds    *)
(* the first four days of the week or the last four, and any other year    *)
(* at most three.                                                          *)

\* Days less than a year apart lie in the same year or in neighbouring ones.
LEMMA NearYears ==
  ASSUME NEW m \in Nat, NEW n \in Nat, m <= n, n <= m + 365
  PROVE  FullYear(n) \in FullYear(m)..(FullYear(m) + 1)
<1>. DEFINE y == FullYear(m)
<1>1. /\ y \in Nat /\ y >= 1 /\ m \in Jan1(y)..Dec31(y)
      /\ FullYear(n) \in Nat /\ FullYear(n) >= 1 /\ n \in Jan1(FullYear(n))..Dec31(FullYear(n))
  BY DayInYear
<1>2. y <= FullYear(n)
  BY YearsFollowDays
<1>3. ~(y + 2 <= FullYear(n))
  <2>. SUFFICES ASSUME y + 2 <= FullYear(n) PROVE FALSE
    OBVIOUS
  <2>. HIDE DEF y
  <2>1. y + 1 \in Nat /\ y + 2 \in Nat /\ y + 1 >= 1 /\ y + 2 >= 1 /\ (y + 1) + 1 = y + 2
    BY <1>1, SMT
  <2>2. Jan1(y + 2) <= Jan1(FullYear(n))
    BY <1>1, <2>1, Jan1Monotone
  <2>3. Jan1(y + 2) - Jan1(y + 1) \in 365..366
    BY <2>1, YearLength
  <2>4. Jan1(y + 1) \in Nat /\ Jan1(y + 2) \in Nat /\ Jan1(FullYear(n)) \in Nat
    BY <1>1, <2>1, Jan1Type
  <2>. QED  BY <1>1, <2>2, <2>3, <2>4, SMT DEF Dec31
<1>. QED  BY <1>1, <1>2, <1>3, SMT

\* The first half of the week or the second lies in the year of its Thursday.
LEMMA ThursdayHalf ==
  ASSUME NEW n \in Nat, n >= 7
  PROVE  \/ \A d \in Monday(n)..(Monday(n) + 3) : FullYear(d) = FullYear(Thursday(n))
         \/ \A d \in (Monday(n) + 3)..(Monday(n) + 6) : FullYear(d) = FullYear(Thursday(n))
<1>1. PICK m \in Nat : m = Monday(n) /\ Thursday(n) = m + 3 /\ m + 3 \in Nat
  BY WeekArithmetic
<1>2. PICK z \in Nat : z = FullYear(m + 3) /\ z >= 1 /\ m + 3 \in Jan1(z)..Dec31(z)
  BY <1>1, DayInYear
<1>3. PICK j \in Nat, e \in Nat : j = Jan1(z) /\ e = Dec31(z) /\ e >= j + 364
  <2>1. z + 1 \in Nat /\ z + 1 >= 1
    BY <1>2, SMT
  <2>2. Jan1(z) \in Nat /\ Jan1(z + 1) \in Nat /\ Jan1(z + 1) - Jan1(z) \in 365..366
    BY <1>2, <2>1, Jan1Type, YearLength
  <2>3. Dec31(z) \in Nat /\ Dec31(z) >= Jan1(z) + 364
    BY <2>2, SMT DEF Dec31
  <2>. QED  BY <2>2, <2>3
<1>4. \A d \in Nat : d \in j..e => FullYear(d) = z
  BY <1>2, <1>3, YearUnique
<1>5. m + 3 \in j..e
  BY <1>2, <1>3
<1>6. CASE j <= m
  <2>1. \A d \in m..(m + 3) : d \in Nat /\ d \in j..e
    BY <1>5, <1>6, SMT
  <2>. QED  BY <1>1, <1>2, <1>4, <2>1
<1>7. CASE m < j
  <2>1. \A d \in (m + 3)..(m + 6) : d \in Nat /\ d \in j..e
    BY <1>3, <1>5, <1>7, SMT
  <2>. QED  BY <1>1, <1>2, <1>4, <2>1
<1>. QED  BY <1>6, <1>7, SMT

\* A week belongs to the year of its Thursday, the one of getIsoWeek.
LEMMA HoldsThursdays ==
  ASSUME NEW n \in Nat, n >= 7, NEW y
  PROVE  Holds(y, n) <=> y = FullYear(Thursday(n))
<1>1. PICK m \in Nat : m = Monday(n)
  BY WeekArithmetic
<1>. DEFINE days == { d \in m..(m + 6) : FullYear(d) = y }
<1>2. Holds(y, n) <=> Cardinality(days) >= 4
  BY <1>1 DEF Holds, Week
<1>3. /\ IsFiniteSet(m..(m + 6)) /\ IsFiniteSet(days) /\ Cardinality(days) \in Nat
  <2>1. IsFiniteSet(m..(m + 6))
    BY FS_Interval
  <2>. QED  BY <2>1, FS_Subset, FS_CardinalityType
<1>4. PICK a \in {m, m + 3}, b \in {m, m + 4} :
        /\ \A d \in a..(a + 3) : FullYear(d) = FullYear(Thursday(n))
        /\ \A d \in m..(m + 6) : d \notin a..(a + 3) => d \in b..(b + 2)
  <2>1. CASE \A d \in m..(m + 3) : FullYear(d) = FullYear(Thursday(n))
    <3>1. \A d \in m..(m + 6) : d \notin m..(m + 3) => d \in (m + 4)..((m + 4) + 2)
      BY SMT
    <3>. QED  BY <2>1, <3>1
  <2>2. CASE \A d \in (m + 3)..(m + 6) : FullYear(d) = FullYear(Thursday(n))
    <3>1. \A d \in m..(m + 6) : d \notin (m + 3)..((m + 3) + 3) => d \in m..(m + 2)
      BY SMT
    <3>2. (m + 3) + 3 = m + 6
      BY SMT
    <3>. QED  BY <2>2, <3>1, <3>2
  <2>. QED  BY <1>1, <2>1, <2>2, ThursdayHalf
<1>5. /\ a \in Int /\ b \in Int /\ a..(a + 3) \subseteq m..(m + 6)
      /\ Cardinality(a..(a + 3)) = 4 /\ Cardinality(b..(b + 2)) = 3
      /\ IsFiniteSet(b..(b + 2))
  <2>1. a \in Int /\ b \in Int /\ a + 3 \in Int /\ b + 2 \in Int
    BY SMT
  <2>2. /\ Cardinality(a..(a + 3)) = (IF a > a + 3 THEN 0 ELSE (a + 3) - a + 1)
        /\ Cardinality(b..(b + 2)) = (IF b > b + 2 THEN 0 ELSE (b + 2) - b + 1)
        /\ IsFiniteSet(b..(b + 2))
    BY <2>1, FS_Interval
  <2>3. Cardinality(a..(a + 3)) = 4 /\ Cardinality(b..(b + 2)) = 3
    BY <2>1, <2>2, SMT
  <2>4. a..(a + 3) \subseteq m..(m + 6)
    BY <2>1, SMT
  <2>. QED  BY <2>1, <2>2, <2>3, <2>4
<1>6. CASE y = FullYear(Thursday(n))
  <2>1. a..(a + 3) \subseteq days
    BY <1>4, <1>5, <1>6
  <2>2. Cardinality(a..(a + 3)) <= Cardinality(days)
    BY <1>3, <2>1, FS_Subset
  <2>. HIDE DEF days
  <2>. QED  BY <1>2, <1>3, <1>5, <1>6, <2>2, SMT
<1>7. CASE y # FullYear(Thursday(n))
  <2>1. days \subseteq b..(b + 2)
    BY <1>4, <1>7
  <2>2. Cardinality(days) <= Cardinality(b..(b + 2))
    BY <1>5, <2>1, FS_Subset
  <2>. HIDE DEF days
  <2>. QED  BY <1>2, <1>3, <1>5, <1>7, <2>2, SMT
<1>. QED  BY <1>6, <1>7

\* The weeks before: those of the year's earlier Thursdays, down to its first.
LEMMA WeeksOfYear ==
  ASSUME NEW n \in Nat, n >= 732
  PROVE  { k \in 0..52 : Holds(IsoYear(n), n - 7 * k) } = 0..(IsoWeek(n) - 1)
<1>1. PICK y \in Nat, w \in 1..53 : y = IsoYear(n) /\ y >= 1 /\ w = IsoWeek(n)
  BY IsoWeekBounds
<1>2. PICK j \in Nat : j = Jan1(y)
  BY <1>1, Jan1Type
<1>3. PICK f \in Nat : f = Thursday(j + 3) /\ f \in j..(j + 6)
  <2>1. j + 3 \in Nat
    BY SMT
  <2>. QED  BY <2>1, WeekArithmetic, SMT
<1>4. PICK t \in Nat : t = Thursday(n) /\ t = f + 7 * (w - 1) /\ FullYear(t) = y
  BY <1>1, <1>2, <1>3, IsoWeekBounds, WeekArithmetic DEF IsoYear
<1>5. ASSUME NEW k \in 0..52
      PROVE  Holds(y, n - 7 * k) <=> k <= w - 1
  <2>1. /\ n - 7 * k \in Nat /\ n - 7 * k >= 7
        /\ Thursday(n - 7 * k) = Thursday(n) - 7 * k
    BY SMT DEF Thursday, IsoDayOfWeek, UTCDay
  <2>2. PICK s \in Nat : s = t - 7 * k /\ s = Thursday(n - 7 * k)
    BY <1>4, <2>1, WeekArithmetic
  <2>3. Holds(y, n - 7 * k) <=> y = FullYear(s)
    BY <2>1, <2>2, HoldsThursdays
  <2>4. t <= Dec31(y) /\ Dec31(y) \in Int
    BY <1>1, <1>4, DayInYear, Jan1Type, SMT DEF Dec31
  <2>5. CASE k <= w - 1
    <3>1. s \in Jan1(y)..Dec31(y)
      BY <1>2, <1>3, <1>4, <2>2, <2>4, <2>5, SMT
    <3>. QED  BY <1>1, <2>3, <2>5, <3>1, YearUnique
  <2>6. CASE ~(k <= w - 1)
    <3>1. s < j
      BY <1>3, <1>4, <2>2, <2>6, SMT
    <3>2. y # FullYear(s)
      BY <1>2, <3>1, DayInYear, SMT
    <3>. QED  BY <2>3, <2>6, <3>2
  <2>. QED  BY <2>5, <2>6
<1>6. ASSUME NEW k PROVE k \in { i \in 0..52 : Holds(y, n - 7 * i) } <=> k \in 0..(w - 1)
  <2>1. k \in 0..(w - 1) <=> k \in 0..52 /\ k <= w - 1
    BY SMT
  <2>. QED  BY <1>5, <2>1
<1>. QED  BY <1>1, <1>6

\* The weekly key of every day is the ISO year and the ISO week of the day: the
\* two Thursdays of getIsoWeek find the year that holds most of the week and
\* count its weeks.
THEOREM WeeksAreIso == Rollover => []WeekIsIso
<1>1. ASSUME DateTyped PROVE WeekIsIso
  <2>1. PICK n \in Nat : n = date /\ n >= 732
    BY <1>1, DateIsADay
  <2>2. PICK y \in Nat, w \in 1..53 :
          y = IsoYear(n) /\ y = FullYear(Thursday(n)) /\ w = IsoWeek(n)
    BY IsoWeekBounds DEF IsoYear
  <2>3. y \in (FullYear(n) - 1)..(FullYear(n) + 1)
    <3>1. PICK t \in Nat : t = Thursday(n) /\ t \in (n - 3)..(n + 3)
      BY WeekArithmetic
    <3>2. FullYear(n) \in Nat /\ FullYear(t) \in Nat
      BY DayInYear
    <3>3. CASE n <= t
      <4>1. FullYear(t) \in FullYear(n)..(FullYear(n) + 1)
        BY <3>1, <3>3, NearYears, SMT
      <4>. QED  BY <2>2, <3>1, <3>2, <4>1, SMT
    <3>4. CASE t <= n
      <4>1. FullYear(n) \in FullYear(t)..(FullYear(t) + 1)
        BY <3>1, <3>4, NearYears, SMT
      <4>. QED  BY <2>2, <3>1, <3>2, <4>1, SMT
    <3>. QED  BY <3>3, <3>4, SMT
  <2>4. Holds(y, n)
    BY <2>1, <2>2, HoldsThursdays, SMT
  <2>5. Cardinality({ k \in 0..52 : Holds(y, n - 7 * k) }) = w
    <3>1. { k \in 0..52 : Holds(y, n - 7 * k) } = 0..(w - 1)
      BY <2>1, <2>2, WeeksOfYear
    <3>2. Cardinality(0..(w - 1)) = IF 0 > w - 1 THEN 0 ELSE (w - 1) - 0 + 1
      <4>1. 0 \in Int /\ w - 1 \in Int
        BY SMT
      <4>. QED  BY <4>1, FS_Interval
    <3>3. Cardinality(0..(w - 1)) = w
      BY <3>2, SMT
    <3>. QED  BY <3>1, <3>3
  <2>6. WeeklyPeriodKey(n) = 100 * y + w
    BY <2>2 DEF WeeklyPeriodKey, WeeklyKey
  <2>. QED  BY <2>1, <2>3, <2>4, <2>5, <2>6 DEF WeekIsIso
<1>. QED  BY <1>1, DatesTyped, PTL

----------------------------------------------------------------------------
(* The calendar of RateLimit                                               *)
(*                                                                         *)
(* RateLimit takes its weeks and years as constants.  What it assumes of   *)
(* them holds of the keys Period computes for any run of days, and the     *)
(* weeks it lets be topped up are those Period lists.                      *)

\* The days of years with four digits, as the formats YYYY-Www and YYYY ask.
FourDigitDays == Jan1(1000)..Dec31(9999)

\* Such days have keys of weeks above every key of a year.
LEMMA FourDigitKeys ==
  ASSUME NEW d \in FourDigitDays
  PROVE  /\ d \in Nat /\ d >= 732
         /\ FullYear(d) \in Nat /\ FullYear(d) <= 9999
         /\ WeeklyPeriodKey(d) \in Nat /\ WeeklyPeriodKey(d) > 9999
<1>1. /\ Jan1(999) \in Nat /\ Jan1(1000) \in Nat /\ Dec31(9999) \in Nat
      /\ Jan1(999) + 365 <= Jan1(1000) /\ 735 <= Jan1(999)
      /\ Jan1(1000) <= Dec31(1000) /\ Dec31(1000) \in Nat
      /\ Jan1(9999) <= Dec31(9999) /\ Jan1(9999) \in Nat
  BY SMT DEF Jan1, Dec31
<1>2. FullYear(Jan1(999)) = 999 /\ FullYear(Jan1(1000)) = 1000 /\ FullYear(Dec31(9999)) = 9999
  <2>1. Jan1(999) \in Jan1(999)..Dec31(999)
    BY SMT DEF Jan1, Dec31
  <2>2. Jan1(1000) \in Jan1(1000)..Dec31(1000) /\ Dec31(9999) \in Jan1(9999)..Dec31(9999)
    BY <1>1, SMT
  <2>. QED  BY <1>1, <2>1, <2>2, YearUnique
<1>3. d \in Nat /\ d >= 732 /\ Jan1(1000) <= d /\ d <= Dec31(9999)
  BY <1>1, SMT DEF FourDigitDays
<1>4. FullYear(d) \in Nat /\ FullYear(d) <= 9999
  BY <1>1, <1>2, <1>3, YearsFollowDays, DayInYear
<1>5. Thursday(d) \in Nat /\ Jan1(999) <= Thursday(d)
  BY <1>1, <1>3, WeekArithmetic, SMT
<1>6. IsoYear(d) \in Nat /\ IsoYear(d) >= 999 /\ IsoWeek(d) \in 1..53
  BY <1>1, <1>2, <1>3, <1>5, YearsFollowDays, IsoWeekBounds, SMT DEF IsoYear
<1>7. WeeklyPeriodKey(d) \in Nat /\ WeeklyPeriodKey(d) > 9999
  BY <1>6, SMT DEF WeeklyPeriodKey, WeeklyKey
<1>. QED  BY <1>3, <1>4, <1>7

\* The weeks of later days start later, and at a whole number of weeks.
LEMMA StartsFollowDays ==
  ASSUME NEW m \in Nat, NEW n \in Nat
  PROVE  /\ m <= n => WeekStart(m) <= WeekStart(n)
         /\ WeekStart(m) <= WeekStart(n) =>
              \E k \in Nat : WeekStart(n) = WeekStart(m) + 7 * k
<1>1. PICK a \in Nat, b \in Nat : /\ a = WeekStart(m) /\ a % 7 = 0 /\ a \in (m - 6)..m
                                  /\ b = WeekStart(n) /\ b % 7 = 0 /\ b \in (n - 6)..n
  BY WeekArithmetic
<1>2. m <= n => a <= b
  BY <1>1, SMT
<1>3. a <= b => (b - a) \div 7 \in Nat /\ b = a + 7 * ((b - a) \div 7)
  BY <1>1, SMT
<1>. QED  BY <1>1, <1>2, <1>3

\* A week overlaps the year of each of its days.
LEMMA WeekOverlapsYear ==
  ASSUME NEW d \in Nat
  PROVE  WeeklyPeriodKey(d) \in WeeklyPeriodKeysOverlapping(FullYear(d))
<1>. DEFINE monday == WeekStart(d)
<1>1. monday \in Nat /\ WeekStart(monday) = monday
  BY WeekArithmetic, MondayStarts
<1>2. FullYear(d) \in Nat /\ FullYear(d) >= 1
  BY DayInYear
<1>3. monday \in MondaysFrom(Jan1(FullYear(d)), Dec31(FullYear(d)))
  BY <1>1, <1>2, MondaysOverlap
<1>4. WeeklyPeriodKey(monday) = WeeklyPeriodKey(d)
  BY <1>1, KeysTellWeeks
<1>. QED  BY <1>3, <1>4 DEF WeeklyPeriodKeysOverlapping

\* The weeks and the years of consecutive days.
WeeksOf(first, until) == { WeeklyPeriodKey(d) : d \in first..until }
YearsOf(first, until) == { YearlyPeriodKey(d) : d \in first..until }

\* The keys of any days, four-digit years given, are a calendar as RateLimit
\* assumes it, with the weeks up to a later day still to be topped up:
\* getCurrentPeriodKeys and listWeeklyPeriodKeysOverlappingYearlyPeriod agree.
THEOREM PeriodKeysAreACalendar ==
  ASSUME NEW first \in FourDigitDays, NEW until \in FourDigitDays,
         NEW last \in Nat, first + last <= until
  PROVE  IsCalendar(last,
                    [d \in 0..last |-> WeeklyPeriodKey(first + d)],
                    [d \in 0..last |-> YearlyPeriodKey(first + d)],
                    WeeksOf(first, until), YearsOf(first, until),
                    [y \in YearsOf(first, until) |->
                       WeeksOf(first, until) \cap WeeklyPeriodKeysOverlapping(y)])
<1>. DEFINE weeks == WeeksOf(first, until)
            years == YearsOf(first, until)
            weekOf == [d \in 0..last |-> WeeklyPeriodKey(first + d)]
            yearOf == [d \in 0..last |-> YearlyPeriodKey(first + d)]
            overlapping == [y \in years |-> weeks \cap WeeklyPeriodKeysOverlapping(y)]
<1>1. first \in Nat /\ until \in Nat
  BY FourDigitKeys
<1>2. ASSUME NEW d \in first..until PROVE d \in FourDigitDays
  <2>1. PICK lo \in Int, hi \in Int : lo = Jan1(1000) /\ hi = Dec31(9999)
    BY SMT DEF Jan1, Dec31
  <2>2. lo <= first /\ until <= hi
    BY <2>1 DEF FourDigitDays
  <2>3. d \in lo..hi
    BY <1>1, <2>2, SMT
  <2>. QED  BY <2>1, <2>3 DEF FourDigitDays
<1>3. ASSUME NEW d \in 0..last PROVE first + d \in first..until
  BY <1>1, SMT
<1>4. weeks \subseteq Nat /\ \A w \in weeks : w > 9999
  BY <1>2, FourDigitKeys DEF WeeksOf
<1>5. years \subseteq Nat /\ \A y \in years : y <= 9999
  <2>1. ASSUME NEW d \in first..until
        PROVE  YearlyPeriodKey(d) \in Nat /\ YearlyPeriodKey(d) <= 9999
    BY <1>2, FourDigitKeys DEF YearlyPeriodKey
  <2>. QED  BY <2>1 DEF YearsOf
<1>6. weeks \cap years = {}
  BY <1>4, <1>5, SMT
<1>7. /\ weekOf \in [0..last -> weeks] /\ yearOf \in [0..last -> years]
      /\ overlapping \in [years -> SUBSET weeks]
  BY <1>3 DEF WeeksOf, YearsOf
<1>8. ASSUME NEW d \in 0..last PROVE weekOf[d] \in overlapping[yearOf[d]]
  <2>1. PICK n \in Nat : n = first + d /\ n \in first..until
    BY <1>1, <1>3, SMT
  <2>2. weekOf[d] = WeeklyPeriodKey(n) /\ yearOf[d] = FullYear(n)
    BY <2>1 DEF YearlyPeriodKey
  <2>3. WeeklyPeriodKey(n) \in weeks /\ FullYear(n) \in years
    BY <2>1 DEF YearlyPeriodKey, WeeksOf, YearsOf
  <2>. HIDE DEF weeks, years, weekOf, yearOf
  <2>. QED  BY <2>2, <2>3, WeekOverlapsYear
<1>9. ASSUME NEW d \in 0..last, NEW e \in 0..last, d <= e
      PROVE  weekOf[d] <= weekOf[e] /\ yearOf[d] <= yearOf[e]
  <2>1. PICK m \in Nat, n \in Nat : m = first + d /\ n = first + e /\ m <= n
    BY <1>1, <1>9, SMT
  <2>2. WeeklyPeriodKey(m) <= WeeklyPeriodKey(n)
    <3>1. WeekStart(m) \in Nat /\ WeekStart(n) \in Nat /\ WeekStart(m) <= WeekStart(n)
      BY <2>1, StartsFollowDays, WeekArithmetic
    <3>2. WeekStart(m) = WeekStart(n) \/ WeekStart(m) < WeekStart(n)
      BY <3>1, SMT
    <3>. QED  BY <3>2, KeysFollowWeeks, SMT
  <2>3. FullYear(m) <= FullYear(n)
    BY <2>1, YearsFollowDays
  <2>. QED  BY <2>1, <2>2, <2>3 DEF YearlyPeriodKey
<1>. HIDE DEF weeks, years, weekOf, yearOf, overlapping
<1>10. IsCalendar(last, weekOf, yearOf, weeks, years, overlapping)
  BY <1>4, <1>5, <1>6, <1>7, <1>8, <1>9 DEF IsCalendar
<1>. QED  BY <1>10 DEF weeks, years, weekOf, yearOf, overlapping

\* Those keys from one up to another.
Span(keys, low, high) == { v \in keys : low <= v /\ v < high }

\* Among the keys of consecutive days, those from one week up to another number
\* the weeks between them.
LEMMA KeysBetween ==
  ASSUME NEW first \in Nat, NEW until \in Nat, NEW n \in first..until, NEW k \in Nat,
         NEW d \in first..until, WeekStart(d) = WeekStart(n) + 7 * k
  PROVE  Cardinality(Span(WeeksOf(first, until), WeeklyPeriodKey(n), WeeklyPeriodKey(d))) = k
<1>. DEFINE keys == WeeksOf(first, until)
            between == Span(keys, WeeklyPeriodKey(n), WeeklyPeriodKey(d))
            nth == [i \in 0..(k - 1) |-> WeeklyPeriodKey(WeekStart(n) + 7 * i)]
<1>1. n \in Nat /\ d \in Nat
  BY SMT
<1>2. PICK s \in Nat : s = WeekStart(n) /\ s % 7 = 0 /\ s \in (n - 6)..n
  BY <1>1, WeekArithmetic
<1>3. PICK t \in Nat : t = WeekStart(d) /\ t = s + 7 * k /\ t \in (d - 6)..d
  BY <1>1, <1>2, WeekArithmetic
<1>4. ASSUME NEW i \in 0..(k - 1)
      PROVE  /\ s + 7 * i \in Nat /\ WeekStart(s + 7 * i) = s + 7 * i
             /\ s <= s + 7 * i /\ s + 7 * i < t
             /\ nth[i] = WeeklyPeriodKey(s + 7 * i)
             /\ nth[i] \in between
  <2>1. s + 7 * i \in Nat /\ (s + 7 * i) % 7 = 0 /\ s <= s + 7 * i /\ s + 7 * i < t
    BY <1>2, <1>3, SMT
  <2>2. PICK m \in Nat : m = s + 7 * i /\ WeekStart(m) = m /\ s <= m /\ m < t
    BY <2>1, MondayStarts
  <2>3. WeeklyPeriodKey(m) \in keys
    <3>1. CASE i = 0
      <4>1. m = s
        BY <1>2, <2>2, <3>1, SMT
      <4>2. WeeklyPeriodKey(m) = WeeklyPeriodKey(n)
        BY <1>1, <1>2, <2>2, <4>1, KeysTellWeeks
      <4>. QED  BY <4>2 DEF WeeksOf
    <3>2. CASE i # 0
      <4>1. m \in first..until
        BY <1>1, <1>2, <1>3, <2>2, <3>2, SMT
      <4>. QED  BY <4>1 DEF WeeksOf
    <3>. QED  BY <3>1, <3>2
  <2>4. WeeklyPeriodKey(n) <= WeeklyPeriodKey(m) /\ WeeklyPeriodKey(m) < WeeklyPeriodKey(d)
    <3>1. WeekStart(m) = WeekStart(n) \/ WeekStart(n) < WeekStart(m)
      BY <1>2, <2>2, SMT
    <3>2. WeekStart(m) < WeekStart(d)
      BY <1>3, <2>2
    <3>. QED  BY <1>1, <3>1, <3>2, KeysFollowWeeks, SMT
  <2>5. nth[i] = WeeklyPeriodKey(m)
    BY <1>2, <2>2
  <2>. HIDE DEF keys, nth
  <2>. QED  BY <2>1, <2>2, <2>3, <2>4, <2>5 DEF Span
<1>5. ASSUME NEW v \in between PROVE \E i \in 0..(k - 1) : nth[i] = v
  <2>1. PICK e \in first..until :
          v = WeeklyPeriodKey(e) /\ WeeklyPeriodKey(n) <= v /\ v < WeeklyPeriodKey(d)
    BY DEF Span, WeeksOf
  <2>2. e \in Nat
    BY <2>1, SMT
  <2>3. PICK u \in Nat : u = WeekStart(e)
    BY <2>2, WeekArithmetic
  <2>4. s <= u /\ u < t
    <3>1. WeeklyPeriodKey(e) \in Nat /\ WeeklyPeriodKey(n) \in Nat /\ WeeklyPeriodKey(d) \in Nat
      BY <1>1, <2>2, KeysFollowWeeks
    <3>2. ~(u < s) /\ ~(t < u)
      BY <1>1, <1>2, <1>3, <2>1, <2>2, <2>3, <3>1, KeysFollowWeeks, SMT
    <3>3. u # t
      BY <1>1, <1>3, <2>1, <2>2, <2>3, <3>1, KeysFollowWeeks, SMT
    <3>. QED  BY <1>2, <1>3, <2>3, <3>2, <3>3, SMT
  <2>5. PICK i \in Nat : u = s + 7 * i
    BY <1>1, <1>2, <2>2, <2>3, <2>4, StartsFollowDays
  <2>6. i \in 0..(k - 1)
    BY <1>3, <2>4, <2>5, SMT
  <2>7. WeekStart(s + 7 * i) = u /\ s + 7 * i \in Nat
    BY <1>4, <2>5, <2>6
  <2>8. nth[i] = v
    BY <1>4, <2>1, <2>2, <2>3, <2>6, <2>7, KeysTellWeeks
  <2>. QED  BY <2>6, <2>8
<1>6. ASSUME NEW i \in 0..(k - 1), NEW j \in 0..(k - 1), nth[i] = nth[j] PROVE i = j
  <2>1. WeekStart(s + 7 * i) = WeekStart(s + 7 * j)
    BY <1>4, <1>6, KeysTellWeeks
  <2>2. s + 7 * i = s + 7 * j
    BY <1>4, <2>1
  <2>. QED  BY <1>2, <2>2, SMT
<1>7. nth \in [0..(k - 1) -> between]
  <2>. HIDE DEF between
  <2>1. \A i \in 0..(k - 1) : nth[i] \in between
    BY <1>4
  <2>. QED  BY <2>1
<1>. HIDE DEF keys, between, nth
<1>8. nth \in Bijection(0..(k - 1), between)
  BY <1>5, <1>6, <1>7, Fun_IsBij
<1>9. IsFiniteSet(0..(k - 1)) /\ Cardinality(0..(k - 1)) = k
  <2>1. k - 1 \in Int /\ 0 \in Int
    BY SMT
  <2>2. IsFiniteSet(0..(k - 1)) /\ Cardinality(0..(k - 1)) = IF 0 > k - 1 THEN 0 ELSE (k - 1) - 0 + 1
    BY <2>1, FS_Interval
  <2>. QED  BY <2>2, SMT
<1>10. Cardinality(between) = k
  BY <1>8, <1>9, FS_Bijection DEF ExistsBijection
<1>. QED  BY <1>10 DEF between, keys

\* The weeks RateLimit lets be topped up on a day are the ones listed for it
\* (listUpcomingWeeklyPeriodKeys), where its calendar reaches far enough.
THEOREM UpcomingWeeksAreListed ==
  ASSUME NEW first \in Nat, NEW until \in Nat, NEW day \in Day,
         Weeks = WeeksOf(first, until),
         WeekOf[day] = WeeklyPeriodKey(first + day),
         first + day + 7 * Horizon <= until
  PROVE  UpcomingWeeks(day) =
           { UpcomingWeeklyPeriodKeys(Horizon, first + day)[k] : k \in 1..Horizon }
<1>0. Horizon \in Nat /\ Horizon >= 1 /\ day \in Nat
  BY BoundsAssumption, Calendar, SMT DEF Day
<1>1. PICK n \in Nat : n = first + day /\ n \in first..until /\ n + 7 * Horizon <= until
  BY <1>0, SMT
<1>2. PICK s \in Nat : s = WeekStart(n) /\ s \in (n - 6)..n
  BY <1>1, WeekArithmetic
<1>. DEFINE listed == UpcomingWeeklyPeriodKeys(Horizon, n)
<1>3. ASSUME NEW k \in 1..Horizon PROVE listed[k] = WeeklyPeriodKey(s + 7 * (k - 1))
  BY <1>2 DEF UpcomingWeeklyPeriodKeys
<1>. HIDE DEF listed
<1>4. ASSUME NEW w \in UpcomingWeeks(day) PROVE \E k \in 1..Horizon : w = listed[k]
  <2>1. /\ w \in Weeks /\ WeeklyPeriodKey(n) <= w
        /\ Cardinality(Span(Weeks, WeeklyPeriodKey(n), w)) < Horizon
    BY <1>1 DEF UpcomingWeeks, Span
  <2>2. PICK d \in first..until : w = WeeklyPeriodKey(d)
    BY <2>1 DEF WeeksOf
  <2>3. d \in Nat /\ WeekStart(d) \in Nat
    BY <2>2, WeekArithmetic, SMT
  <2>4. s <= WeekStart(d)
    <3>1. WeeklyPeriodKey(d) \in Nat /\ WeeklyPeriodKey(n) \in Nat
      BY <1>1, <2>3, KeysFollowWeeks
    <3>. QED  BY <1>1, <1>2, <2>1, <2>2, <2>3, <3>1, KeysFollowWeeks, SMT
  <2>5. PICK k \in Nat : WeekStart(d) = s + 7 * k
    BY <1>1, <1>2, <2>3, <2>4, StartsFollowDays
  <2>6. Cardinality(Span(Weeks, WeeklyPeriodKey(n), w)) = k
    <3>1. WeekStart(d) = WeekStart(n) + 7 * k
      BY <1>2, <2>5
    <3>. QED  BY <1>1, <2>2, <3>1, KeysBetween
  <2>7. k + 1 \in 1..Horizon /\ (k + 1) - 1 = k
    BY <1>0, <2>1, <2>5, <2>6, SMT
  <2>8. s + 7 * k \in Nat /\ WeekStart(s + 7 * k) = s + 7 * k
    <3>1. (s + 7 * k) % 7 = 0 /\ s + 7 * k \in Nat
      BY <1>2, <2>3, <2>5, WeekArithmetic
    <3>. QED  BY <3>1, MondayStarts
  <2>9. WeeklyPeriodKey(s + 7 * k) = w
    BY <2>2, <2>3, <2>5, <2>8, KeysTellWeeks
  <2>. QED  BY <1>3, <2>7, <2>9
<1>5. ASSUME NEW k \in 1..Horizon PROVE listed[k] \in UpcomingWeeks(day)
  <2>1. PICK i \in Nat : i = k - 1 /\ i < Horizon
    BY <1>0, SMT
  <2>2. PICK m \in Nat : m = s + 7 * i /\ WeekStart(m) = m /\ listed[k] = WeeklyPeriodKey(m)
    <3>1. k \in Nat /\ k >= 1
      BY SMT
    <3>. QED  BY <1>1, <1>2, <1>3, <2>1, <3>1, Offered
  <2>3. PICK d \in first..until : WeekStart(d) = m
    <3>1. CASE i = 0
      BY <1>1, <1>2, <2>2, <3>1, SMT
    <3>2. CASE i # 0
      <4>1. m \in first..until
        BY <1>0, <1>1, <1>2, <2>1, <2>2, <3>2, SMT
      <4>. QED  BY <2>2, <4>1
    <3>. QED  BY <3>1, <3>2
  <2>4. d \in Nat /\ WeeklyPeriodKey(d) = WeeklyPeriodKey(m)
    <3>1. d \in Nat
      BY <2>3, SMT
    <3>. QED  BY <2>2, <2>3, <3>1, KeysTellWeeks
  <2>5. WeeklyPeriodKey(n) <= WeeklyPeriodKey(m)
    <3>1. WeekStart(m) = WeekStart(n) \/ WeekStart(n) < WeekStart(m)
      BY <1>2, <2>1, <2>2, SMT
    <3>. QED  BY <1>1, <3>1, KeysFollowWeeks, SMT
  <2>6. Cardinality(Span(Weeks, WeeklyPeriodKey(n), listed[k])) = i
    <3>1. WeekStart(d) = WeekStart(n) + 7 * i
      BY <1>2, <2>2, <2>3
    <3>. QED  BY <1>1, <2>2, <2>4, <3>1, KeysBetween
  <2>7. listed[k] \in Weeks
    BY <2>2, <2>3, <2>4 DEF WeeksOf
  <2>8. WeekOf[day] = WeeklyPeriodKey(n)
    BY <1>1
  <2>. QED  BY <2>1, <2>2, <2>5, <2>6, <2>7, <2>8 DEF UpcomingWeeks, Span
<1>6. UpcomingWeeks(day) = { listed[k] : k \in 1..Horizon }
  BY <1>4, <1>5
<1>. QED  BY <1>1, <1>6 DEF listed
============================================================================
