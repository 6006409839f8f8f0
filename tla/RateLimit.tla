----------------------------- MODULE RateLimit -----------------------------
(***************************************************************************)
(* Per-project execution rate limiting: the workflow.preExecute hook, the  *)
(* check ProjectRateLimitService.enforceExecution makes over the custom    *)
(* database, the counters it charges, and the admin operations that change *)
(* limits and top-ups meanwhile.                                           *)
(*                                                                         *)
(* A slot is one place in which an execution can be in the hook; slots run *)
(* concurrently, in one process or several.  Every await of the source is  *)
(* a point where other slots, admins and the calendar may move, so every   *)
(* query is one action.  A query may fail at any of them: the hook fails   *)
(* open.  Exempt modes touch nothing and are not modelled.                 *)
(***************************************************************************)
EXTENDS RateLimitPolicy, FiniteSets, FiniteSetsExt

CONSTANTS
  Slots,          \* concurrent executions in the hook
  Projects, Workflows,
  SharedWith,     \* [Workflows -> SUBSET Projects], n8n's shared_workflow
  KindOf,         \* [Projects -> Kind]
  QueueMode,      \* EXECUTIONS_MODE = 'queue'
  Deployments,    \* sets of processes that may have a CUSTOM_DATABASE_URL
  LastDay, WeekOf, YearOf,    \* the calendar: days and their period keys
  Weeks, Years,
  WeeksOverlapping,           \* [Years -> SUBSET Weeks]
  Horizon,        \* MAX_TOPUP_HORIZON_WEEKS
  Int4Max,        \* largest value of a Postgres integer
  LimitBodies,    \* admissible bodies of a limits update
  DefaultsBodies, \* admissible bodies of a defaults update
  TopupAmounts, InitialTopups,
  MaxExecutions, MaxEdits                     \* bounds of the model

Day == 0..LastDay
PeriodKey == Weeks \cup Years
PeriodKeys ==
  { key \in [PeriodType -> PeriodKey] : key["weekly"] \in Weeks /\ key["yearly"] \in Years }
Kind == {"team", "personal"}
Topup == [id : Int, project : Projects, week : Weeks, amount : Nat]
Request == [op : {"create", "delete"}, row : Topup]
Procs == IF QueueMode THEN {"main", "worker"} ELSE {"main"}

\* What the model asks of period keys: those of weeks are not those of years, they
\* order as days do, and a day's week overlaps its year.
IsCalendar(last, weekOf, yearOf, weeks, years, overlapping) ==
  /\ last \in Nat
  /\ weeks \subseteq Nat /\ years \subseteq Nat /\ weeks \cap years = {}
  /\ weekOf \in [0..last -> weeks] /\ yearOf \in [0..last -> years]
  /\ overlapping \in [years -> SUBSET weeks]
  /\ \A d \in 0..last : weekOf[d] \in overlapping[yearOf[d]]
  /\ \A d, e \in 0..last : d <= e => weekOf[d] <= weekOf[e] /\ yearOf[d] <= yearOf[e]

ASSUME SlotsAssumption == IsFiniteSet(Slots) /\ Slots # {}
ASSUME SharingAssumption ==
  /\ IsFiniteSet(Workflows)
  /\ SharedWith \in [Workflows -> SUBSET Projects]
  /\ KindOf \in [Projects -> Kind]
ASSUME ModeAssumption == QueueMode \in BOOLEAN /\ Deployments \subseteq SUBSET Procs
ASSUME CalendarAssumption ==
  IsCalendar(LastDay, WeekOf, YearOf, Weeks, Years, WeeksOverlapping)
ASSUME BodiesAssumption ==
  /\ LimitBodies \subseteq Config
  /\ DefaultsBodies \subseteq [Kind -> ScopeDefaults]
ASSUME BoundsAssumption ==
  /\ Int4Max \in Nat /\ Horizon \in Nat \ {0}
  /\ TopupAmounts \subseteq Nat \ {0}
  /\ \A rows \in InitialTopups : rows \subseteq Topup /\ IsFiniteSet(rows)
  /\ MaxExecutions \in Nat /\ MaxEdits \in Nat

VARIABLES
  today,      \* the calendar day in the period timezone
  config,     \* project_rate_limit
  defaults,   \* project_rate_limit_default, both scopes
  topups,     \* project_topup rows
  usage,      \* project_execution_usage
  wfUsage,    \* workflow_execution_usage
  database,   \* the processes with a database URL, fixed at deployment
  service,    \* each process's memoized service
  pc, job,    \* where each slot is and what it has read
  requests,   \* top-up requests between their validation and their write
  executions, edits,   \* how much of the bounds is used
  charged,    \* history: charges made by the execution in each slot
  peak,       \* history: largest limit a charged run was admitted under
  torn        \* history: runs charged to the project but not the workflow

dbVars == <<config, defaults, topups>>
counterVars == <<usage, wfUsage>>
historyVars == <<charged, peak, torn>>
vars == <<today, dbVars, counterVars, database, service, pc, job, requests, executions,
          edits, historyVars>>

----------------------------------------------------------------------------
(* The calendar and the top-up sums *)

Keys(day) ==
  [t \in PeriodType |-> IF t = "weekly" THEN WeekOf[day] ELSE YearOf[day]]

\* The weeks whose top-ups raise the limit of a period.
WeeksRaising(t, key) == IF t = "weekly" THEN {key} ELSE WeeksOverlapping[key]

TopupSum(project, weeks) ==
  MapThenSumSet(LAMBDA row : row.amount,
                { row \in topups : row.project = project /\ row.week \in weeks })

UpcomingWeeks(day) ==
  { w \in Weeks : /\ WeekOf[day] <= w
                  /\ Cardinality({ v \in Weeks : WeekOf[day] <= v /\ v < w }) < Horizon }

----------------------------------------------------------------------------
(* What a slot knows *)

Resting == {"idle", "rejected"}
Reading == {"config", "counts", "defaults", "topups"}
Charging == {"weekly", "yearly", "wfWeekly", "wfYearly"}
Querying == Reading \cup Charging

\* Of a check in progress, of an execution waiting for a worker, of neither.
RunJob == [workflow : Workflows, proc : Procs, project : Projects,
           config : Config, key : PeriodKeys,
           count : [PeriodType -> Nat], base : ScopeDefaults,
           raise : [PeriodType -> Nat], unread : SUBSET PeriodType]
QueuedJob == [workflow : Workflows]
NoJob == <<>>

NewJob(wf, proc, project) ==
  [workflow |-> wf, proc |-> proc, project |-> project, config |-> Unconfigured,
   key |-> Keys(today), count |-> [t \in PeriodType |-> 0], base |-> NoDefaults,
   raise |-> [t \in PeriodType |-> 0], unread |-> {}]

\* The limit a run's count is compared with; NoLimit for an uncapped period.
\* (Mutants: without the period's top-ups; with those of the other period too.)
LimitWithoutTopups(j, t) == j.base[t]
LimitWithAllTopups(j, t) ==
  IF j.base[t] = NoLimit THEN NoLimit
  ELSE j.base[t] + j.raise["weekly"] + j.raise["yearly"]
EffectiveLimit(j, t) ==
  IF j.base[t] = NoLimit THEN NoLimit ELSE j.base[t] + j.raise[t]

Breached(j, t) ==
  j.base[t] # NoLimit /\ Reached(j.count[t], EffectiveLimit(j, t))

\* Only the process that runs the execution counts it.  (Mutant: each does.)
EveryProcessCounts(proc) == TRUE
CountsUsage(proc) == ~QueueMode \/ proc = "worker"

\* The hook lets the execution pass: on to a worker, or to run (the slot is
\* free for another execution).  (Mutant: what the check read outlives it.)
LetPassKeepingJob(s, wf, proc) ==
  /\ pc' = [pc EXCEPT ![s] = "idle"]
  /\ UNCHANGED <<job, charged>>

LetPass(s, wf, proc) ==
  IF QueueMode /\ proc = "main"
  THEN /\ pc' = [pc EXCEPT ![s] = "queued"]
       /\ job' = [job EXCEPT ![s] = [workflow |-> wf]]
       /\ UNCHANGED charged
  ELSE /\ pc' = [pc EXCEPT ![s] = "idle"]
       /\ job' = [job EXCEPT ![s] = NoJob]
       /\ charged' = [charged EXCEPT ![s] = 0]

----------------------------------------------------------------------------
SlotsTyped ==
  /\ pc \in [Slots -> Resting \cup Querying \cup {"decide", "queued"}]
  /\ job \in [Slots -> {NoJob} \cup QueuedJob \cup RunJob]
  /\ \A s \in Slots :
       /\ pc[s] \in Resting => job[s] = NoJob
       /\ pc[s] = "queued" => job[s] \in QueuedJob
       /\ pc[s] \in Querying \cup {"decide"} => job[s] \in RunJob

\* Tables, counters and what each slot has read keep their shape: an execution that
\* is let pass, rejected or fails open leaves nothing of its check behind.
TypeOK ==
  /\ today \in Day
  /\ config \in [Projects -> Config]
  /\ defaults \in [Kind -> ScopeDefaults]
  /\ topups \subseteq Topup
  /\ usage \in [Projects -> [PeriodKey -> Nat]]
  /\ wfUsage \in [Projects -> [Workflows -> [PeriodKey -> Nat]]]
  /\ database \subseteq Procs
  /\ service \in [Procs -> {"unbuilt", "ready", "disabled"}]
  /\ SlotsTyped
  /\ requests \subseteq Request
  /\ executions \in Nat /\ edits \in Nat
  /\ charged \in [Slots -> Nat]
  /\ peak \in [Projects -> [PeriodKey -> Limit]]
  /\ torn \in [Projects -> [PeriodKey -> Nat]]

Init ==
  /\ today = 0
  /\ config \in [Projects -> { Normalized(b) : b \in LimitBodies }]
  /\ defaults \in DefaultsBodies
  /\ topups \in InitialTopups
  /\ usage = [p \in Projects |-> [k \in PeriodKey |-> 0]]
  /\ wfUsage = [p \in Projects |-> [w \in Workflows |-> [k \in PeriodKey |-> 0]]]
  /\ database \in Deployments
  /\ service = [c \in Procs |-> "unbuilt"]
  /\ pc = [s \in Slots |-> "idle"]
  /\ job = [s \in Slots |-> NoJob]
  /\ requests = {}
  /\ executions = 0 /\ edits = 0
  /\ charged = [s \in Slots |-> 0]
  /\ peak = [p \in Projects |-> [k \in PeriodKey |-> 0]]
  /\ torn = [p \in Projects |-> [k \in PeriodKey |-> 0]]

----------------------------------------------------------------------------
(* The hook and its check, one action per await *)

\* An execution reaches the hook: a new one in some process, or one that main
\* let pass and a worker now picks up.
Fires(s, wf, proc) ==
  \/ /\ pc[s] \in Resting
     /\ executions < MaxExecutions
     /\ executions' = executions + 1
  \/ /\ pc[s] = "queued"
     /\ proc = "worker" /\ wf = job[s].workflow
     /\ UNCHANGED executions

ServiceResolves(proc) ==
  \/ service[proc] = "ready"
  \/ service[proc] = "unbuilt" /\ proc \in database

\* The service resolves and the workflow's project is found: the check begins.
BeginCheck(s, wf, proc) ==
  /\ Fires(s, wf, proc)
  /\ ServiceResolves(proc)
  /\ service' = [service EXCEPT ![proc] = "ready"]
  /\ \E p \in SharedWith[wf] : job' = [job EXCEPT ![s] = NewJob(wf, proc, p)]
  /\ pc' = [pc EXCEPT ![s] = "config"]
  /\ UNCHANGED <<today, dbVars, counterVars, database, requests, edits, historyVars>>

\* The hook returns without enforcing: this process has no database URL and
\* remembers so, or building the service failed and the next execution tries
\* again, or no project shares the workflow.
BypassCheck(s, wf, proc) ==
  /\ Fires(s, wf, proc)
  /\ \/ /\ service[proc] = "disabled" \/ proc \notin database
        /\ service' = [service EXCEPT ![proc] = "disabled"]
     \/ /\ service[proc] = "unbuilt" /\ proc \in database
        /\ UNCHANGED service
     \/ /\ ServiceResolves(proc) /\ SharedWith[wf] = {}
        /\ service' = [service EXCEPT ![proc] = "ready"]
  /\ LetPass(s, wf, proc)
  /\ UNCHANGED <<today, dbVars, counterVars, database, requests, edits, peak, torn>>

\* The configuration arrives and the period keys are taken from the clock.
ReadConfig(s) ==
  /\ pc[s] = "config"
  /\ job' = [job EXCEPT ![s] =
       [@ EXCEPT !.config = config[job[s].project], !.key = Keys(today)]]
  /\ pc' = [pc EXCEPT ![s] = "counts"]
  /\ UNCHANGED <<today, dbVars, counterVars, database, service, requests,
                 executions, edits, historyVars>>

\* Where the check goes once the base limits are known.
AfterBase(base) ==
  IF \E t \in PeriodType : base[t] # NoLimit THEN "topups" ELSE "decide"

WithBase(j, base) ==
  [j EXCEPT !.base = base, !.unread = { t \in PeriodType : base[t] # NoLimit }]

\* One query returns both counters of the captured periods.
ReadCounts(s) ==
  LET own == OwnLimits(job[s].config)
      counts == [t \in PeriodType |-> usage[job[s].project][job[s].key[t]]]
      counted == [job[s] EXCEPT !.count = counts]
  IN  /\ pc[s] = "counts"
      /\ IF NeedsDefaults(own)
         THEN /\ job' = [job EXCEPT ![s] = counted]
              /\ pc' = [pc EXCEPT ![s] = "defaults"]
         ELSE /\ job' = [job EXCEPT ![s] = WithBase(counted, own)]
              /\ pc' = [pc EXCEPT ![s] = AfterBase(own)]
      /\ UNCHANGED <<today, dbVars, counterVars, database, service, requests,
                     executions, edits, historyVars>>

\* The scope's defaults fill the periods the project leaves unset.
ReadDefaults(s) ==
  LET base == WithDefaults(OwnLimits(job[s].config),
                           defaults[KindOf[job[s].project]])
  IN  /\ pc[s] = "defaults"
      /\ job' = [job EXCEPT ![s] = WithBase(job[s], base)]
      /\ pc' = [pc EXCEPT ![s] = AfterBase(base)]
      /\ UNCHANGED <<today, dbVars, counterVars, database, service, requests,
                     executions, edits, historyVars>>

\* One of the two concurrent top-up queries answers; a sum that does not fit
\* the ::int cast is a failed query (Outage).
ReadTopups(s, t) ==
  LET sum == TopupSum(job[s].project, WeeksRaising(t, job[s].key[t]))
      unread == job[s].unread \ {t}
  IN  /\ pc[s] = "topups" /\ t \in job[s].unread
      /\ sum \in 0..Int4Max
      /\ job' = [job EXCEPT ![s] =
           [@ EXCEPT !.raise = [job[s].raise EXCEPT ![t] = sum], !.unread = unread]]
      /\ pc' = [pc EXCEPT ![s] = IF unread = {} THEN "decide" ELSE "topups"]
      /\ UNCHANGED <<today, dbVars, counterVars, database, service, requests,
                     executions, edits, historyVars>>

\* A hard stop throws before anything is counted.
Reject(s) ==
  /\ pc[s] = "decide"
  /\ ~IsSoft(job[s].config)
  /\ \E t \in PeriodType : Breached(job[s], t)
  /\ pc' = [pc EXCEPT ![s] = "rejected"]
  /\ job' = [job EXCEPT ![s] = NoJob]
  /\ UNCHANGED <<today, dbVars, counterVars, database, service, requests,
                 executions, edits, historyVars>>

\* The limit a run is admitted under, NoLimit past a soft stop; a period's peak
\* is the largest of them.
Granted(j, t) == IF Breached(j, t) THEN NoLimit ELSE EffectiveLimit(j, t)

Raised(old, new) ==
  IF NoLimit \in {old, new} THEN NoLimit ELSE IF new > old THEN new ELSE old

RaisedBy(peaks, j) ==
  [k \in PeriodKey |-> CASE k = j.key["weekly"] -> Raised(peaks[k], Granted(j, "weekly"))
                         [] k = j.key["yearly"] -> Raised(peaks[k], Granted(j, "yearly"))
                         [] OTHER -> peaks[k]]

\* The run passes the check; only the process that runs it counts it.
Admit(s) ==
  /\ pc[s] = "decide"
  /\ IsSoft(job[s].config) \/ \A t \in PeriodType : ~Breached(job[s], t)
  /\ IF CountsUsage(job[s].proc)
     THEN /\ pc' = [pc EXCEPT ![s] = "weekly"]
          /\ peak' = [peak EXCEPT ![job[s].project] = RaisedBy(@, job[s])]
          /\ UNCHANGED <<job, charged>>
     ELSE /\ LetPass(s, job[s].workflow, job[s].proc)
          /\ UNCHANGED peak
  /\ UNCHANGED <<today, dbVars, counterVars, database, service, requests,
                 executions, edits, torn>>

\* A charge goes to the key the check captured.  (Mutant: to the key of the day.)
ChargedKeyToday(s, t) == Keys(today)[t]
ChargedKey(s, t) == job[s].key[t]

\* The project's counter of one period, by an atomic upsert.
ChargeProject(s, t) ==
  /\ pc[s] = t
  /\ usage' = [usage EXCEPT ![job[s].project][ChargedKey(s, t)] = @ + 1]
  /\ charged' = [charged EXCEPT ![s] = IF t = "weekly" THEN @ + 1 ELSE @]
  /\ pc' = [pc EXCEPT ![s] = IF t = "weekly" THEN "yearly" ELSE "wfWeekly"]
  /\ UNCHANGED <<today, dbVars, wfUsage, database, service, job, requests,
                 executions, edits, peak, torn>>

\* The workflow's counter of one period; after the yearly one the hook is done.
ChargeWorkflow(s, t) ==
  /\ pc[s] = (IF t = "weekly" THEN "wfWeekly" ELSE "wfYearly")
  /\ wfUsage' = [wfUsage EXCEPT ![job[s].project][job[s].workflow][ChargedKey(s, t)] = @ + 1]
  /\ IF t = "weekly"
     THEN /\ pc' = [pc EXCEPT ![s] = "wfYearly"]
          /\ UNCHANGED <<job, charged>>
     ELSE LetPass(s, job[s].workflow, job[s].proc)
  /\ UNCHANGED <<today, dbVars, usage, database, service, requests,
                 executions, edits, peak, torn>>

\* The periods charged to the project for which the workflow's charge is due.
OwedKeys(s) ==
  CASE pc[s] = "yearly" -> {job[s].key["weekly"]}
    [] pc[s] = "wfWeekly" -> {job[s].key[t] : t \in PeriodType}
    [] pc[s] = "wfYearly" -> {job[s].key["yearly"]}
    [] OTHER -> {}

\* The query in flight fails: logged, and the execution proceeds.
Outage(s) ==
  /\ pc[s] \in Querying
  /\ torn' = [torn EXCEPT ![job[s].project] =
                [k \in PeriodKey |-> IF k \in OwedKeys(s) THEN @[k] + 1 ELSE @[k]]]
  /\ LetPass(s, job[s].workflow, job[s].proc)
  /\ UNCHANGED <<today, dbVars, counterVars, database, service, requests,
                 executions, edits, peak>>

----------------------------------------------------------------------------
(* Administration and the calendar *)

adminUnchanged == <<today, counterVars, database, service, pc, job, executions,
                    historyVars>>

\* updateRateLimit: a full replacement, stored in normal form.
UpdateRateLimit(p, body) ==
  /\ edits < MaxEdits
  /\ edits' = edits + 1
  /\ config' = [config EXCEPT ![p] = Normalized(body)]
  /\ UNCHANGED <<adminUnchanged, defaults, topups, requests>>

\* updateRateLimitDefaults: both scopes in one transaction.
UpdateRateLimitDefaults(body) ==
  /\ edits < MaxEdits
  /\ edits' = edits + 1
  /\ defaults' = body
  /\ UNCHANGED <<adminUnchanged, config, topups, requests>>

\* createProjectTopup and deleteProjectTopup look at the clock, then write.
ValidateTopup(p, w, amount) ==
  /\ edits < MaxEdits
  /\ w \in UpcomingWeeks(today)
  /\ edits' = edits + 1
  /\ requests' = requests \cup
       { [op |-> "create",
          row |-> [id |-> edits, project |-> p, week |-> w, amount |-> amount]] }
  /\ UNCHANGED <<adminUnchanged, dbVars>>

\* Only a week that has not begun; the rollover may come before the write.
ValidateDelete(row) ==
  /\ edits < MaxEdits
  /\ row \in topups /\ row.week > WeekOf[today]
  /\ edits' = edits + 1
  /\ requests' = requests \cup { [op |-> "delete", row |-> row] }
  /\ UNCHANGED <<adminUnchanged, dbVars>>

WriteTopup(r) ==
  /\ r \in requests
  /\ topups' = IF r.op = "create" THEN topups \cup {r.row} ELSE topups \ {r.row}
  /\ requests' = requests \ {r}
  /\ UNCHANGED <<adminUnchanged, config, defaults, edits>>

\* The day changes in the period timezone.
NextDay ==
  /\ today < LastDay
  /\ today' = today + 1
  /\ UNCHANGED <<dbVars, counterVars, database, service, pc, job, requests,
                 executions, edits, historyVars>>

----------------------------------------------------------------------------
HookStep(s) ==
  \/ \E wf \in Workflows, proc \in Procs :
       BeginCheck(s, wf, proc) \/ BypassCheck(s, wf, proc)
  \/ ReadConfig(s) \/ ReadCounts(s) \/ ReadDefaults(s)
  \/ \E t \in PeriodType : ReadTopups(s, t)
  \/ Reject(s) \/ Admit(s)
  \/ \E t \in PeriodType : ChargeProject(s, t) \/ ChargeWorkflow(s, t)
  \/ Outage(s)

AdminStep ==
  \/ \E p \in Projects, w \in Weeks, n \in TopupAmounts : ValidateTopup(p, w, n)
  \/ \E row \in topups : ValidateDelete(row)
  \/ \E r \in requests : WriteTopup(r)
  \/ \E p \in Projects, body \in LimitBodies : UpdateRateLimit(p, body)
  \/ \E body \in DefaultsBodies : UpdateRateLimitDefaults(body)

Next ==
  \/ \E s \in Slots : HookStep(s)
  \/ AdminStep
  \/ NextDay

Spec == Init /\ [][Next]_vars

----------------------------------------------------------------------------
(* Properties *)

\* What a project's own row, its scope's defaults and its top-ups amount to.
ConfiguredBase(p) ==
  LET own == OwnLimits(config[p])
  IN  IF NeedsDefaults(own) THEN WithDefaults(own, defaults[KindOf[p]]) ELSE own

ConfiguredLimit(p, t, k) ==
  IF ConfiguredBase(p)[t] = NoLimit THEN NoLimit
  ELSE ConfiguredBase(p)[t] + TopupSum(p, WeeksRaising(t, k))

KeysOf(t) == IF t = "weekly" THEN Weeks ELSE Years

\* A period's counter exceeds the largest limit a run was admitted under by
\* fewer than the number of executions the hook holds at once: the "few
\* executions" by which concurrent runs may overshoot, in every interleaving
\* of checks, charges, edits and rollovers.
BoundedOvershoot ==
  \A p \in Projects, k \in PeriodKey :
    peak[p][k] # NoLimit => usage[p][k] < peak[p][k] + Cardinality(Slots)

\* An execution is charged at most once, though main and a worker both run
\* the hook for it, and a rejected execution is not charged at all.
ChargedAtMostOnce ==
  \A s \in Slots : /\ charged[s] <= 1
                   /\ pc[s] \notin Charging => charged[s] = 0

\* A hard stop is never spurious: when a run is rejected the counter of the
\* period it breached really is at or above the limit the run computed.
RejectionJustified ==
  [][\A s \in Slots : pc'[s] = "rejected" /\ pc[s] # "rejected" =>
       \E t \in PeriodType :
         /\ job[s].base[t] # NoLimit
         /\ usage[job[s].project][job[s].key[t]] >= job[s].base[t] + job[s].raise[t]]_vars

\* A counter moves only for a run that passed the check of that very period,
\* whatever week or year it has become since.
ChargedWhereChecked ==
  [][\A p \in Projects, k \in PeriodKey : usage'[p][k] # usage[p][k] =>
       /\ usage'[p][k] = usage[p][k] + 1
       /\ \E s \in Slots : \E t \in PeriodType :
            /\ pc[s] = t /\ pc'[s] # t
            /\ job[s].project = p /\ job[s].key[t] = k
            /\ IsSoft(job[s].config) \/ ~Breached(job[s], t)]_vars

\* The project's counter is the sum of its workflows' counters, plus the runs
\* now between the two charges, plus those a failed query left in between.
LedgerBalances ==
  \A p \in Projects, k \in PeriodKey :
    usage[p][k] =
      MapThenSumSet(LAMBDA w : wfUsage[p][w][k], Workflows)
      + Cardinality({ s \in Slots : pc[s] \in Charging /\ job[s].project = p
                                    /\ k \in OwedKeys(s) })
      + torn[p][k]

\* While nothing is edited, no more than a few executions pass a hard stop's
\* configured limit, which each check pieces together over up to four queries,
\* whatever its mixture of own, default and topped-up values.
WithinConfiguredLimit ==
  edits = 0 =>
    \A p \in Projects, t \in PeriodType : \A k \in KeysOf(t) :
      ~IsSoft(config[p]) /\ ConfiguredLimit(p, t, k) # NoLimit =>
        usage[p][k] < ConfiguredLimit(p, t, k) + Cardinality(Slots)

\* While nothing is edited, no run is rejected before a counter has reached the
\* configured limit.
RejectedAtConfiguredLimit ==
  [][\A s \in Slots : edits = 0 /\ pc'[s] = "rejected" /\ pc[s] # "rejected" =>
       \E t \in PeriodType :
         LET limit == ConfiguredLimit(job[s].project, t, job[s].key[t])
         IN  limit # NoLimit /\ usage[job[s].project][job[s].key[t]] >= limit]_vars

\* The admin list shows the limits and the stop behaviour that a check
\* started now would enforce.
DisplayedAsEnforced ==
  \A p \in Projects :
    /\ DisplayedBase(config[p], defaults[KindOf[p]]) = ConfiguredBase(p)
    /\ DisplayedSoft(config[p]) = IsSoft(config[p])
============================================================================
