-------------------------- MODULE RateLimitPolicy --------------------------
(***************************************************************************)
(* The decisions of ProjectRateLimitService that read no mutable state:    *)
(* which limit applies to a project and what one run's counts amount to.   *)
(* A limit column that is null is NoLimit.  A project without a row        *)
(* behaves as the row Unconfigured: `config?.usesDefaultLimits ?? true`.   *)
(***************************************************************************)
EXTENDS Integers

CONSTANT NoLimit                 \* the null of a limit column: uncapped

ASSUME NoLimitAssumption == NoLimit \notin Int

PeriodType == {"weekly", "yearly"}
StopBehavior == {"hard_stop", "soft_stop"}
Limit == Nat \cup {NoLimit}

ScopeDefaults == [PeriodType -> Limit]
Config == [usesDefaults : BOOLEAN, limits : ScopeDefaults, stop : StopBehavior]

NoDefaults == [t \in PeriodType |-> NoLimit]

Unconfigured ==
  [usesDefaults |-> TRUE, limits |-> NoDefaults, stop |-> "hard_stop"]

\* updateRateLimit stores a default-mode row in the unconfigured shape.
Normalized(body) == IF body.usesDefaults THEN Unconfigured ELSE body

\* The operator ?? of the source over limit columns.
Coalesce(limit, fallback) == IF limit = NoLimit THEN fallback ELSE limit

\* The project's own values, which default mode ignores.
OwnLimits(config) ==
  IF config.usesDefaults THEN NoDefaults ELSE config.limits

\* enforceExecution loads the scope's defaults only when a period is unset.
NeedsDefaults(own) == \E t \in PeriodType : own[t] = NoLimit

WithDefaults(own, defaults) ==
  [t \in PeriodType |-> Coalesce(own[t], defaults[t])]

IsSoft(config) == ~config.usesDefaults /\ config.stop = "soft_stop"

----------------------------------------------------------------------------
(* What a run's check reports for one period: `base` is not NoLimit and    *)
(* `limit` is base plus top-ups.                                           *)

\* (Mutant: one run too many.)
Exceeded(count, limit) == count > limit
Reached(count, limit) == count >= limit

Near(count, limit, threshold) ==
  /\ count < limit
  /\ count * 100 >= limit * threshold

Levels == {"reached_soft", "reached_hard", "near_80", "near_50"}

\* The levels collectLimitEvents pushes for one period: at most one, the highest
\* severity that applies.
EventLevels(count, limit, soft) ==
  IF Reached(count, limit) THEN { IF soft THEN "reached_soft" ELSE "reached_hard" }
  ELSE IF Near(count, limit, 80) THEN {"near_80"}
  ELSE IF Near(count, limit, 50) THEN {"near_50"} ELSE {}

----------------------------------------------------------------------------
(* The admin list resolves limits in enrichProjectsWithRateLimits with     *)
(* code of its own, per period and without the NeedsDefaults shortcut.     *)

\* (Mutant: a custom row shows its own columns only.)
DisplayedOwn(config, defaults) ==
  IF config.usesDefaults THEN defaults ELSE config.limits
DisplayedBase(config, defaults) ==
  [t \in PeriodType |->
     IF config.usesDefaults THEN defaults[t]
     ELSE Coalesce(config.limits[t], defaults[t])]

DisplayedSoft(config) == ~config.usesDefaults /\ config.stop = "soft_stop"
============================================================================
