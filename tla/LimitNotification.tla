------------------------- MODULE LimitNotification -------------------------
(***************************************************************************)
(* The e-mails ProjectRateLimitService sends about limits: dispatches      *)
(* spawned by checks in any process, not awaited by them, that claim each  *)
(* event by inserting a row, resolve the recipients and send.              *)
(*                                                                         *)
(* What a check observed is an input here (RateLimit models the checks).   *)
(* A process without a mailer spawns nothing.  Rows are never deleted:     *)
(* pruneOlderThan has no caller.                                           *)
(***************************************************************************)
EXTENDS RateLimitPolicy

CONSTANTS
  Dispatches,      \* concurrent dispatches
  Projects, Weeks, Years,
  KeyPairs,        \* the pairs of keys current at some time
  Observations,    \* [count, limit] of a capped period in some check
  Users, Admins,   \* with an address; findAdminEmails
  MemberChoices,   \* sets of notified members a project may have
  MaxDispatches    \* bound of the model

PeriodKey == Weeks \cup Years
Row == [project : Projects, key : PeriodKey, level : Levels]
Observation == [count : Nat, limit : Nat]

ASSUME KeyPairsAssumption ==
  /\ Weeks \cap Years = {}
  /\ KeyPairs \subseteq { key \in [PeriodType -> PeriodKey] :
                            key["weekly"] \in Weeks /\ key["yearly"] \in Years }
ASSUME UsersAssumption ==
  Admins \subseteq Users /\ MemberChoices \subseteq SUBSET Users
ASSUME ObservationsAssumption ==
  Observations \subseteq Observation /\ NoLimit \notin Observations
ASSUME MaxDispatchesAssumption == MaxDispatches \in Nat

VARIABLES
  claims,      \* rate_limit_notification
  live,        \* projects n8n still has
  members,     \* their admins and editors
  stage, dispatch, \* where each dispatch is and what it holds
  attempts,    \* history: sendMail calls by event and recipient
  detected,    \* history: events handed to a dispatch
  dropped,     \* history: events a failed dispatch had in hand
  spawned      \* how much of the bound is used

notificationVars == <<claims, live, members, stage, dispatch, attempts, detected, dropped, spawned>>

----------------------------------------------------------------------------
DispatchPlaces == {"idle", "claiming", "context", "members", "admins", "sending"}

\* The events still to claim, those claimed and not yet mailed, the recipients.
Dispatch == [project : Projects, todo : SUBSET Row, claimed : SUBSET Row,
             to : SUBSET Users]
NoDispatch == [project |-> "none", todo |-> {}, claimed |-> {}, to |-> {}]

\* Both loops of dispatchLimitNotifications visit the weekly event first.
First(rows) ==
  CHOOSE row \in rows : row.key \in Weeks \/ \A other \in rows : other.key \in Years

\* Admins hear of the batch if any claimed event is a hard stop.
\* (Mutant: if the first one is.)
FirstIsHardStop(rows) == First(rows).level = "reached_hard"
HasHardStop(rows) == \E row \in rows : row.level = "reached_hard"

\* A claim is won by the insert that creates the row.  (Mutant: or finds it.)
AlwaysWins(row) == TRUE
Wins(row) == row \notin claims

----------------------------------------------------------------------------
\* A dispatch that is over holds nothing, whichever way it ended; one that goes on
\* holds the events still to claim, those to mail and the recipients found.
NotificationTypeOK ==
  /\ claims \subseteq Row
  /\ live \subseteq Projects
  /\ members \in [Projects -> SUBSET Users]
  /\ stage \in [Dispatches -> DispatchPlaces]
  /\ dispatch \in [Dispatches -> Dispatch \cup {NoDispatch}]
  /\ \A i \in Dispatches : IF stage[i] = "idle" THEN dispatch[i] = NoDispatch
                                            ELSE dispatch[i] \in Dispatch
  /\ attempts \in [Row -> [Users -> Nat]]
  /\ detected \subseteq Row /\ dropped \subseteq Row
  /\ spawned \in Nat

NotificationInit ==
  /\ claims = {}
  /\ live = Projects
  /\ members \in [Projects -> MemberChoices]
  /\ stage = [i \in Dispatches |-> "idle"]
  /\ dispatch = [i \in Dispatches |-> NoDispatch]
  /\ attempts = [row \in Row |-> [u \in Users |-> 0]]
  /\ detected = {} /\ dropped = {}
  /\ spawned = 0

----------------------------------------------------------------------------
(* Dispatches *)

\* The events of one check: for each capped period, the level that applies.
EventsOf(project, key, seen, soft) ==
  { row \in Row :
      /\ row.project = project
      /\ \E t \in PeriodType :
           /\ row.key = key[t] /\ seen[t] # NoLimit
           /\ row.level \in EventLevels(seen[t].count, seen[t].limit, soft) }

\* notifyLimitEvents: spawned before the check's verdict, if there are events.
Spawn(i, project, key, seen, soft) ==
  LET events == EventsOf(project, key, seen, soft)
  IN  /\ stage[i] = "idle" /\ spawned < MaxDispatches
      /\ project \in live /\ events # {}
      /\ stage' = [stage EXCEPT ![i] = "claiming"]
      /\ dispatch' = [dispatch EXCEPT ![i] =
           [project |-> project, todo |-> events, claimed |-> {}, to |-> {}]]
      /\ detected' = detected \cup events
      /\ spawned' = spawned + 1
      /\ UNCHANGED <<claims, live, members, attempts, dropped>>

\* A dispatch moves on, and lets go of what it holds when it ends.
\* (Mutant: it does not let go.)
MovesHolding(i, place, d) ==
  /\ stage' = [stage EXCEPT ![i] = place]
  /\ dispatch' = [dispatch EXCEPT ![i] = d]
Moves(i, place, d) ==
  /\ stage' = [stage EXCEPT ![i] = place]
  /\ dispatch' = [dispatch EXCEPT ![i] = IF place = "idle" THEN NoDispatch ELSE d]

\* One insert; after the last the dispatch goes on if it won any.
\* (Mutant: the first claim lost ends the loop.)
AfterClaimUnlessLost(todo, claimed) ==
  IF claimed = {} THEN "idle" ELSE IF todo # {} THEN "claiming" ELSE "context"
AfterClaim(todo, claimed) ==
  IF todo # {} THEN "claiming" ELSE IF claimed # {} THEN "context" ELSE "idle"

Claim(i) ==
  LET d == dispatch[i]
      row == First(d.todo)
      todo == d.todo \ {row}
      claimed == IF Wins(row) THEN d.claimed \cup {row} ELSE d.claimed
  IN  /\ stage[i] = "claiming"
      /\ claims' = claims \cup {row}
      /\ Moves(i, AfterClaim(todo, claimed), [d EXCEPT !.todo = todo, !.claimed = claimed])
      /\ UNCHANGED <<live, members, attempts, detected, dropped, spawned>>

ResolveContext(i) ==
  /\ stage[i] = "context"
  /\ Moves(i, IF dispatch[i].project \in live THEN "members" ELSE "idle", dispatch[i])
  /\ UNCHANGED <<claims, live, members, attempts, detected, dropped, spawned>>

\* With the recipients known the dispatch sends, or gives up if there are none.
SendTo(i, to) ==
  Moves(i, IF to = {} THEN "idle" ELSE "sending", [dispatch[i] EXCEPT !.to = to])

ResolveMembers(i) ==
  LET found == members[dispatch[i].project]
  IN  /\ stage[i] = "members"
      /\ IF HasHardStop(dispatch[i].claimed)
         THEN Moves(i, "admins", [dispatch[i] EXCEPT !.to = found])
         ELSE SendTo(i, found)
      /\ UNCHANGED <<claims, live, members, attempts, detected, dropped, spawned>>

ResolveAdmins(i) ==
  /\ stage[i] = "admins"
  /\ SendTo(i, dispatch[i].to \cup Admins)
  /\ UNCHANGED <<claims, live, members, attempts, detected, dropped, spawned>>

\* One event: a message to every recipient at once, awaited before the next.
Send(i) ==
  LET d == dispatch[i]
      row == First(d.claimed)
      rest == d.claimed \ {row}
  IN  /\ stage[i] = "sending"
      /\ attempts' = [attempts EXCEPT ![row] =
           [u \in Users |-> IF u \in d.to THEN @[u] + 1 ELSE @[u]]]
      /\ Moves(i, IF rest = {} THEN "idle" ELSE "sending", [d EXCEPT !.claimed = rest])
      /\ UNCHANGED <<claims, live, members, detected, dropped, spawned>>

\* A query or a message fails, or the process stops: what the dispatch had in
\* hand is lost, and an insert in flight may have been committed.
Abort(i) ==
  /\ stage[i] # "idle"
  /\ \/ UNCHANGED claims
     \/ stage[i] = "claiming" /\ claims' = claims \cup {First(dispatch[i].todo)}
  /\ dropped' = dropped \cup dispatch[i].claimed \cup dispatch[i].todo
  /\ Moves(i, "idle", NoDispatch)
  /\ UNCHANGED <<live, members, attempts, detected, spawned>>

----------------------------------------------------------------------------
(* The world the recipients are read from *)

ChangeMembers(p, who) ==
  /\ members' = [members EXCEPT ![p] = who]
  /\ UNCHANGED <<claims, live, stage, dispatch, attempts, detected, dropped, spawned>>

DeleteProject(p) ==
  /\ live' = live \ {p}
  /\ UNCHANGED <<claims, members, stage, dispatch, attempts, detected, dropped, spawned>>

----------------------------------------------------------------------------
DispatchStep(i) ==
  Claim(i) \/ ResolveContext(i) \/ ResolveMembers(i) \/ ResolveAdmins(i) \/ Send(i)

NotificationNext ==
  \/ \E i \in Dispatches, p \in Projects, key \in KeyPairs,
        seen \in [PeriodType -> Observations \cup {NoLimit}], soft \in BOOLEAN :
       Spawn(i, p, key, seen, soft)
  \/ \E i \in Dispatches : DispatchStep(i) \/ Abort(i)
  \/ \E p \in Projects, who \in MemberChoices : ChangeMembers(p, who)
  \/ \E p \in Projects : DeleteProject(p)

\* A spawned dispatch goes on: its queries and messages are answered or fail.
NotificationSpec ==
  /\ NotificationInit /\ [][NotificationNext]_notificationVars
  /\ \A i \in Dispatches : WF_notificationVars(DispatchStep(i))

----------------------------------------------------------------------------
(* Properties *)

\* The dispatches implement SendOnce: an event is mailed in one go and never
\* again, whatever checks in whatever processes detect it, and though sends
\* and inserts fail in between.
Promise == INSTANCE SendOnce WITH Rows <- Row, mailings <- attempts
SendsOnce == Promise!Spec

\* No detected event slips through: it has a claim, or a dispatch is still to
\* claim it, or a dispatch that had it in hand failed.
EventsAccounted ==
  detected \subseteq claims \cup dropped \cup UNION { dispatch[i].todo : i \in Dispatches }

\* If anyone is told that runs are being rejected, every platform admin is.
HardStopReachesAdmins ==
  \A row \in Row : row.level = "reached_hard" =>
    \A u \in Users, a \in Admins : attempts[row][u] > 0 => attempts[row][a] > 0

\* Every detected event is eventually claimed, unless its dispatch fails.
EventsSettle == []<>(detected \subseteq claims \cup dropped)

\* docs/external-hooks/rate-limiting.md: platform admins are added "only for
\* hard-stop reached events"; "Soft-stop and near-limit emails go to the
\* project's admins/editors only".  dispatchLimitNotifications resolves one
\* recipient set for the whole batch.
SofterMailsSpareAdmins ==
  \A row \in Row, a \in Admins : row.level # "reached_hard" => attempts[row][a] = 0
============================================================================
