# TLA+ models of common-hosted-workflow

This directory models and verifies parts of the platform in `src/`: an n8n
deployment extended by hooks (`src/external-hooks`), nodes
(`src/community-nodes`), a UI (`src/external-ui`) and the scripts of its disaster
recovery. Modules are translated from the TypeScript source; where a document or
a comment says something else, the source is modelled and the difference is a
finding.

`PROJECT.json` lists the components, the runs, the mutants (a plausible bug for
each property, which the property must catch), the source lines of every
definition, the findings, the hazards and the theorems.

To run TLC on one configuration: `tlc -workers 2 -config MCRateLimit.cfg MCRateLimit.tla`;
to check the proofs of one module: `tlapm RateLimitProofs.tla`.

## 1. Inventory of the system

The hooks run inside every n8n process. In queue mode there are several, `main`
and workers, which share Postgres (n8n's tables and a *custom* database) and
Redis, and nothing else. Within a process handlers interleave at every `await`;
between processes everything does. No component but a few repository methods
uses a transaction, so the state another handler left is seen between any two
statements.

| Component | State | Operations | Interacts with |
|---|---|---|---|
| Rate limiting (`bootstrap/rate-limit-hook.ts`, `services/project-rate-limit.service.ts`) | limits, defaults, top-ups, usage counters of projects and workflows; a memoized service per process | check and charge an execution; edit limits, defaults, top-ups; list | n8n's `workflow.preExecute`, custom database, notifications |
| Limit notifications (same service) | claimed events | claim, resolve recipients, mail | spawned by checks, SMTP, n8n's projects and users |
| Period keys (`helpers/period.ts`) | none (a memo) | keys, resets, horizons of a local date | both of the above |
| Multi-webhook wait (`MultiWebhookWait.node.ts`, `routes/multi-webhook-wait.ts`, its service and repository) | a wait per execution, its calls | register, callback, status, delete; timeout | n8n's waiting executions, outside callers |
| UI session and token store (`helpers/ui-oidc-*.ts`) | Redis: forward and reverse token records, exchange and logout handles; in-memory locks | login, exchange, refresh, resolve, logout | identity provider, login |
| OIDC login (`services/oidc-login-coordinator.ts`, `routes/oidc.ts`) | n8n users and roles | login with compensation, logout | session store, tenant sync |
| WIL actions (`action-state-machine.ts`, `action.service.ts`, `claim.service.ts`, `routes/wil.ts`) | action requests and their claims | claim, unclaim, start, callback, patch | upstream resume URLs |
| Tenant and project sync (`tenant-project-sync.service.ts`, `project-tenant.service.ts`) | tenant/project mapping, project relations | sync at login, assign | CSTAR, n8n's projects |
| Tenant roles cache (`tenant.service.ts`) | Redis | read through, invalidate | CSTAR, session store |
| CHEFS resubmission (`chefs-submission.service.ts`, its route and node) | the row of a waiting execution per form and submission | register, forward, confirm | CHEFS, n8n's resume URLs |
| Access requests (`access-request.ts`) | requests and their status | create, review and apply an approval | mail, n8n's users, tenant mapping |
| Triggers, messages, admin, UI API, workflow sharing | rows of their own | CRUD | - |
| Upstream clients, workflow runner, other nodes, UI | none to speak of | requests | remote services |
| DNS probe, failover and conditional restore | the resolved address and its age; the last restored backup | poll; scale; drop and restore | DNS, the cluster |

What is hard in each, and what makes it correct:

* **Rate limiting.** Check and charge are separate statements, main and worker
  both run the hook, every error lets the run pass, and the period can roll over
  in between. Correct is: a bounded overshoot; a charge once, in the process that
  runs the execution, to the period that was checked; no rejection below the
  limit; what admins see is what is enforced.
* **Limit notifications.** Several processes find the same breach and a dispatch
  can fail anywhere. Correct is: each event mailed in one go and once; none
  forgotten unless a dispatch failed; the right people.
* **Period keys.** Week-based years, weeks that straddle January 1, 52 or 53 of
  them. Correct is: ISO weeks; keys that change on the announced day; a week
  raising the yearly limits it is counted under.
* **Multi-webhook wait.** Last callbacks race, duplicates arrive during and after
  completion, three statements register a wait, clean-up precedes the answer,
  and the node may wait again. Correct is: the counter equals the calls; exactly
  the first data of each call is handed out; a complete wait is noticed; a restart
  strands no execution (it does: finding 4).
* **Session store and login.** Compare-and-swap on a forward key whose reverse
  records live elsewhere; a single flight with a timeout, in each process; rotating
  refresh tokens; logout and compensation against a refresh in progress. Correct is:
  one usable bearer per identity, none of them after its logout, no refresh token
  spent while it is still the one on record.
* **Who may use n8n.** A sign-in decides on roles it read earlier, and an approved
  access request is applied in five steps nobody retries. Correct is: an owner
  remains; nobody holds a role that was not given; an approval lets its requester in
  or is seen to fail.
* **WIL actions.** Optimistic updates guarded by the status only, around a
  callback of up to 30 seconds that can be lost, late or early. Correct is: only
  allowed transitions; completion by the claimant; an outcome that tells what
  happened to the execution.
* **Tenant sync.** Look-up, creation and mapping without a transaction, a role
  changed by a deletion and an insertion, a sweep from a list read before. Correct
  is: one project per tenant (two logins give it two: finding 5), run by the owner;
  roles as CSTAR gives them; an admin of a project stays one.
* **CHEFS resubmission.** One row per submission, deleted by key after a slow
  forward. Correct is: the row of a waiting execution is there, and submitting again
  resumes it.
* **Disaster recovery.** A decision on routing that is minutes old when the
  schema is dropped. Correct is: the serving side is never restored over.

## 2. Plan

Order of work: first what every execution goes through and what loses data when it
goes wrong.

1. `RateLimitPolicy`, `RateLimit` - done, with proofs.
2. `LimitNotification`, refining `SendOnce` - done, with proofs.
3. `MultiWebhookWait` - done, with proofs.
4. `Period`, `PeriodRollover` - done, with proofs; that its keys meet the calendar
   assumption of `RateLimit` is one of them.
5. `ActionRequest`, refining `ActionLifecycle` - done, with proofs.
6. `UiOidcSession`, the tokens of an e-mail - done, with proofs.
7. `UserAccess`, roles at sign-in and access requests - done, with proofs.
8. `TenantSync`, projects and members - done, with proofs.
9. `ChefsResubmit` - done, with proofs.

Every safety property a run checks is a theorem. What is left: a model of the
conditional restore; the tenant roles cache, should its staleness ever come to matter.

Composition: `RateLimit` and `LimitNotification` share `RateLimitPolicy`
(`EventLevels` is what a check hands to a dispatch); `MCRateLimit` instantiates
`Period` for its calendar, and `RateLimitProofs` extends both `RateLimit` and
`PeriodRollover`; `ActionRequest` instantiates `ActionLifecycle`, and
`LimitNotification` `SendOnce`, to implement them. `MCBackground` extends
`MultiWebhookWait`, `ChefsResubmit` and `LimitNotification`, which share no state, and
lets one of them move in each behaviour. A login runs
through three components, which are models of their own because they share no
record: it settles the user's role (`UserAccess`, n8n's user table), writes tokens
(`UiOidcSession`, Redis) and starts the sync (`TenantSync`, projects and the
mapping). Sign-ins and access requests do share the user table, and
are one module.

## 3. Modules

### RateLimitPolicy and RateLimit

`RateLimitPolicy` has the decisions without state: which limits apply
(`OwnLimits`, `NeedsDefaults`, `WithDefaults`), when one is reached, what a check
reports, and the resolution the admin list makes for itself (`DisplayedBase`).

`RateLimit` has one action per query of
`ProjectRateLimitService.enforceExecution`. A *slot* is a place for an execution
in the hook; `pc[s]` is the await it is at, `job[s]` what it has read.

| Source | Model |
|---|---|
| hook entered, service getter | `BeginCheck`, `BypassCheck` (`service`, `database`) |
| `projectRateLimit.get`, period keys | `ReadConfig` |
| `projectExecutionUsage.getCounts` | `ReadCounts` |
| `projectRateLimitDefault.get`, if a period is unset | `ReadDefaults` |
| the two concurrent top-up sums | `ReadTopups(s, "weekly")`, `("yearly")`, in either order |
| hard stop, or pass | `Reject`, `Admit` |
| four increments | `ChargeProject`, `ChargeWorkflow` per period |
| any rejected promise: fail open | `Outage` |
| admin routes | `UpdateRateLimit`, `UpdateRateLimitDefaults`, `ValidateTopup`/`ValidateDelete` then `WriteTopup` |
| local midnight | `NextDay` |

In queue mode an execution that main lets pass is `queued`, and a worker runs the
hook for it again. `charged`, `peak` and `torn` are history variables: the charges
of the execution in a slot, the largest limit a charged run was admitted under
(a soft stop's is unlimited), and runs that failed between two charges.

### LimitNotification and SendOnce

A *dispatch* is the un-awaited promise of `dispatchLimitNotifications`. What its
check observed is an input: any pair of observations, in any process. `Claim` is one
insert with conflict ignored, `ResolveContext`, `ResolveMembers` and
`ResolveAdmins` the queries for recipients, `Send` the mails of one event, `Abort`
a failure or the end of the process anywhere (an insert in flight may or may not have
been committed). Members change and projects vanish meanwhile. `SendOnce` is the
abstract promise: an event is mailed to one set of recipients, once;
`LimitNotification` implements it with its `attempts` as the abstract `mailings`.

### MultiWebhookWait

One execution, its wait and its calls. `step` is where the node is
(`delete`, `insertWait`, `insertCalls`, `putToWait` are the statements of
registration), `pc[h]` and `holds[h]` where a callback's handler is and what it
holds: `LookUp`, `Mark` (one transaction: the row, and the counter if the row
changed), `Read`, `CleanUp` if no row read is pending, `Answer`. `Lose` ends a
handler between two queries, `NodeFails` the node's requests. n8n is external: it
hands a callback to the node only while the execution waits, and takes the first
complete answer, or the timer, as the reason to go on.

### Period and PeriodRollover

`Period` is date arithmetic on day numbers, translated function by function from
`period.ts`. `PeriodRollover` lets the day advance and states what the other
components rely on. Its reference definition of a week (the year that holds four of
its days, numbered among that year's weeks) is independent of the Thursday rule of
the code.

### ActionRequest and ActionLifecycle

One action, and the requests that work on it. A request of a user reads the row, checks
what it read, and updates under a `WHERE` of its own; `pc[h]` is what it is about
to do and `holds[h]` its user and the row it read.

| Source | Model |
|---|---|
| `getById` and the checks of claim, unclaim, start, callback | `Claim`, `Unclaim`, `Start`, `Callback`, each a `Read` under its guard |
| the `UPDATE`s of `claim.service.ts` | `Claimed`, `Unclaimed`, `Started` |
| the request to the resume URL, its answer by status code | `Accepts`, `AnswersWithError`, `AnswersGone` |
| `updateStatus` after the answer | `Completed`, `Cancelled` |
| `directUpdate`, `deleteByProjectId` | `Patch`, `Remove` |
| a time-out or the end of the process | `Lose`, after which the delivery may still arrive: `StrayArrives` |
| n8n's execution (external) | `Resume`, `Waits`, `Ends` |

`create` stores whatever status its body names, any but "claimed" (`Settable`), and an
action created in progress or settled is one of the initial states. A PATCH names one of
the same statuses or none.

`ActionLifecycle` is the promise: an action changes its status one actor at a time,
along the table of `action-state-machine.ts`, with its claim set and cleared as the
services do. It knows no requests, reads or callbacks, so that implementing it means
that what happens between read and update never shows in the row.

### UiOidcSession

The Redis records of one e-mail: `forward` (its access token), `reverse` (the access
tokens that lead to it, the *usable* bearers) and `refresh`. Every Redis command and every
call of the provider is an action of a request `r` in the process `at[r]`.

| Source | Model |
|---|---|
| middleware: is the bearer known, does it expire | `Lookup` |
| `refreshSingleFlight`, its limit of 10 s | `StartRefresh`, `Overtime` |
| reading the refresh token, asking the provider | `ReadRefreshToken`, `Provide`, `Refuse`; `DropAnswer`, `KeepAnswer` once superseded |
| callback of a login; its tokens, written side by side (`Promise.all`) | `Login`; `WriteRefreshToken` at any time beside the writes of the next row |
| a token refused; the clean-up that follows | `StoreFails`, `CleanUp`, then as a logout |
| `setUiAccessTokenMappings`: read, script, fall-back | `ReadForward`, `Swap`, `FallBack`, `CheckForward`, `DeleteReverse`, `SetForward`, `SetReverse` |
| `clearUiOidcSession` and its rounds | `Logout`, `Purge`, `PurgeKeys`, `Verify`, `GiveUp`, `Sweep`, `SweepKeys` |
| a failed command, the end of a process | `Fail`, `Crash` |

The store lock of a process is `lock[p]`, the single flight `flight[p]`; both are in
its memory, so two processes share Redis alone. A login holds the refresh token it has
yet to write in `storing`: it may be written before, between or after the commands for the
access token, and after the clean-up of a login that failed has begun. (The client sends
the commands of one process in order, which excludes some of these orders; the model
has them all.) A request whose refresh token is the last to be written is `joining`.
`leaked` collects the tokens whose reverse record some step leaves behind, `repeated`
those a fall-back writes once more. The provider is external: it numbers
the pairs it issues and may take a refresh token only once. `Lookup` needs no state
of the request, because a session is found by its own identifier.

### UserAccess

`users` is n8n's user table, `idp` the roles the provider gives. Sign-ins: `SignIn`
(the role of the identity, and CSTAR's answer if the instance turns away those
without one), `FindUser`, `CountUsers`, `CreateUser`, `CountOwners`, `ChangeRole`,
and `Settle` (enable or disable). Access requests: `Ask`, `Submit`, `Review`,
`Decide`, then `AssignRole`, `FindRequester`, `CreateMember` and `Enable` apply an
approval, one query each. `Fail` is a failure anywhere. An owner who is disabled counts as an owner, and an
approval enables a user with the role stored before, both as in the code.

### TenantSync

A login's sync handles the tenants of its user side by side: `step[h][t]` and
`work[h][t]`, while `pc[h]` and `syncs[h]` are the login. Per tenant: `Roles` (CSTAR's answer),
`Lookup`, `Exists`, `DeleteDangling`, `CreateProject`, `LinkOwner`, `MapTenant`,
`ReadRelation`, `DeleteRelation`, `SaveRelation`, or `FailTenant` (caught, the others
go on). When every tenant is through, the sweep of projects the user lost:
`ListRelations`, `SweepNext`, `SweepDelete`, `Finish`. Admins: `CheckTenant`,
`AssignTenant`, `RemoveTenant`. `MakeAdmin` notes in `late` the syncs that have read
another role of that user and are about to change it. `EditMember`, `DeleteProject` and `ChangeCstar` are
n8n's users and CSTAR (external). A failure of CSTAR reads as an empty
answer, as in the code. The process has the owner's id cached.

### ChefsResubmit

Executions that wait for one submission of a form: `Register` (the upsert, then
`EnterWait`), a callback (`Submit` resolves where to forward; `Resume`, `Refuse` and
`StartFresh` are answers; `Confirm` deletes by key), and `LoseCallback` with
`StrayArrives` as for actions. There is one `row`, for all executions.

## 4. Runs

All runs use breadth-first search over the whole state space. They check no deadlock:
each bounded model stops when its bounds are used up.

| Run | Bounds | What it shows |
|---|---|---|
| `rate_limit` | one project, a workflow in it and one in none; two slots, three executions, one edit; the days 28 December 2025 and 1 January 2026; queue mode with both processes or main alone | the nine properties of `RateLimit`, 3.3 million states |
| `background` | three parts, below | fourteen properties, 341 thousand states |
| `admin_mail` | as in `background` | finding 1 |
| `resume` | as in `background` | finding 2 |
| `stranded` | as in `background` | finding 4 |
| `period_keys` | every day of 2018-2045, horizon 26 weeks | the four properties of `PeriodRollover`, 10 thousand states |
| `actions` | two members of the role and an outsider, two requests at a time, one PATCH, of actions created with any status | the life cycle is implemented and the outcome is what happened upstream, 4.9 million states |
| `claimant` | as above | finding 3 |
| `ui_session` | two processes, two requests at a time, three pairs of tokens (one of an earlier session), two logouts, one failure or crash | the three properties of `UiOidcSession`, 6.9 million states |
| `user_access` | two people, two handlers, two access requests, one role change outside | the three properties of `UserAccess`, 10.3 million states |
| `tenant_sync` | owner and user, two tenants, two logins, two projects, one change of CSTAR, one edit, one failure | the three properties of `TenantSync`, 6.3 million states |
| `one_project` | the same, without changes, edits and failures | finding 5 |

The parts of `background` share no state, so each behaviour moves one and leaves the
others as they are at first: the multi-webhook wait (two calls, two payloads, two
handlers, two waits; seven properties), CHEFS resubmission (two executions, two waits
each, two callbacks; an invariant and a liveness property) and the limit mails (one
project, two dispatches, a member and an admin, one week and year, counts at and near the
limit; five properties, with the refinement and a liveness property). Fairness is that of
each module; since a form can be submitted in any state, `ChefsResubmit`'s is asked only of
behaviours in which that part moves.

Why the bounds are enough. Two slots are the fewest that overtake each other, and a
third execution reuses a slot that was left; the two days are in different weeks and
years, and the second's week belongs to both years, so a rollover at any step
changes both keys, and a top-up of the second week concerns both yearly limits. One
edit at a time suffices for an edit at any step of either check, and the initial top-up
makes a deletion possible; a limit of one, and of more with top-ups, is reached by the
three executions, and a row may leave the yearly limit to a default that has none.
`Int4Max` is 2, so that the initial top-up and one of two overflow the sum while one of
one does not, not to match Postgres. Two dispatches race for a claim, or one follows the other. Two calls make a "last"
one; two handlers carry the last calls or a duplicate; a second wait meets handlers
of the first. Twenty-eight years have every combination of leap year and
weekday of January 1. The theorems below hold for every value of these constants.

In the later models too, two requests are what it takes to overtake each other, and
each comes back for another task when it is done, so that a request can meet two
others in a row. An action needs a claimant, a successor who may claim after an
unclaim, and somebody without the role. A session needs two processes, because
within one the lock keeps writers apart, and two pairs beyond the first, one for each
of two writers. With one failure one process can be in the fall-back, or stop, beside
another that writes, refreshes or deletes; two fall-backs at once are covered by the
proofs only, which know no bound. Two people suffice for
an owner who steps down while the other does; two access requests for a repeated
one; one role change to make what a sign-in read untrue. Two tenants share the sweep of
one login, and two projects are the fewest a tenant can be doubled with; one edit or
assignment falls between any two steps of a sync. Two executions are an earlier and a later
registrant of one row; two waits make an execution its own successor.

Slots, processes, requests, people and handlers are symmetric where a run
declares it: its properties are invariants and action properties that treat them
alike. The runs with liveness properties use no symmetry.

*Exceptions.* Several properties name cases in which they are given up, as history
variables. All but `crossed` record the thing concerned - this wait, token, tenant or
relation - rather than that something happened once:

* `lost` (`CompletionWatched`, `CompletionNoticed`): a handler that was to read or clean up
  the wait that stands, its calls all in, was lost. Forgotten when the wait is deleted.
* `dropped` of the mails: events a failed dispatch had in hand.
* `dropped` of the session: refresh tokens whose successor came in an answer that was
  lost or superseded.
* `leaked` (`OneUsableToken`): tokens whose own reverse record was left behind, by a first
  write over them, by a fall-back overtaken between two of its commands, or by a deletion
  that failed, crashed or gave up. A fall-back with nobody beside it leaks nothing.
* `repeated` (`LogoutRevokes`): tokens written once more, because the script that wrote
  them did not answer.
* `late` (`AdminsKept`): a sync and a project whose relation it had read when its user was
  made an admin there.
* `doubled` (`RolesFollowCstar`): tenants that were given a project while another was
  made, which `one_project` is about.
* `disturbed` (`RolesFollowCstar`): users whose last sync failed or overlapped with another of
  their own, or for whom CSTAR or the members of a project changed since. An edit by people
  or an assignment disturbs everybody; the logins of others disturb nobody.
* `edited` (`OwnerRunsProjects`): projects people made, assigned or edited.
* `crossed` (`OwnerRemains`): set for good when a demotion was written though the owners
  counted for it had changed.
* `early` (`OutcomeMatchesUpstream`): the action was called back before its execution waited.
* `superseded`, `swept` (CHEFS): executions whose present registration another execution
  took over, or a delivery to an earlier row deleted. Forgotten when they register again.
* `failed` (`ApprovalsTakeEffect`): approved requests whose application failed.
* `patches = 0` (actions) and `edits = 0` (`WithinConfiguredLimit`,
  `RejectedAtConfiguredLimit`): nobody has set the row, or edited limits or top-ups, since
  the start; the latter two say nothing of a limit that is edited during a check.

They are behaviour of the code and listed below. Where a document or a comment promises
otherwise the case is a finding. Where one is a hazard itself - crossing
demotions, the delivery that sweeps a newer row, the early callback, an approval whose
application fails - the property does not catch it, but shows that nothing else breaks the
promise.

Fairness. `LimitNotification` and `MultiWebhookWait` assume weak fairness of the
steps of one dispatch or handler: its queries and mails are answered or fail, after
which Node's event loop runs the continuation. Nothing is assumed of the
environment: that a callback arrives, a member changes, a failure happens or
the execution ends is never required, and failing is always possible, so the
liveness properties name it (`lost`, `dropped`). `ChefsResubmit` asks more, because its property
is about retrying: somebody submits again and again (weak fairness of `Submit`), n8n
puts a registered execution to wait and answers or the handler ends its request (weak
fairness), and among infinitely many callbacks that could resume the execution one
does (strong fairness of `Resume`: not every one is lost). The other modules have
safety properties only and state no fairness.

### Findings

1. `admin_mail`: `dispatchLimitNotifications` mails softer events of a batch to the
   platform admins when another event of it is a hard stop, while
   `docs/external-hooks/rate-limiting.md` says they go to the project's admins
   and editors only.
2. `resume`: a duplicate of the last callback that reads after the clean-up finds no
   rows, takes that for completeness, and may resume the execution with no call
   data, while the node's README promises all call data and idempotence.
3. `claimant`: `updateStatus` compares the status alone. While a callback is away the
   action can be unclaimed, and claimed and started by another; it is then completed by
   somebody who does not hold it, though a comment and an error text say that only the
   claiming actor can.

4. `stranded`: the route deletes a complete wait before it answers. If the process stops
   in between, nothing is left that could resume the execution before its timeout, while
   the node's README calls it crash-safe. `OnlyLossStrands` proves that in the first wait
   this is the only way.
5. `one_project`: two logins of one tenant each find no project and map one of their own;
   the insert ignores a conflict on tenant *and* project, so there is none. A comment at
   `tenant-project-sync.service.ts:263`, another at 192 and
   `docs/external-ui/tenant-project-sync.md:94` say that this race is handled.

Four more disagreements have no run of their own; the first, second and fourth are what
`leaked` and `late` leave out of their properties:

6. `ui-oidc-store.ts:445-451` says of a first write over another process's token that it
   "keeps at most one reverse valid". The script knows no key to delete there, and two logins
   in two processes leave two usable bearers.
7. `ui-oidc-store.ts:541` says of the logout that it "must not return while a usable reverse
   record for that identity remains". After three rounds that each find a new token it
   returns without the sweep (606-609).
8. `docs/external-hooks/rate-limiting.md:140` says that a top-up can be deleted only before
   its week starts. The check (`project-rate-limit.service.ts:992`) and the deletion are two
   queries, and the week may begin in between (`ValidateDelete`, `NextDay`, `WriteTopup`).
9. `docs/external-ui/tenant-project-sync.md:170` and 174 say that roles the sync does not
   manage are always preserved. Its guards look at the role read, its deletions name only
   user and project, so that a member made an admin in between is removed.

The models also show behaviour the code or its documents accept, and which no
property forbids: a sum of top-ups beyond four bytes lets every run pass (fail
open); an event whose dispatch failed after the claim is never mailed; from the second wait
on, a slow handler of an earlier wait can delete the new one. Further:

* Two first sign-ins can both see an empty table, and two owners who lose the role
  can both count the other: after the latter no owner is left (`crossed`).
* The fall-back without the script, overtaken by another process between two of its
  commands, leaves a reverse record behind, as a deletion does that fails half-way (`leaked`).
* A refresh in flight survives a logout: tokens it was given before are written after.
  `LogoutRevokes` is about the bearers usable when the logout began, and a logout that
  came to its sweep.
* A CSTAR outage at login reads as no tenants: the sweep removes the user's editor and viewer roles
  in every synced project until the next login.
* A row whose execution is gone takes further submissions and has them refused until
  another execution registers; a delivery to an earlier wait deletes the row a later wait of
  the same execution has registered meanwhile (`swept`).
* A callback that comes before its execution waits is answered like one that comes too
  late, and cancels the action (`early`). An action whose delivery succeeded and whose
  answer was lost is cancelled by the retry.
* An approved access request whose application fails half-way is left so.

## 5. Proofs

Each `...Proofs` module extends its component. Theorems hold for every value of the
constants the named assumptions allow: any number of slots, workflows and initial
top-ups (finite: the process holds as many executions as it does, and a table has as many
rows), projects, dispatches, users, handlers, calls and days. Some theorems
state consequences of these that no run checks; they are named as such below.

* **RateLimitProofs**, on a check. `TypeOK` is inductive. The overshoot bound is not: the
  invariant `OvershootInv` adds `Slack` - for every bound b at or above the peak,
  usage plus the slots still to charge whose count read is below b is less than
  b plus the number of slots - and `AdmittedBelowPeak`. A slot enters the
  second term with a count that is at most the usage, so below b only while usage
  is, and a charge moves one from the second term to the first. `CountsSeen` (what a
  check read is at most the counter now, because counters only grow) gives justified
  rejections, `CheckPassed` and `ChargesMade` give the two theorems on charges.

  *On sums.* `LedgerBalances` is inductive account by account (`Balanced`): a step changes
  the place of one slot, and what it adds to the project's counter, to a workflow's, or to
  what is torn, it takes from that slot's debt (`AccountKept`). The sums of the model,
  over workflows and over top-ups, are folds of the community modules; that such a
  fold has a value (`AddsExists`, `TotalType`), and grows as one of its numbers does
  (`TotalGrows`), is proved from the well-foundedness of the naturals and of the finite
  sets. The run has one workflow that is charged, the theorem any number.

  *On the configured limit.* Above, the bound is the limit the check computed, pieced
  together over several queries, so nothing yet says that this is the limit an admin
  would read off the tables. `UsageStaysWithinLimit` and `RejectionsAtTheLimit` say it,
  for as long as nobody edits limits or top-ups (`edits = 0`; with an edit
  halfway a check may well use a limit the tables never held). The run checks both
  properties, `WithinConfiguredLimit` and `RejectedAtConfiguredLimit`; for the proof the
  invariant `Unedited` says what each check has pieced
  together at each await (`ConfiguredJob`) and that every peak is 0 or the configured
  limit (`ConfiguredPeaks`). The bound is tight.

  *On keys.* Exactly one year holds a day (from the well-foundedness of the
  naturals and `Jan1` being increasing); a week number is one of 1 to 53 and
  Thursdays are recovered from the key, so keys order as weeks do. From the third year
  on, to keep the year before a day's own within the calendar. `WeekIsIso` compares
  the two Thursdays of `getIsoWeek` with the wording of ISO 8601: the year of a week's
  Thursday holds the first four days of the week or the last four (`ThursdayHalf`), any
  other year at most three (`HoldsThursdays`), and the weeks of the year up to today's
  are those of the Thursdays since its first (`WeeksOfYear`).

  *On the calendar.* `PeriodKeysAreACalendar`: the keys of any run of days
  satisfy `IsCalendar`, which is the `CalendarAssumption` of `RateLimit`, so what is proved
  of the checks holds of the code's own keys. The days are those of four-digit years,
  because a weekly key keeps the order of its weeks, and its distance from
  the yearly keys, only while its year has four digits. `UpcomingWeeksAreListed`: over
  such keys, the weeks `RateLimit` lets a top-up name are those that
  `listUpcomingWeeklyPeriodKeys` returns, which the two components compute differently.
* **LimitNotificationProofs.** `IInv` adds to the types `Exclusive` (claimed events
  are claimed by one dispatch, and unmailed) and `Busy`. Each step is then a `Mail` of
  `SendOnce` or a stutter. Accounting and the admins' mails need what a step does
  to a batch besides. What implementing `SendOnce` is for is proved too, and only proved:
  nobody is mailed twice (`AtMostOnce`), an event that was mailed stays as it is
  (`MailedStays`), and, since no step invents an event (`Detected`), every mail has
  a detected and claimed event behind it (`MailsAreGenuine`).
* **MultiWebhookWaitProofs.** `Base` adds to the types that calls exist only with
  their wait. Agreement of completions needs `Numbered` (waits are told apart) and
  `StillStored` (rows read complete are those stored while their wait stands);
  the theorems on the first wait need that no handler of an earlier wait exists
  (`FirstWait`). What a call received stays while its wait stands (`ReceivedStays`), and
  of its first wait an execution gets the data of all its calls or of none
  (`FirstWaitAllOrNothing`, by `FirstData`: rows are deleted all at once, so a handler
  that read late read none; that "none" occurs is finding 2). `OnlyLossStrands`, which no
  run checks, is the other half of finding 4: a step that leaves an execution in its first
  wait with nobody to resume it is the loss of a handler that had cleaned up.
* **ChefsResubmitProofs.** `WaitReachable` needs `RowIsLatest` (a row names the last
  wait of its execution) and `HeldRows` (a callback about to delete the row it found has
  ended the wait the row names, or the execution has registered again since).
* **ActionRequestProofs.** `IInv` adds to the types `Entitled` (a request comes from an
  actor of the action, and a kind of action only from those that have it),
  `UnclaimedWhilePending` and `Delivered` (a request about to complete the action is that of
  the user whose delivery resumed the execution, one about to cancel it found nothing
  waiting). Refinement then needs that the row a request updates has the status of the row
  it read, and that with the same status what it read of the claim is either still true or
  what the life cycle leaves open (`NextRefines`). Two theorems no run checks: holder and
  completer are actors of the action (`HeldByActors`), and a settled action stays as it is
  (`SettledStays`), both but for what the workflow patches.
* **UiOidcSessionProofs.** Two invariants. `IInv` is for the refresh token: `Needs` is
  what a request at each step must hold, and `Unused` says that a pair beyond those issued
  is nowhere. `RInv` is for bearers: `Distinct` (requests carry different pairs),
  `Issued`, and for each request: a token it has yet to write is in no record and known to
  no logout (`Unwritten`) and was read by nobody (`Unseen`), a fall-back has removed the
  record it replaces (`Gone`), and a sweep has listed whatever its logout must revoke
  (`Listing`). The exceptions are tokens (`leaked`, `repeated`), so that an earlier race or
  failure excuses nothing later.
* **UserAccessProofs.** `Working(h)`: what a handler read bears out the step it is at - an
  owner about to step down has counted another, a role about to be written was granted, a
  request being applied is approved. `EnabledAreServed`: whoever is enabled has had
  their approvals take effect.
* **TenantSyncProofs.** `Served` and `Unmade` (nobody knows of projects still to be made),
  `LateOnes` (an admin whose relation a sync is about to change was made one since it was
  read), `OwnerLinked` and
  `OwnerSpares` (an unedited project in use has its owner, and the owner's own syncs
  are about to touch edited projects only), and `OneMaker` (in a tenant not doubled there
  is one project, or one sync making it that sees none). For `RolesFollowCstar`,
  `Follows`: an undisturbed sync is its user's only one and works on CSTAR's answer as it
  still is (`Alone`), while syncs of other users may be at any step; what it holds of a
  tenant is what the tables say (`Heading`), the tenants it is done with are right, and the
  roles it has still to take away are on the sweep's list (`Reaching`); once it ran through,
  its user's roles stay right (`Settled`), because others' syncs touch their own users' roles
  and a project they make finds the user without one (`Vacant`, `Followed`). A project
  found gone does not come back (`Gone`): without that a later step could map it again.

Only model-checked: the liveness properties `EventsSettle`, `CompletionNoticed` and
`ResubmissionResumes`, since the prover reasons neither about fairness nor about ENABLED.
The type invariants of the later modules are theorems, and no run repeats them.

## 6. Not modelled

In the modelled components: exempt execution modes and the kill switch (they return
before any state is touched); restarts of a process and the retry of a stalled job
by a queue worker, which runs the hook once more for the same execution (the history
would need n8n's job identity, which the hook does not see); mails about configuration
changes, which keep no state; the unused `pruneOlderThan`; wording and formatting of
messages, dates and keys (a weekly key is modelled by the number its text orders as);
the status route and the contents of Clear's report; authentication of the callback
routes.

Of the session store: the session identifier, the ID token (but for the failure of its
write) and the exchange and logout handles (each one command that reads and deletes), and the caches of tenant roles and
groups deleted beside them. Of the login: the redirect to the provider with its state and
PKCE cookies, which live in the browser. Of access requests: mails, and the mapping of the
requester's personal project. Of tenant sync: personal projects, and the flag that turns it off. Of actions: lists and
counts. Requests that fail a check before their first write are no steps.

Not modelled at all:

* *Tenant roles and groups cache*: read through Redis with a lifetime of minutes; a
  value may be stale that long by design, so a model would have nothing to refute.
* *Triggers, messages, admin, Grafana, project and UI routes, permissions*: single
  statements over tables of their own, or requests passed on.
* *Conditional restore and DNS failover*: what is lost when the schema is dropped
  depends on two clusters, their replication and their routing, none of which is here.
* *Other community nodes* (document generation, decision tables, notifications,
  SharePoint, message sources), *the UI, charts, terraform, documents, tests and type
  definitions of remote services*. A node is one request and the
  mapping of its fields; the UI holds no state of record. These are most of the lines
  of the repository, so the modelled share of all lines is small, while nearly every
  stateful module of the hooks has its model.
