----------------------------- MODULE UserAccess -----------------------------
(***************************************************************************)
(* Who may use n8n: the sign-ins of the OIDC login coordinator, which      *)
(* create users, give them the role of their identity and enable or        *)
(* disable them, and the access requests of those it turns away.  Both     *)
(* work on n8n's user table, one query at a time, in any number of         *)
(* requests at once.                                                       *)
(*                                                                         *)
(* The identity provider and CSTAR are external: a person has at most one  *)
(* global role at the one, which changes at any time; the other, asked at  *)
(* each sign-in, has a managed project role for the person or has not.     *)
(* n8n gives every user a role, so that the branches for users without one *)
(* are left out, as is whatever a request that fails before it writes read. *)
(***************************************************************************)
EXTENDS Naturals, FiniteSets

CONSTANTS
  People, Handlers,
  Roles,          \* the global roles
  NoRole,         \* no role, and the role of a person n8n does not know
  Nobody,
  MaxRequests,    \* bound of the model: access requests
  MaxChanges      \* bound of the model: changes at the provider

ASSUME NobodyAssumption == Nobody \notin People
ASSUME BoundsAssumption == MaxRequests \in Nat /\ MaxChanges \in Nat

ASSUME RolesAssumption ==
  {"global:owner", "global:member"} \subseteq Roles /\ NoRole \notin Roles

VARIABLES
  users,        \* n8n's users, by e-mail
  requests,     \* the access requests, in the order of their creation
  idp,          \* the global roles given by the provider
  restrictNoRole,  \* those without a role are turned away
  pc, holds,    \* per handler: its step and its values
  granted,      \* history: the roles a person was ever given
  served,       \* history: approvals after which the requester was let in
  failed,       \* history: approvals whose application failed
  crossed,      \* history: an owner stepped down on grounds no longer true
  changes

outside == <<idp, restrictNoRole, changes>>
history == <<granted, served, failed, crossed>>
vars == <<users, requests, outside, pc, holds, history>>

----------------------------------------------------------------------------
User == [role : Roles \cup {NoRole}, disabled : BOOLEAN]
Unknown == [role |-> NoRole, disabled |-> FALSE]
Known(p) == users[p].role # NoRole
Enabled(p) == Known(p) /\ ~users[p].disabled
IsAdmin(p) == Enabled(p) /\ users[p].role \in {"global:owner", "global:admin"}
CanRequestAccess(p) == ~Enabled(p)
Owners == { p \in People : users[p].role = "global:owner" }

Numbers == 1..MaxRequests
NoRequest == [by |-> Nobody, status |-> "none"]
Created == { i \in Numbers : requests[i] # NoRequest }
Pending(p) == \E i \in Created : requests[i].by = p /\ requests[i].status = "pending"

LoginSteps == {"find", "count", "create", "countOwners", "change", "settle"}
ApprovalSteps == {"assign", "findRequester", "createMember", "enable"}
Places == {"idle", "submit", "decide"} \cup LoginSteps \cup ApprovalSteps

\* person: who signs in, asks or is decided on; next: the role to be given;
\* seen: the user read; number, verdict: the request under review.
Holding == [person : People \cup {Nobody}, next : Roles \cup {NoRole}, seen : User,
            number : 0..MaxRequests, verdict : {"none", "approved", "denied"}]
Nothing == [person |-> Nobody, next |-> NoRole, seen |-> Unknown, number |-> 0,
            verdict |-> "none"]

Init ==
  /\ users = [p \in People |-> Unknown]
  /\ requests = [i \in Numbers |-> NoRequest]
  /\ idp \in [People -> Roles \cup {NoRole}]
  /\ restrictNoRole \in BOOLEAN
  /\ pc = [h \in Handlers |-> "idle"] /\ holds = [h \in Handlers |-> Nothing]
  /\ granted = [p \in People |-> {}]
  /\ served = {} /\ failed = {} /\ crossed = FALSE
  /\ changes = 0

----------------------------------------------------------------------------
Begin(h, place, holding) ==
  /\ pc[h] = "idle"
  /\ pc' = [pc EXCEPT ![h] = place]
  /\ holds' = [holds EXCEPT ![h] = holding]

At(h, place) == pc[h] = place
To(h, place) == pc' = [pc EXCEPT ![h] = place]
See(h, user) == holds' = [holds EXCEPT ![h].seen = user]
End(h) ==
  /\ pc' = [pc EXCEPT ![h] = "idle"]
  /\ holds' = [holds EXCEPT ![h] = Nothing]

\* An approved requester who is, or becomes, enabled has been served.
Serves(p) == { i \in Created : requests[i].by = p /\ requests[i].status = "approved" }
SetUser(p, user) ==
  /\ users' = [users EXCEPT ![p] = user]
  /\ served' = IF user.role # NoRole /\ ~user.disabled THEN served \cup Serves(p) ELSE served
Grant(p, role) == granted' = [granted EXCEPT ![p] = @ \cup ({role} \ {NoRole})]

----------------------------------------------------------------------------
(* Signing in.                                                             *)

\* resolveNextRoleInternal; a failed call of CSTAR ends the sign-in.
NextRoles(p) ==
  IF idp[p] # NoRole THEN {idp[p]}
  ELSE IF restrictNoRole THEN {"global:member", NoRole}
  ELSE {"global:member"}

SignIn(h, p) ==
  \E next \in NextRoles(p) :
    /\ Begin(h, "find", [Nothing EXCEPT !.person = p, !.next = next])
    /\ Grant(p, next)
    /\ UNCHANGED <<users, requests, outside, served, failed, crossed>>

\* What is left to do for a user who was read, or just created, as seen.
AfterRead(seen, next) ==
  IF seen.role = "global:owner" /\ next # seen.role THEN "countOwners"
  ELSE IF next \notin {NoRole, seen.role} THEN "change"
  ELSE "settle"

FindUser(h) ==
  LET p == holds[h].person IN
  LET next == holds[h].next IN
  /\ At(h, "find")
  /\ IF ~Known(p) /\ next = NoRole
       THEN End(h)
       ELSE /\ To(h, IF Known(p) THEN AfterRead(users[p], next) ELSE "count")
            /\ See(h, users[p])
  /\ UNCHANGED <<users, requests, outside, history>>

\* The first user of all becomes the owner.
CountUsers(h) ==
  LET role == IF \E p \in People : Known(p) THEN holds[h].next
              ELSE "global:owner" IN
  /\ At(h, "count")
  /\ To(h, "create") /\ See(h, [role |-> role, disabled |-> FALSE])
  /\ Grant(holds[h].person, role)
  /\ UNCHANGED <<users, requests, outside, served, failed, crossed>>

\* The e-mail is unique: a user created meanwhile fails the sign-in.
CreateUser(h) ==
  LET p == holds[h].person IN
  /\ At(h, "create")
  /\ IF Known(p)
       THEN End(h) /\ UNCHANGED <<users, served>>
       ELSE /\ SetUser(p, holds[h].seen)
            /\ To(h, AfterRead(holds[h].seen, holds[h].next)) /\ UNCHANGED holds
  /\ UNCHANGED <<requests, outside, granted, failed, crossed>>

\* (Mutant: the user counts itself.)
OtherOwnersOrSelf(p) == Owners

OtherOwners(p) == Owners \ {p}

CountOwners(h) ==
  LET p == holds[h].person IN
  /\ At(h, "countOwners")
  /\ To(h, IF OtherOwners(p) # {} /\ holds[h].next # NoRole THEN "change" ELSE "settle")
  /\ UNCHANGED <<users, requests, outside, holds, history>>

\* An owner steps down although the other ones counted have stepped down too,
\* or although it was read when it was no owner, so that none were counted.
Crosses(h) ==
  LET p == holds[h].person IN
  /\ users[p].role = "global:owner" /\ holds[h].next # "global:owner"
  /\ \/ holds[h].seen.role # "global:owner"
     \/ \E other \in Handlers \ {h} :
          pc[other] = "change" /\ holds[other].seen.role = "global:owner"

ChangeRole(h) ==
  LET p == holds[h].person IN
  /\ At(h, "change")
  /\ SetUser(p, [users[p] EXCEPT !.role = holds[h].next])
  /\ crossed' = (crossed \/ Crosses(h))
  /\ To(h, "settle")
  /\ UNCHANGED <<requests, outside, holds, granted, failed>>

\* Enabled or disabled by what was read, not by what the row says now.
Settle(h) ==
  LET p == holds[h].person IN
  /\ At(h, "settle")
  /\ IF holds[h].next = NoRole THEN SetUser(p, [users[p] EXCEPT !.disabled = TRUE])
     ELSE IF holds[h].seen.disabled THEN SetUser(p, [users[p] EXCEPT !.disabled = FALSE])
     ELSE UNCHANGED <<users, served>>
  /\ End(h)
  /\ UNCHANGED <<requests, outside, granted, failed, crossed>>

----------------------------------------------------------------------------
(* Access requests.                                                        *)

Ask(h, p) ==
  /\ CanRequestAccess(p)
  /\ Begin(h, "submit", [Nothing EXCEPT !.person = p])
  /\ UNCHANGED <<users, requests, outside, history>>

\* The unique index admits one pending request of a person.
Submit(h) ==
  /\ At(h, "submit")
  /\ \E i \in Numbers \ Created :
       /\ \A j \in 1..(i - 1) : j \in Created
       /\ requests' = IF Pending(holds[h].person) THEN requests
                      ELSE [requests EXCEPT ![i] = [by |-> holds[h].person, status |-> "pending"]]
  /\ End(h)
  /\ UNCHANGED <<users, outside, history>>

Review(h, reviewer, i, verdict) ==
  /\ IsAdmin(reviewer) /\ i \in Created
  /\ Begin(h, "decide", [Nothing EXCEPT !.person = requests[i].by, !.number = i,
                                        !.verdict = verdict])
  /\ UNCHANGED <<users, requests, outside, history>>

\* (Mutant: whoever loses the race for a request goes on all the same.)
WinsAnyway(h) == TRUE

Wins(h) == requests[holds[h].number].status = "pending"

\* The decision is final before any of it is applied.
Decide(h) ==
  LET i == holds[h].number IN
  LET p == holds[h].person IN
  LET approved == holds[h].verdict = "approved" IN
  /\ At(h, "decide")
  /\ requests' = IF requests[i].status = "pending"
                   THEN [requests EXCEPT ![i].status = holds[h].verdict] ELSE requests
  /\ IF Wins(h) /\ approved THEN To(h, "assign") /\ UNCHANGED holds ELSE End(h)
  /\ IF requests[i].status = "pending" /\ approved
       THEN /\ Grant(p, "global:member")
            /\ served' = IF Enabled(p) THEN served \cup {i} ELSE served
       ELSE UNCHANGED <<granted, served>>
  /\ UNCHANGED <<users, outside, failed, crossed>>

\* Where the service for it is configured, the role is added to those the
\* provider knows; when it shows and which is named first is its own affair.
AssignRole(h) ==
  LET p == holds[h].person IN
  /\ At(h, "assign")
  /\ \E role \in {idp[p], "global:member"} : idp' = [idp EXCEPT ![p] = role]
  /\ To(h, "findRequester")
  /\ UNCHANGED <<users, requests, restrictNoRole, changes, holds, history>>

\* (Mutant: only users n8n does not know are let in.)
NeedsCreationOnly(user) == IF user.role = NoRole THEN "createMember" ELSE "idle"

Needs(user) ==
  IF user.role = NoRole THEN "createMember"
  ELSE IF user.disabled THEN "enable"
  ELSE "idle"

FindRequester(h) ==
  LET p == holds[h].person IN
  /\ At(h, "findRequester")
  /\ IF Needs(users[p]) = "idle" THEN End(h) ELSE To(h, Needs(users[p])) /\ UNCHANGED holds
  /\ UNCHANGED <<users, requests, outside, history>>

CreateMember(h) ==
  LET p == holds[h].person IN
  /\ At(h, "createMember")
  /\ IF Known(p)
       THEN failed' = failed \cup {holds[h].number} /\ UNCHANGED <<users, served>>
       ELSE SetUser(p, [role |-> "global:member", disabled |-> FALSE]) /\ UNCHANGED failed
  /\ End(h)
  /\ UNCHANGED <<requests, outside, granted, crossed>>

Enable(h) ==
  LET p == holds[h].person IN
  /\ At(h, "enable")
  /\ SetUser(p, [users[p] EXCEPT !.disabled = FALSE])
  /\ End(h)
  /\ UNCHANGED <<requests, outside, granted, failed, crossed>>

----------------------------------------------------------------------------
\* A query or a call fails, or the process stops: the rest is not done, and
\* nobody does it later.
Fail(h) ==
  /\ pc[h] # "idle"
  /\ failed' = IF pc[h] \in ApprovalSteps THEN failed \cup {holds[h].number} ELSE failed
  /\ End(h)
  /\ UNCHANGED <<users, requests, outside, granted, served, crossed>>

\* The provider gives or takes a role.
Change(p) ==
  /\ changes < MaxChanges /\ changes' = changes + 1
  /\ \E role \in Roles \cup {NoRole} : idp' = [idp EXCEPT ![p] = role]
  /\ UNCHANGED <<users, requests, restrictNoRole, pc, holds, history>>

SignsIn(h) ==
  \/ FindUser(h) \/ CountUsers(h) \/ CreateUser(h) \/ CountOwners(h)
  \/ ChangeRole(h) \/ Settle(h)
Decides(h) ==
  Decide(h) \/ AssignRole(h) \/ FindRequester(h) \/ CreateMember(h) \/ Enable(h)

Next ==
  \/ \E h \in Handlers, p \in People : SignIn(h, p) \/ Ask(h, p)
  \/ \E h \in Handlers, p \in People, i \in Numbers, verdict \in {"approved", "denied"} :
       Review(h, p, i, verdict)
  \/ \E h \in Handlers : SignsIn(h) \/ Submit(h) \/ Decides(h) \/ Fail(h)
  \/ \E p \in People : Change(p)

Spec == Init /\ [][Next]_vars

----------------------------------------------------------------------------
\* Users, requests and handlers have the fields their queries use.
TypeOK ==
  /\ users \in [People -> User]
  /\ requests \in [Numbers -> [by : People \cup {Nobody},
                               status : {"none", "pending", "approved", "denied"}]]
  /\ idp \in [People -> Roles \cup {NoRole}]
  /\ restrictNoRole \in BOOLEAN
  /\ pc \in [Handlers -> Places] /\ holds \in [Handlers -> Holding]
  /\ granted \in [People -> SUBSET Roles]
  /\ served \subseteq Numbers /\ failed \subseteq Numbers /\ crossed \in BOOLEAN
  /\ changes \in Nat

\* "Not downgrading user role to avoid leaving system without an owner": once
\* there are users one of them is an owner, whatever sign-ins race for the
\* first place and whoever is demoted, unless a demotion acted on a count or a
\* row that another sign-in had made untrue (syncN8nUserRole, provisionUser).
OwnerRemains == (\E p \in People : Known(p)) /\ ~crossed => Owners # {}

\* Nobody holds a role, and nobody is a user at all, who was not given that
\* role by the provider, CSTAR, the configuration, an approval that was
\* decided in their favour, or as the first user.
RolesWereGranted == \A p \in People : Known(p) => users[p].role \in granted[p]

\* An approval lets its requester in: approved, it is being applied, or the
\* requester has been enabled since, or its application failed
\* (reviewAccessRequest decides first and applies after).
ApprovalsTakeEffect ==
  \A i \in Created : requests[i].status = "approved" =>
    \/ i \in served \cup failed
    \/ \E h \in Handlers : pc[h] \in ApprovalSteps /\ holds[h].number = i
=============================================================================
