------------------------------ MODULE TenantSync ------------------------------
(***************************************************************************)
(* Tenant projects: at every login the sync brings n8n's team projects,    *)
(* their members and the mapping of projects to tenants in line with       *)
(* CSTAR, one query at a time; the tenants of a user are processed side by *)
(* side, and logins overlap.  Meanwhile admins assign tenants to projects, *)
(* and people edit members and delete projects in n8n.                     *)
(*                                                                         *)
(* External: CSTAR, which knows the roles a user has in each tenant and    *)
(* whose failures read as an empty answer, and n8n's own user interface.   *)
(* Personal projects, which the sync passes over, are left out.            *)
(***************************************************************************)
EXTENDS Naturals, FiniteSets

CONSTANTS
  Users, Owner,      \* the owner is the one the process has cached
  Tenants, Handlers,
  Nobody, NoTenant,
  Answers,           \* per tenant: what CSTAR may say of a user
  MaxProjects,       \* bound of the model: projects ever created
  MaxChanges,        \* bound of the model: changes of CSTAR
  MaxEdits,          \* bound of the model: edits in n8n and by admins
  MaxFaults          \* bound of the model: failures

ASSUME OwnerAssumption == Owner \in Users /\ Nobody \notin Users
ASSUME TenantAssumption == NoTenant \notin Tenants
ASSUME BoundsAssumption ==
  MaxProjects \in Nat \ {0} /\ MaxChanges \in Nat /\ MaxEdits \in Nat /\ MaxFaults \in Nat

VARIABLES
  projects,     \* the team projects n8n has
  role,         \* n8n's project relations: the role of a user in a project
  mapping,      \* tenant_project_relation: the tenant of a project
  cstar,        \* the roles of a user in a tenant, or Outside it
  pc, syncs,    \* per handler: its step, and the login it serves
  step, work,   \* per handler and tenant: the step and the values held
  made, changes, edits, faults,
  edited,       \* history: projects people made, assigned or edited
  doubled,      \* history: tenants given a project while another was on its way
  disturbed,    \* history: users whose last sync did not run undisturbed
  late          \* history: syncs whose user became an admin after they looked

n8n == <<projects, role>>
counters == <<made, changes, edits, faults>>
history == <<edited, doubled, disturbed, late>>
vars == <<n8n, mapping, cstar, pc, syncs, step, work, counters, history>>

----------------------------------------------------------------------------
Admin == "project:admin"
Editor == "project:editor"
Viewer == "project:viewer"
NoRole == "none"
Managed == {Editor, Viewer}
RoleOrNone == Managed \cup {Admin, NoRole}
Projects == 1..MaxProjects
NoProject == 0
Outside == {"outside"}
ASSUME AnswersAssumption == Answers \in [Tenants -> SUBSET ({Outside} \cup SUBSET Managed)]

Resolve(roles) ==
  IF Editor \in roles THEN Editor ELSE IF Viewer \in roles THEN Viewer ELSE NoRole

Mapped(t) == { p \in Projects : mapping[p] = t }

Steps == {"idle", "roles", "lookup", "exists", "dangling", "create", "link", "map",
          "relation", "replace", "save", "remove"}
\* role: the one CSTAR gives.
Work == [role : Managed \cup {NoRole}, project : Projects \cup {NoProject}]
NoWork == [role |-> NoRole, project |-> NoProject]
\* active: the tenants CSTAR named; listed: the roles read before the sweep;
\* target: the project at hand; tenant: the one an admin assigns to it.
Sync == [user : Users \cup {Nobody}, active : SUBSET Tenants,
         listed : [Projects -> Managed \cup {NoRole}], target : Projects \cup {NoProject},
         tenant : Tenants \cup {NoTenant}]
NoSync == [user |-> Nobody, active |-> {}, listed |-> [p \in Projects |-> NoRole],
           target |-> NoProject, tenant |-> NoTenant]

\* No project, or one that somebody made in n8n.
Init ==
  /\ \/ projects = {} /\ made = 0 /\ role = [u \in Users |-> [p \in Projects |-> NoRole]]
     \/ /\ projects = {1} /\ made = 1
        /\ \E maker \in Users : role = [u \in Users |-> [p \in Projects |->
                                   IF u = maker /\ p = 1 THEN Admin ELSE NoRole]]
  /\ mapping = [p \in Projects |-> NoTenant]
  /\ cstar \in { c \in [Users -> [Tenants -> UNION { Answers[t] : t \in Tenants }]] :
                 \A u \in Users, t \in Tenants : c[u][t] \in Answers[t] }
  /\ pc = [h \in Handlers |-> "idle"] /\ syncs = [h \in Handlers |-> NoSync]
  /\ step = [h \in Handlers |-> [t \in Tenants |-> "idle"]]
  /\ work = [h \in Handlers |-> [t \in Tenants |-> NoWork]]
  /\ changes = 0 /\ edits = 0 /\ faults = 0
  /\ edited = projects /\ doubled = {} /\ disturbed = Users /\ late = {}

----------------------------------------------------------------------------
User(h) == syncs[h].user
Syncing(u) == \E h \in Handlers : User(h) = u

Do(h, t, place) == step' = [step EXCEPT ![h][t] = place]
Keep(h, t, holding) == work' = [work EXCEPT ![h][t] = holding]
Done(h, t) == Do(h, t, "idle") /\ Keep(h, t, NoWork)
SetRole(u, p, r) == role' = [role EXCEPT ![u][p] = r]

\* A sync that begins while no other of its user runs counts as undisturbed
\* until then; the logins of other users do not disturb it.
Login(h, u) ==
  /\ pc[h] = "idle"
  /\ \E active \in {{ t \in Tenants : cstar[u][t] # Outside }, {}} :
       /\ faults' = IF active = { t \in Tenants : cstar[u][t] # Outside } THEN faults
                    ELSE faults + 1
       /\ faults' <= MaxFaults
       /\ pc' = [pc EXCEPT ![h] = "tenants"]
       /\ syncs' = [syncs EXCEPT ![h] = [NoSync EXCEPT !.user = u, !.active = active]]
       /\ step' = [step EXCEPT ![h] = [t \in Tenants |-> IF t \in active THEN "roles" ELSE "idle"]]
       /\ disturbed' = IF Syncing(u) \/ faults' # faults THEN disturbed \cup {u}
                       ELSE disturbed \ {u}
  /\ UNCHANGED <<n8n, mapping, cstar, work, made, changes, edits, edited, doubled, late>>

----------------------------------------------------------------------------
(* One tenant of one login (syncTenantForUser).                            *)

At(h, t, place) == pc[h] = "tenants" /\ step[h][t] = place

\* A failed call counts as no role.
Roles(h, t) ==
  /\ At(h, t, "roles")
  /\ \/ /\ Keep(h, t, [NoWork EXCEPT !.role = Resolve(cstar[User(h)][t])])
        /\ UNCHANGED <<faults, disturbed>>
     \/ /\ faults < MaxFaults /\ faults' = faults + 1
        /\ disturbed' = disturbed \cup {User(h)}
        /\ UNCHANGED work
  /\ Do(h, t, "lookup")
  /\ UNCHANGED <<n8n, mapping, cstar, pc, syncs, made, changes, edits, edited, doubled, late>>

\* Somebody else found no project either and is about to map one.
Making(h, t) ==
  \/ \E other \in Handlers \ {h} : step[other][t] \in {"create", "link", "map"}
  \/ \E other \in Handlers \ {h} : pc[other] = "assign" /\ syncs[other].tenant = t

\* The first project of the tenant; the query states no order.
Found(t) == IF Mapped(t) = {} THEN {NoProject} ELSE Mapped(t)

\* Without a project, one is made if the user has a role there.
Makes(h, t) == IF work[h][t].role = NoRole THEN Done(h, t) ELSE Do(h, t, "create") /\ UNCHANGED work

Lookup(h, t) ==
  /\ At(h, t, "lookup")
  /\ \E p \in Found(t) :
       /\ IF p = NoProject
            THEN Makes(h, t)
            ELSE Do(h, t, "exists") /\ Keep(h, t, [work[h][t] EXCEPT !.project = p])
       /\ doubled' = IF p = NoProject /\ work[h][t].role # NoRole /\ Making(h, t)
                       THEN doubled \cup {t} ELSE doubled
  /\ UNCHANGED <<n8n, mapping, cstar, pc, syncs, counters, edited, disturbed, late>>

Exists(h, t) ==
  /\ At(h, t, "exists")
  /\ Do(h, t, IF work[h][t].project \in projects THEN "relation" ELSE "dangling")
  /\ UNCHANGED <<n8n, mapping, cstar, pc, syncs, work, counters, history>>

Without(p) == [mapping EXCEPT ![p] = NoTenant]

\* The project is gone: its rows and its mapping go too.
DeleteDangling(h, t) ==
  /\ At(h, t, "dangling")
  /\ mapping' = Without(work[h][t].project)
  /\ Makes(h, t)
  /\ doubled' = IF /\ work[h][t].role # NoRole
                   /\ Making(h, t) \/ Mapped(t) \ {work[h][t].project} # {}
                  THEN doubled \cup {t} ELSE doubled
  /\ UNCHANGED <<n8n, cstar, pc, syncs, counters, edited, disturbed, late>>

CreateProject(h, t) ==
  /\ At(h, t, "create") /\ made < MaxProjects
  /\ made' = made + 1 /\ projects' = projects \cup {made'}
  /\ Do(h, t, "link") /\ Keep(h, t, [work[h][t] EXCEPT !.project = made'])
  /\ UNCHANGED <<role, mapping, cstar, pc, syncs, changes, edits, faults, history>>

\* A project deleted in between fails this tenant's sync.
Drop(h, t) == Done(h, t) /\ disturbed' = disturbed \cup {User(h)}

\* (Mutant: whoever logs in becomes the admin.)
MakerOfProject(h) == User(h)

AdminOfProject(h) == Owner

Listed(h) == { p \in Projects : syncs[h].listed[p] # NoRole }

\* The sync has read its user's role in p and is about to change it.
Decided(h, p) ==
  \/ \E t \in Tenants : /\ step[h][t] \in {"replace", "save", "remove"}
                        /\ work[h][t].project = p
  \/ pc[h] \in {"sweep", "sweepDelete"} /\ p \in Listed(h)

MakeAdmin(u, p) ==
  /\ SetRole(u, p, Admin)
  /\ late' = late \cup ({ h \in Handlers : User(h) = u /\ Decided(h, p) } \X {p})

LinkOwner(h, t) ==
  LET p == work[h][t].project IN
  /\ At(h, t, "link")
  /\ \/ /\ p \in projects /\ MakeAdmin(AdminOfProject(h), p)
        /\ Do(h, t, "map") /\ UNCHANGED <<work, disturbed>>
     \/ p \notin projects /\ Drop(h, t) /\ UNCHANGED <<role, late>>
  /\ UNCHANGED <<projects, mapping, cstar, pc, syncs, counters, edited, doubled>>

\* The conflict to be ignored is one with the same project; one with another
\* tenant's row for the project is an error.  Whoever was made a member of the
\* project meanwhile becomes one of the tenant's unasked.
MapTenant(h, t) ==
  LET p == work[h][t].project IN
  /\ At(h, t, "map")
  /\ \/ /\ mapping[p] \in {NoTenant, t} /\ mapping' = [mapping EXCEPT ![p] = t]
        /\ disturbed' = disturbed \cup { u \in Users : role[u][p] \in Managed }
        /\ Do(h, t, "relation") /\ UNCHANGED work
     \/ mapping[p] \notin {NoTenant, t} /\ Drop(h, t) /\ UNCHANGED mapping
  /\ UNCHANGED <<n8n, cstar, pc, syncs, counters, edited, doubled, late>>

\* (Mutant: a sync replaces every role.)
ReplacesAny(current, wanted) == current \notin {NoRole, wanted}

Replaces(current, wanted) == current # wanted /\ current \in Managed

\* syncUserProjectRelation: what the role read asks for.
Correction(u, current, wanted) ==
  IF u = Owner /\ current = Admin THEN "idle"
  ELSE IF wanted = NoRole THEN IF current \in Managed THEN "remove" ELSE "idle"
  ELSE IF current = NoRole THEN "save"
  ELSE IF Replaces(current, wanted) THEN "replace"
  ELSE "idle"

ReadRelation(h, t) ==
  LET seen == role[User(h)][work[h][t].project] IN
  LET next == Correction(User(h), seen, work[h][t].role) IN
  /\ At(h, t, "relation")
  /\ IF next = "idle" THEN Done(h, t) ELSE Do(h, t, next) /\ UNCHANGED work
  /\ UNCHANGED <<n8n, mapping, cstar, pc, syncs, counters, history>>

\* Replacing a role is a delete and a save.
DeleteRelation(h, t) ==
  /\ step[h][t] \in {"replace", "remove"} /\ pc[h] = "tenants"
  /\ SetRole(User(h), work[h][t].project, NoRole)
  /\ IF step[h][t] = "remove" THEN Done(h, t) ELSE Do(h, t, "save") /\ UNCHANGED work
  /\ UNCHANGED <<projects, mapping, cstar, pc, syncs, counters, history>>

SaveRelation(h, t) ==
  LET p == work[h][t].project IN
  /\ At(h, t, "save")
  /\ \/ /\ p \in projects /\ SetRole(User(h), p, work[h][t].role)
        /\ Done(h, t) /\ UNCHANGED disturbed
     \/ p \notin projects /\ Drop(h, t) /\ UNCHANGED role
  /\ UNCHANGED <<projects, mapping, cstar, pc, syncs, counters, edited, doubled, late>>

\* Its failure leaves a tenant half done; the other ones and the sweep go on.
FailTenant(h, t) ==
  /\ pc[h] = "tenants" /\ step[h][t] # "idle"
  /\ faults < MaxFaults /\ faults' = faults + 1
  /\ Drop(h, t)
  /\ UNCHANGED <<n8n, mapping, cstar, pc, syncs, made, changes, edits, edited, doubled, late>>

----------------------------------------------------------------------------
(* The sweep (removeStaleTenantProjectRelations).                          *)

\* (Mutant: every relation is swept.)
SweepsAny(r) == r

\* Only managed roles are swept; the other relations are passed over.
Sweepable(r) == IF r \in Managed THEN r ELSE NoRole

ListRelations(h) ==
  /\ pc[h] = "tenants" /\ \A t \in Tenants : step[h][t] = "idle"
  /\ pc' = [pc EXCEPT ![h] = "sweep"]
  /\ syncs' = [syncs EXCEPT ![h].listed =
                 [p \in Projects |-> Sweepable(role[User(h)][p])]]
  /\ UNCHANGED <<n8n, mapping, cstar, step, work, counters, history>>

\* (Mutant: without any tenant left, nothing is swept.)
StaleUnlessAll(h, p) ==
  /\ syncs[h].active # {}
  /\ mapping[p] \notin syncs[h].active \cup {NoTenant}

Stale(h, p) == mapping[p] \notin syncs[h].active \cup {NoTenant}

SweepNext(h) ==
  /\ pc[h] = "sweep"
  /\ \E p \in Listed(h) :
       IF Stale(h, p)
         THEN /\ pc' = [pc EXCEPT ![h] = "sweepDelete"]
              /\ syncs' = [syncs EXCEPT ![h].target = p]
         ELSE syncs' = [syncs EXCEPT ![h].listed[p] = NoRole] /\ UNCHANGED pc
  /\ UNCHANGED <<n8n, mapping, cstar, step, work, counters, history>>

SweepDelete(h) ==
  LET p == syncs[h].target IN
  /\ pc[h] = "sweepDelete"
  /\ SetRole(User(h), p, NoRole)
  /\ pc' = [pc EXCEPT ![h] = "sweep"]
  /\ syncs' = [syncs EXCEPT ![h].listed[p] = NoRole, ![h].target = NoProject]
  /\ UNCHANGED <<projects, mapping, cstar, step, work, counters, history>>

End(h) ==
  /\ pc' = [pc EXCEPT ![h] = "idle"] /\ syncs' = [syncs EXCEPT ![h] = NoSync]
  /\ step' = [step EXCEPT ![h] = [t \in Tenants |-> "idle"]]
  /\ work' = [work EXCEPT ![h] = [t \in Tenants |-> NoWork]]
  /\ late' = late \ ({h} \X Projects)

Finish(h) ==
  /\ pc[h] = "sweep" /\ Listed(h) = {}
  /\ End(h)
  /\ UNCHANGED <<n8n, mapping, cstar, counters, edited, doubled, disturbed>>

\* A query of the sweep fails, or the process stops.
Fail(h) ==
  /\ pc[h] # "idle"
  /\ faults < MaxFaults /\ faults' = faults + 1
  /\ disturbed' = disturbed \cup ({User(h)} \ {Nobody})
  /\ End(h)
  /\ UNCHANGED <<n8n, mapping, cstar, made, changes, edits, edited, doubled>>

----------------------------------------------------------------------------
(* Admins and n8n.                                                         *)

Edit == edits < MaxEdits /\ edits' = edits + 1 /\ disturbed' = Users

\* assignTenantToProject checks, then writes.
CheckTenant(h, p, t) ==
  /\ pc[h] = "idle"
  /\ Edit
  /\ p \in projects /\ Mapped(t) \subseteq {p}
  /\ pc' = [pc EXCEPT ![h] = "assign"]
  /\ syncs' = [syncs EXCEPT ![h].target = p, ![h].tenant = t]
  /\ doubled' = IF Making(h, t) THEN doubled \cup {t} ELSE doubled
  /\ UNCHANGED <<n8n, mapping, cstar, step, work, made, changes, faults, edited, late>>

AssignTenant(h) ==
  /\ pc[h] = "assign"
  /\ mapping' = [mapping EXCEPT ![syncs[h].target] = syncs[h].tenant]
  /\ disturbed' = Users /\ edited' = edited \cup {syncs[h].target}
  /\ End(h)
  /\ UNCHANGED <<n8n, cstar, counters, doubled>>

RemoveTenant(p) ==
  /\ Edit
  /\ p \in projects /\ mapping[p] # NoTenant
  /\ mapping' = Without(p)
  /\ UNCHANGED <<n8n, cstar, pc, syncs, step, work, made, changes, faults, edited, doubled,
                 late>>

EditMember(u, p, r) ==
  /\ Edit
  /\ p \in projects /\ r # role[u][p]
  /\ IF r = Admin THEN MakeAdmin(u, p) ELSE SetRole(u, p, r) /\ UNCHANGED late
  /\ edited' = edited \cup {p}
  /\ UNCHANGED <<projects, mapping, cstar, pc, syncs, step, work, made, changes, faults, doubled>>

DeleteProject(p) ==
  /\ Edit
  /\ p \in projects /\ projects' = projects \ {p}
  /\ role' = [u \in Users |-> [role[u] EXCEPT ![p] = NoRole]]
  /\ UNCHANGED <<mapping, cstar, pc, syncs, step, work, made, changes, faults, edited, doubled,
                 late>>

ChangeCstar(u, t, roles) ==
  /\ changes < MaxChanges /\ changes' = changes + 1
  /\ roles # cstar[u][t] /\ cstar' = [cstar EXCEPT ![u][t] = roles]
  /\ disturbed' = disturbed \cup {u}
  /\ UNCHANGED <<n8n, mapping, pc, syncs, step, work, made, edits, faults, edited, doubled,
                 late>>

----------------------------------------------------------------------------
SyncsTenant(h, t) ==
  \/ Roles(h, t) \/ Lookup(h, t) \/ Exists(h, t) \/ DeleteDangling(h, t)
  \/ CreateProject(h, t) \/ LinkOwner(h, t) \/ MapTenant(h, t) \/ ReadRelation(h, t)
  \/ DeleteRelation(h, t) \/ SaveRelation(h, t) \/ FailTenant(h, t)
Sweeps(h) == ListRelations(h) \/ SweepNext(h) \/ SweepDelete(h) \/ Finish(h)
Edits ==
  \/ \E h \in Handlers, p \in Projects, t \in Tenants : CheckTenant(h, p, t)
  \/ \E p \in Projects : RemoveTenant(p) \/ DeleteProject(p)
  \/ \E u \in Users, p \in Projects, r \in RoleOrNone : EditMember(u, p, r)

Next ==
  \/ \E h \in Handlers, u \in Users : Login(h, u)
  \/ \E h \in Handlers, t \in Tenants : SyncsTenant(h, t)
  \/ \E h \in Handlers : Sweeps(h) \/ AssignTenant(h) \/ Fail(h)
  \/ Edits
  \/ \E u \in Users, t \in Tenants : \E roles \in Answers[t] : ChangeCstar(u, t, roles)

Spec == Init /\ [][Next]_vars

----------------------------------------------------------------------------
\* Tables and handlers have the fields their queries use.
TypeOK ==
  /\ projects \subseteq Projects /\ role \in [Users -> [Projects -> RoleOrNone]]
  /\ mapping \in [Projects -> Tenants \cup {NoTenant}]
  /\ cstar \in [Users -> [Tenants -> {Outside} \cup SUBSET Managed]]
  /\ pc \in [Handlers -> {"idle", "tenants", "sweep", "sweepDelete", "assign"}]
  /\ syncs \in [Handlers -> Sync]
  /\ step \in [Handlers -> [Tenants -> Steps]]
  /\ work \in [Handlers -> [Tenants -> Work]]
  /\ made \in 0..MaxProjects /\ changes \in Nat /\ edits \in Nat /\ faults \in Nat
  /\ edited \subseteq Projects /\ doubled \subseteq Tenants /\ disturbed \subseteq Users
  /\ late \subseteq Handlers \X Projects

\* A tenant has one project, also when two of its users log in at once:
\* "onConflictDoNothing handles the race condition where another concurrent
\* login already mapped this tenant" (createTenantProject).  It does not: the
\* only conflict is one on the project.
OneProjectPerTenant == \A t \in Tenants : Cardinality(Mapped(t)) <= 1

\* A project the sync made for a tenant is never in use without the global
\* owner as its admin: the owner is linked before the mapping is made, and no
\* sync, not even the owner's own, takes the role away.
OwnerRunsProjects ==
  \A p \in projects \ edited : mapping[p] # NoTenant => role[Owner][p] = Admin

\* Once a sync ran through, the user's role in the project of each tenant is
\* the one CSTAR gives, or an admin's the sync does not manage, and every tenant
\* that gives a role has a project, whatever the syncs of other users do side by
\* side with it: nothing of an earlier membership survives
\* (syncUserProjectRelation, the sweep).  It does not hold for a user whose sync
\* failed or overlapped with another of the same user, or of whom CSTAR or an
\* edit changed something since, nor for a tenant with two projects.
RolesFollowCstar ==
  \A u \in Users \ disturbed : ~Syncing(u) =>
    \A t \in Tenants \ doubled :
      LET wanted == Resolve(cstar[u][t]) IN
      /\ wanted # NoRole => Mapped(t) # {}
      /\ \A p \in Mapped(t) \cap projects : role[u][p] \in {Admin, wanted}

\* Roles the sync does not manage are kept, by the correction of a relation and
\* by the sweep: besides people, only a sync takes an admin's role away whose
\* user was made an admin after it had read the relation, in between the two
\* queries (isManagedProjectRole guards what was read, not what is deleted).
AdminsKept ==
  [][\A u \in Users, p \in projects :
       role[u][p] = Admin /\ role'[u][p] # Admin =>
         edits' # edits \/ \E h \in Handlers : User(h) = u /\ <<h, p>> \in late]_vars
=============================================================================
