-------------------------- MODULE TenantSyncProofs --------------------------
(***************************************************************************)
(* Theorems of TenantSync: what a sync of one tenant writes stays true     *)
(* however many logins, admins and people in n8n come between its queries, *)
(* and a sync that nothing comes across leaves the roles CSTAR gives.      *)
(***************************************************************************)
EXTENDS TenantSync, TLAPS

----------------------------------------------------------------------------
(* What the writes change, element by element.                             *)

\* A tenant's sync moves to another step.
LEMMA DoAt ==
  ASSUME TypeOK, NEW h \in Handlers, NEW t \in Tenants, NEW place \in Steps, Do(h, t, place)
  PROVE  /\ step' \in [Handlers -> [Tenants -> Steps]]
         /\ \A k \in Handlers, s \in Tenants :
              step'[k][s] = IF k = h /\ s = t THEN place ELSE step[k][s]
BY DEF TypeOK, Do

\* It holds other values.
LEMMA KeepAt ==
  ASSUME TypeOK, NEW h \in Handlers, NEW t \in Tenants, NEW w \in Work, Keep(h, t, w)
  PROVE  /\ work' \in [Handlers -> [Tenants -> Work]]
         /\ \A k \in Handlers, s \in Tenants :
              work'[k][s] = IF k = h /\ s = t THEN w ELSE work[k][s]
BY DEF TypeOK, Keep

\* A handler ends, and holds nothing.
LEMMA EndAt ==
  ASSUME TypeOK, NEW h \in Handlers, End(h)
  PROVE  /\ pc' = [pc EXCEPT ![h] = "idle"]
         /\ syncs' \in [Handlers -> Sync]
         /\ \A k \in Handlers : syncs'[k] = IF k = h THEN NoSync ELSE syncs[k]
         /\ step' \in [Handlers -> [Tenants -> Steps]]
         /\ \A k \in Handlers, s \in Tenants :
              step'[k][s] = IF k = h THEN "idle" ELSE step[k][s]
         /\ work' \in [Handlers -> [Tenants -> Work]]
         /\ \A k \in Handlers, s \in Tenants :
              work'[k][s] = IF k = h THEN NoWork ELSE work[k][s]
         /\ late' = late \ ({h} \X Projects)
<1>1. NoSync \in Sync
  BY DEF NoSync, Sync
<1>2. NoWork \in Work
  BY DEF NoWork, Work
<1> QED BY <1>1, <1>2 DEF TypeOK, End, Steps

\* Somebody is made an admin, and the syncs that looked before are noted.
LEMMA MakeAdminAt ==
  ASSUME TypeOK, NEW u, NEW p \in Projects, MakeAdmin(u, p)
  PROVE  /\ role' \in [Users -> [Projects -> RoleOrNone]]
         /\ \A v \in Users, q \in Projects :
              role'[v][q] = IF v = u /\ q = p THEN Admin ELSE role[v][q]
         /\ late \subseteq late' /\ late' \subseteq Handlers \X Projects
         /\ \A h \in Handlers : User(h) = u /\ Decided(h, p) => <<h, p>> \in late'
BY DEF TypeOK, MakeAdmin, SetRole, RoleOrNone

\* One role is written.
LEMMA RoleAt ==
  ASSUME TypeOK, NEW u, NEW p, NEW r \in RoleOrNone, SetRole(u, p, r)
  PROVE  /\ role' \in [Users -> [Projects -> RoleOrNone]]
         /\ \A v \in Users, q \in Projects :
              role'[v][q] = IF v = u /\ q = p THEN r ELSE role[v][q]
BY DEF TypeOK, SetRole

\* The fields of what a sync holds.
LEMMA WorkFields ==
  ASSUME TypeOK, NEW h \in Handlers, NEW t \in Tenants
  PROVE  /\ work[h][t] \in Work
         /\ work[h][t].role \in Managed \cup {NoRole}
         /\ work[h][t].role \in RoleOrNone
         /\ work[h][t].project \in Projects \cup {NoProject}
BY DEF TypeOK, Work, RoleOrNone

\* A project or a role is noted, and the other values stay.
LEMMA Noting ==
  ASSUME NEW w \in Work
  PROVE  /\ \A p \in Projects \cup {NoProject} :
              /\ [w EXCEPT !.project = p] \in Work /\ [w EXCEPT !.project = p].role = w.role
              /\ [w EXCEPT !.project = p].project = p
         /\ \A r \in Managed \cup {NoRole} :
              /\ [w EXCEPT !.role = r] \in Work /\ [w EXCEPT !.role = r].role = r
              /\ [w EXCEPT !.role = r].project = w.project
BY DEF Work

\* The fields of what a sync holds at first.
LEMMA NoWorkFields ==
  NoWork \in Work /\ NoWork.project = NoProject
BY DEF NoWork, Work

\* The fields of a login.
LEMMA SyncFields ==
  ASSUME TypeOK, NEW h \in Handlers
  PROVE  /\ syncs[h] \in Sync
         /\ syncs[h].user \in Users \cup {Nobody}
         /\ syncs[h].active \in SUBSET Tenants
         /\ syncs[h].listed \in [Projects -> Managed \cup {NoRole}]
         /\ syncs[h].target \in Projects \cup {NoProject}
         /\ syncs[h].tenant \in Tenants \cup {NoTenant}
BY DEF TypeOK, Sync

----------------------------------------------------------------------------
(* Types.  A handler that syncs serves a user; one that assigns a tenant,  *)
(* is at work on a tenant's project, or sweeps, holds projects there have  *)
(* been.                                                                   *)

AtProject == {"exists", "dangling", "link", "map", "relation", "replace", "save", "remove"}

Serving(h) ==
  /\ \A t \in Tenants : step[h][t] \in AtProject =>
       work[h][t].project \in Projects /\ work[h][t].project <= made
  /\ pc[h] \in {"tenants", "sweep", "sweepDelete"} => User(h) \in Users
  /\ pc[h] = "assign" => syncs[h].target \in Projects /\ syncs[h].target <= made
  /\ pc[h] \in {"sweep", "sweepDelete"} => \A p \in Listed(h) : p <= made
  /\ pc[h] = "sweepDelete" => syncs[h].target \in Listed(h)

Served == \A h \in Handlers : Serving(h)

\* The first state is well-typed.
LEMMA InitTypes == Init => TypeOK /\ Served
<1> SUFFICES ASSUME Init PROVE TypeOK /\ Served
  OBVIOUS
<1>1. NoSync \in Sync
  BY DEF NoSync, Sync
<1>2. NoWork \in Work
  BY NoWorkFields
<1>3. \A t \in Tenants : Answers[t] \subseteq {Outside} \cup SUBSET Managed
  BY AnswersAssumption
<1>4. UNION { Answers[t] : t \in Tenants } \subseteq {Outside} \cup SUBSET Managed
  BY <1>3
<1>5. cstar \in [Users -> [Tenants -> {Outside} \cup SUBSET Managed]]
  <2> DEFINE All == UNION { Answers[t] : t \in Tenants }
  <2>1. cstar \in [Users -> [Tenants -> All]]
    BY DEF Init
  <2>2. All \subseteq {Outside} \cup SUBSET Managed
    BY <1>4
  <2> HIDE DEF All
  <2> QED BY <2>1, <2>2
<1>6. role \in [Users -> [Projects -> RoleOrNone]] /\ projects \subseteq Projects /\ made \in 0..MaxProjects
  BY BoundsAssumption DEF Init, Projects, RoleOrNone
<1>7. edited = projects /\ doubled = {} /\ disturbed = Users /\ late = {}
  BY DEF Init
<1>8. TypeOK
  BY <1>1, <1>2, <1>5, <1>6, <1>7 DEF Init, TypeOK, Steps
<1>9. Served
  BY DEF Init, Served, Serving, AtProject
<1> QED BY <1>8, <1>9

\* A step of a tenant's sync that names its place keeps the types of steps
\* and values held.
LEMMA Ranges ==
  ASSUME TypeOK, Served, NEW h \in Handlers, NEW t \in Tenants
  PROVE  /\ Done(h, t) => /\ step' \in [Handlers -> [Tenants -> Steps]]
                          /\ work' \in [Handlers -> [Tenants -> Work]]
         /\ Makes(h, t) => /\ step' \in [Handlers -> [Tenants -> Steps]]
                           /\ work' \in [Handlers -> [Tenants -> Work]]
         /\ pc[h] = "tenants" => User(h) \in Users
<1>1. Done(h, t) => /\ step' \in [Handlers -> [Tenants -> Steps]]
                   /\ work' \in [Handlers -> [Tenants -> Work]]
  BY NoWorkFields, DoAt, KeepAt DEF Done, Steps
<1>2. Makes(h, t) => /\ step' \in [Handlers -> [Tenants -> Steps]]
                    /\ work' \in [Handlers -> [Tenants -> Work]]
  BY <1>1, DoAt DEF Makes, Steps, TypeOK
<1> QED BY <1>1, <1>2 DEF Served, Serving

\* Steps of a tenant's sync keep the types.
LEMMA TenantTypes ==
  ASSUME TypeOK, Served, NEW h \in Handlers, NEW t \in Tenants, SyncsTenant(h, t)
  PROVE  TypeOK'
<1> USE WorkFields, Ranges, BoundsAssumption
<1>1. CASE Roles(h, t)
  <2>1. Resolve(cstar[User(h)][t]) \in Managed \cup {NoRole}
    BY DEF Resolve, Managed
  <2>2. Keep(h, t, [NoWork EXCEPT !.role = Resolve(cstar[User(h)][t])]) =>
          work' \in [Handlers -> [Tenants -> Work]]
    BY <2>1, NoWorkFields, Noting, KeepAt
  <2>3. work' \in [Handlers -> [Tenants -> Work]] /\ step' \in [Handlers -> [Tenants -> Steps]]
    BY <1>1, <2>2, DoAt DEF Roles, TypeOK, Steps
  <2>4. faults' \in Nat /\ disturbed' \subseteq Users
    BY <1>1 DEF Roles, At, TypeOK
  <2> QED BY <1>1, <2>3, <2>4 DEF Roles, TypeOK, n8n
<1>2. CASE Lookup(h, t)
  <2>1. PICK p \in Found(t) :
          /\ IF p = NoProject
               THEN Makes(h, t)
               ELSE Do(h, t, "exists") /\ Keep(h, t, [work[h][t] EXCEPT !.project = p])
          /\ doubled' \in {doubled, doubled \cup {t}}
    BY <1>2 DEF Lookup
  <2>2. p \in Projects \cup {NoProject}
    BY <2>1 DEF Found, Mapped
  <2>3. step' \in [Handlers -> [Tenants -> Steps]] /\ work' \in [Handlers -> [Tenants -> Work]]
    BY <2>1, <2>2, Noting, KeepAt, DoAt DEF Steps
  <2>4. doubled' \subseteq Tenants
    BY <2>1 DEF TypeOK
  <2> QED BY <1>2, <2>3, <2>4 DEF Lookup, TypeOK, counters, n8n
<1>3. CASE Exists(h, t)
  BY <1>3, DoAt DEF Exists, TypeOK, Steps, n8n, counters, history
<1>4. CASE DeleteDangling(h, t)
  BY <1>4 DEF DeleteDangling, Without, TypeOK, n8n, counters
<1>5. CASE CreateProject(h, t)
  <2>1. made' \in Projects /\ made' \in 0..MaxProjects
    BY <1>5 DEF CreateProject, TypeOK, Projects
  <2>2. work' \in [Handlers -> [Tenants -> Work]] /\ step' \in [Handlers -> [Tenants -> Steps]]
    BY <1>5, <2>1, Noting, KeepAt, DoAt DEF CreateProject, Steps
  <2> QED BY <1>5, <2>1, <2>2 DEF CreateProject, TypeOK, history
<1>6. CASE LinkOwner(h, t)
  <2>1. role' \in [Users -> [Projects -> RoleOrNone]] /\ late' \subseteq Handlers \X Projects
    BY <1>6, MakeAdminAt DEF LinkOwner, TypeOK
  <2>2. work' \in [Handlers -> [Tenants -> Work]] /\ step' \in [Handlers -> [Tenants -> Steps]]
    BY <1>6, DoAt DEF LinkOwner, Steps, Drop, TypeOK
  <2> QED BY <1>6, <2>1, <2>2 DEF LinkOwner, Drop, At, TypeOK, counters
<1>7. CASE MapTenant(h, t)
  <2>1. work' \in [Handlers -> [Tenants -> Work]] /\ step' \in [Handlers -> [Tenants -> Steps]]
    BY <1>7, DoAt DEF MapTenant, Steps, Drop, TypeOK
  <2> QED BY <1>7, <2>1 DEF MapTenant, Drop, At, TypeOK, counters, n8n
<1>8. CASE ReadRelation(h, t)
  <2> DEFINE seen == role[User(h)][work[h][t].project]
             next == Correction(User(h), seen, work[h][t].role)
  <2>1. next \in Steps
    BY DEF Correction, Steps
  <2>3. step' \in [Handlers -> [Tenants -> Steps]] /\ work' \in [Handlers -> [Tenants -> Work]]
    BY <1>8, <2>1, DoAt DEF ReadRelation, TypeOK
  <2> QED BY <1>8, <2>3 DEF ReadRelation, TypeOK, counters, n8n, history
<1>9. CASE DeleteRelation(h, t)
  <2>1. role' \in [Users -> [Projects -> RoleOrNone]]
    BY <1>9, RoleAt DEF DeleteRelation, RoleOrNone
  <2>2. step' \in [Handlers -> [Tenants -> Steps]] /\ work' \in [Handlers -> [Tenants -> Work]]
    BY <1>9, DoAt DEF DeleteRelation, Steps, TypeOK
  <2> QED BY <1>9, <2>1, <2>2 DEF DeleteRelation, TypeOK, counters, history
<1>10. CASE SaveRelation(h, t)
  <2>1. role' \in [Users -> [Projects -> RoleOrNone]]
    BY <1>10, RoleAt DEF SaveRelation, TypeOK
  <2> QED BY <1>10, <2>1 DEF SaveRelation, At, Drop, TypeOK, counters
<1>11. CASE FailTenant(h, t)
  BY <1>11 DEF FailTenant, Drop, TypeOK, n8n
<1> QED BY <1>1, <1>2, <1>3, <1>4, <1>5, <1>6, <1>7, <1>8, <1>9, <1>10, <1>11 DEF SyncsTenant

\* A login begins with nothing listed.
LEMMA LoginSync ==
  ASSUME NEW u \in Users, NEW active \in SUBSET Tenants
  PROVE  LET s == [NoSync EXCEPT !.user = u, !.active = active]
         IN  /\ s \in Sync /\ s.user = u /\ s.target = NoProject
             /\ s.tenant = NoTenant /\ s.listed = [p \in Projects |-> NoRole]
BY DEF NoSync, Sync

\* Steps of a sweep keep the types.
LEMMA SweepTypes ==
  ASSUME TypeOK, Served, NEW h \in Handlers, Sweeps(h)
  PROVE  TypeOK'
<1> USE SyncFields
<1>1. CASE ListRelations(h)
  <2> DEFINE read == [p \in Projects |-> Sweepable(role[User(h)][p])]
  <2>1. read \in [Projects -> Managed \cup {NoRole}]
    BY DEF Sweepable
  <2> HIDE DEF read
  <2>2. syncs' \in [Handlers -> Sync]
    <3>1. [syncs[h] EXCEPT !.listed = read] \in Sync
      BY <2>1 DEF Sync
    <3> QED BY <1>1, <3>1 DEF ListRelations, TypeOK, read
  <2> QED BY <1>1, <2>2 DEF ListRelations, TypeOK, counters, n8n, history
<1>2. CASE SweepNext(h)
  <2>1. PICK p \in Listed(h) :
          IF Stale(h, p)
            THEN /\ pc' = [pc EXCEPT ![h] = "sweepDelete"]
                 /\ syncs' = [syncs EXCEPT ![h].target = p]
            ELSE syncs' = [syncs EXCEPT ![h].listed[p] = NoRole] /\ UNCHANGED pc
    BY <1>2 DEF SweepNext
  <2>2. p \in Projects
    BY <2>1 DEF Listed
  <2>3. [syncs[h] EXCEPT !.target = p] \in Sync /\ [syncs[h] EXCEPT !.listed[p] = NoRole] \in Sync
    BY <2>2 DEF Sync
  <2>4. syncs' \in [Handlers -> Sync]
    BY <2>1, <2>3 DEF TypeOK
  <2> QED BY <1>2, <2>1, <2>4 DEF SweepNext, TypeOK, counters, n8n, history
<1>3. CASE SweepDelete(h)
  <2> DEFINE p == syncs[h].target
  <2>1. role' \in [Users -> [Projects -> RoleOrNone]]
    BY <1>3, RoleAt DEF SweepDelete, RoleOrNone
  <2>2. [syncs[h] EXCEPT !.listed[p] = NoRole, !.target = NoProject] \in Sync
    <3>1. [syncs[h].listed EXCEPT ![p] = NoRole] \in [Projects -> Managed \cup {NoRole}]
      OBVIOUS
    <3> HIDE DEF p
    <3> QED BY <3>1 DEF Sync
  <2>3. syncs' \in [Handlers -> Sync]
    BY <1>3, <2>2 DEF SweepDelete, TypeOK
  <2> QED BY <1>3, <2>1, <2>3 DEF SweepDelete, TypeOK, counters, history
<1>4. CASE Finish(h)
  <2>1. End(h) /\ UNCHANGED <<n8n, mapping, cstar, counters, edited, doubled, disturbed>>
    BY <1>4 DEF Finish
  <2>2. late' \subseteq Handlers \X Projects
    BY <2>1, EndAt DEF TypeOK
  <2>3. /\ pc' \in [Handlers -> {"idle", "tenants", "sweep", "sweepDelete", "assign"}]
        /\ syncs' \in [Handlers -> Sync] /\ step' \in [Handlers -> [Tenants -> Steps]]
        /\ work' \in [Handlers -> [Tenants -> Work]]
    BY <2>1, EndAt DEF TypeOK
  <2> QED BY <2>1, <2>2, <2>3 DEF TypeOK, counters, n8n
<1> QED BY <1>1, <1>2, <1>3, <1>4 DEF Sweeps

\* Every step keeps the types.
LEMMA TypeStep ==
  ASSUME TypeOK, Served, [Next]_vars
  PROVE  TypeOK'
<1>1. ASSUME NEW h \in Handlers, NEW u \in Users, Login(h, u)
      PROVE  TypeOK'
  <2>1. PICK active \in {{ t \in Tenants : cstar[u][t] # Outside }, {}} :
          /\ faults' \in {faults, faults + 1}
          /\ syncs' = [syncs EXCEPT ![h] = [NoSync EXCEPT !.user = u, !.active = active]]
          /\ step' = [step EXCEPT ![h] = [t \in Tenants |-> IF t \in active THEN "roles" ELSE "idle"]]
    BY <1>1 DEF Login
  <2>2. active \in SUBSET Tenants
    BY <2>1
  <2>3. syncs' \in [Handlers -> Sync]
    BY <2>1, <2>2, LoginSync DEF TypeOK
  <2>4. step' \in [Handlers -> [Tenants -> Steps]]
    BY <2>1 DEF TypeOK, Steps
  <2>5. pc' \in [Handlers -> {"idle", "tenants", "sweep", "sweepDelete", "assign"}]
    BY <1>1 DEF Login, TypeOK
  <2>6. disturbed' \subseteq Users
    BY <1>1 DEF Login, TypeOK
  <2> QED BY <1>1, <2>1, <2>3, <2>4, <2>5, <2>6 DEF Login, TypeOK, n8n
<1>2. ASSUME NEW h \in Handlers, NEW t \in Tenants, SyncsTenant(h, t)
      PROVE  TypeOK'
  BY <1>2, TenantTypes
<1>3. ASSUME NEW h \in Handlers, Sweeps(h)
      PROVE  TypeOK'
  BY <1>3, SweepTypes
<1>4. ASSUME NEW h \in Handlers, AssignTenant(h)
      PROVE  TypeOK'
  <2>1. syncs[h].target \in Projects
    BY <1>4 DEF AssignTenant, Served, Serving
  <2>2. mapping' \in [Projects -> Tenants \cup {NoTenant}]
    BY <1>4, SyncFields DEF AssignTenant, TypeOK
  <2> QED BY <1>4, <2>1, <2>2, EndAt DEF AssignTenant, TypeOK, counters, n8n
<1>5. ASSUME NEW h \in Handlers, Fail(h)
      PROVE  TypeOK'
  <2>1. disturbed' \subseteq Users
    BY <1>5, SyncFields DEF Fail, TypeOK, User
  <2> QED BY <1>5, <2>1, EndAt DEF Fail, TypeOK, n8n
<1>6. ASSUME NEW h \in Handlers, NEW p \in Projects, NEW t \in Tenants, CheckTenant(h, p, t)
      PROVE  TypeOK'
  <2>1. [syncs[h] EXCEPT !.target = p, !.tenant = t] \in Sync
    BY SyncFields DEF Sync
  <2>2. syncs' \in [Handlers -> Sync]
    BY <1>6, <2>1 DEF CheckTenant, TypeOK
  <2> QED BY <1>6, <2>2 DEF CheckTenant, Edit, TypeOK, n8n
<1>7. ASSUME NEW p \in Projects, RemoveTenant(p)
      PROVE  TypeOK'
  BY <1>7 DEF RemoveTenant, Edit, Without, TypeOK, n8n
<1>8. ASSUME NEW p \in Projects, DeleteProject(p)
      PROVE  TypeOK'
  <2>1. role' \in [Users -> [Projects -> RoleOrNone]]
    BY <1>8 DEF DeleteProject, TypeOK, RoleOrNone
  <2> QED BY <1>8, <2>1 DEF DeleteProject, Edit, TypeOK
<1>9. ASSUME NEW u \in Users, NEW p \in Projects, NEW r \in RoleOrNone, EditMember(u, p, r)
      PROVE  TypeOK'
  <2>1. role' \in [Users -> [Projects -> RoleOrNone]] /\ late' \subseteq Handlers \X Projects
    BY <1>9, RoleAt, MakeAdminAt DEF EditMember, TypeOK
  <2> QED BY <1>9, <2>1 DEF EditMember, Edit, TypeOK
<1>10. ASSUME NEW u \in Users, NEW t \in Tenants, NEW roles \in Answers[t], ChangeCstar(u, t, roles)
       PROVE  TypeOK'
  <2>1. roles \in {Outside} \cup SUBSET Managed
    BY AnswersAssumption
  <2> QED BY <1>10, <2>1 DEF ChangeCstar, TypeOK, n8n
<1>11. CASE UNCHANGED vars
  BY <1>11 DEF vars, TypeOK, n8n, counters, history
<1> QED
  BY <1>1, <1>2, <1>3, <1>4, <1>5, <1>6, <1>7, <1>8, <1>9, <1>10, <1>11 DEF Next, Edits

----------------------------------------------------------------------------
(* Pointwise: what the steps of a tenant's sync do to the places, the      *)
(* values held and the tables, and what they leave alone.                  *)

\* Only the step at hand moves, and nobody's sync or login changes.
LEMMA TenantFrame ==
  ASSUME TypeOK, Served, NEW h \in Handlers, NEW t \in Tenants, SyncsTenant(h, t)
  PROVE  /\ pc' = pc /\ syncs' = syncs /\ edits' = edits /\ edited' = edited /\ cstar' = cstar
         /\ pc[h] = "tenants" /\ step[h][t] # "idle"
         /\ \A k \in Handlers, s \in Tenants :
              k # h \/ s # t => step'[k][s] = step[k][s] /\ work'[k][s] = work[k][s]
<1> USE WorkFields, NoWorkFields
<1>1. CASE Roles(h, t)
  <2>1. Resolve(cstar[User(h)][t]) \in Managed \cup {NoRole}
    BY DEF Resolve, Managed
  <2>2. \A k \in Handlers, s \in Tenants : k # h \/ s # t => work'[k][s] = work[k][s]
    <3>1. CASE UNCHANGED work
      BY <3>1
    <3>2. CASE Keep(h, t, [NoWork EXCEPT !.role = Resolve(cstar[User(h)][t])])
      <4>1. [NoWork EXCEPT !.role = Resolve(cstar[User(h)][t])] \in Work
        BY <2>1, Noting
      <4> QED BY <3>2, <4>1, KeepAt
    <3> QED BY <1>1, <3>1, <3>2 DEF Roles
  <2>3. \A k \in Handlers, s \in Tenants : k # h \/ s # t => step'[k][s] = step[k][s]
    BY <1>1, DoAt DEF Roles, Steps
  <2> QED BY <1>1, <2>2, <2>3 DEF Roles, At
<1>2. CASE Lookup(h, t)
  <2>1. Found(t) \subseteq Projects \cup {NoProject}
    BY DEF Found, Mapped
  <2> QED BY <1>2, <2>1, Noting, KeepAt, DoAt DEF Lookup, At, Steps, Makes, Done, counters
<1>3. CASE Exists(h, t)
  BY <1>3, DoAt DEF Exists, At, Steps, counters, history
<1>4. CASE DeleteDangling(h, t)
  BY <1>4, KeepAt, DoAt DEF DeleteDangling, At, Steps, Makes, Done, counters
<1>5. CASE CreateProject(h, t)
  <2>1. made' \in Projects
    BY <1>5, BoundsAssumption DEF CreateProject, TypeOK, Projects
  <2>2. PICK w \in Work : w = [work[h][t] EXCEPT !.project = made']
    BY <2>1, Noting
  <2>3. w.project = made' /\ Keep(h, t, w) /\ Do(h, t, "link")
    BY <1>5, <2>1, <2>2, Noting DEF CreateProject
  <2> QED BY <1>5, <2>3, KeepAt, DoAt DEF CreateProject, At, Steps, history
<1>6. CASE LinkOwner(h, t)
  BY <1>6, KeepAt, DoAt DEF LinkOwner, At, Steps, Drop, Done, counters
<1>7. CASE MapTenant(h, t)
  BY <1>7, KeepAt, DoAt DEF MapTenant, At, Steps, Drop, Done, counters
<1>8. CASE ReadRelation(h, t)
  <2> DEFINE seen == role[User(h)][work[h][t].project]
             next == Correction(User(h), seen, work[h][t].role)
  <2>1. next \in Steps
    BY DEF Correction, Steps
  <2> QED BY <1>8, <2>1, KeepAt, DoAt DEF ReadRelation, At, Steps, Done, counters, history
<1>9. CASE DeleteRelation(h, t)
  BY <1>9, KeepAt, DoAt DEF DeleteRelation, Steps, Done, counters, history
<1>10. CASE SaveRelation(h, t)
  BY <1>10, KeepAt, DoAt DEF SaveRelation, At, Steps, Drop, Done, counters
<1>11. CASE FailTenant(h, t)
  BY <1>11, KeepAt, DoAt DEF FailTenant, Steps, Drop, Done
<1> QED BY <1>1, <1>2, <1>3, <1>4, <1>5, <1>6, <1>7, <1>8, <1>9, <1>10, <1>11 DEF SyncsTenant

\* A step of the sync arrives at a project it found, made, or was at.
LEMMA TenantHolds ==
  ASSUME TypeOK, Served, NEW h \in Handlers, NEW t \in Tenants, SyncsTenant(h, t)
  PROVE  LET p == work'[h][t].project IN
         step'[h][t] \in AtProject =>
           \/ step[h][t] \in AtProject /\ p = work[h][t].project /\ step'[h][t] # "link"
           \/ step[h][t] = "lookup" /\ p \in Mapped(t) /\ step'[h][t] = "exists"
           \/ step[h][t] = "create" /\ p = made' /\ CreateProject(h, t) /\ step'[h][t] = "link"
<1> USE WorkFields, NoWorkFields DEF AtProject
<1>1. CASE Roles(h, t)
  BY <1>1, DoAt DEF Roles, Steps
<1>2. CASE Lookup(h, t)
  <2>1. PICK p \in Found(t) :
          IF p = NoProject
               THEN Makes(h, t)
               ELSE Do(h, t, "exists") /\ Keep(h, t, [work[h][t] EXCEPT !.project = p])
    BY <1>2 DEF Lookup
  <2>2. p \in Projects \cup {NoProject} /\ (p # NoProject => p \in Mapped(t))
    BY <2>1 DEF Found, Mapped
  <2>3. CASE p = NoProject
    BY <2>1, <2>3, DoAt DEF Makes, Done, Steps
  <2>4. CASE p # NoProject
    <3>1. PICK w \in Work : w = [work[h][t] EXCEPT !.project = p]
      BY <2>2, Noting
    <3>2. w.project = p /\ Keep(h, t, w) /\ Do(h, t, "exists")
      BY <2>1, <2>2, <2>4, <3>1, Noting
    <3>3. work'[h][t] = w /\ step'[h][t] = "exists"
      BY <3>2, KeepAt, DoAt DEF Steps
    <3> QED BY <1>2, <2>2, <2>4, <3>2, <3>3 DEF Lookup, At
  <2> QED BY <2>3, <2>4
<1>3. CASE Exists(h, t)
  BY <1>3, DoAt DEF Exists, At, Steps
<1>4. CASE DeleteDangling(h, t)
  BY <1>4, DoAt DEF DeleteDangling, Steps, Makes, Done
<1>5. CASE CreateProject(h, t)
  <2>1. made' \in Projects
    BY <1>5, BoundsAssumption DEF CreateProject, TypeOK, Projects
  <2>2. PICK w \in Work : w = [work[h][t] EXCEPT !.project = made']
    BY <2>1, Noting
  <2>3. w.project = made' /\ Keep(h, t, w) /\ Do(h, t, "link")
    BY <1>5, <2>1, <2>2, Noting DEF CreateProject
  <2>4. work'[h][t] = w /\ step'[h][t] = "link"
    BY <2>3, KeepAt, DoAt DEF Steps
  <2> QED BY <1>5, <2>3, <2>4 DEF CreateProject, At
<1>6. CASE LinkOwner(h, t)
  BY <1>6, DoAt DEF LinkOwner, At, Steps, Drop, Done
<1>7. CASE MapTenant(h, t)
  BY <1>7, DoAt DEF MapTenant, At, Steps, Drop, Done
<1>8. CASE ReadRelation(h, t)
  <2> DEFINE seen == role[User(h)][work[h][t].project]
             next == Correction(User(h), seen, work[h][t].role)
  <2>1. next \in {"idle", "remove", "save", "replace"}
    BY DEF Correction
  <2>3. step[h][t] = "relation"
    BY <1>8 DEF ReadRelation, At
  <2>4. CASE next = "idle"
    BY <1>8, <2>4, DoAt DEF ReadRelation, Done, Steps
  <2>5. CASE next # "idle"
    <3>1. Do(h, t, next) /\ work' = work
      BY <1>8, <2>5 DEF ReadRelation
    <3> HIDE DEF next
    <3>2. step'[h][t] = next
      BY <2>1, <3>1, DoAt DEF Steps
    <3> QED BY <2>1, <2>3, <3>1, <3>2
  <2> QED BY <2>4, <2>5
<1>9. CASE DeleteRelation(h, t)
  BY <1>9, DoAt DEF DeleteRelation, Steps, Done
<1>10. CASE SaveRelation(h, t)
  BY <1>10, DoAt DEF SaveRelation, Steps, Drop, Done
<1>11. CASE FailTenant(h, t)
  BY <1>11, DoAt DEF FailTenant, Steps, Drop, Done
<1> QED BY <1>1, <1>2, <1>3, <1>4, <1>5, <1>6, <1>7, <1>8, <1>9, <1>10, <1>11 DEF SyncsTenant

\* The tables: one project is made, one mapping goes or is made, one role is
\* written.
LEMMA TenantTables ==
  ASSUME TypeOK, Served, NEW h \in Handlers, NEW t \in Tenants, SyncsTenant(h, t)
  PROVE  LET p == work[h][t].project IN
         /\ \/ made' = made /\ projects' = projects
            \/ made' = made + 1 /\ projects' = projects \cup {made'}
         /\ \A q \in Projects : mapping'[q] # mapping[q] =>
              \/ step[h][t] = "dangling" /\ q = p /\ mapping'[q] = NoTenant
              \/ /\ step[h][t] = "map" /\ q = p /\ mapping[q] = NoTenant /\ mapping'[q] = t
                 /\ \A u \in Users \ disturbed' : role[u][q] \notin Managed
         /\ \A u \in Users, q \in Projects : role'[u][q] # role[u][q] =>
              /\ q = p /\ (role'[u][q] = NoRole \/ q \in projects)
              /\ \/ step[h][t] = "link" /\ role'[u][q] = Admin
                 \/ step[h][t] \in {"replace", "save", "remove"} /\ u = User(h)
<1> USE WorkFields DEF n8n, counters
<1>1. CASE Roles(h, t)
  BY <1>1 DEF Roles
<1>2. CASE Lookup(h, t)
  BY <1>2 DEF Lookup
<1>3. CASE Exists(h, t)
  BY <1>3 DEF Exists
<1>4. CASE DeleteDangling(h, t)
  BY <1>4 DEF DeleteDangling, At, Without, TypeOK
<1>5. CASE CreateProject(h, t)
  BY <1>5 DEF CreateProject
<1>6. CASE LinkOwner(h, t)
  <2>1. work[h][t].project \in Projects
    BY <1>6 DEF LinkOwner, At, Served, Serving, AtProject
  <2>2. MakeAdmin(AdminOfProject(h), work[h][t].project) =>
          \A u \in Users, q \in Projects : role'[u][q] # role[u][q] =>
            q = work[h][t].project /\ role'[u][q] = Admin
    BY <2>1, MakeAdminAt
  <2> QED BY <1>6, <2>2 DEF LinkOwner, At
<1>7. CASE MapTenant(h, t)
  BY <1>7 DEF MapTenant, At, TypeOK
<1>8. CASE ReadRelation(h, t)
  BY <1>8 DEF ReadRelation
<1>9. CASE DeleteRelation(h, t)
  <2>1. NoRole \in RoleOrNone
    BY DEF RoleOrNone
  <2> QED BY <1>9, <2>1, RoleAt DEF DeleteRelation
<1>10. CASE SaveRelation(h, t)
  BY <1>10, RoleAt DEF SaveRelation, At
<1>11. CASE FailTenant(h, t)
  BY <1>11 DEF FailTenant
<1> QED BY <1>1, <1>2, <1>3, <1>4, <1>5, <1>6, <1>7, <1>8, <1>9, <1>10, <1>11 DEF SyncsTenant

\* What a handler sets for itself when a sync begins, sweeps or ends leaves
\* the other ones alone.
LEMMA SweepFrame ==
  ASSUME TypeOK, Served, NEW h \in Handlers, Sweeps(h)
  PROVE  /\ projects' = projects /\ mapping' = mapping /\ made' = made /\ edits' = edits
         /\ edited' = edited /\ doubled' = doubled
         /\ pc[h] \in {"tenants", "sweep", "sweepDelete"} /\ pc'[h] # "assign"
         /\ \A k \in Handlers : k # h => pc'[k] = pc[k] /\ syncs'[k] = syncs[k]
         /\ \A k \in Handlers, t \in Tenants :
              \/ step'[k][t] = step[k][t] /\ work'[k][t] = work[k][t]
              \/ step'[k][t] = "idle"
         /\ pc'[h] # "idle" => syncs'[h].user = syncs[h].user
         /\ \A u \in Users, q \in Projects : role'[u][q] # role[u][q] =>
              u = User(h) /\ pc[h] = "sweepDelete" /\ q = syncs[h].target /\ role'[u][q] = NoRole
<1> USE SyncFields DEF n8n, counters, history
<1>1. CASE ListRelations(h)
  <2> DEFINE read == [p \in Projects |-> Sweepable(role[User(h)][p])]
  <2>1. syncs' = [syncs EXCEPT ![h] = [syncs[h] EXCEPT !.listed = read]]
    BY <1>1 DEF ListRelations, TypeOK
  <2>2. [syncs[h] EXCEPT !.listed = read].user = syncs[h].user
    BY DEF Sync
  <2> HIDE DEF read
  <2> QED BY <1>1, <2>1, <2>2 DEF ListRelations, TypeOK
<1>2. CASE SweepNext(h)
  <2>1. PICK p \in Listed(h) :
          IF Stale(h, p)
            THEN /\ pc' = [pc EXCEPT ![h] = "sweepDelete"]
                 /\ syncs' = [syncs EXCEPT ![h].target = p]
            ELSE syncs' = [syncs EXCEPT ![h].listed[p] = NoRole] /\ UNCHANGED pc
    BY <1>2 DEF SweepNext
  <2>2. syncs'[h].user = syncs[h].user /\ \A k \in Handlers : k # h => syncs'[k] = syncs[k]
    BY <2>1 DEF TypeOK, Sync
  <2>3. pc'[h] # "assign" /\ \A k \in Handlers : k # h => pc'[k] = pc[k]
    BY <1>2, <2>1 DEF SweepNext, TypeOK
  <2> QED BY <1>2, <2>2, <2>3 DEF SweepNext
<1>3. CASE SweepDelete(h)
  <2> DEFINE p == syncs[h].target
  <2>1. syncs'[h].user = syncs[h].user /\ \A k \in Handlers : k # h => syncs'[k] = syncs[k]
    BY <1>3 DEF SweepDelete, TypeOK, Sync
  <2>2. \A u \in Users, q \in Projects : role'[u][q] # role[u][q] =>
          u = User(h) /\ q = p /\ role'[u][q] = NoRole
    <3>1. NoRole \in RoleOrNone /\ SetRole(User(h), p, NoRole)
      BY <1>3 DEF SweepDelete, RoleOrNone
    <3> QED BY <3>1, RoleAt
  <2>3. pc'[h] # "assign" /\ \A k \in Handlers : k # h => pc'[k] = pc[k]
    BY <1>3 DEF SweepDelete, TypeOK
  <2> QED BY <1>3, <2>1, <2>2, <2>3 DEF SweepDelete
<1>4. CASE Finish(h)
  BY <1>4, EndAt DEF Finish, TypeOK
<1> QED BY <1>1, <1>2, <1>3, <1>4 DEF Sweeps

\* The sweep goes through the managed roles it read.
LEMMA SweepList ==
  ASSUME TypeOK, Served, NEW h \in Handlers, Sweeps(h)
  PROVE  /\ pc'[h] \in {"idle", "sweep", "sweepDelete"}
         /\ pc[h] = "tenants" /\ pc'[h] # "idle" =>
              Listed(h)' = { p \in Projects : role[User(h)][p] \in Managed }
         /\ pc[h] # "tenants" /\ pc'[h] # "idle" => Listed(h)' \subseteq Listed(h)
         /\ pc'[h] = "sweepDelete" => syncs'[h].target \in Listed(h)'
<1> USE SyncFields
<1>1. CASE ListRelations(h)
  <2> DEFINE read == [p \in Projects |-> Sweepable(role[User(h)][p])]
  <2>1. syncs' = [syncs EXCEPT ![h] = [syncs[h] EXCEPT !.listed = read]]
    BY <1>1 DEF ListRelations, TypeOK
  <2>2. syncs'[h].listed = read
    BY <2>1 DEF Sync, TypeOK
  <2>3. \A p \in Projects : read[p] # NoRole <=> role[User(h)][p] \in Managed
    BY DEF Sweepable, Managed, NoRole, Editor, Viewer
  <2> HIDE DEF read
  <2> QED BY <1>1, <2>2, <2>3 DEF ListRelations, TypeOK, Listed
<1>2. CASE SweepNext(h)
  <2>1. PICK p \in Listed(h) :
          IF Stale(h, p)
            THEN /\ pc' = [pc EXCEPT ![h] = "sweepDelete"]
                 /\ syncs' = [syncs EXCEPT ![h].target = p]
            ELSE syncs' = [syncs EXCEPT ![h].listed[p] = NoRole] /\ UNCHANGED pc
    BY <1>2 DEF SweepNext
  <2>2. p \in Projects
    BY <2>1 DEF Listed
  <2>3. CASE Stale(h, p)
    <3>1. syncs'[h].target = p /\ syncs'[h].listed = syncs[h].listed
      BY <2>1, <2>3 DEF TypeOK, Sync
    <3> QED BY <1>2, <2>1, <2>3, <3>1 DEF SweepNext, TypeOK, Listed
  <2>4. CASE ~Stale(h, p)
    <3>1. syncs'[h].listed = [syncs[h].listed EXCEPT ![p] = NoRole]
      <4>1. syncs' = [syncs EXCEPT ![h].listed[p] = NoRole]
        BY <2>1, <2>4
      <4>2. syncs \in [Handlers -> Sync] /\ syncs[h] \in Sync
        BY DEF TypeOK
      <4> QED BY <4>1, <4>2 DEF Sync
    <3>2. Listed(h)' \subseteq Listed(h)
      BY <3>1 DEF Listed
    <3>3. pc[h] = "sweep" /\ pc' = pc
      BY <1>2, <2>1, <2>4 DEF SweepNext
    <3> QED BY <3>2, <3>3
  <2> QED BY <2>3, <2>4
<1>3. CASE SweepDelete(h)
  <2> DEFINE q == syncs[h].target
  <2>1. syncs'[h].listed = [syncs[h].listed EXCEPT ![q] = NoRole]
    BY <1>3 DEF SweepDelete, TypeOK, Sync
  <2>2. Listed(h)' \subseteq Listed(h)
    BY <2>1 DEF Listed
  <2> QED BY <1>3, <2>2 DEF SweepDelete, TypeOK
<1>4. CASE Finish(h)
  BY <1>4, EndAt DEF Finish, TypeOK
<1> QED BY <1>1, <1>2, <1>3, <1>4 DEF Sweeps

----------------------------------------------------------------------------
(* The tables know nothing of projects still to be made.                   *)

Unmade ==
  \A p \in Projects : p > made =>
    /\ p \notin projects /\ mapping[p] = NoTenant
    /\ \A u \in Users : role[u][p] = NoRole

\* A step of which only the handler's own sync is known keeps Served.
LEMMA ServedElsewhere ==
  ASSUME TypeOK, Served, NEW k \in Handlers, made' >= made, made' \in Nat,
         pc'[k] = pc[k], syncs'[k] = syncs[k],
         \A t \in Tenants : \/ step'[k][t] = step[k][t] /\ work'[k][t] = work[k][t]
                            \/ step'[k][t] \notin AtProject
  PROVE  Serving(k)'
<1>1. Serving(k) /\ made \in Nat /\ Projects \subseteq Nat
  BY DEF Served, TypeOK, Projects
<1>2. Listed(k)' = Listed(k) /\ Listed(k) \subseteq Projects
  BY DEF Listed
<1>3. \A p \in Projects : p <= made => p <= made'
  BY <1>1
<1>4. \A t \in Tenants : step'[k][t] \in AtProject =>
        work'[k][t].project \in Projects /\ work'[k][t].project <= made'
  BY <1>1, <1>3 DEF Serving
<1> QED BY <1>1, <1>2, <1>3, <1>4 DEF Serving, User

\* Every step keeps what handlers hold within what was made.
LEMMA ServedStep ==
  ASSUME TypeOK, Served, Unmade, [Next]_vars
  PROVE  Served'
<1> USE DEF Served
<1>0. made \in Nat /\ Projects \subseteq Nat /\ \A p \in Projects : p > made \/ p <= made
  BY DEF TypeOK, Projects
<1>1. ASSUME NEW h \in Handlers, NEW u \in Users, Login(h, u)
      PROVE  Served'
  <2>1. PICK active \in SUBSET Tenants :
          /\ syncs' = [syncs EXCEPT ![h] = [NoSync EXCEPT !.user = u, !.active = active]]
          /\ step' = [step EXCEPT ![h] = [t \in Tenants |-> IF t \in active THEN "roles" ELSE "idle"]]
    BY <1>1 DEF Login
  <2>2. pc' = [pc EXCEPT ![h] = "tenants"] /\ made' = made /\ work' = work
    BY <1>1 DEF Login
  <2>3. Serving(h)'
    <3>1. \A t \in Tenants : step'[h][t] \in {"roles", "idle"}
      BY <2>1 DEF TypeOK
    <3>2. pc'[h] = "tenants"
      BY <2>2 DEF TypeOK
    <3>3. User(h)' = u
      BY <2>1, LoginSync DEF TypeOK, User
    <3> QED BY <3>1, <3>2, <3>3 DEF Serving, AtProject
  <2>4. ASSUME NEW k \in Handlers, k # h PROVE Serving(k)'
    BY <2>1, <2>2, <2>4, <1>0, ServedElsewhere DEF TypeOK
  <2> QED BY <2>3, <2>4
<1>2. ASSUME NEW h \in Handlers, NEW t \in Tenants, SyncsTenant(h, t)
      PROVE  Served'
  <2>1. /\ made' >= made /\ made' \in Nat
        /\ \A p \in Projects : p <= made => p <= made'
    BY <1>0, <1>2, TenantTables
  <2>2. ASSUME NEW k \in Handlers, k # h PROVE Serving(k)'
    BY <1>2, <2>1, <2>2, TenantFrame, ServedElsewhere
  <2>3. step'[h][t] \in AtProject =>
          work'[h][t].project \in Projects /\ work'[h][t].project <= made'
    <3>1. CASE step[h][t] \in AtProject /\ work'[h][t].project = work[h][t].project
      BY <2>1, <3>1 DEF Serving
    <3>2. CASE work'[h][t].project \in Mapped(t)
      <4>1. work'[h][t].project \in Projects /\ mapping[work'[h][t].project] # NoTenant
        BY <3>2, TenantAssumption DEF Mapped
      <4> QED BY <4>1, <1>0, <2>1 DEF Unmade
    <3>3. CASE work'[h][t].project = made' /\ CreateProject(h, t)
      <4>1. made' = made + 1 /\ made < MaxProjects
        BY <3>3 DEF CreateProject
      <4>2. made' \in Projects /\ made' <= made'
        BY <1>0, <4>1, BoundsAssumption DEF Projects
      <4> QED BY <3>3, <4>2
    <3> QED BY <1>2, <3>1, <3>2, <3>3, TenantHolds
  <2>4. pc'[h] = "tenants" /\ User(h)' = User(h) /\ pc[h] = "tenants"
    BY <1>2, TenantFrame DEF User
  <2>5. ASSUME NEW s \in Tenants, step'[h][s] \in AtProject
        PROVE  work'[h][s].project \in Projects /\ work'[h][s].project <= made'
    <3>1. CASE s = t
      BY <2>3, <2>5, <3>1
    <3>2. CASE s # t
      <4>1. step'[h][s] = step[h][s] /\ work'[h][s] = work[h][s]
        BY <1>2, <3>2, TenantFrame
      <4>2. work[h][s].project \in Projects /\ work[h][s].project <= made
        BY <2>5, <4>1 DEF Serving
      <4> QED BY <2>1, <4>1, <4>2
    <3> QED BY <3>1, <3>2
  <2>6. Serving(h)'
    BY <2>4, <2>5 DEF Serving
  <2> QED BY <2>2, <2>6
<1>3. ASSUME NEW h \in Handlers, Sweeps(h)
      PROVE  Served'
  <2>1. ASSUME NEW k \in Handlers, k # h PROVE Serving(k)'
    BY <1>0, <1>3, <2>1, SweepFrame, ServedElsewhere DEF AtProject
  <2>2. made' = made /\ Serving(h) /\ pc[h] \in {"tenants", "sweep", "sweepDelete"}
    BY <1>3, SweepFrame
  <2>3. \A t \in Tenants : step'[h][t] \in AtProject =>
          work'[h][t].project \in Projects /\ work'[h][t].project <= made'
    BY <1>3, <2>2, SweepFrame DEF Serving, AtProject
  <2>4. pc'[h] # "idle" => User(h)' \in Users
    BY <1>3, <2>2, SweepFrame DEF Serving, User
  <2>5. pc'[h] # "idle" => \A p \in Listed(h)' : p <= made
    <3>1. CASE pc[h] = "tenants" /\ pc'[h] # "idle"
      <4>1. Listed(h)' = { p \in Projects : role[User(h)][p] \in Managed }
        BY <1>3, <3>1, SweepList
      <4>2. User(h) \in Users /\ NoRole \notin Managed
        BY <2>2 DEF Serving, Managed, NoRole, Editor, Viewer
      <4>3. \A p \in Listed(h)' : p \in Projects /\ role[User(h)][p] # NoRole
        BY <4>1, <4>2
      <4> QED BY <1>0, <4>2, <4>3 DEF Unmade
    <3>2. CASE pc[h] # "tenants" /\ pc'[h] # "idle"
      BY <1>3, <2>2, <3>2, SweepList DEF Serving
    <3> QED BY <3>1, <3>2
  <2>6. Serving(h)'
    BY <1>3, <2>2, <2>3, <2>4, <2>5, SweepList DEF Serving
  <2> QED BY <2>1, <2>6
<1>4. ASSUME NEW h \in Handlers, End(h), made' = made
      PROVE  Served'
  <2>1. ASSUME NEW k \in Handlers, k # h PROVE Serving(k)'
    BY <1>0, <1>4, <2>1, EndAt, ServedElsewhere DEF TypeOK
  <2>2. Serving(h)'
    BY <1>4, EndAt DEF Serving, AtProject, TypeOK
  <2> QED BY <2>1, <2>2
<1>5. ASSUME NEW h \in Handlers, AssignTenant(h) PROVE Served'
  BY <1>4, <1>5 DEF AssignTenant, counters
<1>6. ASSUME NEW h \in Handlers, Fail(h) PROVE Served'
  BY <1>4, <1>6 DEF Fail
<1>7. ASSUME NEW h \in Handlers, NEW p \in Projects, NEW t \in Tenants, CheckTenant(h, p, t)
      PROVE  Served'
  <2>1. p <= made
    BY <1>0, <1>7 DEF CheckTenant, Unmade
  <2>2. syncs'[h].target = p /\ pc'[h] = "assign"
    BY <1>7, SyncFields DEF CheckTenant, TypeOK, Sync
  <2>3. step' = step /\ work' = work /\ made' = made
    BY <1>7 DEF CheckTenant
  <2>4. Serving(h)'
    BY <2>1, <2>2, <2>3 DEF Serving
  <2>5. ASSUME NEW k \in Handlers, k # h PROVE Serving(k)'
    BY <1>0, <1>7, <2>3, <2>5, ServedElsewhere DEF CheckTenant, TypeOK
  <2> QED BY <2>4, <2>5
<1>8. ASSUME UNCHANGED <<pc, syncs, step, work, made>>
      PROVE  Served'
  BY <1>0, <1>8, ServedElsewhere
<1>9. ASSUME NEW p \in Projects, RemoveTenant(p) \/ DeleteProject(p) PROVE Served'
  BY <1>8, <1>9 DEF RemoveTenant, DeleteProject
<1>10. ASSUME NEW u \in Users, NEW p \in Projects, NEW r \in RoleOrNone, EditMember(u, p, r)
       PROVE  Served'
  BY <1>8, <1>10 DEF EditMember
<1>11. ASSUME NEW u \in Users, NEW t \in Tenants, NEW roles \in Answers[t], ChangeCstar(u, t, roles)
       PROVE  Served'
  BY <1>8, <1>11 DEF ChangeCstar
<1>12. CASE UNCHANGED vars
  BY <1>8, <1>12 DEF vars, counters
<1> QED
  BY <1>1, <1>2, <1>3, <1>5, <1>6, <1>7, <1>9, <1>10, <1>11, <1>12 DEF Next, Edits

\* Every step leaves the projects still to be made alone.
LEMMA UnmadeStep ==
  ASSUME TypeOK, Served, Unmade, [Next]_vars
  PROVE  Unmade'
<1>0. made \in Nat /\ Projects \subseteq Nat /\ \A p \in Projects : ~(p > made /\ p <= made)
  BY DEF TypeOK, Projects
<1>1. ASSUME NEW h \in Handlers, NEW u \in Users, Login(h, u)
      PROVE  Unmade'
  BY <1>1 DEF Login, n8n, Unmade
<1>2. ASSUME NEW h \in Handlers, NEW t \in Tenants, SyncsTenant(h, t)
      PROVE  Unmade'
  <2>1. \A p \in Projects : p > made' => p > made /\ p # made'
    BY <1>0, <1>2, TenantTables
  <2>2. step[h][t] \in AtProject => work[h][t].project <= made
    BY DEF Served, Serving
  <2>3. ASSUME NEW p \in Projects, p > made'
        PROVE  /\ p \notin projects' /\ mapping'[p] = NoTenant
               /\ \A u \in Users : role'[u][p] = NoRole
    <3>1. p > made /\ p # made'
      BY <2>1, <2>3
    <3>2. step[h][t] \in AtProject => p # work[h][t].project
      BY <1>0, <2>2, <3>1
    <3>3. p \notin projects'
      BY <1>2, <3>1, TenantTables DEF Unmade
    <3>4. mapping'[p] = NoTenant
      BY <1>2, <3>1, <3>2, TenantTables DEF Unmade, AtProject
    <3>5. \A u \in Users : role'[u][p] = NoRole
      BY <1>2, <3>1, <3>2, TenantTables DEF Unmade, AtProject
    <3> QED BY <3>3, <3>4, <3>5
  <2> QED BY <2>3 DEF Unmade
<1>3. ASSUME NEW h \in Handlers, Sweeps(h)
      PROVE  Unmade'
  BY <1>3, SweepFrame DEF Unmade
<1>4. ASSUME NEW h \in Handlers, AssignTenant(h)
      PROVE  Unmade'
  <2>1. syncs[h].target <= made
    BY <1>4 DEF AssignTenant, Served, Serving
  <2>2. ASSUME NEW p \in Projects, p > made PROVE mapping'[p] = NoTenant
    <3>1. p # syncs[h].target
      BY <1>0, <2>1, <2>2
    <3> QED BY <1>4, <2>2, <3>1 DEF AssignTenant, Unmade, TypeOK
  <2> QED BY <1>4, <2>2 DEF AssignTenant, Unmade, counters, n8n
<1>5. ASSUME NEW h \in Handlers, Fail(h)
      PROVE  Unmade'
  BY <1>5 DEF Fail, n8n, Unmade
<1>6. ASSUME NEW h \in Handlers, NEW p \in Projects, NEW t \in Tenants, CheckTenant(h, p, t)
      PROVE  Unmade'
  BY <1>6 DEF CheckTenant, n8n, Unmade
<1>7. ASSUME NEW p \in Projects, RemoveTenant(p)
      PROVE  Unmade'
  BY <1>7 DEF RemoveTenant, Without, n8n, Unmade, TypeOK
<1>8. ASSUME NEW p \in Projects, DeleteProject(p)
      PROVE  Unmade'
  BY <1>8 DEF DeleteProject, Unmade, TypeOK
<1>9. ASSUME NEW u \in Users, NEW p \in Projects, NEW r \in RoleOrNone, EditMember(u, p, r)
      PROVE  Unmade'
  <2>1. /\ p \in projects /\ UNCHANGED <<projects, mapping, made>>
        /\ MakeAdmin(u, p) \/ SetRole(u, p, r)
    BY <1>9 DEF EditMember
  <2>2. \A v \in Users, q \in Projects : q # p => role'[v][q] = role[v][q]
    BY <2>1, MakeAdminAt, RoleAt
  <2> QED BY <2>1, <2>2 DEF Unmade
<1>10. ASSUME NEW u \in Users, NEW t \in Tenants, NEW roles \in Answers[t], ChangeCstar(u, t, roles)
       PROVE  Unmade'
  BY <1>10 DEF ChangeCstar, n8n, Unmade
<1>11. CASE UNCHANGED vars
  BY <1>11 DEF vars, n8n, counters, Unmade
<1> QED
  BY <1>1, <1>2, <1>3, <1>4, <1>5, <1>6, <1>7, <1>8, <1>9, <1>10, <1>11 DEF Next, Edits

----------------------------------------------------------------------------
(* A role about to be changed was read as another than the admin's: who    *)
(* has the admin's now was given it since, and the sync is noted as late.  *)

Changing == {"replace", "save", "remove"}

LateOnes ==
  \A h \in Handlers, u \in Users, p \in Projects :
    User(h) = u /\ Decided(h, p) /\ role[u][p] = Admin => <<h, p>> \in late

\* A change is one a role read asks for, or the second half of one.
LEMMA CorrectionRead ==
  ASSUME TypeOK, Served, NEW h \in Handlers, NEW t \in Tenants, SyncsTenant(h, t),
         step'[h][t] \in Changing
  PROVE  \/ step[h][t] = "replace" /\ work'[h][t] = work[h][t]
         \/ /\ step[h][t] = "relation" /\ role[User(h)][work[h][t].project] # Admin
            /\ work'[h][t] = work[h][t] /\ role' = role
<1> USE WorkFields, NoWorkFields DEF Changing
<1>1. CASE Roles(h, t)
  BY <1>1, DoAt DEF Roles, Steps
<1>2. CASE Lookup(h, t)
  BY <1>2, DoAt DEF Lookup, Steps, Makes, Done
<1>3. CASE Exists(h, t)
  BY <1>3, DoAt DEF Exists, At, Steps
<1>4. CASE DeleteDangling(h, t)
  BY <1>4, DoAt DEF DeleteDangling, Steps, Makes, Done
<1>5. CASE CreateProject(h, t)
  BY <1>5, DoAt DEF CreateProject, Steps
<1>6. CASE LinkOwner(h, t)
  BY <1>6, DoAt DEF LinkOwner, Steps, Drop, Done
<1>7. CASE MapTenant(h, t)
  BY <1>7, DoAt DEF MapTenant, Steps, Drop, Done
<1>8. CASE ReadRelation(h, t)
  <2> DEFINE seen == role[User(h)][work[h][t].project]
             next == Correction(User(h), seen, work[h][t].role)
  <2>1. next # "idle"
    BY <1>8, DoAt DEF ReadRelation, Done, Steps
  <2>2. seen # Admin
    BY <2>1 DEF Correction, Replaces, Managed, Admin, Editor, Viewer, NoRole
  <2> QED BY <1>8, <2>1, <2>2 DEF ReadRelation, At, n8n
<1>9. CASE DeleteRelation(h, t)
  BY <1>9, DoAt DEF DeleteRelation, Steps, Done
<1>10. CASE SaveRelation(h, t)
  BY <1>10, DoAt DEF SaveRelation, Steps, Drop, Done
<1>11. CASE FailTenant(h, t)
  BY <1>11, DoAt DEF FailTenant, Steps, Drop, Done
<1> QED BY <1>1, <1>2, <1>3, <1>4, <1>5, <1>6, <1>7, <1>8, <1>9, <1>10, <1>11 DEF SyncsTenant

\* Besides the steps of a tenant's sync, a step moves the places of tenants'
\* syncs only to their beginning or to nothing.
LEMMA OtherSteps ==
  ASSUME TypeOK, Served, [Next]_vars,
         \A h \in Handlers, t \in Tenants : ~SyncsTenant(h, t)
  PROVE  /\ \A k \in Handlers, s \in Tenants :
              \/ step'[k][s] = step[k][s] /\ work'[k][s] = work[k][s] /\ User(k)' = User(k)
              \/ step'[k][s] \in {"roles", "idle"}
         /\ made' = made /\ projects' \subseteq projects /\ edited \subseteq edited'
<1> USE DEF User
<1>1. ASSUME NEW h \in Handlers, NEW u \in Users, Login(h, u)
      PROVE  /\ \A k \in Handlers, s \in Tenants :
                  \/ step'[k][s] = step[k][s] /\ work'[k][s] = work[k][s] /\ User(k)' = User(k)
                  \/ step'[k][s] \in {"roles", "idle"}
             /\ made' = made /\ projects' \subseteq projects /\ edited \subseteq edited'
  <2>1. PICK active \in SUBSET Tenants :
          /\ syncs' = [syncs EXCEPT ![h] = [NoSync EXCEPT !.user = u, !.active = active]]
          /\ step' = [step EXCEPT ![h] = [t \in Tenants |-> IF t \in active THEN "roles" ELSE "idle"]]
    BY <1>1 DEF Login
  <2>2. \A k \in Handlers, s \in Tenants :
          \/ step'[k][s] = step[k][s] /\ work'[k][s] = work[k][s] /\ User(k)' = User(k)
          \/ step'[k][s] \in {"roles", "idle"}
    BY <1>1, <2>1 DEF Login, TypeOK
  <2> QED BY <1>1, <2>2 DEF Login, n8n
<1>2. ASSUME NEW h \in Handlers, Sweeps(h)
      PROVE  /\ \A k \in Handlers, s \in Tenants :
                  \/ step'[k][s] = step[k][s] /\ work'[k][s] = work[k][s] /\ User(k)' = User(k)
                  \/ step'[k][s] \in {"roles", "idle"}
             /\ made' = made /\ projects' \subseteq projects /\ edited \subseteq edited'
  <2>1. pc'[h] = "idle" => \A s \in Tenants : step'[h][s] = "idle"
    <3>1. CASE Finish(h)
      BY <3>1, EndAt DEF Finish
    <3>2. CASE ~Finish(h)
      BY <1>2, <3>2 DEF Sweeps, ListRelations, SweepNext, SweepDelete, TypeOK
    <3> QED BY <3>1, <3>2
  <2> QED BY <1>2, <2>1, SweepFrame
<1>3. ASSUME NEW h \in Handlers, End(h)
      PROVE  \A k \in Handlers, s \in Tenants :
               \/ step'[k][s] = step[k][s] /\ work'[k][s] = work[k][s] /\ User(k)' = User(k)
               \/ step'[k][s] \in {"roles", "idle"}
  BY <1>3, EndAt
<1>4. ASSUME NEW h \in Handlers, NEW p \in Projects, NEW t \in Tenants, CheckTenant(h, p, t)
      PROVE  step' = step /\ work' = work /\ \A k \in Handlers : User(k)' = User(k)
  BY <1>4 DEF CheckTenant, TypeOK, Sync
<1>5. ASSUME NEW h \in Handlers, AssignTenant(h) \/ Fail(h)
      PROVE  /\ \A k \in Handlers, s \in Tenants :
                  \/ step'[k][s] = step[k][s] /\ work'[k][s] = work[k][s] /\ User(k)' = User(k)
                  \/ step'[k][s] \in {"roles", "idle"}
             /\ made' = made /\ projects' \subseteq projects /\ edited \subseteq edited'
  BY <1>3, <1>5 DEF AssignTenant, Fail, counters, n8n
<1>6. ASSUME Edits
      PROVE  /\ step' = step /\ work' = work /\ \A k \in Handlers : User(k)' = User(k)
             /\ made' = made /\ projects' \subseteq projects /\ edited \subseteq edited'
  BY <1>4, <1>6 DEF Edits, CheckTenant, RemoveTenant, DeleteProject, EditMember, n8n
<1>7. ASSUME NEW u \in Users, NEW t \in Tenants, NEW roles \in Answers[t], ChangeCstar(u, t, roles)
      PROVE  /\ step' = step /\ work' = work /\ syncs' = syncs
             /\ made' = made /\ projects' = projects /\ edited' = edited
  BY <1>7 DEF ChangeCstar, n8n
<1>8. CASE UNCHANGED vars
  BY <1>8 DEF vars, n8n, counters, history
<1> QED BY <1>1, <1>2, <1>5, <1>6, <1>7, <1>8 DEF Next

\* A sync that decides to change a role has just read it as another than the
\* admin's.
LEMMA DecidesAnew ==
  ASSUME TypeOK, Served, [Next]_vars, NEW h \in Handlers, NEW p \in Projects, Decided(h, p)'
  PROVE  \/ Decided(h, p) /\ User(h)' = User(h)
         \/ User(h)' = User(h) /\ User(h) \in Users /\ role'[User(h)][p] # Admin
<1>1. CASE pc'[h] \in {"sweep", "sweepDelete"} /\ p \in Listed(h)'
  <2>1. ASSUME pc'[h] = pc[h], syncs'[h] = syncs[h]
        PROVE  Decided(h, p) /\ User(h)' = User(h)
    BY <1>1, <2>1 DEF Decided, Listed, User
  <2>2. ASSUME NEW k \in Handlers, NEW u \in Users, Login(k, u)
        PROVE  Decided(h, p) /\ User(h)' = User(h)
    <3>1. k # h
      BY <1>1, <2>2 DEF Login, TypeOK
    <3> QED BY <2>1, <2>2, <3>1 DEF Login, TypeOK
  <2>3. ASSUME NEW k \in Handlers, NEW t \in Tenants, SyncsTenant(k, t)
        PROVE  Decided(h, p) /\ User(h)' = User(h)
    BY <2>1, <2>3, TenantFrame
  <2>4. ASSUME NEW k \in Handlers, Sweeps(k)
        PROVE  \/ Decided(h, p) /\ User(h)' = User(h)
               \/ User(h)' = User(h) /\ User(h) \in Users /\ role'[User(h)][p] # Admin
    <3>1. CASE k # h
      BY <2>1, <2>4, <3>1, SweepFrame
    <3>2. CASE k = h
      <4>1. /\ User(h)' = User(h) /\ pc[h] \in {"tenants", "sweep", "sweepDelete"}
            /\ User(h) \in Users
        BY <1>1, <2>4, <3>2, SweepFrame DEF User, Served, Serving
      <4>2. CASE pc[h] = "tenants"
        <5>1. role[User(h)][p] \in Managed
          BY <1>1, <2>4, <3>2, <4>2, SweepList
        <5>2. role'[User(h)][p] = role[User(h)][p]
          BY <2>4, <3>2, <4>1, <4>2, SweepFrame
        <5> QED BY <4>1, <5>1, <5>2 DEF Managed, Admin, Editor, Viewer
      <4>3. CASE pc[h] # "tenants"
        BY <1>1, <2>4, <3>2, <4>1, <4>3, SweepList DEF Decided
      <4> QED BY <4>2, <4>3
    <3> QED BY <3>1, <3>2
  <2>5. ASSUME NEW k \in Handlers, End(k)
        PROVE  Decided(h, p) /\ User(h)' = User(h)
    BY <1>1, <2>1, <2>5, EndAt DEF TypeOK
  <2>6. ASSUME NEW k \in Handlers, AssignTenant(k) \/ Fail(k)
        PROVE  Decided(h, p) /\ User(h)' = User(h)
    BY <2>5, <2>6 DEF AssignTenant, Fail, n8n
  <2>7. ASSUME NEW k \in Handlers, NEW q \in Projects, NEW t \in Tenants, CheckTenant(k, q, t)
        PROVE  Decided(h, p) /\ User(h)' = User(h)
    <3>1. k # h
      BY <1>1, <2>7 DEF CheckTenant, TypeOK
    <3> QED BY <2>1, <2>7, <3>1 DEF CheckTenant, TypeOK
  <2>8. ASSUME NEW q \in Projects, RemoveTenant(q) \/ DeleteProject(q)
        PROVE  Decided(h, p) /\ User(h)' = User(h)
    BY <2>1, <2>8 DEF RemoveTenant, DeleteProject
  <2>9. ASSUME NEW u \in Users, NEW q \in Projects, NEW r \in RoleOrNone, EditMember(u, q, r)
        PROVE  Decided(h, p) /\ User(h)' = User(h)
    BY <2>1, <2>9 DEF EditMember
  <2>10. ASSUME NEW u \in Users, NEW t \in Tenants, NEW roles \in Answers[t], ChangeCstar(u, t, roles)
         PROVE  Decided(h, p) /\ User(h)' = User(h)
    BY <2>1, <2>10 DEF ChangeCstar
  <2>11. CASE UNCHANGED vars
    BY <2>1, <2>11 DEF vars
  <2> QED
    BY <2>2, <2>3, <2>4, <2>6, <2>7, <2>8, <2>9, <2>10, <2>11 DEF Next, Edits
<1>2. ASSUME NEW s \in Tenants, step'[h][s] \in Changing, work'[h][s].project = p
      PROVE  \/ Decided(h, p) /\ User(h)' = User(h)
             \/ User(h)' = User(h) /\ User(h) \in Users /\ role'[User(h)][p] # Admin
  <2>1. ASSUME NEW k \in Handlers, NEW t \in Tenants, SyncsTenant(k, t)
        PROVE  \/ Decided(h, p) /\ User(h)' = User(h)
               \/ User(h)' = User(h) /\ User(h) \in Users /\ role'[User(h)][p] # Admin
    <3>1. syncs' = syncs /\ User(h)' = User(h)
      BY <2>1, TenantFrame DEF User
    <3>2. CASE k = h /\ s = t
      <4>1. User(h) \in Users
        BY <2>1, <3>2, TenantFrame DEF Served, Serving
      <4> QED BY <1>2, <2>1, <3>1, <3>2, <4>1, CorrectionRead DEF Decided, Changing
    <3>3. CASE k # h \/ s # t
      BY <1>2, <2>1, <3>1, <3>3, TenantFrame DEF Decided, Changing
    <3> QED BY <3>2, <3>3
  <2>2. CASE \A k \in Handlers, t \in Tenants : ~SyncsTenant(k, t)
    BY <1>2, <2>2, OtherSteps DEF Decided, Changing
  <2> QED BY <2>1, <2>2
<1> QED BY <1>1, <1>2 DEF Decided, Changing

\* A sync that was late stays so until it ends, and one whose user becomes an
\* admin after it decided is late.
LEMMA LateMoves ==
  ASSUME TypeOK, Served, [Next]_vars, NEW h \in Handlers, NEW p \in Projects
  PROVE  /\ <<h, p>> \in late /\ Decided(h, p)' => <<h, p>> \in late'
         /\ \A u \in Users :
              User(h) = u /\ Decided(h, p) /\ role[u][p] # Admin /\ role'[u][p] = Admin =>
                <<h, p>> \in late'
<1> DEFINE Goal == /\ <<h, p>> \in late /\ Decided(h, p)' => <<h, p>> \in late'
                   /\ \A u \in Users :
                        User(h) = u /\ Decided(h, p) /\ role[u][p] # Admin /\ role'[u][p] = Admin =>
                          <<h, p>> \in late'
<1>1. ASSUME late' = late, \A u \in Users : role'[u][p] = Admin => role[u][p] = Admin
      PROVE  Goal
  BY <1>1
<1>2. ASSUME NEW v \in Users, NEW q \in Projects, MakeAdmin(v, q)
      PROVE  Goal
  <2>1. late \subseteq late'
    BY <1>2, MakeAdminAt
  <2>2. ASSUME NEW u \in Users, User(h) = u, Decided(h, p), role[u][p] # Admin, role'[u][p] = Admin
        PROVE  <<h, p>> \in late'
    <3>1. u = v /\ p = q
      BY <1>2, <2>2, MakeAdminAt
    <3> QED BY <1>2, <2>2, <3>1, MakeAdminAt
  <2> QED BY <2>1, <2>2
<1>3. ASSUME NEW k \in Handlers, End(k), role' = role
      PROVE  Goal
  <2>1. Decided(h, p)' => h # k
    <3>1. CASE h = k
      BY <1>3, <3>1, EndAt DEF Decided, TypeOK
    <3> QED BY <3>1
  <2> QED BY <1>3, <2>1, EndAt
<1>4. ASSUME NEW k \in Handlers, NEW t \in Tenants, SyncsTenant(k, t)
      PROVE  Goal
  <2>1. CASE LinkOwner(k, t)
    <3>1. work[k][t].project \in Projects /\ Owner \in Users
      BY <2>1, OwnerAssumption DEF LinkOwner, At, Served, Serving, AtProject
    <3> QED BY <1>1, <1>2, <2>1, <3>1 DEF LinkOwner, AdminOfProject
  <2>2. CASE DeleteRelation(k, t)
    <3>1. \A u \in Users : role'[u][p] = Admin => role[u][p] = Admin
      BY <2>2, RoleAt DEF DeleteRelation, RoleOrNone, Admin, NoRole
    <3> QED BY <1>1, <2>2, <3>1 DEF DeleteRelation, history
  <2>3. CASE SaveRelation(k, t)
    <3>1. work[k][t].role \in RoleOrNone /\ work[k][t].role # Admin
      BY WorkFields DEF Managed, Admin, NoRole, Editor, Viewer
    <3>2. \A u \in Users : role'[u][p] = Admin => role[u][p] = Admin
      BY <2>3, <3>1, RoleAt DEF SaveRelation
    <3> QED BY <1>1, <2>3, <3>2 DEF SaveRelation
  <2>4. CASE \/ Roles(k, t) \/ Lookup(k, t) \/ Exists(k, t) \/ DeleteDangling(k, t)
             \/ CreateProject(k, t) \/ MapTenant(k, t) \/ ReadRelation(k, t) \/ FailTenant(k, t)
    <3>1. late' = late /\ role' = role
      BY <2>4 DEF Roles, Lookup, Exists, DeleteDangling, CreateProject, MapTenant, ReadRelation,
                  FailTenant, n8n, history
    <3> QED BY <1>1, <3>1
  <2> QED BY <1>4, <2>1, <2>2, <2>3, <2>4 DEF SyncsTenant
<1>5. ASSUME NEW k \in Handlers, Sweeps(k)
      PROVE  Goal
  <2>1. CASE Finish(k)
    BY <1>3, <2>1 DEF Finish, n8n
  <2>2. CASE ~Finish(k)
    <3>1. late' = late
      BY <1>5, <2>2 DEF Sweeps, ListRelations, SweepNext, SweepDelete, history
    <3>2. \A u \in Users : role'[u][p] = Admin => role[u][p] = Admin
      BY <1>5, SweepFrame DEF Admin, NoRole
    <3> QED BY <1>1, <3>1, <3>2
  <2> QED BY <2>1, <2>2
<1>6. ASSUME NEW k \in Handlers, AssignTenant(k) \/ Fail(k)
      PROVE  Goal
  BY <1>3, <1>6 DEF AssignTenant, Fail, n8n
<1>7. ASSUME NEW v \in Users, NEW q \in Projects, NEW r \in RoleOrNone, EditMember(v, q, r)
      PROVE  Goal
  <2>1. CASE r = Admin
    BY <1>2, <1>7, <2>1 DEF EditMember
  <2>2. CASE r # Admin
    <3>1. \A u \in Users : role'[u][p] = Admin => role[u][p] = Admin
      BY <1>7, <2>2, RoleAt DEF EditMember
    <3> QED BY <1>1, <1>7, <2>2, <3>1 DEF EditMember
  <2> QED BY <2>1, <2>2
<1>8. ASSUME NEW q \in Projects, DeleteProject(q)
      PROVE  Goal
  <2>1. \A u \in Users : role'[u][p] = Admin => role[u][p] = Admin
    BY <1>8 DEF DeleteProject, TypeOK, Admin, NoRole
  <2> QED BY <1>1, <1>8, <2>1 DEF DeleteProject
<1>9. ASSUME \/ \E k \in Handlers, u \in Users : Login(k, u)
             \/ \E k \in Handlers, q \in Projects, t \in Tenants : CheckTenant(k, q, t)
             \/ \E q \in Projects : RemoveTenant(q)
             \/ \E u \in Users, t \in Tenants : \E roles \in Answers[t] : ChangeCstar(u, t, roles)
             \/ UNCHANGED vars
      PROVE  Goal
  <2>1. late' = late /\ role' = role
    BY <1>9 DEF Login, CheckTenant, RemoveTenant, ChangeCstar, vars, n8n, history
  <2> QED BY <1>1, <2>1
<1> HIDE DEF Goal
<1>10. ASSUME Edits PROVE Goal
  <2>1. CASE \E u \in Users, q \in Projects, r \in RoleOrNone : EditMember(u, q, r)
    BY <1>7, <2>1
  <2>2. CASE \E q \in Projects : DeleteProject(q)
    BY <1>8, <2>2
  <2> QED BY <1>9, <1>10, <2>1, <2>2 DEF Edits
<1>11. Goal
  BY <1>4, <1>5, <1>6, <1>9, <1>10 DEF Next
<1> QED BY <1>11 DEF Goal

\* Every step keeps the admins whose role is about to be changed noted.
LEMMA LateOnesStep ==
  ASSUME TypeOK, Served, LateOnes, [Next]_vars
  PROVE  LateOnes'
<1> SUFFICES ASSUME NEW h \in Handlers, NEW u \in Users, NEW p \in Projects,
                    User(h)' = u, Decided(h, p)', role'[u][p] = Admin
             PROVE  <<h, p>> \in late'
  BY DEF LateOnes
<1>1. User(h) = u /\ Decided(h, p)
  BY DecidesAnew
<1> QED BY <1>1, LateMoves DEF LateOnes

----------------------------------------------------------------------------
(* The owner runs the projects of the sync.  Chosen: projects some tenant  *)
(* has, or a sync treats as such.                                          *)

Ours == projects \ edited

Chosen(p) ==
  \/ mapping[p] # NoTenant
  \/ \E h \in Handlers, t \in Tenants :
       step[h][t] \in AtProject \ {"link"} /\ work[h][t].project = p

OwnerLinked ==
  \A p \in Ours :
    role[Owner][p] \in {NoRole, Admin} /\ (Chosen(p) => role[Owner][p] = Admin)

\* The owner's own syncs and sweeps are about to change other projects only.
OwnerSpares ==
  \A h \in Handlers : User(h) = Owner =>
    /\ \A t \in Tenants : step[h][t] \in Changing => work[h][t].project \notin Ours
    /\ pc[h] \in {"sweep", "sweepDelete"} => \A p \in Listed(h) : p \notin Ours

\* Linking the owner makes them the admin.
LEMMA LinkLinks ==
  ASSUME TypeOK, NEW h \in Handlers, NEW t \in Tenants, SyncsTenant(h, t),
         step[h][t] = "link", step'[h][t] \in AtProject, work[h][t].project \in Projects
  PROVE  role'[Owner][work[h][t].project] = Admin
<1> USE OwnerAssumption DEF AtProject
<1>1. CASE LinkOwner(h, t)
  <2>1. MakeAdmin(Owner, work[h][t].project)
    BY <1>1, DoAt DEF LinkOwner, Drop, Done, Steps, AdminOfProject
  <2> QED BY <2>1, MakeAdminAt
<1>2. CASE FailTenant(h, t)
  BY <1>2, DoAt DEF FailTenant, Drop, Done, Steps
<1> QED BY <1>1, <1>2 DEF SyncsTenant, At, Roles, Lookup, Exists, DeleteDangling, CreateProject,
          MapTenant, ReadRelation, DeleteRelation, SaveRelation

\* A step by which no project is made and no mapping or role appears
\* unnoticed keeps the owner the admin.
LEMMA OwnerLinkedAside ==
  ASSUME OwnerLinked, projects' \subseteq projects, edited \subseteq edited',
         projects \subseteq Projects,
         \A p \in Ours \cap Ours' : mapping'[p] # NoTenant => mapping[p] # NoTenant,
         \A p \in Ours \cap Ours' : role'[Owner][p] = role[Owner][p],
         \A k \in Handlers, s \in Tenants :
           \/ step'[k][s] = step[k][s] /\ work'[k][s] = work[k][s]
           \/ step'[k][s] \in {"roles", "idle"}
  PROVE  OwnerLinked'
<1> SUFFICES ASSUME NEW p \in Ours'
             PROVE  /\ role'[Owner][p] \in {NoRole, Admin}
                    /\ Chosen(p)' => role'[Owner][p] = Admin
  BY DEF OwnerLinked
<1>1. p \in Ours
  BY DEF Ours
<1>2. Chosen(p)' => Chosen(p)
  BY <1>1 DEF Chosen, AtProject
<1> QED BY <1>1, <1>2 DEF OwnerLinked

\* A step of a tenant's sync keeps the owner the admin.
LEMMA TenantLinked ==
  ASSUME TypeOK, Served, Unmade, OwnerLinked, OwnerSpares,
         NEW h \in Handlers, NEW t \in Tenants, SyncsTenant(h, t)
  PROVE  OwnerLinked'
<1> DEFINE q == work[h][t].project
<1>0. made \in Nat /\ Owner \in Users /\ projects \subseteq Projects
  BY OwnerAssumption DEF TypeOK
<1>1. SUFFICES ASSUME NEW p \in Ours'
               PROVE  /\ role'[Owner][p] \in {NoRole, Admin}
                      /\ Chosen(p)' => role'[Owner][p] = Admin
  BY DEF OwnerLinked
<1>2. p \in Projects
  BY <1>1, TenantTypes DEF TypeOK, Ours
<1>3. CASE p \in Ours
  <2>1. role'[Owner][p] = role[Owner][p] \/ role'[Owner][p] = Admin
    BY <1>0, <1>2, <1>3, TenantTables DEF OwnerSpares, Changing
  <2>2. role'[Owner][p] \in {NoRole, Admin}
    BY <1>3, <2>1 DEF OwnerLinked
  <2>3. CASE Chosen(p)
    BY <1>3, <2>1, <2>3 DEF OwnerLinked
  <2>4. CASE ~Chosen(p) /\ Chosen(p)'
    <3>1. step[h][t] \in AtProject \ {"link"} => q # p
      BY <2>4 DEF Chosen
    <3>2. mapping'[p] = NoTenant
      <4>1. mapping[p] = NoTenant
        BY <2>4 DEF Chosen
      <4> QED BY <1>2, <3>1, <4>1, TenantTables DEF AtProject
    <3>3. PICK k \in Handlers, s \in Tenants :
            step'[k][s] \in AtProject \ {"link"} /\ work'[k][s].project = p
      BY <2>4, <3>2 DEF Chosen
    <3>4. k = h /\ s = t
      BY <2>4, <3>3, TenantFrame DEF Chosen
    <3>5. p \notin Mapped(t)
      BY <2>4, TenantAssumption DEF Chosen, Mapped
    <3>6. step[h][t] = "link" /\ q = p
      BY <3>1, <3>3, <3>4, <3>5, TenantHolds
    <3> QED BY <1>2, <2>2, <3>3, <3>4, <3>6, LinkLinks
  <2> QED BY <2>2, <2>3, <2>4
<1>4. CASE p \notin Ours
  <2>1. p = made' /\ made' = made + 1 /\ p \notin projects
    BY <1>1, <1>4, TenantTables, TenantFrame DEF Ours
  <2>2. p > made /\ \A n \in Projects : n <= made => n # p
    BY <1>0, <2>1 DEF Projects
  <2>3. mapping[p] = NoTenant /\ role[Owner][p] = NoRole
    BY <1>0, <1>2, <2>2 DEF Unmade
  <2>4. step[h][t] \in AtProject => q # p
    BY <2>2 DEF Served, Serving
  <2>5. role'[Owner][p] = NoRole
    BY <1>0, <1>2, <2>3, <2>4, TenantTables DEF AtProject
  <2>6. mapping'[p] = NoTenant
    BY <1>2, <2>3, <2>4, TenantTables DEF AtProject
  <2>7. ASSUME NEW k \in Handlers, NEW s \in Tenants, step'[k][s] \in AtProject \ {"link"}
        PROVE  work'[k][s].project # p
    <3>1. CASE k = h /\ s = t
      <4>1. CASE work'[h][t].project \in Mapped(t)
        BY <2>3, <3>1, <4>1, TenantAssumption DEF Mapped
      <4> QED BY <2>4, <2>7, <3>1, <4>1, TenantHolds
    <3>2. CASE k # h \/ s # t
      <4>1. step[k][s] \in AtProject /\ work'[k][s] = work[k][s]
        BY <2>7, <3>2, TenantFrame
      <4> QED BY <2>2, <4>1 DEF Served, Serving
    <3> QED BY <3>1, <3>2
  <2> QED BY <2>5, <2>6, <2>7 DEF Chosen
<1> QED BY <1>3, <1>4

\* Every step keeps the owner the admin.
LEMMA OwnerLinkedStep ==
  ASSUME TypeOK, Served, Unmade, OwnerLinked, OwnerSpares, [Next]_vars
  PROVE  OwnerLinked'
<1>0. Owner \in Users /\ projects \subseteq Projects
  BY OwnerAssumption DEF TypeOK
<1>1. CASE \E h \in Handlers, t \in Tenants : SyncsTenant(h, t)
  BY <1>1, TenantLinked
<1>2. CASE \A h \in Handlers, t \in Tenants : ~SyncsTenant(h, t)
  <2>0. /\ projects' \subseteq projects /\ edited \subseteq edited'
        /\ \A k \in Handlers, s \in Tenants :
             \/ step'[k][s] = step[k][s] /\ work'[k][s] = work[k][s]
             \/ step'[k][s] \in {"roles", "idle"}
    BY <1>2, OtherSteps
  <2> DEFINE Kept == /\ \A p \in Ours \cap Ours' : mapping'[p] # NoTenant => mapping[p] # NoTenant
                     /\ \A p \in Ours \cap Ours' : role'[Owner][p] = role[Owner][p]
  <2> SUFFICES Kept
    BY <1>0, <2>0, OwnerLinkedAside
  <2>1. ASSUME NEW h \in Handlers, NEW u \in Users, Login(h, u)
        PROVE  Kept
    BY <2>1 DEF Login, n8n
  <2>2. ASSUME NEW h \in Handlers, Sweeps(h)
        PROVE  Kept
    <3>1. ASSUME NEW p \in Ours, role'[Owner][p] # role[Owner][p]
          PROVE  FALSE
      <4>1. Owner = User(h) /\ pc[h] = "sweepDelete" /\ p = syncs[h].target
        BY <1>0, <2>2, <3>1, SweepFrame DEF Ours
      <4>2. p \in Listed(h)
        BY <4>1 DEF Served, Serving
      <4> QED BY <3>1, <4>1, <4>2 DEF OwnerSpares
    <3> QED BY <2>2, <3>1, SweepFrame
  <2>3. ASSUME NEW h \in Handlers, AssignTenant(h)
        PROVE  Kept
    BY <1>0, <2>3 DEF AssignTenant, TypeOK, Ours, n8n
  <2>4. ASSUME NEW h \in Handlers, Fail(h)
        PROVE  Kept
    BY <2>4 DEF Fail, n8n
  <2>5. ASSUME NEW h \in Handlers, NEW p \in Projects, NEW t \in Tenants, CheckTenant(h, p, t)
        PROVE  Kept
    BY <2>5 DEF CheckTenant, n8n
  <2>6. ASSUME NEW p \in Projects, RemoveTenant(p)
        PROVE  Kept
    BY <1>0, <2>6 DEF RemoveTenant, Without, TypeOK, Ours, n8n
  <2>7. ASSUME NEW p \in Projects, DeleteProject(p)
        PROVE  Kept
    BY <1>0, <2>7 DEF DeleteProject, TypeOK, Ours
  <2>8. ASSUME NEW u \in Users, NEW p \in Projects, NEW r \in RoleOrNone, EditMember(u, p, r)
        PROVE  Kept
    <3>1. /\ edited' = edited \cup {p} /\ UNCHANGED <<projects, mapping>>
          /\ MakeAdmin(u, p) \/ SetRole(u, p, r)
      BY <2>8 DEF EditMember
    <3>2. \A v \in Users, q \in Projects : q # p => role'[v][q] = role[v][q]
      BY <3>1, MakeAdminAt, RoleAt
    <3> QED BY <1>0, <3>1, <3>2 DEF Ours
  <2>9. ASSUME NEW u \in Users, NEW t \in Tenants, NEW roles \in Answers[t], ChangeCstar(u, t, roles)
        PROVE  Kept
    BY <2>9 DEF ChangeCstar, n8n
  <2>10. CASE UNCHANGED vars
    BY <2>10 DEF vars, n8n
  <2> HIDE DEF Kept
  <2> QED BY <1>2, <2>1, <2>2, <2>3, <2>4, <2>5, <2>6, <2>7, <2>8, <2>9, <2>10 DEF Next, Edits
<1> QED BY <1>1, <1>2

\* A sync or a sweep of the owner's spares what it spared, and nothing is
\* listed anew.
LEMMA OwnerSparesAside ==
  ASSUME OwnerSpares, projects' \subseteq projects, edited \subseteq edited',
         \A k \in Handlers, s \in Tenants :
           \/ step'[k][s] = step[k][s] /\ work'[k][s] = work[k][s] /\ User(k)' = User(k)
           \/ step'[k][s] \in {"roles", "idle"},
         \A k \in Handlers :
           \/ pc'[k] \notin {"sweep", "sweepDelete"}
           \/ pc'[k] = pc[k] /\ syncs'[k] = syncs[k]
  PROVE  OwnerSpares'
<1>1. Ours' \subseteq Ours
  BY DEF Ours
<1> SUFFICES ASSUME NEW k \in Handlers, User(k)' = Owner
             PROVE  /\ \A t \in Tenants : step'[k][t] \in Changing => work'[k][t].project \notin Ours'
                    /\ pc'[k] \in {"sweep", "sweepDelete"} => \A p \in Listed(k)' : p \notin Ours'
  BY DEF OwnerSpares
<1>2. \A t \in Tenants : step'[k][t] \in Changing => work'[k][t].project \notin Ours'
  BY <1>1 DEF OwnerSpares, Changing
<1>3. pc'[k] \in {"sweep", "sweepDelete"} => \A p \in Listed(k)' : p \notin Ours'
  BY <1>1 DEF OwnerSpares, Listed, User
<1> QED BY <1>2, <1>3

\* Every step keeps the owner's own syncs off those projects.
LEMMA OwnerSparesStep ==
  ASSUME TypeOK, Served, Unmade, OwnerLinked, OwnerSpares, [Next]_vars
  PROVE  OwnerSpares'
<1>0. Owner \in Users /\ projects \subseteq Projects /\ made \in Nat /\ Projects \subseteq Nat
  BY OwnerAssumption DEF TypeOK, Projects
<1>1. ASSUME NEW h \in Handlers, NEW t \in Tenants, SyncsTenant(h, t)
      PROVE  OwnerSpares'
  <2>1. \A p \in Ours' : p \in Ours \/ p > made
    BY <1>0, <1>1, TenantTables, TenantFrame DEF Ours
  <2>2. \A n \in Projects : n <= made => ~(n > made)
    BY <1>0
  <2>3. ASSUME NEW k \in Handlers, User(k)' = Owner
        PROVE  /\ \A s \in Tenants : step'[k][s] \in Changing => work'[k][s].project \notin Ours'
               /\ pc'[k] \in {"sweep", "sweepDelete"} => \A p \in Listed(k)' : p \notin Ours'
    <3>1. User(k) = Owner /\ Listed(k)' = Listed(k) /\ pc' = pc
      BY <1>1, <2>3, TenantFrame DEF User, Listed
    <3>2. pc'[k] \in {"sweep", "sweepDelete"} => \A p \in Listed(k)' : p \notin Ours'
      <4>1. pc[k] \in {"sweep", "sweepDelete"} => \A p \in Listed(k) : p \in Projects /\ p <= made
        BY DEF Served, Serving, Listed
      <4> QED BY <2>1, <2>2, <3>1, <4>1 DEF OwnerSpares
    <3>3. ASSUME NEW s \in Tenants, step'[k][s] \in Changing
          PROVE  work'[k][s].project \notin Ours'
      <4>1. step[k][s] \in AtProject /\ work'[k][s].project = work[k][s].project
        <5>1. CASE k = h /\ s = t
          BY <1>1, <3>3, <5>1, CorrectionRead DEF AtProject
        <5>2. CASE k # h \/ s # t
          BY <1>1, <3>3, <5>2, TenantFrame DEF AtProject, Changing
        <5> QED BY <5>1, <5>2
      <4>2. work[k][s].project \in Projects /\ work[k][s].project <= made
        BY <4>1 DEF Served, Serving
      <4>3. work[k][s].project \notin Ours
        <5>1. CASE step[k][s] \in Changing
          BY <3>1, <5>1 DEF OwnerSpares
        <5>2. CASE step[k][s] \notin Changing
          <6>1. k = h /\ s = t
            BY <1>1, <3>3, <5>2, TenantFrame
          <6>2. step[k][s] = "relation" /\ role[Owner][work[k][s].project] # Admin
            BY <1>1, <3>1, <3>3, <5>2, <6>1, CorrectionRead DEF Changing
          <6>3. Chosen(work[k][s].project)
            BY <6>2 DEF Chosen, AtProject
          <6> QED BY <6>2, <6>3 DEF OwnerLinked
        <5> QED BY <5>1, <5>2
      <4> QED BY <2>1, <2>2, <4>1, <4>2, <4>3
    <3> QED BY <3>2, <3>3
  <2> QED BY <2>3 DEF OwnerSpares
<1>2. CASE \A h \in Handlers, t \in Tenants : ~SyncsTenant(h, t)
  <2>0. /\ projects' \subseteq projects /\ edited \subseteq edited'
        /\ \A k \in Handlers, s \in Tenants :
             \/ step'[k][s] = step[k][s] /\ work'[k][s] = work[k][s] /\ User(k)' = User(k)
             \/ step'[k][s] \in {"roles", "idle"}
    BY <1>2, OtherSteps
  <2> DEFINE Unlisted == \A k \in Handlers :
                           \/ pc'[k] \notin {"sweep", "sweepDelete"}
                           \/ pc'[k] = pc[k] /\ syncs'[k] = syncs[k]
  <2>1. Unlisted => OwnerSpares'
    BY <2>0, OwnerSparesAside
  <2>2. ASSUME NEW h \in Handlers, NEW u \in Users, Login(h, u)
        PROVE  Unlisted
    BY <2>2 DEF Login, TypeOK
  <2>3. ASSUME NEW h \in Handlers, End(h)
        PROVE  Unlisted
    BY <2>3, EndAt DEF TypeOK
  <2>4. ASSUME NEW h \in Handlers, Sweeps(h)
        PROVE  OwnerSpares'
    <3>1. Ours' \subseteq Ours
      BY <2>0 DEF Ours
    <3>2. ASSUME NEW k \in Handlers, User(k)' = Owner
          PROVE  /\ \A s \in Tenants : step'[k][s] \in Changing => work'[k][s].project \notin Ours'
                 /\ pc'[k] \in {"sweep", "sweepDelete"} => \A p \in Listed(k)' : p \notin Ours'
      <4>1. \A s \in Tenants : step'[k][s] \in Changing => work'[k][s].project \notin Ours'
        BY <2>0, <3>1, <3>2 DEF OwnerSpares, Changing
      <4>2. CASE k # h
        <5>1. pc'[k] = pc[k] /\ User(k)' = User(k) /\ Listed(k)' = Listed(k)
          BY <2>4, <4>2, SweepFrame DEF User, Listed
        <5> QED BY <3>1, <3>2, <4>1, <5>1 DEF OwnerSpares
      <4>3. CASE k = h /\ pc'[h] # "idle"
        <5>1. User(h) = Owner
          BY <2>4, <3>2, <4>3, SweepFrame DEF User
        <5>2. CASE pc[h] = "tenants"
          <6>1. \A p \in Listed(h)' : p \in Projects /\ role[Owner][p] \in Managed
            BY <2>4, <4>3, <5>1, <5>2, SweepList
          <6>2. \A p \in Ours : role[Owner][p] \notin Managed
            BY DEF OwnerLinked, Managed, Admin, NoRole, Editor, Viewer
          <6> QED BY <3>1, <4>1, <4>3, <6>1, <6>2
        <5>3. CASE pc[h] # "tenants"
          <6>1. Listed(h)' \subseteq Listed(h) /\ pc[h] \in {"sweep", "sweepDelete"}
            BY <2>4, <4>3, <5>3, SweepList, SweepFrame
          <6> QED BY <3>1, <4>1, <4>3, <5>1, <6>1 DEF OwnerSpares
        <5> QED BY <5>2, <5>3
      <4>4. CASE pc'[h] = "idle" /\ k = h
        BY <4>1, <4>4
      <4> QED BY <4>2, <4>3, <4>4
    <3> QED BY <3>2 DEF OwnerSpares
  <2>5. ASSUME NEW h \in Handlers, AssignTenant(h) \/ Fail(h)
        PROVE  Unlisted
    BY <2>3, <2>5 DEF AssignTenant, Fail
  <2>6. ASSUME NEW h \in Handlers, NEW p \in Projects, NEW t \in Tenants, CheckTenant(h, p, t)
        PROVE  Unlisted
    BY <2>6 DEF CheckTenant, TypeOK
  <2>7. ASSUME UNCHANGED <<pc, syncs>>
        PROVE  Unlisted
    BY <2>7
  <2>8. ASSUME NEW p \in Projects, RemoveTenant(p) \/ DeleteProject(p)
        PROVE  Unlisted
    BY <2>7, <2>8 DEF RemoveTenant, DeleteProject
  <2>9. ASSUME NEW u \in Users, NEW p \in Projects, NEW r \in RoleOrNone, EditMember(u, p, r)
        PROVE  Unlisted
    BY <2>7, <2>9 DEF EditMember
  <2>10. ASSUME NEW u \in Users, NEW t \in Tenants, NEW roles \in Answers[t], ChangeCstar(u, t, roles)
         PROVE  Unlisted
    BY <2>7, <2>10 DEF ChangeCstar
  <2>11. CASE UNCHANGED vars
    BY <2>1, <2>7, <2>11 DEF vars
  <2> HIDE DEF Unlisted
  <2> QED
    BY <1>2, <2>1, <2>2, <2>4, <2>5, <2>6, <2>8, <2>9, <2>10, <2>11 DEF Next, Edits
<1> QED BY <1>1, <1>2

----------------------------------------------------------------------------
(* One project for a tenant.  A maker is about to map a project to it: no  *)
(* other one is, and the tenant has no project but the maker's.            *)

Creating == {"create", "link", "map"}

Maker(h, t) ==
  step[h][t] \in Creating \/ (pc[h] = "assign" /\ syncs[h].tenant = t)

Single(t) ==
  /\ \A p, q \in Mapped(t) : p = q
  /\ \A h \in Handlers : step[h][t] \in Creating => Mapped(t) = {}
  /\ \A h \in Handlers :
       pc[h] = "assign" /\ syncs[h].tenant = t => Mapped(t) \subseteq {syncs[h].target}
  /\ \A h, k \in Handlers : Maker(h, t) /\ Maker(k, t) => h = k

OneMaker == \A t \in Tenants \ doubled : Single(t)

\* Fewer makers and mappings leave a tenant with one project.
LEMMA SingleAside ==
  ASSUME NEW t \in Tenants, Single(t), Mapped(t)' \subseteq Mapped(t),
         \A k \in Handlers :
           /\ step'[k][t] = step[k][t] \/ step'[k][t] \notin Creating
           /\ \/ pc'[k] # "assign"
              \/ pc'[k] = pc[k] /\ syncs'[k] = syncs[k]
              \/ syncs'[k].tenant # t
  PROVE  Single(t)'
<1>1. \A k \in Handlers : Maker(k, t)' => Maker(k, t)
  BY DEF Maker
<1> QED BY <1>1 DEF Single

\* Who becomes a maker in a sync saw no other one and no project.
LEMMA MakerMoves ==
  ASSUME TypeOK, Served, NEW h \in Handlers, NEW t \in Tenants, SyncsTenant(h, t)
  PROVE  /\ doubled \subseteq doubled'
         /\ step'[h][t] \in Creating /\ t \notin doubled' =>
              \/ step[h][t] \in Creating \ {"map"}
              \/ ~Making(h, t) /\ Mapped(t)' = {}
<1> USE WorkFields, NoWorkFields DEF Creating
<1>1. CASE Roles(h, t)
  BY <1>1, DoAt DEF Roles, Steps
<1>2. CASE Lookup(h, t)
  <2>1. PICK p \in Found(t) :
          /\ IF p = NoProject
               THEN Makes(h, t)
               ELSE Do(h, t, "exists") /\ Keep(h, t, [work[h][t] EXCEPT !.project = p])
          /\ doubled' = IF p = NoProject /\ work[h][t].role # NoRole /\ Making(h, t)
                          THEN doubled \cup {t} ELSE doubled
    BY <1>2 DEF Lookup
  <2>2. CASE p = NoProject
    <3>1. Mapped(t) = {}
      BY <2>1, <2>2 DEF Found, Mapped, NoProject, Projects
    <3>2. Mapped(t)' = {}
      BY <1>2, <3>1 DEF Lookup, Mapped
    <3>3. step'[h][t] \in Creating => work[h][t].role # NoRole
      BY <2>1, <2>2, DoAt DEF Makes, Done, Steps
    <3> QED BY <2>1, <2>2, <3>2, <3>3
  <2>3. CASE p # NoProject
    BY <2>1, <2>3, DoAt DEF Steps
  <2> QED BY <2>2, <2>3
<1>3. CASE Exists(h, t)
  BY <1>3, DoAt DEF Exists, Steps, history
<1>4. CASE DeleteDangling(h, t)
  <2>0. step'[h][t] \in Creating => work[h][t].role # NoRole
    BY <1>4, DoAt DEF DeleteDangling, Makes, Done, Steps
  <2>1. t \notin doubled' /\ work[h][t].role # NoRole =>
          Mapped(t) \ {work[h][t].project} = {} /\ ~Making(h, t)
    BY <1>4 DEF DeleteDangling
  <2>2. Mapped(t)' \subseteq Mapped(t) \ {work[h][t].project}
    BY <1>4, TenantAssumption DEF DeleteDangling, Without, Mapped, TypeOK
  <2> QED BY <1>4, <2>0, <2>1, <2>2 DEF DeleteDangling
<1>5. CASE CreateProject(h, t)
  BY <1>5 DEF CreateProject, At, history
<1>6. CASE LinkOwner(h, t)
  BY <1>6 DEF LinkOwner, At
<1>7. CASE MapTenant(h, t)
  BY <1>7, DoAt DEF MapTenant, Steps, Drop, Done
<1>8. CASE ReadRelation(h, t)
  <2>1. Correction(User(h), role[User(h)][work[h][t].project], work[h][t].role)
          \in Steps \ Creating
    BY DEF Correction, Steps
  <2> QED BY <1>8, <2>1, DoAt DEF ReadRelation, Done, Steps, history
<1>9. CASE DeleteRelation(h, t)
  BY <1>9, DoAt DEF DeleteRelation, Steps, Done, history
<1>10. CASE SaveRelation(h, t)
  BY <1>10, DoAt DEF SaveRelation, Steps, Drop, Done
<1>11. CASE FailTenant(h, t)
  BY <1>11, DoAt DEF FailTenant, Steps, Drop, Done
<1> QED BY <1>1, <1>2, <1>3, <1>4, <1>5, <1>6, <1>7, <1>8, <1>9, <1>10, <1>11 DEF SyncsTenant

\* A step of a tenant's sync leaves a tenant with one project.
LEMMA TenantSingle ==
  ASSUME TypeOK, Served, OneMaker, NEW h \in Handlers, NEW t \in Tenants, SyncsTenant(h, t)
  PROVE  OneMaker'
<1> DEFINE own == work[h][t].project
<1>1. SUFFICES ASSUME NEW s \in Tenants, s \notin doubled'
               PROVE  Single(s)'
  BY DEF OneMaker
<1>2. Single(s)
  BY <1>1, MakerMoves DEF OneMaker
<1>3. /\ pc' = pc /\ syncs' = syncs /\ pc[h] = "tenants"
      /\ \A k \in Handlers : k # h \/ s # t => step'[k][s] = step[k][s]
  BY TenantFrame
<1>4. Mapped(s)' \subseteq Mapped(s) \/ (s = t /\ step[h][t] = "map" /\ Mapped(s)' \subseteq Mapped(s) \cup {own})
  BY TenantTables, TenantAssumption DEF Mapped
<1>5. CASE Mapped(s)' \subseteq Mapped(s) /\ (s # t \/ step'[h][t] \notin Creating)
  BY <1>2, <1>3, <1>5, SingleAside
<1>6. CASE s = t /\ step'[h][t] \in Creating
  <2>1. Mapped(t)' = {}
    <3>1. CASE step[h][t] \in Creating \ {"map"}
      BY <1>2, <1>4, <1>6, <3>1 DEF Single
    <3> QED BY <1>1, <1>6, <3>1, MakerMoves
  <2>2. \A k \in Handlers : Maker(k, t)' => k = h
    <3>1. \A k \in Handlers : k # h => ~Maker(k, t)
      <4>1. CASE step[h][t] \in Creating
        BY <1>2, <1>6, <4>1 DEF Single, Maker
      <4>2. CASE ~Making(h, t)
        BY <4>2 DEF Making, Maker, Creating
      <4> QED BY <1>1, <1>6, <4>1, <4>2, MakerMoves
    <3> QED BY <1>3, <1>6, <3>1 DEF Maker
  <2> QED BY <1>6, <2>1, <2>2 DEF Single
<1>7. CASE s = t /\ step[h][t] = "map" /\ Mapped(s)' \subseteq Mapped(s) \cup {own} /\ step'[h][t] \notin Creating
  <2>1. Mapped(t) = {} /\ \A k \in Handlers : Maker(k, t) => k = h
    BY <1>2, <1>7 DEF Single, Maker, Creating
  <2>2. \A k \in Handlers : ~Maker(k, t)'
    BY <1>3, <1>7, <2>1 DEF Maker
  <2>3. \A p, q \in Mapped(t)' : p = q
    BY <1>7, <2>1
  <2> QED BY <1>7, <2>2, <2>3 DEF Single, Maker
<1> QED BY <1>4, <1>5, <1>6, <1>7

\* Every step leaves a tenant with one project.
LEMMA OneMakerStep ==
  ASSUME TypeOK, Served, OneMaker, [Next]_vars
  PROVE  OneMaker'
<1> USE DEF OneMaker
<1>1. CASE \E h \in Handlers, t \in Tenants : SyncsTenant(h, t)
  BY <1>1, TenantSingle
<1>2. CASE \A h \in Handlers, t \in Tenants : ~SyncsTenant(h, t)
  <2>0. \A k \in Handlers, s \in Tenants : step'[k][s] = step[k][s] \/ step'[k][s] \notin Creating
    BY <1>2, OtherSteps DEF Creating
  \* Steps that map nothing, and after which no other handler assigns.
  <2>1. ASSUME doubled' = doubled,
               \A s \in Tenants : Mapped(s)' \subseteq Mapped(s),
               \A k \in Handlers : pc'[k] # "assign" \/ (pc'[k] = pc[k] /\ syncs'[k] = syncs[k])
        PROVE  OneMaker'
    BY <2>0, <2>1, SingleAside
  <2>2. mapping' = mapping => \A s \in Tenants : Mapped(s)' \subseteq Mapped(s)
    BY DEF Mapped
  <2>3. ASSUME NEW h \in Handlers, NEW u \in Users, Login(h, u)
        PROVE  OneMaker'
    BY <2>1, <2>2, <2>3 DEF Login, TypeOK
  <2>4. ASSUME NEW h \in Handlers, Sweeps(h)
        PROVE  OneMaker'
    BY <2>1, <2>2, <2>4, SweepFrame
  <2>5. ASSUME NEW h \in Handlers, AssignTenant(h)
        PROVE  OneMaker'
    <3>0. PICK to, own : to = syncs[h].tenant /\ own = syncs[h].target
      OBVIOUS
    <3>1. /\ doubled' = doubled /\ mapping' = [mapping EXCEPT ![own] = to]
          /\ pc[h] = "assign" /\ own \in Projects /\ End(h)
      BY <2>5, <3>0 DEF AssignTenant, Served, Serving
    <3>2. /\ pc'[h] = "idle" /\ \A s \in Tenants : step'[h][s] = "idle"
          /\ \A k \in Handlers : k # h => /\ pc'[k] = pc[k] /\ syncs'[k] = syncs[k]
                                         /\ \A s \in Tenants : step'[k][s] = step[k][s]
      BY <3>1, EndAt DEF TypeOK
    <3>3. ASSUME NEW s \in Tenants \ doubled, s # to
          PROVE  Single(s)'
      <4>1. Mapped(s)' \subseteq Mapped(s)
        BY <3>1, <3>3 DEF Mapped, TypeOK
      <4> QED BY <2>0, <3>2, <3>3, <4>1, SingleAside
    <3>4. ASSUME to \in Tenants \ doubled
          PROVE  Single(to)'
      <4>1. Single(to)
        BY <3>4
      <4>2. Mapped(to)' \subseteq {own}
        <5>1. Mapped(to) \subseteq {own}
          BY <3>0, <3>1, <4>1 DEF Single
        <5> QED BY <3>1, <5>1 DEF Mapped, TypeOK
      <4>3. \A k \in Handlers : Maker(k, to) => k = h
        BY <3>0, <3>1, <4>1 DEF Single, Maker
      <4>4. \A k \in Handlers : /\ step'[k][to] \notin Creating
                               /\ ~(pc'[k] = "assign" /\ syncs'[k].tenant = to)
        BY <3>2, <3>4, <4>3 DEF Maker, Creating
      <4>5. \A k \in Handlers : ~Maker(k, to)'
        BY <4>4 DEF Maker
      <4> QED BY <4>2, <4>4, <4>5 DEF Single
    <3> QED BY <3>1, <3>3, <3>4
  <2>6. ASSUME NEW h \in Handlers, Fail(h)
        PROVE  OneMaker'
    <3>1. pc'[h] = "idle" /\ \A k \in Handlers : k # h => pc'[k] = pc[k] /\ syncs'[k] = syncs[k]
      BY <2>6, EndAt DEF Fail, TypeOK
    <3> QED BY <2>1, <2>2, <2>6, <3>1 DEF Fail
  <2>7. ASSUME NEW h \in Handlers, NEW p \in Projects, NEW t \in Tenants, CheckTenant(h, p, t)
        PROVE  OneMaker'
    <3>1. /\ step' = step /\ mapping' = mapping /\ Mapped(t) \subseteq {p}
          /\ doubled' = IF Making(h, t) THEN doubled \cup {t} ELSE doubled
      BY <2>7 DEF CheckTenant
    <3>2. /\ syncs'[h].target = p /\ syncs'[h].tenant = t
          /\ \A k \in Handlers : k # h => pc'[k] = pc[k] /\ syncs'[k] = syncs[k]
      BY <2>7, SyncFields DEF CheckTenant, TypeOK, Sync
    <3>3. ASSUME NEW s \in Tenants \ doubled', s # t
          PROVE  Single(s)'
      BY <2>0, <2>2, <3>1, <3>2, <3>3, SingleAside
    <3>4. ASSUME t \notin doubled'
          PROVE  Single(t)'
      <4>1. Single(t) /\ ~Making(h, t)
        BY <3>1, <3>4
      <4>2. \A k \in Handlers : Maker(k, t)' => k = h
        BY <3>1, <3>2, <4>1 DEF Maker, Making, Creating
      <4>3. Mapped(t)' = Mapped(t)
        BY <3>1 DEF Mapped
      <4>4. \A k \in Handlers : pc'[k] = "assign" /\ syncs'[k].tenant = t =>
              Mapped(t)' \subseteq {syncs'[k].target}
        BY <3>1, <3>2, <4>2, <4>3 DEF Maker
      <4> QED BY <3>1, <4>1, <4>2, <4>3, <4>4 DEF Single
    <3> QED BY <3>3, <3>4
  <2>8. ASSUME NEW p \in Projects, RemoveTenant(p)
        PROVE  OneMaker'
    <3>1. \A s \in Tenants : Mapped(s)' \subseteq Mapped(s)
      BY <2>8, TenantAssumption DEF RemoveTenant, Without, Mapped, TypeOK
    <3> QED BY <2>1, <2>8, <3>1 DEF RemoveTenant
  <2>9. ASSUME UNCHANGED <<mapping, doubled, pc, syncs>>
        PROVE  OneMaker'
    BY <2>1, <2>2, <2>9
  <2>10. ASSUME NEW p \in Projects, DeleteProject(p) PROVE OneMaker'
    BY <2>9, <2>10 DEF DeleteProject
  <2>11. ASSUME NEW u \in Users, NEW p \in Projects, NEW r \in RoleOrNone, EditMember(u, p, r)
         PROVE  OneMaker'
    BY <2>9, <2>11 DEF EditMember
  <2>12. ASSUME NEW u \in Users, NEW t \in Tenants, NEW roles \in Answers[t], ChangeCstar(u, t, roles)
         PROVE  OneMaker'
    BY <2>9, <2>12 DEF ChangeCstar
  <2>13. CASE UNCHANGED vars
    BY <2>9, <2>13 DEF vars, history
  <2> QED
    BY <1>2, <2>3, <2>4, <2>5, <2>6, <2>7, <2>8, <2>10, <2>11, <2>12, <2>13 DEF Next, Edits
<1> QED BY <1>1, <1>2

----------------------------------------------------------------------------
(* Roles follow CSTAR.  A handler at rest serves nobody, and no sync of a  *)
(* tenant goes on outside the "tenants" step; a project found gone never   *)
(* comes back.                                                             *)

Resting ==
  \A h \in Handlers :
    /\ pc[h] \in {"idle", "assign"} => User(h) = Nobody
    /\ pc[h] # "tenants" => \A t \in Tenants : step[h][t] = "idle"

Gone ==
  \A h \in Handlers, t \in Tenants : step[h][t] = "dangling" => work[h][t].project \notin projects

\* The role CSTAR gives a user in a tenant, and that n8n has it.
Wanted(u, t) == Resolve(cstar[u][t])

Right(u, t) ==
  /\ Wanted(u, t) # NoRole => Mapped(t) \cap projects # {}
  /\ \A p \in Mapped(t) \cap projects : role[u][p] \in {Admin, Wanted(u, t)}

\* The user has no role there that a sync manages.
Vacant(u, t) == \A p \in Mapped(t) \cap projects : role[u][p] \notin Managed

\* A sync nothing came across is its user's only one, on CSTAR's answer as it
\* still is.
Undisturbed(h) == User(h) \in Users \ disturbed

Alone ==
  \A h \in Handlers : Undisturbed(h) =>
    /\ \A k \in Handlers \ {h} : User(k) # User(h)
    /\ syncs[h].active = { t \in Tenants : cstar[User(h)][t] # Outside }

\* What it holds of a tenant is what the tables and CSTAR say.
Heading(h, t) ==
  /\ step[h][t] # "idle" => t \in syncs[h].active
  /\ step[h][t] \notin {"idle", "roles"} => work[h][t].role = Wanted(User(h), t)
  /\ step[h][t] \in {"link", "map", "relation"} \cup Changing => work[h][t].project \in projects
  /\ step[h][t] \in {"relation"} \cup Changing => mapping[work[h][t].project] = t
  /\ step[h][t] \in {"exists", "dangling"} /\ work[h][t].project \in projects =>
       mapping[work[h][t].project] = t
  /\ step[h][t] = "remove" => work[h][t].role = NoRole
  /\ step[h][t] \in {"replace", "save"} => work[h][t].role # NoRole

\* The tenants it is done with are right, and the roles still to go are listed.
\* Should another sync give the tenant a project in place of one that is gone,
\* the user has no role there.
Reaching(h, t) ==
  /\ pc[h] = "tenants" /\ t \in syncs[h].active /\ step[h][t] = "idle" => Right(User(h), t)
  /\ step[h][t] \in {"exists", "dangling"} /\ work[h][t].project \notin projects =>
       Vacant(User(h), t)
  /\ pc[h] \in {"sweep", "sweepDelete"} =>
       IF t \in syncs[h].active THEN Right(User(h), t)
       ELSE \A p \in Mapped(t) \cap projects : role[User(h)][p] \in Managed => p \in Listed(h)

Progress(h) ==
  /\ \A t \in Tenants : Heading(h, t)
  /\ \A t \in Tenants \ doubled : Reaching(h, t)
  /\ pc[h] = "sweepDelete" /\ syncs[h].target \in projects => Stale(h, syncs[h].target)

Underway == \A h \in Handlers : Undisturbed(h) => Progress(h)

\* Once it ran through, its user's roles stay right.
Settled(u) == \A t \in Tenants \ doubled : Right(u, t)

Followed == \A u \in Users \ disturbed : ~Syncing(u) => Settled(u)

Follows == Resting /\ Gone /\ Alone /\ Underway /\ Followed

----------------------------------------------------------------------------
\* What a step of a sync changes in a tenant, for a user it does not disturb: a
\* project may be added in which the user has no managed role, and the user's
\* roles change only by their own sync, or into the admin's.
LEMMA TenantSeen ==
  ASSUME TypeOK, Served, Unmade, Gone, NEW h \in Handlers, NEW t \in Tenants, SyncsTenant(h, t),
         NEW u \in Users \ disturbed', NEW s \in Tenants
  PROVE  /\ Mapped(s) \cap projects \subseteq Mapped(s)' \cap projects'
         /\ \A q \in Mapped(s)' \cap projects' :
              \/ q \in Mapped(s) \cap projects
              \/ s = t /\ step[h][t] = "map" /\ role[u][q] \notin Managed
         /\ \A q \in Projects : role'[u][q] # role[u][q] =>
              \/ role'[u][q] = Admin
              \/ User(h) = u /\ step[h][t] \in Changing /\ q = work[h][t].project
<1>0. /\ mapping \in [Projects -> Tenants \cup {NoTenant}] /\ projects \subseteq Projects
      /\ made \in Nat /\ Projects \subseteq Nat
  BY DEF TypeOK, Projects
<1>1. ASSUME NEW q \in Mapped(s) \cap projects
      PROVE  q \in Mapped(s)' \cap projects'
  <2>1. mapping[q] = s /\ q \in Projects /\ s # NoTenant
    BY TenantAssumption DEF Mapped
  <2>2. mapping'[q] = mapping[q]
    BY <1>1, <2>1, TenantTables DEF Gone
  <2> QED BY <1>1, <2>1, <2>2, TenantTables DEF Mapped
<1>2. ASSUME NEW q \in Mapped(s)' \cap projects'
      PROVE  \/ q \in Mapped(s) \cap projects
             \/ s = t /\ step[h][t] = "map" /\ role[u][q] \notin Managed
  <2>1. mapping'[q] = s /\ q \in Projects /\ s # NoTenant
    BY TenantAssumption DEF Mapped
  <2>2. CASE mapping[q] = s
    <3>1. q # made + 1
      BY <1>0, <2>1, <2>2 DEF Unmade
    <3>2. q \in projects
      BY <1>2, <3>1, TenantTables
    <3> QED BY <2>1, <2>2, <3>2 DEF Mapped
  <2>3. CASE mapping[q] # s
    BY <2>1, <2>3, TenantTables
  <2> QED BY <2>2, <2>3
<1>3. ASSUME NEW q \in Projects, role'[u][q] # role[u][q]
      PROVE  \/ role'[u][q] = Admin
             \/ User(h) = u /\ step[h][t] \in Changing /\ q = work[h][t].project
  BY <1>3, TenantTables DEF Changing
<1> QED BY <1>1, <1>2, <1>3

\* A user without a managed role in a tenant is given none by another's sync, or
\* by their own in another tenant.
LEMMA VacantKept ==
  ASSUME TypeOK, Served, Unmade, Gone, NEW h \in Handlers, NEW t \in Tenants, SyncsTenant(h, t),
         NEW u \in Users \ disturbed', NEW s \in Tenants,
         User(h) = u /\ step[h][t] \in Changing => mapping[work[h][t].project] # s
  PROVE  \A q \in Mapped(s)' \cap projects' : role'[u][q] \in Managed =>
           q \in Mapped(s) \cap projects /\ role[u][q] \in Managed
<1> SUFFICES ASSUME NEW q \in Mapped(s)' \cap projects', role'[u][q] \in Managed
             PROVE  q \in Mapped(s) \cap projects /\ role[u][q] \in Managed
  OBVIOUS
<1>1. Admin \notin Managed
  BY DEF Managed, Admin, Editor, Viewer
<1>2. CASE q \in Mapped(s) \cap projects
  <2>1. q \in Projects /\ mapping[q] = s
    BY <1>2 DEF Mapped
  <2>2. role'[u][q] = role[u][q]
    BY <1>1, <2>1, TenantSeen
  <2> QED BY <1>2, <2>2
<1>3. CASE q \notin Mapped(s) \cap projects
  <2>1. s = t /\ step[h][t] = "map" /\ role[u][q] \notin Managed
    BY <1>3, TenantSeen
  <2>2. role'[u][q] # role[u][q] /\ q \in Projects
    BY <2>1 DEF Mapped
  <2> QED BY <1>1, <2>1, <2>2, TenantSeen DEF Changing
<1> QED BY <1>2, <1>3

\* The roles a user has in a tenant stay right through a step of a sync that
\* does not change the user's role there: it maps a project only where the user
\* has no role to have.
LEMMA RightKept ==
  ASSUME TypeOK, Served, Unmade, OneMaker, Gone,
         NEW h \in Handlers, NEW t \in Tenants, SyncsTenant(h, t),
         NEW u \in Users \ disturbed', NEW s \in Tenants \ doubled', Right(u, s),
         User(h) = u /\ step[h][t] \in Changing => mapping[work[h][t].project] # s
  PROVE  Right(u, s)'
<1>1. Wanted(u, s)' = Wanted(u, s) /\ doubled \subseteq doubled'
  BY TenantFrame, MakerMoves DEF Wanted
<1>2. Mapped(s) \cap projects \subseteq Mapped(s)' \cap projects'
  BY TenantSeen
<1>3. ASSUME NEW q \in Mapped(s)' \cap projects'
      PROVE  role'[u][q] \in {Admin, Wanted(u, s)}
  <2>1. q \in Projects
    BY DEF Mapped
  <2>2. CASE q \in Mapped(s) \cap projects
    <3>1. mapping[q] = s /\ role[u][q] \in {Admin, Wanted(u, s)}
      BY <2>2 DEF Mapped, Right
    <3> QED BY <2>1, <3>1, TenantSeen
  <2>3. CASE q \notin Mapped(s) \cap projects
    <3>1. s = t /\ step[h][t] = "map" /\ role[u][q] \notin Managed
      BY <2>3, TenantSeen
    <3>2. Mapped(s) = {}
      BY <1>1, <3>1 DEF OneMaker, Single, Creating
    <3>3. Wanted(u, s) = NoRole
      BY <3>2 DEF Right
    <3>4. role[u][q] \in {Admin, NoRole}
      BY <2>1, <3>1 DEF TypeOK, RoleOrNone
    <3> QED BY <2>1, <3>1, <3>3, <3>4, TenantSeen DEF Changing
  <2> QED BY <2>2, <2>3
<1> QED BY <1>1, <1>2, <1>3 DEF Right

\* What an undisturbed sync holds of a tenant stays as it is through the steps
\* of others, and its own in other tenants.
LEMMA HeadingElsewhere ==
  ASSUME TypeOK, Served, Gone, NEW k \in Handlers, NEW t \in Tenants, SyncsTenant(k, t),
         NEW h \in Handlers, NEW s \in Tenants, k # h \/ t # s, Heading(h, s)
  PROVE  Heading(h, s)'
<1>1. /\ step'[h][s] = step[h][s] /\ work'[h][s] = work[h][s]
      /\ syncs' = syncs /\ cstar' = cstar
  BY TenantFrame
<1>2. projects \subseteq projects'
  BY TenantTables
<1>3. Wanted(User(h), s)' = Wanted(User(h), s)
  BY <1>1 DEF Wanted, User
<1>4. ASSUME step[h][s] \in AtProject, work[h][s].project \in projects,
             mapping[work[h][s].project] = s
      PROVE  mapping'[work[h][s].project] = s
  <2>1. work[h][s].project \in Projects
    BY <1>4 DEF Served, Serving
  <2> QED BY <1>4, <2>1, TenantTables, TenantAssumption DEF Gone
<1>5. step[h][s] \in {"relation"} \cup Changing => mapping'[work[h][s].project] = s
  BY <1>4 DEF Heading, AtProject, Changing
<1>6. step[h][s] \in {"exists", "dangling"} /\ work[h][s].project \in projects' =>
        mapping'[work[h][s].project] = s
  <2>1. SUFFICES ASSUME step[h][s] \in {"exists", "dangling"}, work[h][s].project \in projects'
                 PROVE  mapping'[work[h][s].project] = s
    OBVIOUS
  <2>2. work[h][s].project \in Projects /\ work[h][s].project <= made
    BY <2>1 DEF Served, Serving, AtProject
  <2>3. work[h][s].project # made + 1
    BY <2>2 DEF TypeOK, Projects
  <2>4. work[h][s].project \in projects
    BY <2>1, <2>3, TenantTables
  <2> QED BY <1>4, <2>1, <2>4 DEF Heading, AtProject
<1> QED BY <1>1, <1>2, <1>3, <1>5, <1>6 DEF Heading

\* So does what it is done with.
LEMMA ReachingElsewhere ==
  ASSUME TypeOK, Served, Unmade, OneMaker, Gone,
         NEW k \in Handlers, NEW t \in Tenants, SyncsTenant(k, t),
         NEW h \in Handlers, NEW s \in Tenants \ doubled', k # h \/ t # s,
         User(h) \in Users \ disturbed', Reaching(h, s),
         User(k) = User(h) /\ step[k][t] \in Changing => mapping[work[k][t].project] # s
  PROVE  Reaching(h, s)'
<1>1. PICK u \in Users \ disturbed' : u = User(h) /\ u = User(h)'
  BY TenantFrame DEF User
<1>2. /\ step'[h][s] = step[h][s] /\ work'[h][s] = work[h][s] /\ pc' = pc /\ syncs' = syncs
      /\ projects \subseteq projects' /\ Listed(h)' = Listed(h)
  BY TenantFrame, TenantTables DEF Listed
<1>3. Right(User(h), s) => Right(User(h), s)'
  <2>1. SUFFICES ASSUME Right(u, s) PROVE Right(u, s)'
    BY <1>1 DEF Right, Wanted
  <2> QED BY <1>1, <2>1, RightKept
<1>4. \A q \in Mapped(s)' \cap projects' : role'[u][q] \in Managed =>
        q \in Mapped(s) \cap projects /\ role[u][q] \in Managed
  BY <1>1, VacantKept
<1>5. Vacant(User(h), s) => Vacant(User(h), s)'
  BY <1>1, <1>4 DEF Vacant
<1> QED BY <1>1, <1>2, <1>3, <1>4, <1>5 DEF Reaching

\* No project is made, mapped or linked by a step of which only the place and
\* the role it looks for are new.
LEMMA HeadingMoves ==
  ASSUME NEW h \in Handlers, NEW t \in Tenants, Heading(h, t), step[h][t] # "idle",
         syncs' = syncs, cstar' = cstar, projects \subseteq projects',
         step'[h][t] \notin {"roles"} \cup Changing,
         step'[h][t] # "idle" => work'[h][t].role = Wanted(User(h), t),
         step'[h][t] \in {"link", "map", "relation"} => work'[h][t].project \in projects',
         step'[h][t] = "relation" => mapping'[work'[h][t].project] = t,
         step'[h][t] \in {"exists", "dangling"} /\ work'[h][t].project \in projects' =>
           mapping'[work'[h][t].project] = t
  PROVE  Heading(h, t)'
<1>1. Wanted(User(h), t)' = Wanted(User(h), t)
  BY DEF Wanted, User
<1> QED BY <1>1 DEF Heading, Changing

\* A step of an undisturbed sync goes by what the tables and CSTAR say, and
\* when it is done with the tenant, the user's role there is right.
LEMMA HeadingStep ==
  ASSUME TypeOK, Served, Unmade, OneMaker, NEW h \in Handlers, NEW t \in Tenants,
         SyncsTenant(h, t), Heading(h, t), t \notin doubled => Reaching(h, t), Gone,
         User(h) \in Users \ disturbed'
  PROVE  /\ Heading(h, t)'
         /\ step'[h][t] = "idle" /\ t \notin doubled' => Right(User(h), t)'
<1> DEFINE own == work[h][t].project
           u == User(h)
<1> USE WorkFields, NoWorkFields
<1>0. /\ syncs' = syncs /\ cstar' = cstar /\ step[h][t] # "idle" /\ doubled \subseteq doubled'
      /\ projects \subseteq projects' /\ Wanted(u, t)' = Wanted(u, t) /\ u \in Users
  BY TenantFrame, TenantTables, MakerMoves DEF Wanted, User
<1>a. /\ mapping \in [Projects -> Tenants \cup {NoTenant}] /\ projects \subseteq Projects
      /\ role \in [Users -> [Projects -> RoleOrNone]]
  BY DEF TypeOK
<1>b. ~Drop(h, t)
  BY DEF Drop
<1>d. \A s \in Tenants \ doubled : \A p, q \in Mapped(s) : p = q
  BY DEF OneMaker, Single
<1>c. step[h][t] \notin {"idle", "roles"} => work[h][t].role = Wanted(u, t)
  BY DEF Heading
<1>e. step[h][t] \in AtProject => own \in Projects
  BY DEF Served, Serving
<1>1. CASE Roles(h, t)
  <2>1. PICK w \in Work : w = [NoWork EXCEPT !.role = Wanted(u, t)] /\ w.role = Wanted(u, t)
    <3>1. Wanted(u, t) \in Managed \cup {NoRole}
      BY DEF Wanted, Resolve, Managed
    <3>2. [NoWork EXCEPT !.role = Wanted(u, t)] \in Work
      BY <3>1, Noting
    <3> QED BY <3>1, <3>2, Noting
  <2>2. Keep(h, t, w) /\ Do(h, t, "lookup")
    BY <1>1, <2>1 DEF Roles, Wanted
  <2>3. work'[h][t] = w /\ step'[h][t] = "lookup"
    BY <2>2, KeepAt, DoAt DEF Steps
  <2> QED BY <1>0, <2>1, <2>3, HeadingMoves DEF Changing
<1>2. CASE /\ Makes(h, t) /\ UNCHANGED <<projects, role>> /\ step[h][t] \notin {"idle", "roles"}
           /\ t \notin doubled' => \A q \in Mapped(t)' \cap projects : role[u][q] \notin Managed
  <2>1. CASE work[h][t].role = NoRole
    <3>1. step'[h][t] = "idle"
      BY <1>2, <2>1, DoAt DEF Makes, Done, Steps
    <3>2. t \notin doubled' => Right(User(h), t)'
      <4>1. \A q \in Mapped(t)' : role[u][q] \notin Managed => role[u][q] \in {Admin, NoRole}
        BY <1>0, <1>a DEF Mapped, RoleOrNone
      <4>2. User(h)' = u /\ Wanted(u, t) = NoRole
        BY <1>0, <1>2, <1>c, <2>1 DEF User
      <4>3. ASSUME t \notin doubled', NEW q \in Mapped(t)' \cap projects'
            PROVE  role'[u][q] \in {Admin, NoRole}
        BY <1>2, <4>1, <4>3
      <4>4. Wanted(User(h), t)' = NoRole
        BY <1>0, <4>2
      <4> QED BY <4>2, <4>3, <4>4 DEF Right
    <3> QED BY <1>0, <3>1, <3>2, HeadingMoves DEF Changing
  <2>2. CASE work[h][t].role # NoRole
    <3>1. step'[h][t] = "create" /\ work'[h][t] = work[h][t]
      BY <1>2, <2>2, DoAt DEF Makes, Steps
    <3> QED BY <1>0, <1>2, <1>c, <3>1, HeadingMoves DEF Changing
  <2> QED BY <2>1, <2>2
<1>3. CASE Lookup(h, t)
  <2>1. PICK p \in Found(t) :
          IF p = NoProject
            THEN Makes(h, t)
            ELSE Do(h, t, "exists") /\ Keep(h, t, [work[h][t] EXCEPT !.project = p])
    BY <1>3 DEF Lookup
  <2>2. mapping' = mapping /\ UNCHANGED <<projects, role>> /\ step[h][t] = "lookup"
    BY <1>3 DEF Lookup, At, n8n
  <2>3. CASE p = NoProject
    <3>1. Mapped(t)' = {}
      BY <2>1, <2>2, <2>3 DEF Found, Mapped, NoProject, Projects
    <3> QED BY <1>2, <2>1, <2>2, <2>3, <3>1
  <2>4. CASE p # NoProject
    <3>1. p \in Projects /\ mapping[p] = t
      BY <2>1, <2>4 DEF Found, Mapped
    <3>2. PICK w \in Work : w = [work[h][t] EXCEPT !.project = p]
      BY <3>1, Noting
    <3>3. w.project = p /\ w.role = work[h][t].role
      BY <3>1, <3>2, Noting
    <3>4. work'[h][t] = w /\ step'[h][t] = "exists"
      BY <2>1, <2>4, <3>2, KeepAt, DoAt DEF Steps
    <3> QED BY <1>0, <1>c, <2>2, <3>1, <3>3, <3>4, HeadingMoves DEF Changing
  <2> QED BY <2>3, <2>4
<1>4. CASE Exists(h, t)
  <2>1. step'[h][t] = (IF own \in projects THEN "relation" ELSE "dangling") /\ work' = work
    BY <1>4, DoAt DEF Exists, Steps
  <2>2. /\ mapping' = mapping /\ projects' = projects /\ step[h][t] = "exists"
        /\ own \in projects => mapping[own] = t
    BY <1>4 DEF Exists, At, Heading, n8n
  <2> QED BY <1>0, <1>c, <2>1, <2>2, HeadingMoves DEF Changing
<1>5. CASE DeleteDangling(h, t)
  <2>1. /\ Makes(h, t) /\ UNCHANGED <<projects, role>> /\ step[h][t] = "dangling"
        /\ own \in Projects /\ own \notin projects
    BY <1>5, <1>e DEF DeleteDangling, At, n8n, Gone, AtProject
  <2>2. Mapped(t)' \subseteq Mapped(t)
    BY <1>5, <1>a, <2>1, TenantAssumption DEF DeleteDangling, Without, Mapped
  <2>3. t \notin doubled' => \A q \in Mapped(t)' \cap projects : role[u][q] \notin Managed
    BY <1>0, <2>1, <2>2 DEF Reaching, Vacant
  <2> QED BY <1>2, <2>1, <2>3
<1>6. CASE CreateProject(h, t)
  <2>1. made' \in Projects /\ made' \in projects'
    BY <1>6, BoundsAssumption DEF CreateProject, TypeOK, Projects
  <2>2. PICK w \in Work : w = [work[h][t] EXCEPT !.project = made']
    BY <2>1, Noting
  <2>3. w.project = made' /\ w.role = work[h][t].role
    BY <2>1, <2>2, Noting
  <2>4. work'[h][t] = w /\ step'[h][t] = "link" /\ step[h][t] = "create"
    BY <1>6, <2>2, KeepAt, DoAt DEF CreateProject, At, Steps
  <2> QED BY <1>0, <1>c, <2>1, <2>3, <2>4, HeadingMoves DEF Changing
<1>7. CASE LinkOwner(h, t)
  <2>1. own \in projects /\ Do(h, t, "map") /\ work' = work /\ projects' = projects /\ step[h][t] = "link"
    BY <1>7, <1>b DEF LinkOwner, At
  <2>2. step'[h][t] = "map"
    BY <2>1, DoAt DEF Steps
  <2> QED BY <1>0, <1>c, <2>1, <2>2, HeadingMoves DEF Changing
<1>8. CASE MapTenant(h, t)
  <2>1. mapping' = [mapping EXCEPT ![own] = t] /\ Do(h, t, "relation") /\ work' = work /\ step[h][t] = "map"
    BY <1>8, <1>b DEF MapTenant, At
  <2>2. step'[h][t] = "relation" /\ own \in projects
    BY <2>1, DoAt DEF Steps, Heading
  <2>3. mapping'[own] = t
    BY <1>a, <2>1, <2>2
  <2> QED BY <1>0, <1>c, <2>1, <2>2, <2>3, HeadingMoves DEF Changing
\* Once its project is known, the tenant has no other one.
<1>9. ASSUME step[h][t] \in {"relation"} \cup Changing, UNCHANGED <<projects, mapping>>,
             doubled' = doubled, role'[u][own] \in {Admin, Wanted(u, t)}
      PROVE  t \notin doubled' => Right(u, t)'
  <2>1. own \in Mapped(t) \cap projects
    BY <1>9, <1>e DEF Heading, Mapped, AtProject, Changing
  <2>2. Mapped(t)' \cap projects' = Mapped(t) \cap projects
    BY <1>9 DEF Mapped
  <2>3. SUFFICES ASSUME t \notin doubled' PROVE Right(u, t)'
    OBVIOUS
  <2>4. Mapped(t) \cap projects = {own}
    BY <1>9, <1>d, <2>1, <2>3
  <2>5. Mapped(t)' \cap projects' = {own}
    BY <2>2, <2>4
  <2>6. role'[u'][own] \in {Admin, Wanted(u, t)'}
    BY <1>0, <1>9 DEF User
  <2> HIDE DEF u
  <2> QED BY <1>0, <2>5, <2>6 DEF Right
<1>10. CASE ReadRelation(h, t)
  <2> DEFINE seen == role[u][own]
             next == Correction(u, seen, work[h][t].role)
  <2>1. UNCHANGED <<projects, mapping, role>> /\ doubled' = doubled /\ step[h][t] = "relation"
    BY <1>10 DEF ReadRelation, At, n8n, history
  <2>2. seen \in RoleOrNone
    BY <1>0, <1>a, <1>e, <2>1 DEF AtProject
  <2>3. own \in projects /\ mapping[own] = t /\ work[h][t].role = Wanted(u, t)
    BY <1>c, <2>1 DEF Heading
  <2>4. CASE next = "idle"
    <3>1. seen \in {Admin, Wanted(u, t)}
      BY <2>2, <2>3, <2>4 DEF Correction, Replaces, RoleOrNone
    <3>2. step'[h][t] = "idle"
      BY <1>10, <2>4, DoAt DEF ReadRelation, Done, Steps
    <3> QED BY <1>0, <1>9, <2>1, <3>1, <3>2, HeadingMoves DEF Changing
  <2>5. CASE next # "idle"
    <3>1. /\ next \in Changing /\ (next = "remove" <=> work[h][t].role = NoRole)
      BY <2>5 DEF Correction, Changing
    <3>2. Do(h, t, next) /\ work' = work
      BY <1>10, <2>5 DEF ReadRelation
    <3> HIDE DEF next
    <3>3. step'[h][t] = next
      BY <3>1, <3>2, DoAt DEF Steps, Changing
    <3>4. Heading(h, t)'
      BY <1>0, <2>1, <2>3, <3>1, <3>2, <3>3 DEF Heading, Changing, User
    <3> QED BY <3>1, <3>3, <3>4 DEF Changing
  <2> QED BY <2>4, <2>5
<1>11. CASE DeleteRelation(h, t)
  <2>1. /\ UNCHANGED <<projects, mapping>> /\ doubled' = doubled /\ SetRole(u, own, NoRole)
        /\ step[h][t] \in {"replace", "remove"}
    BY <1>11 DEF DeleteRelation, history
  <2>2. own \in Projects
    BY <1>e, <2>1 DEF AtProject
  <2>3. role'[u][own] = NoRole
    <3>1. NoRole \in RoleOrNone
      BY DEF RoleOrNone
    <3> QED BY <1>0, <2>1, <2>2, <3>1, RoleAt
  <2>4. CASE step[h][t] = "remove"
    <3>1. step'[h][t] = "idle"
      BY <1>11, <2>4, DoAt DEF DeleteRelation, Done, Steps
    <3>2. Wanted(u, t) = NoRole
      BY <1>c, <2>4 DEF Heading
    <3> QED BY <1>0, <1>9, <2>1, <2>3, <2>4, <3>1, <3>2, HeadingMoves DEF Changing
  <2>5. CASE step[h][t] = "replace"
    <3>1. step'[h][t] = "save" /\ work' = work
      BY <1>11, <2>5, DoAt DEF DeleteRelation, Steps
    <3>2. Heading(h, t)'
      BY <1>0, <2>1, <2>5, <3>1 DEF Heading, Changing, User
    <3> QED BY <3>1, <3>2
  <2> QED BY <2>1, <2>4, <2>5
<1>12. CASE SaveRelation(h, t)
  <2>1. /\ UNCHANGED <<projects, mapping>> /\ doubled' = doubled /\ step[h][t] = "save"
        /\ SetRole(u, own, work[h][t].role) /\ Done(h, t)
    BY <1>12, <1>b DEF SaveRelation, At
  <2>2. own \in Projects
    BY <1>e, <2>1 DEF AtProject
  <2>3. role'[u][own] = Wanted(u, t)
    BY <1>0, <1>c, <2>1, <2>2, RoleAt
  <2>4. step'[h][t] = "idle"
    BY <2>1, DoAt DEF Done, Steps
  <2> QED BY <1>0, <1>9, <2>1, <2>3, <2>4, HeadingMoves DEF Changing
<1>13. CASE FailTenant(h, t)
  BY <1>13, <1>b DEF FailTenant
<1> QED
  BY <1>1, <1>3, <1>4, <1>5, <1>6, <1>7, <1>8, <1>10, <1>11, <1>12, <1>13 DEF SyncsTenant

\* A sweep begins when every tenant is done with, and ends with nothing held.
LEMMA SweepEnds ==
  ASSUME TypeOK, Served, NEW h \in Handlers, Sweeps(h)
  PROVE  /\ pc[h] = "tenants" => \A t \in Tenants : step[h][t] = "idle"
         /\ Finish(h) <=> pc'[h] = "idle"
         /\ pc'[h] = "idle" => syncs'[h] = NoSync /\ \A t \in Tenants : step'[h][t] = "idle"
         /\ cstar' = cstar /\ disturbed' = disturbed
<1> USE DEF history
<1>1. CASE ListRelations(h)
  BY <1>1 DEF ListRelations, Finish, TypeOK
<1>2. CASE SweepNext(h)
  BY <1>2 DEF SweepNext, Finish, TypeOK
<1>3. CASE SweepDelete(h)
  BY <1>3 DEF SweepDelete, Finish, TypeOK
<1>4. CASE Finish(h)
  BY <1>4, EndAt DEF Finish, TypeOK
<1> QED BY <1>1, <1>2, <1>3, <1>4 DEF Sweeps

\* Until then it keeps CSTAR's answer.
LEMMA SweepSync ==
  ASSUME TypeOK, Served, NEW h \in Handlers, Sweeps(h), pc'[h] # "idle"
  PROVE  /\ step' = step /\ work' = work
         /\ syncs'[h].active = syncs[h].active /\ syncs'[h].user = syncs[h].user
<1> USE SyncFields
<1>1. CASE ListRelations(h)
  <2> DEFINE read == [p \in Projects |-> Sweepable(role[User(h)][p])]
  <2>1. syncs'[h] = [syncs[h] EXCEPT !.listed = read]
    BY <1>1 DEF ListRelations, TypeOK
  <2>2. /\ [syncs[h] EXCEPT !.listed = read].active = syncs[h].active
        /\ [syncs[h] EXCEPT !.listed = read].user = syncs[h].user
    BY DEF Sync
  <2> HIDE DEF read
  <2> QED BY <1>1, <2>1, <2>2 DEF ListRelations, TypeOK
<1>2. CASE SweepNext(h)
  <2>1. PICK p \in Projects :
          IF Stale(h, p)
            THEN /\ pc' = [pc EXCEPT ![h] = "sweepDelete"]
                 /\ syncs' = [syncs EXCEPT ![h].target = p]
            ELSE syncs' = [syncs EXCEPT ![h].listed[p] = NoRole] /\ UNCHANGED pc
    BY <1>2 DEF SweepNext, Listed
  <2>2. syncs'[h].active = syncs[h].active /\ syncs'[h].user = syncs[h].user
    BY <2>1 DEF TypeOK, Sync
  <2> QED BY <1>2, <2>1, <2>2 DEF SweepNext, TypeOK
<1>3. CASE SweepDelete(h)
  <2>1. syncs'[h].active = syncs[h].active /\ syncs'[h].user = syncs[h].user
    BY <1>3 DEF SweepDelete, TypeOK, Sync
  <2> QED BY <1>3, <2>1 DEF SweepDelete, TypeOK
<1>4. CASE Finish(h)
  BY <1>4, EndAt DEF Finish, TypeOK
<1> QED BY <1>1, <1>2, <1>3, <1>4 DEF Sweeps

\* Every step leaves handlers at rest with nobody to serve.
LEMMA RestingStep ==
  ASSUME TypeOK, Served, Resting, [Next]_vars
  PROVE  Resting'
<1> USE DEF Resting, User
<1>0. NoSync.user = Nobody
  BY DEF NoSync
<1>1. ASSUME NEW h \in Handlers, NEW u \in Users, Login(h, u)
      PROVE  Resting'
  <2>1. pc'[h] = "tenants" /\ \A k \in Handlers \ {h} :
          pc'[k] = pc[k] /\ syncs'[k] = syncs[k] /\ step'[k] = step[k]
    BY <1>1 DEF Login, TypeOK
  <2> QED BY <2>1
<1>2. ASSUME NEW h \in Handlers, NEW t \in Tenants, SyncsTenant(h, t)
      PROVE  Resting'
  BY <1>2, TenantFrame
<1>3. ASSUME NEW h \in Handlers, Sweeps(h)
      PROVE  Resting'
  <2>1. \A k \in Handlers \ {h} :
          /\ pc'[k] = pc[k] /\ syncs'[k] = syncs[k]
          /\ \A t \in Tenants : step'[k][t] = step[k][t] \/ step'[k][t] = "idle"
    BY <1>3, SweepFrame
  <2>2. /\ pc'[h] \in {"idle", "sweep", "sweepDelete"}
        /\ \A t \in Tenants : step'[h][t] = "idle"
        /\ pc'[h] = "idle" => syncs'[h].user = Nobody
    <3>1. pc'[h] \in {"idle", "sweep", "sweepDelete"}
      BY <1>3, SweepList
    <3>2. CASE pc'[h] = "idle"
      BY <1>0, <1>3, <3>1, <3>2, SweepEnds
    <3>3. CASE pc'[h] # "idle"
      <4>1. step' = step
        BY <1>3, <3>3, SweepSync
      <4>2. \A t \in Tenants : step[h][t] = "idle"
        BY <1>3, SweepEnds
      <4> QED BY <3>1, <3>3, <4>1, <4>2
    <3> QED BY <3>2, <3>3
  <2> QED BY <2>1, <2>2
<1>4. ASSUME NEW h \in Handlers, AssignTenant(h) \/ Fail(h)
      PROVE  Resting'
  <2>1. End(h)
    BY <1>4 DEF AssignTenant, Fail
  <2>2. /\ pc'[h] = "idle" /\ syncs'[h].user = Nobody /\ \A t \in Tenants : step'[h][t] = "idle"
        /\ \A k \in Handlers \ {h} : /\ pc'[k] = pc[k] /\ syncs'[k] = syncs[k]
                                     /\ \A t \in Tenants : step'[k][t] = step[k][t]
    BY <1>0, <2>1, EndAt DEF TypeOK
  <2> QED BY <2>2
<1>5. ASSUME NEW h \in Handlers, NEW p \in Projects, NEW t \in Tenants, CheckTenant(h, p, t)
      PROVE  Resting'
  <2>1. /\ pc[h] = "idle" /\ pc'[h] = "assign" /\ step' = step
        /\ \A k \in Handlers \ {h} : pc'[k] = pc[k]
        /\ \A k \in Handlers : syncs'[k].user = syncs[k].user
    BY <1>5 DEF CheckTenant, TypeOK, Sync
  <2> QED BY <2>1
<1>6. ASSUME UNCHANGED <<pc, syncs, step>>
      PROVE  Resting'
  BY <1>6
<1>7. CASE \/ \E p \in Projects : RemoveTenant(p) \/ DeleteProject(p)
           \/ \E u \in Users, p \in Projects, r \in RoleOrNone : EditMember(u, p, r)
           \/ \E u \in Users, t \in Tenants : \E roles \in Answers[t] : ChangeCstar(u, t, roles)
           \/ UNCHANGED vars
  BY <1>6, <1>7 DEF RemoveTenant, DeleteProject, EditMember, ChangeCstar, vars
<1> QED BY <1>1, <1>2, <1>3, <1>4, <1>5, <1>7 DEF Next, Edits

\* Where a sync finds its project gone, and where it finds it at all.
LEMMA Arrivals ==
  ASSUME TypeOK, Served, NEW h \in Handlers, NEW t \in Tenants, SyncsTenant(h, t)
  PROVE  /\ step'[h][t] = "dangling" => Exists(h, t)
         /\ step'[h][t] = "exists" => Lookup(h, t)
<1>1. CASE Roles(h, t) \/ CreateProject(h, t)
  BY <1>1, DoAt DEF Roles, CreateProject, Steps
<1>2. CASE Lookup(h, t)
  <2>1. Makes(h, t) \/ Do(h, t, "exists")
    BY <1>2 DEF Lookup
  <2> QED BY <1>2, <2>1, DoAt DEF Makes, Done, Steps
<1>7. CASE DeleteDangling(h, t)
  BY <1>7, DoAt DEF DeleteDangling, Makes, Done, Steps
<1>3. CASE MapTenant(h, t) \/ DeleteRelation(h, t) \/ SaveRelation(h, t) \/ FailTenant(h, t)
  BY <1>3, DoAt DEF MapTenant, DeleteRelation, SaveRelation, FailTenant, Drop, Done, Steps
<1>4. CASE ReadRelation(h, t)
  <2>1. Correction(User(h), role[User(h)][work[h][t].project], work[h][t].role)
          \in Steps \ {"dangling", "exists"}
    BY DEF Correction, Steps
  <2> QED BY <1>4, <2>1, DoAt DEF ReadRelation, Done, Steps
<1>5. CASE Exists(h, t)
  BY <1>5, DoAt DEF Exists, Steps
<1>6. CASE LinkOwner(h, t)
  BY <1>6, DoAt DEF LinkOwner, Drop, Done, Steps
<1> QED BY <1>1, <1>2, <1>3, <1>4, <1>5, <1>6, <1>7 DEF SyncsTenant

\* A sync that finds its project gone finds its user without a role in another.
LEMMA VacantStep ==
  ASSUME TypeOK, Served, OneMaker, NEW h \in Handlers, NEW t \in Tenants, SyncsTenant(h, t),
         t \notin doubled', Reaching(h, t),
         step'[h][t] \in {"exists", "dangling"}, work'[h][t].project \notin projects'
  PROVE  Vacant(User(h), t)'
<1>0. syncs' = syncs /\ doubled \subseteq doubled'
  BY TenantFrame, MakerMoves
<1>1. CASE step'[h][t] = "dangling"
  <2>1. Exists(h, t)
    BY <1>1, Arrivals
  <2>2. step[h][t] = "exists" /\ work' = work /\ UNCHANGED <<projects, role, mapping>>
    BY <2>1 DEF Exists, At, n8n
  <2> QED BY <1>0, <2>2 DEF Reaching, Vacant, Mapped, User
<1>2. CASE step'[h][t] = "exists"
  <2>1. Lookup(h, t)
    BY <1>2, Arrivals
  <2>2. step[h][t] = "lookup" /\ UNCHANGED <<projects, mapping>>
    BY <2>1 DEF Lookup, At, n8n
  <2>3. work'[h][t].project \in Mapped(t)
    BY <1>2, <2>2, TenantHolds DEF AtProject
  <2>4. Mapped(t) \cap projects = {}
    BY <1>0, <2>2, <2>3 DEF OneMaker, Single
  <2> QED BY <2>2, <2>4 DEF Vacant, Mapped
<1> QED BY <1>1, <1>2

\* A project found gone stays so.
LEMMA GoneStep ==
  ASSUME TypeOK, Served, Gone, [Next]_vars
  PROVE  Gone'
<1> SUFFICES ASSUME NEW k \in Handlers, NEW s \in Tenants, step'[k][s] = "dangling"
             PROVE  work'[k][s].project \notin projects'
  BY DEF Gone
<1>1. ASSUME NEW h \in Handlers, NEW t \in Tenants, SyncsTenant(h, t)
      PROVE  work'[k][s].project \notin projects'
  <2>1. /\ step[k][s] \in {"exists", "dangling"} /\ work'[k][s].project = work[k][s].project
        /\ work[k][s].project \notin projects
    <3>1. CASE k = h /\ s = t
      <4>1. /\ work' = work /\ step[h][t] = "exists"
            /\ Do(h, t, IF work[h][t].project \in projects THEN "relation" ELSE "dangling")
        BY <1>1, <3>1, Arrivals DEF Exists, At
      <4>2. work[h][t].project \notin projects
        BY <3>1, <4>1, DoAt DEF Steps
      <4> QED BY <3>1, <4>1, <4>2
    <3>2. CASE k # h \/ s # t
      BY <1>1, <3>2, TenantFrame DEF Gone
    <3> QED BY <3>1, <3>2
  <2>2. work[k][s].project \in Projects /\ work[k][s].project <= made
    BY <2>1 DEF Served, Serving, AtProject
  <2>3. work[k][s].project # made + 1
    BY <2>2 DEF TypeOK, Projects
  <2> QED BY <1>1, <2>1, <2>3, TenantTables
<1>2. CASE \A h \in Handlers, t \in Tenants : ~SyncsTenant(h, t)
  BY <1>2, OtherSteps DEF Gone
<1> QED BY <1>1, <1>2

----------------------------------------------------------------------------
\* What can happen to a sync that is undisturbed afterwards: it begins as the
\* only one of its user, it or another one moves, it sweeps, or nothing it
\* depends on changes.
LEMMA UndisturbedMoves ==
  ASSUME TypeOK, Served, Resting, Alone, [Next]_vars, NEW h \in Handlers, Undisturbed(h)'
  PROVE  \/ \E u \in Users : /\ Login(h, u) /\ \A k \in Handlers : User(k) # u
                             /\ syncs'[h].active = { t \in Tenants : cstar[u][t] # Outside }
                             /\ \A t \in Tenants :
                                  step'[h][t] = IF t \in syncs'[h].active THEN "roles" ELSE "idle"
         \/ Undisturbed(h) /\ \E k \in Handlers, t \in Tenants : SyncsTenant(k, t)
         \/ Undisturbed(h) /\ Sweeps(h)
         \/ /\ Undisturbed(h) /\ cstar'[User(h)] = cstar[User(h)]
            /\ UNCHANGED <<projects, mapping, doubled>>
            /\ \A p \in Projects : role'[User(h)][p] = role[User(h)][p]
            /\ pc'[h] = pc[h] /\ syncs'[h] = syncs[h]
            /\ \A t \in Tenants : step'[h][t] = step[h][t] /\ work'[h][t] = work[h][t]
            /\ \A k \in Handlers \ {h} : User(k)' # User(h)
<1> USE OwnerAssumption DEF Undisturbed, User
<1> DEFINE Passes ==
      /\ Undisturbed(h) /\ cstar'[User(h)] = cstar[User(h)]
      /\ UNCHANGED <<projects, mapping, doubled>>
      /\ \A p \in Projects : role'[User(h)][p] = role[User(h)][p]
      /\ pc'[h] = pc[h] /\ syncs'[h] = syncs[h]
      /\ \A t \in Tenants : step'[h][t] = step[h][t] /\ work'[h][t] = work[h][t]
      /\ \A k \in Handlers \ {h} : User(k)' # User(h)
<1>1. ASSUME NEW k \in Handlers, NEW u \in Users, Login(k, u)
      PROVE  \/ /\ k = h /\ \A j \in Handlers : User(j) # u
                /\ syncs'[h].active = { t \in Tenants : cstar[u][t] # Outside }
                /\ \A t \in Tenants :
                     step'[h][t] = IF t \in syncs'[h].active THEN "roles" ELSE "idle"
             \/ Passes
  <2>1. PICK active \in {{ t \in Tenants : cstar[u][t] # Outside }, {}} :
          /\ faults' = IF active = { t \in Tenants : cstar[u][t] # Outside } THEN faults
                       ELSE faults + 1
          /\ syncs' = [syncs EXCEPT ![k] = [NoSync EXCEPT !.user = u, !.active = active]]
          /\ step' = [step EXCEPT ![k] = [t \in Tenants |-> IF t \in active THEN "roles" ELSE "idle"]]
          /\ disturbed' = IF Syncing(u) \/ faults' # faults THEN disturbed \cup {u}
                          ELSE disturbed \ {u}
    BY <1>1 DEF Login
  <2>2. [NoSync EXCEPT !.user = u, !.active = active].active = active
    BY DEF NoSync
  <2>3. syncs'[k].user = u /\ syncs'[k].active = active
    BY <2>1, <2>2, LoginSync DEF TypeOK
  <2>4. \A j \in Handlers \ {k} : syncs'[j] = syncs[j]
    BY <2>1 DEF TypeOK
  <2>5. /\ pc[k] = "idle" /\ pc' = [pc EXCEPT ![k] = "tenants"]
        /\ UNCHANGED <<n8n, mapping, cstar, work, doubled>>
    BY <1>1 DEF Login
  <2>6. CASE k = h
    <3>1. ~Syncing(u) /\ faults' = faults
      BY <2>1, <2>3, <2>6
    <3>2. active = { t \in Tenants : cstar[u][t] # Outside }
      BY <2>1, <3>1 DEF TypeOK
    <3> QED BY <2>1, <2>3, <2>6, <3>1, <3>2 DEF TypeOK, Syncing
  <2>7. CASE k # h
    <3>1. User(h)' = User(h) /\ User(h) \notin disturbed'
      BY <2>4, <2>7
    <3>2. User(h) # u
      BY <2>1, <3>1 DEF Syncing
    <3>3. Undisturbed(h)
      BY <2>1, <2>4, <2>7, <3>1, <3>2
    <3>4. \A j \in Handlers \ {h} : User(j)' # User(h)
      BY <2>3, <2>4, <3>2, <3>3 DEF Alone
    <3>5. /\ pc'[h] = pc[h] /\ syncs'[h] = syncs[h]
          /\ \A t \in Tenants : step'[h][t] = step[h][t]
      BY <2>1, <2>4, <2>5, <2>7 DEF TypeOK
    <3> QED BY <2>5, <3>3, <3>4, <3>5 DEF n8n
  <2> QED BY <2>6, <2>7
<1>2. ASSUME NEW k \in Handlers, NEW t \in Tenants, SyncsTenant(k, t)
      PROVE  Undisturbed(h)
  <2>1. disturbed \subseteq disturbed'
    BY <1>2 DEF SyncsTenant, Roles, Lookup, Exists, DeleteDangling, CreateProject, LinkOwner, MapTenant,
                ReadRelation, DeleteRelation, SaveRelation, FailTenant, Drop, history
  <2> QED BY <1>2, <2>1, TenantFrame
<1>3. ASSUME NEW k \in Handlers, Sweeps(k)
      PROVE  \/ Undisturbed(h) /\ k = h
             \/ Passes
  <2>1. CASE k # h
    <3>1. Undisturbed(h) /\ pc'[h] = pc[h] /\ syncs'[h] = syncs[h] /\ cstar' = cstar
      BY <1>3, <2>1, SweepFrame, SweepEnds
    <3>2. User(k) # User(h)
      BY <2>1, <3>1 DEF Alone
    <3>3. \A p \in Projects : role'[User(h)][p] = role[User(h)][p]
      BY <1>3, <3>1, <3>2, SweepFrame
    <3>4. \A t \in Tenants : step'[h][t] = step[h][t] /\ work'[h][t] = work[h][t]
      <4>1. CASE Finish(k)
        BY <2>1, <4>1, EndAt DEF Finish
      <4>2. CASE ~Finish(k)
        BY <1>3, <4>2, SweepEnds, SweepSync
      <4> QED BY <4>1, <4>2
    <3>5. \A j \in Handlers \ {h} : User(j)' # User(h)
      <4>1. User(k)' \in {User(k), Nobody}
        BY <1>3, SweepEnds, SweepSync DEF NoSync
      <4> QED BY <1>3, <3>1, <3>2, <4>1, SweepFrame DEF Alone
    <3> QED BY <1>3, <3>1, <3>3, <3>4, <3>5, SweepFrame
  <2>2. CASE k = h
    <3>1. pc'[h] # "idle"
      BY <1>3, <2>2, SweepEnds DEF NoSync
    <3> QED BY <1>3, <2>2, <3>1, SweepSync, SweepEnds
  <2> QED BY <2>1, <2>2
<1>4. ASSUME NEW k \in Handlers, Fail(k)
      PROVE  Passes
  <2>1. /\ disturbed \subseteq disturbed' /\ End(k)
        /\ UNCHANGED <<n8n, mapping, cstar, doubled>>
    BY <1>4 DEF Fail
  <2>2. k # h
    BY <2>1, EndAt DEF NoSync
  <2>3. Undisturbed(h) /\ syncs'[h] = syncs[h] /\ pc'[h] = pc[h]
    BY <2>1, <2>2, EndAt DEF TypeOK
  <2>4. \A j \in Handlers \ {h} : User(j)' # User(h)
    BY <2>1, <2>3, EndAt DEF Alone, NoSync
  <2> QED BY <2>1, <2>2, <2>3, <2>4, EndAt DEF n8n
<1>5. ASSUME disturbed' = Users PROVE FALSE
  BY <1>5
<1>6. ASSUME NEW k \in Handlers, AssignTenant(k) PROVE FALSE
  BY <1>5, <1>6 DEF AssignTenant
<1>7. ASSUME Edits PROVE FALSE
  BY <1>5, <1>7 DEF Edits, Edit, CheckTenant, RemoveTenant, DeleteProject, EditMember
<1>8. ASSUME NEW u \in Users, NEW t \in Tenants, NEW roles \in Answers[t], ChangeCstar(u, t, roles)
      PROVE  Passes
  BY <1>8 DEF ChangeCstar, n8n, TypeOK, Alone
<1>9. ASSUME UNCHANGED vars PROVE Passes
  BY <1>9 DEF vars, n8n, history, Alone
<1> DEFINE Alike ==
      \/ \E u \in Users : /\ Login(h, u) /\ \A k \in Handlers : User(k) # u
                          /\ syncs'[h].active = { t \in Tenants : cstar[u][t] # Outside }
                          /\ \A t \in Tenants :
                               step'[h][t] = IF t \in syncs'[h].active THEN "roles" ELSE "idle"
      \/ Undisturbed(h) /\ \E k \in Handlers, t \in Tenants : SyncsTenant(k, t)
      \/ Undisturbed(h) /\ Sweeps(h)
      \/ Passes
<1> HIDE DEF Passes
<1>10. CASE \E k \in Handlers, u \in Users : Login(k, u)
  <2>1. PICK k \in Handlers, u \in Users : Login(k, u)
    BY <1>10
  <2>2. Alike
    BY <1>1, <2>1
  <2> QED BY <2>2 DEF Passes
<1>11. CASE \E k \in Handlers, t \in Tenants : SyncsTenant(k, t)
  BY <1>2, <1>11
<1>12. CASE \E k \in Handlers : Sweeps(k)
  <2>1. Alike
    BY <1>3, <1>12
  <2> QED BY <2>1 DEF Passes
<1>13. CASE \/ \E k \in Handlers : Fail(k)
            \/ \E u \in Users, t \in Tenants : \E roles \in Answers[t] : ChangeCstar(u, t, roles)
            \/ UNCHANGED vars
  <2>1. Passes
    BY <1>4, <1>8, <1>9, <1>13
  <2> QED BY <2>1 DEF Passes
<1> QED BY <1>6, <1>7, <1>10, <1>11, <1>12, <1>13 DEF Next

\* Every step leaves an undisturbed sync its user's only one.
LEMMA AloneStep ==
  ASSUME TypeOK, Served, Resting, Alone, [Next]_vars
  PROVE  Alone'
<1> SUFFICES ASSUME NEW h \in Handlers, Undisturbed(h)'
             PROVE  /\ \A k \in Handlers \ {h} : User(k)' # User(h)'
                    /\ syncs'[h].active = { t \in Tenants : cstar'[User(h)'][t] # Outside }
  BY DEF Alone
<1> USE DEF User
<1>1. ASSUME NEW u \in Users, Login(h, u), \A k \in Handlers : User(k) # u,
             syncs'[h].active = { t \in Tenants : cstar[u][t] # Outside }
      PROVE  /\ \A k \in Handlers \ {h} : User(k)' # User(h)'
             /\ syncs'[h].active = { t \in Tenants : cstar'[User(h)'][t] # Outside }
  <2>1. PICK active \in SUBSET Tenants :
          syncs' = [syncs EXCEPT ![h] = [NoSync EXCEPT !.user = u, !.active = active]]
    BY <1>1 DEF Login
  <2>2. syncs'[h].user = u /\ \A k \in Handlers \ {h} : syncs'[k] = syncs[k]
    BY <2>1, LoginSync DEF TypeOK
  <2> QED BY <1>1, <2>2 DEF Login
<1>2. ASSUME Undisturbed(h), NEW k \in Handlers, NEW t \in Tenants, SyncsTenant(k, t)
      PROVE  /\ \A j \in Handlers \ {h} : User(j)' # User(h)'
             /\ syncs'[h].active = { s \in Tenants : cstar'[User(h)'][s] # Outside }
  BY <1>2, TenantFrame DEF Alone
<1>3. ASSUME Undisturbed(h), Sweeps(h)
      PROVE  /\ \A k \in Handlers \ {h} : User(k)' # User(h)'
             /\ syncs'[h].active = { s \in Tenants : cstar'[User(h)'][s] # Outside }
  <2>1. pc'[h] # "idle"
    BY <1>3, SweepEnds, OwnerAssumption DEF Undisturbed, NoSync
  <2>2. /\ syncs'[h].active = syncs[h].active /\ cstar' = cstar
        /\ syncs'[h].user = syncs[h].user /\ \A k \in Handlers \ {h} : syncs'[k] = syncs[k]
    BY <1>3, <2>1, SweepSync, SweepEnds, SweepFrame
  <2> QED BY <1>3, <2>2 DEF Alone
<1>4. ASSUME Undisturbed(h), cstar'[User(h)] = cstar[User(h)], syncs'[h] = syncs[h],
             \A k \in Handlers \ {h} : User(k)' # User(h)
      PROVE  /\ \A k \in Handlers \ {h} : User(k)' # User(h)'
             /\ syncs'[h].active = { t \in Tenants : cstar'[User(h)'][t] # Outside }
  BY <1>4 DEF Alone
<1> QED BY <1>1, <1>2, <1>3, <1>4, UndisturbedMoves

\* An undisturbed sweep lists what is to go, and takes only that.
LEMMA SweepReaches ==
  ASSUME TypeOK, Served, Resting, NEW h \in Handlers, Undisturbed(h), Sweeps(h), pc'[h] # "idle",
         Progress(h)
  PROVE  Progress(h)'
<1> DEFINE u == User(h)
<1> USE SyncFields
<1>0. /\ step' = step /\ work' = work /\ syncs'[h].active = syncs[h].active /\ cstar' = cstar
      /\ User(h)' = u /\ UNCHANGED <<projects, mapping, doubled>> /\ u \in Users
      /\ pc'[h] \in {"sweep", "sweepDelete"} /\ syncs[h].active \subseteq Tenants
  BY SweepSync, SweepEnds, SweepFrame, SweepList DEF User, Undisturbed
<1>a. \A t \in Tenants : step[h][t] = "idle" /\ step'[h][t] = "idle"
  BY <1>0, SweepEnds DEF Resting
<1>1. ASSUME NEW t \in Tenants PROVE Heading(h, t)'
  BY <1>a, <1>1 DEF Heading, Changing
<1>2. ASSUME NEW t \in Tenants, Right(u, t),
             \A p \in Mapped(t) \cap projects : role'[u][p] = role[u][p]
      PROVE  Right(User(h), t)'
  BY <1>0, <1>2 DEF Right, Wanted, Mapped
<1>3. CASE ListRelations(h)
  <2>1. /\ pc[h] = "tenants" /\ role' = role /\ pc'[h] = "sweep"
        /\ \A t \in Tenants : step[h][t] = "idle"
    BY <1>3 DEF ListRelations, n8n, TypeOK
  <2>2. Listed(h)' = { p \in Projects : role[u][p] \in Managed }
    BY <2>1, SweepList
  <2>3. ASSUME NEW t \in Tenants \ doubled' PROVE Reaching(h, t)'
    <3>1. t \in syncs[h].active => Right(User(h), t)'
      BY <1>0, <1>2, <2>1, <2>3 DEF Progress, Reaching
    <3>2. \A p \in Mapped(t)' \cap projects' : role'[u][p] \in Managed => p \in Listed(h)'
      BY <2>1, <2>2 DEF Mapped
    <3> QED BY <1>0, <1>a, <2>1, <3>1, <3>2 DEF Reaching
  <2> QED BY <1>1, <2>1, <2>3 DEF Progress
<1>4. ASSUME NEW p \in Listed(h), pc[h] \in {"sweep", "sweepDelete"},
             \A t \in syncs[h].active \ doubled :
               \A q \in Mapped(t) \cap projects : role'[u][q] = role[u][q],
             \A q \in Listed(h) : q \in Listed(h)' \/ q = p,
             \A q \in Projects : role'[u][q] \in Managed => role[u][q] \in Managed,
             \/ p \in Listed(h)' \/ role'[u][p] \notin Managed \/ ~Stale(h, p)
      PROVE  \A t \in Tenants \ doubled' : Reaching(h, t)'
  <2> SUFFICES ASSUME NEW t \in Tenants \ doubled PROVE Reaching(h, t)'
    BY <1>0
  <2>1. CASE t \in syncs[h].active
    <3>1. Right(u, t)
      BY <1>4, <2>1 DEF Progress, Reaching
    <3> QED BY <1>0, <1>2, <1>4, <1>a, <2>1, <3>1 DEF Reaching
  <2>2. CASE t \notin syncs[h].active
    <3>1. ASSUME NEW q \in Mapped(t)' \cap projects', role'[u][q] \in Managed
          PROVE  q \in Listed(h)'
      <4>1. q \in Mapped(t) \cap projects /\ q \in Projects /\ mapping[q] = t
        BY <1>0, <3>1 DEF Mapped
      <4>2. q \in Listed(h)
        BY <1>4, <2>2, <3>1, <4>1 DEF Progress, Reaching
      <4>3. Stale(h, q)
        BY <2>2, <4>1, TenantAssumption DEF Stale
      <4> QED BY <1>4, <3>1, <4>2, <4>3
    <3> QED BY <1>0, <1>a, <2>2, <3>1 DEF Reaching
  <2> QED BY <2>1, <2>2
<1>5. CASE SweepNext(h)
  <2>1. PICK p \in Listed(h) :
          IF Stale(h, p)
            THEN /\ pc' = [pc EXCEPT ![h] = "sweepDelete"]
                 /\ syncs' = [syncs EXCEPT ![h].target = p]
            ELSE syncs' = [syncs EXCEPT ![h].listed[p] = NoRole] /\ UNCHANGED pc
    BY <1>5 DEF SweepNext
  <2>2. p \in Projects /\ role' = role /\ pc[h] = "sweep"
    BY <1>5, <2>1 DEF SweepNext, Listed, n8n
  <2>3. CASE Stale(h, p)
    <3>1. syncs'[h].target = p /\ syncs'[h].listed = syncs[h].listed
      BY <2>1, <2>3 DEF TypeOK, Sync
    <3>2. Listed(h)' = Listed(h)
      BY <3>1 DEF Listed
    <3>3. Stale(h, syncs[h].target)'
      BY <1>0, <2>3, <3>1 DEF Stale
    <3>4. \A t \in Tenants \ doubled' : Reaching(h, t)'
      BY <1>4, <2>2, <3>2
    <3> QED BY <1>1, <3>3, <3>4 DEF Progress
  <2>4. CASE ~Stale(h, p)
    <3>0. syncs' = [syncs EXCEPT ![h].listed[p] = NoRole] /\ pc' = pc
      BY <2>1, <2>4
    <3>1. syncs'[h].listed = [syncs[h].listed EXCEPT ![p] = NoRole] /\ pc' = pc
      BY <3>0 DEF TypeOK, Sync
    <3>2. \A q \in Listed(h) : q \in Listed(h)' \/ q = p
      BY <3>1 DEF Listed
    <3>3. \A t \in Tenants \ doubled' : Reaching(h, t)'
      BY <1>4, <2>2, <2>4, <3>2
    <3> QED BY <1>1, <2>2, <3>1, <3>3 DEF Progress
  <2> QED BY <2>3, <2>4
<1>6. CASE SweepDelete(h)
  <2>1. PICK p \in Projects : p = syncs[h].target /\ p \in Listed(h)
    BY <1>6 DEF SweepDelete, Served, Serving, Listed
  <2>2. /\ pc[h] = "sweepDelete" /\ pc'[h] = "sweep" /\ SetRole(u, p, NoRole)
        /\ p \in projects => Stale(h, p)
    BY <1>6, <2>1 DEF SweepDelete, TypeOK, Progress
  <2>3. \A v \in Users, q \in Projects : role'[v][q] = IF v = u /\ q = p THEN NoRole ELSE role[v][q]
    <3>1. NoRole \in RoleOrNone
      BY DEF RoleOrNone
    <3> QED BY <2>2, <3>1, RoleAt
  <2>4. \A q \in Listed(h) : q \in Listed(h)' \/ q = p
    <3>1. syncs'[h].listed = [syncs[h].listed EXCEPT ![p] = NoRole]
      BY <1>6, <2>1 DEF SweepDelete, TypeOK, Sync
    <3> QED BY <3>1 DEF Listed
  <2>5. NoRole \notin Managed
    BY DEF NoRole, Managed, Editor, Viewer
  <2>6. \A t \in syncs[h].active \ doubled :
          \A q \in Mapped(t) \cap projects : role'[u][q] = role[u][q]
    BY <1>0, <2>2, <2>3 DEF Stale, Mapped
  <2>7. \A t \in Tenants \ doubled' : Reaching(h, t)'
    BY <1>0, <1>4, <2>1, <2>2, <2>3, <2>4, <2>5, <2>6
  <2> QED BY <1>1, <2>2, <2>7 DEF Progress
<1>7. ~Finish(h)
  BY EndAt DEF Finish, TypeOK
<1> QED BY <1>3, <1>5, <1>6, <1>7 DEF Sweeps

\* A step of an undisturbed sync keeps it on its way.
LEMMA OwnProgress ==
  ASSUME TypeOK, Served, Unmade, OneMaker, Gone, NEW h \in Handlers, NEW t \in Tenants,
         SyncsTenant(h, t), User(h) \in Users \ disturbed', Progress(h)
  PROVE  Progress(h)'
<1>1. /\ pc' = pc /\ pc[h] = "tenants" /\ syncs' = syncs /\ User(h)' = User(h)
      /\ doubled \subseteq doubled'
  BY TenantFrame, MakerMoves DEF User
<1>2. Heading(h, t)' /\ (step'[h][t] = "idle" /\ t \notin doubled' => Right(User(h), t)')
  BY <1>1, HeadingStep DEF Progress
<1>3. t \notin doubled' => Reaching(h, t)'
  <2>1. SUFFICES ASSUME t \notin doubled' PROVE Reaching(h, t)'
    OBVIOUS
  <2>2. Reaching(h, t)
    BY <1>1, <2>1 DEF Progress
  <2>3. step'[h][t] \in {"exists", "dangling"} /\ work'[h][t].project \notin projects' =>
          Vacant(User(h), t)'
    BY <2>1, <2>2, VacantStep
  <2> QED BY <1>1, <1>2, <2>1, <2>3 DEF Reaching
<1>4. ASSUME NEW s \in Tenants, s # t
      PROVE  Heading(h, s)' /\ (s \notin doubled' => Reaching(h, s)')
  <2>1. step[h][t] \in Changing => mapping[work[h][t].project] # s
    BY <1>4 DEF Progress, Heading
  <2> QED BY <1>1, <1>4, <2>1, HeadingElsewhere, ReachingElsewhere DEF Progress
<1> QED BY <1>1, <1>2, <1>3, <1>4 DEF Progress

\* A step of another user's sync does, too.
LEMMA OthersPass ==
  ASSUME TypeOK, Served, Unmade, OneMaker, Gone, NEW k \in Handlers, NEW t \in Tenants,
         SyncsTenant(k, t), NEW h \in Handlers, User(k) # User(h),
         User(h) \in Users \ disturbed', Progress(h)
  PROVE  Progress(h)'
<1>1. pc' = pc /\ syncs' = syncs /\ doubled \subseteq doubled' /\ k # h
  BY TenantFrame, MakerMoves
<1>2. ASSUME NEW s \in Tenants
      PROVE  Heading(h, s)' /\ (s \notin doubled' => Reaching(h, s)')
  BY <1>1, HeadingElsewhere, ReachingElsewhere DEF Progress
<1>3. ASSUME pc[h] = "sweepDelete", syncs[h].target \in projects'
      PROVE  Stale(h, syncs[h].target)'
  <2> DEFINE p == syncs[h].target
  <2>1. p \in Projects /\ p <= made
    BY <1>3 DEF Served, Serving, Listed
  <2>2. p # made + 1
    BY <2>1 DEF TypeOK, Projects
  <2>3. p \in projects
    BY <1>3, <2>2, TenantTables
  <2>4. mapping[p] \notin syncs[h].active \cup {NoTenant}
    BY <1>3, <2>3 DEF Progress, Stale
  <2>5. mapping'[p] = mapping[p]
    BY <2>1, <2>3, <2>4, TenantTables DEF Gone
  <2> QED BY <1>1, <2>4, <2>5 DEF Stale
<1> QED BY <1>1, <1>2, <1>3 DEF Progress

\* Every step keeps an undisturbed sync on its way.
LEMMA UnderwayStep ==
  ASSUME TypeOK, Served, Unmade, OneMaker, Resting, Gone, Alone, Underway, [Next]_vars
  PROVE  Underway'
<1> SUFFICES ASSUME NEW h \in Handlers, Undisturbed(h)'
             PROVE  Progress(h)'
  BY DEF Underway
<1>1. ASSUME NEW u \in Users, Login(h, u),
             \A t \in Tenants : step'[h][t] = IF t \in syncs'[h].active THEN "roles" ELSE "idle"
      PROVE  Progress(h)'
  <2>1. pc'[h] = "tenants"
    BY <1>1 DEF Login, TypeOK
  <2> QED BY <1>1, <2>1 DEF Progress, Heading, Reaching, Changing
<1>2. ASSUME Undisturbed(h), NEW k \in Handlers, NEW t \in Tenants, SyncsTenant(k, t)
      PROVE  Progress(h)'
  <2>1. Progress(h) /\ User(h) \in Users \ disturbed'
    BY <1>2, TenantFrame DEF Underway, Undisturbed, User
  <2>2. CASE k = h
    BY <1>2, <2>1, <2>2, OwnProgress
  <2>3. CASE k # h
    <3>1. User(k) # User(h)
      BY <1>2, <2>3 DEF Alone
    <3> QED BY <1>2, <2>1, <3>1, OthersPass
  <2> QED BY <2>2, <2>3
<1>3. ASSUME Undisturbed(h), Sweeps(h)
      PROVE  Progress(h)'
  <2>1. pc'[h] # "idle"
    BY <1>3, SweepEnds, OwnerAssumption DEF Undisturbed, User, NoSync
  <2> QED BY <1>3, <2>1, SweepReaches DEF Underway
<1>4. ASSUME Undisturbed(h), cstar'[User(h)] = cstar[User(h)],
             UNCHANGED <<projects, mapping, doubled>>,
             \A p \in Projects : role'[User(h)][p] = role[User(h)][p],
             pc'[h] = pc[h], syncs'[h] = syncs[h],
             \A t \in Tenants : step'[h][t] = step[h][t] /\ work'[h][t] = work[h][t]
      PROVE  Progress(h)'
  <2>1. User(h)' = User(h) /\ Progress(h)
    BY <1>4 DEF User, Underway
  <2>2. \A t \in Tenants : Heading(h, t)' <=> Heading(h, t)
    BY <1>4, <2>1 DEF Heading, Wanted
  <2>3. PICK u : u = User(h) /\ u = User(h)'
    BY <2>1
  <2>4. \A t \in Tenants : (Right(u, t)' <=> Right(u, t)) /\ (Vacant(u, t)' <=> Vacant(u, t))
    BY <1>4, <2>3 DEF Right, Vacant, Wanted, Mapped
  <2>5. \A t \in Tenants : Reaching(h, t)' <=> Reaching(h, t)
    BY <1>4, <2>3, <2>4 DEF Reaching, Mapped, Listed, Right, Vacant, Wanted
  <2> QED BY <1>4, <2>1, <2>2, <2>5 DEF Progress, Stale
<1> QED BY <1>1, <1>2, <1>3, <1>4, UndisturbedMoves

\* What can happen to a user who is at rest and undisturbed afterwards: their
\* sync ends, or another one moves, or nothing their roles depend on changes.
LEMMA FollowedMoves ==
  ASSUME TypeOK, Served, Resting, [Next]_vars, NEW u \in Users \ disturbed', ~Syncing(u)'
  PROVE  \/ \E h \in Handlers : Finish(h) /\ User(h) = u /\ u \notin disturbed
         \/ /\ u \notin disturbed /\ ~Syncing(u)
            /\ \/ \E h \in Handlers, t \in Tenants : SyncsTenant(h, t)
               \/ /\ UNCHANGED <<projects, mapping>> /\ role'[u] = role[u] /\ cstar'[u] = cstar[u]
                  /\ doubled \subseteq doubled'
<1> USE OwnerAssumption DEF Syncing, User
<1>0. u \in Users /\ u # Nobody
  OBVIOUS
<1>1. ASSUME NEW h \in Handlers, NEW t \in Tenants, SyncsTenant(h, t)
      PROVE  u \notin disturbed /\ ~Syncing(u)
  <2>1. disturbed \subseteq disturbed'
    BY <1>1 DEF SyncsTenant, Roles, Lookup, Exists, DeleteDangling, CreateProject, LinkOwner, MapTenant,
                ReadRelation, DeleteRelation, SaveRelation, FailTenant, Drop, history
  <2> QED BY <1>1, <2>1, TenantFrame
<1>2. CASE \A h \in Handlers, t \in Tenants : ~SyncsTenant(h, t)
  <2>1. ASSUME NEW h \in Handlers, NEW v \in Users, Login(h, v)
        PROVE  /\ u \notin disturbed /\ ~Syncing(u)
               /\ UNCHANGED <<projects, mapping, role, cstar, doubled>>
    <3>1. PICK active \in SUBSET Tenants :
            syncs' = [syncs EXCEPT ![h] = [NoSync EXCEPT !.user = v, !.active = active]]
      BY <2>1 DEF Login
    <3>2. syncs'[h].user = v /\ \A k \in Handlers \ {h} : syncs'[k] = syncs[k]
      BY <3>1, LoginSync DEF TypeOK
    <3>3. u # v
      BY <3>2
    <3>4. disturbed \ {v} \subseteq disturbed' /\ pc[h] = "idle"
      BY <2>1 DEF Login
    <3>5. ~Syncing(u)
      BY <1>0, <3>2, <3>4 DEF Resting
    <3> QED BY <2>1, <3>3, <3>4, <3>5 DEF Login, n8n
  <2>2. ASSUME NEW h \in Handlers, Sweeps(h), ~(Finish(h) /\ User(h) = u)
        PROVE  /\ u \notin disturbed /\ ~Syncing(u) /\ role'[u] = role[u]
               /\ UNCHANGED <<projects, mapping, cstar, doubled>>
    <3>1. User(h) # u
      BY <2>2, SweepEnds, SweepSync
    <3>2. \A k \in Handlers \ {h} : syncs'[k] = syncs[k]
      BY <2>2, SweepFrame
    <3>3. \A q \in Projects : role'[u][q] = role[u][q]
      BY <1>0, <2>2, <3>1, SweepFrame
    <3>4. role'[u] = role[u]
      BY <2>2, <3>3, SweepTypes DEF TypeOK
    <3> QED BY <2>2, <3>1, <3>2, <3>4, SweepFrame, SweepEnds
  <2>3. ASSUME NEW h \in Handlers, Fail(h)
        PROVE  /\ u \notin disturbed /\ ~Syncing(u)
               /\ UNCHANGED <<projects, mapping, role, cstar, doubled>>
    <3>1. /\ disturbed' = disturbed \cup ({User(h)} \ {Nobody})
          /\ \A k \in Handlers \ {h} : syncs'[k] = syncs[k]
      BY <2>3, EndAt DEF Fail
    <3> QED BY <1>0, <2>3, <3>1 DEF Fail, n8n
  <2>4. ~(disturbed' = Users)
    OBVIOUS
  <2>5. ASSUME NEW h \in Handlers, AssignTenant(h) PROVE FALSE
    BY <2>4, <2>5 DEF AssignTenant
  <2>6. ASSUME Edits PROVE FALSE
    BY <2>4, <2>6 DEF Edits, Edit, CheckTenant, RemoveTenant, DeleteProject, EditMember
  <2>7. ASSUME NEW v \in Users, NEW t \in Tenants, NEW roles \in Answers[t], ChangeCstar(v, t, roles)
        PROVE  /\ u \notin disturbed /\ ~Syncing(u) /\ cstar'[u] = cstar[u]
               /\ UNCHANGED <<projects, mapping, role, doubled>>
    BY <2>7 DEF ChangeCstar, n8n, TypeOK
  <2>8. CASE UNCHANGED vars
    BY <2>8 DEF vars, n8n, history
  <2>9. CASE \E h \in Handlers : Sweeps(h)
    <3>1. PICK h \in Handlers : Sweeps(h)
      BY <2>9
    <3>2. CASE Finish(h) /\ User(h) = u
      BY <3>1, <3>2, SweepEnds
    <3> QED BY <2>2, <3>1, <3>2
  <2> QED BY <1>2, <2>1, <2>3, <2>5, <2>6, <2>7, <2>8, <2>9 DEF Next
<1> QED BY <1>1, <1>2

\* An undisturbed sync leaves its user's roles right.
LEMMA FinishSettles ==
  ASSUME TypeOK, Served, Resting, Alone, Underway,
         NEW u \in Users \ disturbed, NEW h \in Handlers, User(h) = u, Finish(h)
  PROVE  Settled(u)'
<1>1. /\ pc[h] = "sweep" /\ Listed(h) = {} /\ UNCHANGED <<projects, role, mapping, cstar, doubled>>
      /\ Progress(h) /\ u \in Users
  BY DEF Finish, n8n, history, Underway, Undisturbed
<1>2. ASSUME NEW t \in Tenants \ doubled
      PROVE  Right(u, t)
  <2>1. CASE t \in syncs[h].active
    BY <1>1, <2>1 DEF Progress, Reaching
  <2>2. CASE t \notin syncs[h].active
    <3>1. cstar[u][t] = Outside
      BY <2>2 DEF Alone, Undisturbed
    <3>2. Wanted(u, t) = NoRole
      BY <3>1 DEF Wanted, Resolve, Outside, Editor, Viewer
    <3>3. ASSUME NEW p \in Mapped(t) \cap projects
          PROVE  role[u][p] \in {Admin, NoRole}
      <4>1. role[u][p] \notin Managed
        BY <1>1, <2>2, <3>3 DEF Progress, Reaching
      <4>2. role[u][p] \in RoleOrNone
        BY <1>1 DEF TypeOK, Mapped
      <4> QED BY <4>1, <4>2 DEF RoleOrNone
    <3> QED BY <3>2, <3>3 DEF Right
  <2> QED BY <2>1, <2>2
<1> QED
  BY <1>1, <1>2 DEF Settled, Right, Wanted, Mapped

\* A step of another user's sync keeps a user's roles right.
LEMMA OthersSettle ==
  ASSUME TypeOK, Served, Unmade, OneMaker, Gone, NEW u \in Users \ disturbed', Settled(u),
         NEW h \in Handlers, NEW t \in Tenants, SyncsTenant(h, t), User(h) # u
  PROVE  Settled(u)'
<1>1. doubled \subseteq doubled'
  BY MakerMoves
<1>2. ASSUME NEW s \in Tenants \ doubled'
      PROVE  Right(u, s)'
  BY <1>1, RightKept DEF Settled
<1> QED BY <1>2 DEF Settled

\* Every step keeps the roles an undisturbed sync left.
LEMMA FollowedStep ==
  ASSUME TypeOK, Served, Unmade, OneMaker, Resting, Gone, Alone, Underway, Followed, [Next]_vars
  PROVE  Followed'
<1> SUFFICES ASSUME NEW u \in Users \ disturbed', ~Syncing(u)'
             PROVE  Settled(u)'
  BY DEF Followed
<1>1. ASSUME NEW h \in Handlers, Finish(h), User(h) = u, u \notin disturbed
      PROVE  Settled(u)'
  BY <1>1, FinishSettles
<1>2. ASSUME u \notin disturbed, ~Syncing(u), NEW h \in Handlers, NEW t \in Tenants, SyncsTenant(h, t)
      PROVE  Settled(u)'
  BY <1>2, OthersSettle DEF Followed, Syncing
<1>3. ASSUME u \notin disturbed, ~Syncing(u),
             UNCHANGED <<projects, mapping>>, role'[u] = role[u], cstar'[u] = cstar[u],
             doubled \subseteq doubled'
      PROVE  Settled(u)'
  <2>1. Settled(u)
    BY <1>3 DEF Followed
  <2>2. \A t \in Tenants : Right(u, t)' <=> Right(u, t)
    BY <1>3 DEF Right, Wanted, Mapped
  <2> QED BY <1>3, <2>1, <2>2 DEF Settled
<1> QED BY <1>1, <1>2, <1>3, FollowedMoves

\* Every step keeps the roles following CSTAR.
LEMMA FollowsStep ==
  ASSUME TypeOK, Served, Unmade, OneMaker, Follows, [Next]_vars
  PROVE  Follows'
BY RestingStep, GoneStep, AloneStep, UnderwayStep, FollowedStep DEF Follows

----------------------------------------------------------------------------
(* The inductive invariant.                                                *)

IInv ==
  /\ TypeOK /\ Served /\ Unmade
  /\ LateOnes
  /\ OwnerLinked /\ OwnerSpares
  /\ OneMaker
  /\ Follows

\* The first state satisfies the invariant.
LEMMA InitInv == Init => IInv
<1> SUFFICES ASSUME Init PROVE IInv
  OBVIOUS
<1>1. TypeOK /\ Served
  BY InitTypes
<1>2. Unmade
  BY BoundsAssumption DEF Init, Unmade, Projects
<1>3. \A h \in Handlers, t \in Tenants : step[h][t] = "idle" /\ pc[h] = "idle"
  BY DEF Init
<1>4. LateOnes
  <2>1. \A h \in Handlers, p \in Projects : ~Decided(h, p)
    <3>1. \A h \in Handlers : pc[h] = "idle"
      BY DEF Init
    <3> QED BY <1>3, <3>1 DEF Decided
  <2> QED BY <2>1 DEF LateOnes
<1>5. OwnerLinked /\ OwnerSpares
  BY <1>3 DEF Init, OwnerLinked, OwnerSpares, Ours
<1>6. OneMaker
  BY <1>3, TenantAssumption DEF Init, OneMaker, Single, Maker, Creating, Mapped
<1>7. Follows
  <2>1. \A h \in Handlers : User(h) = Nobody
    BY DEF Init, User, NoSync
  <2>2. disturbed = Users
    BY DEF Init
  <2> QED BY <1>3, <2>1, <2>2 DEF Follows, Resting, Gone, Alone, Underway, Followed, Undisturbed
<1> QED BY <1>1, <1>2, <1>4, <1>5, <1>6, <1>7 DEF IInv

\* Every step keeps the invariant.
LEMMA StepInv == IInv /\ [Next]_vars => IInv'
BY TypeStep, ServedStep, UnmadeStep, LateOnesStep, OwnerLinkedStep, OwnerSparesStep, OneMakerStep,
   FollowsStep DEF IInv

\* The invariant always holds.
LEMMA Invariant == Spec => []IInv
BY InitInv, StepInv, PTL DEF Spec

\* The tables and the values held stay well-typed.
THEOREM TypeCorrect == Spec => []TypeOK
<1>1. IInv => TypeOK
  BY DEF IInv
<1> QED BY <1>1, Invariant, PTL

\* A project the sync made is in use only with the owner as its admin: no
\* crossing of logins, sweeps, failures and assignments takes the role away.
THEOREM OwnerStays == Spec => []OwnerRunsProjects
<1>1. IInv => OwnerRunsProjects
  BY DEF IInv, OwnerRunsProjects, OwnerLinked, Ours, Chosen
<1> QED BY <1>1, Invariant, PTL

\* Whoever's last sync ran undisturbed has the role CSTAR gives in the project
\* of each tenant, or an admin's: other logins neither take it nor add to it.
THEOREM RolesFollow == Spec => []RolesFollowCstar
<1>1. ASSUME IInv, NEW u \in Users \ disturbed, ~Syncing(u), NEW t \in Tenants \ doubled
      PROVE  /\ Resolve(cstar[u][t]) # NoRole => Mapped(t) # {}
             /\ \A p \in Mapped(t) \cap projects : role[u][p] \in {Admin, Resolve(cstar[u][t])}
  BY <1>1 DEF IInv, Follows, Followed, Settled, Right, Wanted
<1>2. IInv => RolesFollowCstar
  BY <1>1 DEF RolesFollowCstar
<1> QED BY <1>2, Invariant, PTL

\* An admin stays one, whatever syncs and sweeps correct: besides people, only a
\* sync takes the role away whose user was made an admin in between its reading
\* the relation and its deleting it.
THEOREM AdminsStay == Spec => AdminsKept
<1> DEFINE Keeps ==
      \A u \in Users, p \in projects :
        role[u][p] = Admin /\ role'[u][p] # Admin =>
          edits' # edits \/ \E h \in Handlers : User(h) = u /\ <<h, p>> \in late
      Misread(u, p) == \E h \in Handlers : User(h) = u /\ <<h, p>> \in late
<1>1. ASSUME IInv, [Next]_vars
      PROVE  Keeps
  <2> USE <1>1 DEF IInv
  <2>1. SUFFICES ASSUME NEW u \in Users, NEW p \in Projects,
                        role[u][p] = Admin, role'[u][p] # Admin, edits' = edits
                 PROVE  Misread(u, p)
    BY DEF TypeOK
  <2>2. ASSUME NEW h \in Handlers, NEW t \in Tenants, SyncsTenant(h, t)
        PROVE  Misread(u, p)
    <3>1. p = work[h][t].project /\ u = User(h) /\ step[h][t] \in Changing
      BY <2>1, <2>2, TenantTables DEF Changing
    <3>2. Decided(h, p)
      BY <3>1 DEF Decided, Changing
    <3> QED BY <2>1, <3>1, <3>2 DEF LateOnes
  <2>3. ASSUME NEW h \in Handlers, Sweeps(h)
        PROVE  Misread(u, p)
    <3>1. u = User(h) /\ pc[h] = "sweepDelete" /\ p = syncs[h].target
      BY <2>1, <2>3, SweepFrame
    <3>2. Decided(h, p)
      BY <3>1 DEF Decided, Served, Serving
    <3> QED BY <2>1, <3>1, <3>2 DEF LateOnes
  <2>4. ASSUME NEW h \in Handlers, NEW v \in Users, Login(h, v) PROVE Misread(u, p)
    BY <2>1, <2>4 DEF Login, n8n
  <2>5. ASSUME NEW h \in Handlers, AssignTenant(h) \/ Fail(h) PROVE Misread(u, p)
    BY <2>1, <2>5 DEF AssignTenant, Fail, n8n
  <2>6. CASE Edits
    <3>1. edits' = edits + 1 /\ edits \in Nat
      BY <2>6 DEF Edits, CheckTenant, RemoveTenant, DeleteProject, EditMember, Edit, TypeOK
    <3> QED BY <2>1, <3>1
  <2>7. ASSUME NEW v \in Users, NEW t \in Tenants, NEW roles \in Answers[t], ChangeCstar(v, t, roles)
        PROVE  Misread(u, p)
    BY <2>1, <2>7 DEF ChangeCstar, n8n
  <2>8. CASE UNCHANGED vars
    BY <2>1, <2>8 DEF vars, n8n
  <2> QED BY <2>2, <2>3, <2>4, <2>5, <2>6, <2>7, <2>8 DEF Next
<1>2. IInv /\ [Next]_vars => [Keeps]_vars
  BY <1>1
<1> QED BY <1>2, Invariant, PTL DEF Spec, AdminsKept

=============================================================================
