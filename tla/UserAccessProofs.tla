--------------------------- MODULE UserAccessProofs ---------------------------
(***************************************************************************)
(* For every set of people, roles and concurrent requests: nobody holds a  *)
(* role that was not given, an approval lets its requester in, and an owner *)
(* remains unless two demotions race.                                      *)
(***************************************************************************)
EXTENDS UserAccess, TLAPS

\* The roles the code names are roles, and not the absence of one.
LEMMA RolesAreRoles ==
  /\ "global:owner" \in Roles /\ "global:member" \in Roles
  /\ "global:owner" # NoRole /\ "global:member" # NoRole
BY RolesAssumption

\* The fields of what a handler holds.
LEMMA HoldingOf ==
  ASSUME TypeOK, NEW h \in Handlers
  PROVE  /\ holds[h] \in Holding /\ pc[h] \in Places
         /\ holds[h].person \in People \cup {Nobody}
         /\ holds[h].next \in Roles \cup {NoRole}
         /\ holds[h].seen \in User
         /\ holds[h].seen.role \in Roles \cup {NoRole}
         /\ holds[h].seen.disabled \in BOOLEAN
         /\ holds[h].number \in 0..MaxRequests
BY DEF TypeOK, Holding, User

\* The fields of a user.
LEMMA UserOf ==
  ASSUME TypeOK, NEW p \in People
  PROVE  /\ users[p] \in User /\ users[p].role \in Roles \cup {NoRole}
         /\ users[p].disabled \in BOOLEAN
BY DEF TypeOK, User

\* A handler that holds nothing is well-typed.
LEMMA NothingType == Nothing \in Holding /\ Unknown \in User
BY BoundsAssumption DEF Nothing, Unknown, Holding, User

\* Moving a handler on keeps the places and what handlers hold well-typed.
LEMMA MoveType ==
  ASSUME TypeOK, NEW h \in Handlers, NEW place \in Places, NEW r \in Holding,
         pc' = [pc EXCEPT ![h] = place], holds' = [holds EXCEPT ![h] = r]
  PROVE  /\ pc' \in [Handlers -> Places] /\ holds' \in [Handlers -> Holding]
         /\ pc'[h] = place /\ holds'[h] = r
         /\ \A j \in Handlers : j # h => pc'[j] = pc[j] /\ holds'[j] = holds[j]
BY DEF TypeOK

----------------------------------------------------------------------------
(* The inductive invariant.  Working: what a handler holds bears out the   *)
(* step it is at: roles about to be written were granted, users found stay *)
(* known, requests under way were decided, and a demotion counted another  *)
(* owner, who is still there unless a demotion has crossed it.  Enabled    *)
(* requesters have been served.                                            *)

SomeUser == \E p \in People : Known(p)

Working(h) ==
  LET r == holds[h] IN
  /\ pc[h] # "idle" => r.person \in People
  /\ pc[h] \in LoginSteps => r.next \in granted[r.person] \cup {NoRole}
  /\ pc[h] \in {"count", "create", "change"} => r.next # NoRole
  /\ pc[h] = "create" =>
       /\ r.seen.role \in granted[r.person]
       /\ r.seen.role # "global:owner" => SomeUser
  /\ pc[h] \in {"countOwners", "change", "settle", "enable"} => Known(r.person)
  /\ pc[h] = "countOwners" => r.seen.role = "global:owner"
  /\ pc[h] \in {"decide"} \cup ApprovalSteps =>
       SomeUser /\ r.number \in Created /\ requests[r.number].by = r.person
  /\ pc[h] \in ApprovalSteps =>
       /\ requests[r.number].status = "approved"
       /\ "global:member" \in granted[r.person]
  /\ pc[h] = "change" /\ r.seen.role = "global:owner" =>
       crossed \/ OtherOwners(r.person) # {}

Requesters == \A i \in Created : requests[i].by \in People

EnabledAreServed ==
  \A i \in Created :
    requests[i].status = "approved" /\ Enabled(requests[i].by) => i \in served

IInv ==
  /\ TypeOK /\ (\A h \in Handlers : Working(h)) /\ Requesters /\ EnabledAreServed
  /\ OwnerRemains /\ RolesWereGranted /\ ApprovalsTakeEffect

\* The invariant holds at the start.
LEMMA InitIInv == Init => IInv
<1> SUFFICES ASSUME Init PROVE IInv
  OBVIOUS
<1>1. TypeOK
  <2>1. users \in [People -> User] /\ holds \in [Handlers -> Holding]
    BY NothingType DEF Init
  <2>2. requests \in [Numbers -> [by : People \cup {Nobody},
                                  status : {"none", "pending", "approved", "denied"}]]
    BY DEF Init, NoRequest
  <2>3. pc \in [Handlers -> Places] /\ granted \in [People -> SUBSET Roles]
    BY DEF Init, Places
  <2> QED
    BY <2>1, <2>2, <2>3 DEF Init, TypeOK
<1>2. Created = {} /\ \A p \in People : ~ Known(p)
  BY DEF Init, Created, Known, Unknown
<1>3. \A h \in Handlers : Working(h)
  BY DEF Init, Working, LoginSteps, ApprovalSteps
<1> QED
  BY <1>1, <1>2, <1>3
  DEF IInv, Requesters, EnabledAreServed, OwnerRemains, RolesWereGranted, ApprovalsTakeEffect

\* A handler keeps bearing out its step while another one moves: users stay
\* known, roles granted, decisions made, and the other owner it counted is there.
LEMMA OthersWork ==
  ASSUME NEW j \in Handlers, Working(j), UNCHANGED <<pc[j], holds[j]>>,
         \A p \in People : Known(p) => Known(p)',
         \A p \in People : granted[p] \subseteq granted'[p],
         \A i \in Created : /\ i \in Created' /\ requests'[i].by = requests[i].by
                            /\ requests[i].status = "approved" =>
                                 requests'[i].status = "approved",
         pc[j] = "change" /\ holds[j].seen.role = "global:owner"
           /\ (crossed \/ OtherOwners(holds[j].person) # {}) =>
           crossed' \/ OtherOwners(holds[j].person)' # {}
  PROVE  Working(j)'
<1>1. SomeUser => SomeUser'
  BY DEF SomeUser
<1>2. pc[j] # "idle" => holds[j].person \in People
  BY DEF Working
<1>3. pc[j] \in LoginSteps \cup {"decide"} \cup ApprovalSteps => pc[j] # "idle"
  BY DEF LoginSteps, ApprovalSteps
<1>4. pc[j] \in {"create", "count", "countOwners", "change", "settle", "enable"} => pc[j] # "idle"
  OBVIOUS
<1>5. /\ (pc[j] # "idle" => holds[j].person \in People)'
      /\ (pc[j] \in LoginSteps => holds[j].next \in granted[holds[j].person] \cup {NoRole})'
      /\ (pc[j] \in {"count", "create", "change"} => holds[j].next # NoRole)'
      /\ (pc[j] = "countOwners" => holds[j].seen.role = "global:owner")'
  BY <1>2, <1>3 DEF Working
<1>6. (pc[j] = "create" =>
         /\ holds[j].seen.role \in granted[holds[j].person]
         /\ holds[j].seen.role # "global:owner" => SomeUser)'
  BY <1>1, <1>2, <1>4 DEF Working
<1>7. (pc[j] \in {"countOwners", "change", "settle", "enable"} => Known(holds[j].person))'
  <2>1. ASSUME pc[j] \in {"countOwners", "change", "settle", "enable"}
        PROVE  Known(holds[j].person)'
    <3>1. holds[j].person \in People /\ Known(holds[j].person)
      BY <1>2, <1>4, <2>1 DEF Working
    <3> QED
      BY <3>1
  <2> QED
    BY <2>1
<1>8. (pc[j] \in {"decide"} \cup ApprovalSteps =>
         /\ SomeUser /\ holds[j].number \in Created
         /\ requests[holds[j].number].by = holds[j].person)'
  <2>1. ASSUME pc[j] \in {"decide"} \cup ApprovalSteps
        PROVE  /\ SomeUser' /\ holds[j].number \in Created'
               /\ requests'[holds[j].number].by = holds[j].person
    BY <1>1, <2>1 DEF Working
  <2> QED
    BY <2>1 DEF ApprovalSteps
<1>9. (pc[j] \in ApprovalSteps =>
         /\ requests[holds[j].number].status = "approved"
         /\ "global:member" \in granted[holds[j].person])'
  BY <1>2, <1>3 DEF Working
<1>10. (pc[j] = "change" /\ holds[j].seen.role = "global:owner" =>
          crossed \/ OtherOwners(holds[j].person) # {})'
  BY DEF Working
<1> QED
  BY <1>5, <1>6, <1>7, <1>8, <1>9, <1>10 DEF Working

----------------------------------------------------------------------------
(* Steps that leave the users alone.                                       *)

\* Such a step of handler h keeps the invariant where h bears out its next
\* step, and where an approval that h makes or leaves is accounted for.
LEMMA QuietStep ==
  ASSUME IInv, NEW h \in Handlers, TypeOK', Working(h)',
         UNCHANGED <<users, crossed>>,
         \A j \in Handlers : j # h => pc'[j] = pc[j] /\ holds'[j] = holds[j],
         \A p \in People : granted[p] \subseteq granted'[p],
         served \subseteq served', failed \subseteq failed',
         \A i \in Created : /\ i \in Created' /\ requests'[i].by = requests[i].by
                            /\ requests[i].status = "approved" =>
                                 requests'[i].status = "approved",
         \A i \in Created' : requests'[i].by \in People,
         \A i \in Created' : requests'[i].status = "approved" =>
           \/ i \in Created /\ requests[i].status = "approved"
           \/ /\ Enabled(requests'[i].by) => i \in served'
              /\ pc'[h] \in ApprovalSteps /\ holds'[h].number = i,
         pc[h] \in ApprovalSteps =>
           \/ pc'[h] \in ApprovalSteps /\ holds'[h].number = holds[h].number
           \/ holds[h].number \in served' \cup failed'
  PROVE  IInv'
<1>1. \A p \in People : (Known(p)' <=> Known(p)) /\ (Enabled(p)' <=> Enabled(p))
  BY DEF Known, Enabled
<1>2. Owners' = Owners
  BY DEF Owners
<1>3. ASSUME NEW j \in Handlers PROVE Working(j)'
  <2>1. CASE j # h
    <3>1. OtherOwners(holds[j].person)' = OtherOwners(holds[j].person)
      BY <1>2, <2>1 DEF OtherOwners
    <3> QED
      BY <1>1, <2>1, <3>1, OthersWork DEF IInv
  <2> QED
    BY <2>1
<1>4. Requesters'
  BY DEF Requesters
<1>5. EnabledAreServed'
  <2>1. ASSUME NEW i \in Created', requests'[i].status = "approved",
               Enabled(requests[i].by)'
        PROVE  i \in served'
    <3>1. requests'[i].by \in People
      OBVIOUS
    <3>2. Enabled(requests'[i].by)
      BY <2>1, <3>1, <1>1 DEF Enabled, Known
    <3>3. CASE i \in Created /\ requests[i].status = "approved"
      BY <3>2, <3>3 DEF IInv, EnabledAreServed
    <3> QED
      BY <2>1, <3>2, <3>3
  <2> QED
    BY <2>1 DEF EnabledAreServed
<1>6. OwnerRemains' /\ RolesWereGranted'
  BY <1>1, <1>2 DEF IInv, OwnerRemains, RolesWereGranted
<1>7. ApprovalsTakeEffect'
  <2>1. ASSUME NEW i \in Created', requests'[i].status = "approved"
        PROVE  \/ i \in served' \cup failed'
               \/ \E j \in Handlers : pc'[j] \in ApprovalSteps /\ holds'[j].number = i
    <3>1. CASE ~ (i \in Created /\ requests[i].status = "approved")
      BY <2>1, <3>1
    <3>2. CASE i \in Created /\ requests[i].status = "approved" /\ i \notin served \cup failed
      <4>1. PICK j \in Handlers : pc[j] \in ApprovalSteps /\ holds[j].number = i
        BY <3>2 DEF IInv, ApprovalsTakeEffect
      <4> QED
        BY <4>1
    <3> QED
      BY <3>1, <3>2
  <2> QED
    BY <2>1 DEF ApprovalsTakeEffect
<1> QED
  BY <1>3, <1>4, <1>5, <1>6, <1>7 DEF IInv

\* A quiet step that changes neither requests nor what is served or failed.
LEMMA PlainStep ==
  ASSUME IInv, NEW h \in Handlers, NEW place \in Places, NEW r \in Holding,
         pc' = [pc EXCEPT ![h] = place], holds' = [holds EXCEPT ![h] = r],
         UNCHANGED <<users, requests, restrictNoRole, served, failed, crossed>>,
         changes' \in Nat, idp' \in [People -> Roles \cup {NoRole}],
         granted' \in [People -> SUBSET Roles],
         \A p \in People : granted[p] \subseteq granted'[p],
         pc[h] \in ApprovalSteps => place \in ApprovalSteps /\ r.number = holds[h].number,
         Working(h)'
  PROVE  IInv'
<1>1. TypeOK' /\ pc'[h] = place /\ holds'[h] = r
      /\ \A j \in Handlers : j # h => pc'[j] = pc[j] /\ holds'[j] = holds[j]
  BY MoveType DEF IInv, TypeOK
<1>2. Created' = Created
  BY DEF Created
<1>3. \A i \in Created : requests'[i].by \in People
  BY DEF IInv, Requesters
<1> QED
  BY <1>1, <1>2, <1>3, QuietStep

\* A handler that stops does so after its approval was applied, or failed.
LEMMA EndStep ==
  ASSUME IInv, NEW h \in Handlers, End(h),
         UNCHANGED <<users, requests, outside, granted, crossed>>,
         served' \subseteq Numbers, served \subseteq served',
         failed' \subseteq Numbers, failed \subseteq failed',
         pc[h] \in ApprovalSteps => holds[h].number \in served' \cup failed'
  PROVE  IInv'
<1>1. TypeOK' /\ pc'[h] = "idle" /\ holds'[h] = Nothing
      /\ \A j \in Handlers : j # h => pc'[j] = pc[j] /\ holds'[j] = holds[j]
  BY MoveType, NothingType DEF End, outside, Places, IInv, TypeOK
<1>2. Working(h)'
  BY <1>1 DEF Working, LoginSteps, ApprovalSteps
<1>3. Created' = Created
  BY DEF Created
<1>4. \A i \in Created : requests'[i].by \in People
  BY DEF IInv, Requesters
<1> QED
  BY <1>1, <1>2, <1>3, <1>4, QuietStep

\* A sign-in begins with the role resolved for it.
LEMMA SignInStep ==
  ASSUME IInv, NEW h \in Handlers, NEW p \in People, SignIn(h, p)
  PROVE  IInv'
<1>1. PICK next \in NextRoles(p) :
        /\ Begin(h, "find", [Nothing EXCEPT !.person = p, !.next = next])
        /\ Grant(p, next)
        /\ UNCHANGED <<users, requests, outside, served, failed, crossed>>
  BY DEF SignIn
<1> DEFINE r == [Nothing EXCEPT !.person = p, !.next = next]
<1>2. next \in Roles \cup {NoRole}
  BY RolesAreRoles DEF NextRoles, IInv, TypeOK
<1>3. r \in Holding /\ r.person = p /\ r.next = next
  BY <1>2, NothingType DEF Nothing, Holding
<1>4. /\ granted' \in [People -> SUBSET Roles]
      /\ \A q \in People : granted[q] \subseteq granted'[q]
      /\ next \in granted'[p] \cup {NoRole}
  BY <1>1, <1>2 DEF Grant, IInv, TypeOK
<1> HIDE DEF r
<1>5. /\ pc' = [pc EXCEPT ![h] = "find"] /\ holds' = [holds EXCEPT ![h] = r]
      /\ pc[h] = "idle" /\ "find" \in Places
  BY <1>1 DEF Begin, r, Places, LoginSteps
<1>6. Working(h)'
  <2>1. pc'[h] = "find" /\ holds'[h] = r
    BY <1>5 DEF IInv, TypeOK
  <2> QED
    BY <1>3, <1>4, <2>1 DEF Working, LoginSteps, ApprovalSteps
<1> QED
  BY <1>1, <1>3, <1>4, <1>5, <1>6, PlainStep DEF outside, ApprovalSteps, IInv, TypeOK

\* What AfterRead leaves to do, for a user who is known.
LEMMA AfterReadOf ==
  ASSUME NEW seen, NEW next
  PROVE  /\ AfterRead(seen, next) \in {"countOwners", "change", "settle"}
         /\ AfterRead(seen, next) = "countOwners" => seen.role = "global:owner"
         /\ AfterRead(seen, next) = "change" => next # NoRole /\ seen.role # "global:owner"
BY DEF AfterRead

\* Finding the user keeps the invariant.
LEMMA FindUserStep ==
  ASSUME IInv, NEW h \in Handlers, FindUser(h)
  PROVE  IInv'
<1> DEFINE p == holds[h].person
           next == holds[h].next
           place == IF Known(p) THEN AfterRead(users[p], next) ELSE "count"
           r == [holds[h] EXCEPT !.seen = users[p]]
<1>1. pc[h] = "find" /\ p \in People /\ next \in granted[p] \cup {NoRole}
  BY DEF FindUser, At, IInv, Working, LoginSteps
<1>2. UNCHANGED <<users, requests, outside, history>>
  BY DEF FindUser
<1>3. CASE ~Known(p) /\ next = NoRole
  <2>1. End(h)
    BY <1>3 DEF FindUser
  <2> QED
    BY <1>1, <1>2, <2>1, EndStep DEF history, ApprovalSteps, IInv, TypeOK
<1>4. CASE Known(p) \/ next # NoRole
  <2>1. /\ pc' = [pc EXCEPT ![h] = place]
        /\ holds' = [holds EXCEPT ![h].seen = users[p]]
    BY <1>4 DEF FindUser, To, See
  <2>2. place \in Places /\ r \in Holding
    BY <1>1, AfterReadOf, HoldingOf, UserOf DEF IInv, Places, LoginSteps, Holding
  <2>3. holds' = [holds EXCEPT ![h] = r]
    BY <2>1 DEF IInv, TypeOK
  <2>4. r.person = p /\ r.next = next /\ r.seen = users[p]
    BY HoldingOf DEF IInv, Holding
  <2>5. Working(h)'
    <3>1. pc'[h] = place /\ holds'[h] = r
      BY <2>1, <2>3 DEF IInv, TypeOK
    <3>2. (\A q \in People : Known(q)' = Known(q)) /\ granted' = granted
      BY <1>2 DEF Known, history
    <3>3. CASE Known(p)
      <4>1. /\ pc'[h] \in {"countOwners", "change", "settle"}
            /\ pc'[h] = "countOwners" => users[p].role = "global:owner"
            /\ pc'[h] = "change" => next # NoRole /\ users[p].role # "global:owner"
        BY <3>1, <3>3, AfterReadOf
      <4> HIDE DEF r, place, next
      <4> QED
        BY <1>1, <2>4, <3>1, <3>2, <3>3, <4>1 DEF Working, ApprovalSteps
    <3>4. CASE ~ Known(p)
      BY <1>1, <1>4, <2>4, <3>1, <3>2, <3>4 DEF Working, LoginSteps, ApprovalSteps
    <3> QED
      BY <3>3, <3>4
  <2> QED
    BY <1>1, <1>2, <2>1, <2>2, <2>3, <2>5, PlainStep
    DEF outside, history, ApprovalSteps, IInv, TypeOK
<1> QED
  BY <1>3, <1>4

\* Counting the users keeps the invariant: who is not the first has company.
LEMMA CountUsersStep ==
  ASSUME IInv, NEW h \in Handlers, CountUsers(h)
  PROVE  IInv'
<1> DEFINE p == holds[h].person
           role == IF \E q \in People : Known(q) THEN holds[h].next ELSE "global:owner"
           user == [role |-> role, disabled |-> FALSE]
           r == [holds[h] EXCEPT !.seen = user]
<1>1. /\ pc[h] = "count" /\ p \in People /\ holds[h].next # NoRole
      /\ holds[h].next \in granted[p] \cup {NoRole}
  BY DEF CountUsers, At, IInv, Working, LoginSteps
<1>2. role \in Roles
  BY <1>1, HoldingOf, RolesAreRoles DEF IInv
<1>3. r \in Holding /\ r.person = p /\ r.next = holds[h].next /\ r.seen = user
  BY <1>2, HoldingOf DEF IInv, Holding, User
<1>4. /\ pc' = [pc EXCEPT ![h] = "create"] /\ holds' = [holds EXCEPT ![h] = r]
      /\ granted' = [granted EXCEPT ![p] = @ \cup ({role} \ {NoRole})]
      /\ UNCHANGED <<users, requests, outside, served, failed, crossed>>
  BY DEF CountUsers, To, See, Grant
<1>5. /\ granted' \in [People -> SUBSET Roles]
      /\ \A q \in People : granted[q] \subseteq granted'[q]
      /\ role \in granted'[p]
  <2> HIDE DEF role
  <2> QED
    BY <1>1, <1>2, <1>4, RolesAssumption DEF IInv, TypeOK
<1>6. Working(h)'
  <2>1. pc'[h] = "create" /\ holds'[h] = r
    BY <1>4 DEF IInv, TypeOK
  <2>2. SomeUser' = SomeUser /\ (role # "global:owner" => SomeUser)
    BY <1>4 DEF SomeUser, Known
  <2>3. user.role = role
    OBVIOUS
  <2> HIDE DEF user, role, r
  <2> QED
    BY <1>1, <1>3, <1>5, <2>1, <2>2, <2>3 DEF Working, LoginSteps, ApprovalSteps
<1>7. "create" \in Places
  BY DEF Places, LoginSteps
<1> HIDE DEF r
<1> QED
  BY <1>1, <1>3, <1>4, <1>5, <1>6, <1>7, PlainStep DEF outside, ApprovalSteps, IInv, TypeOK

\* Counting the owners keeps the invariant: a demotion has found another one.
LEMMA CountOwnersStep ==
  ASSUME IInv, NEW h \in Handlers, CountOwners(h)
  PROVE  IInv'
<1> DEFINE p == holds[h].person
           place == IF OtherOwners(p) # {} /\ holds[h].next # NoRole THEN "change" ELSE "settle"
<1>1. /\ pc[h] = "countOwners" /\ p \in People /\ Known(p)
      /\ holds[h].next \in granted[p] \cup {NoRole}
  BY DEF CountOwners, At, IInv, Working, LoginSteps
<1>2. /\ pc' = [pc EXCEPT ![h] = place] /\ holds' = [holds EXCEPT ![h] = holds[h]]
      /\ UNCHANGED <<users, requests, outside, holds, history>> /\ place \in Places
  BY DEF CountOwners, To, Places, LoginSteps, IInv, TypeOK
<1>3. Working(h)'
  <2>1. pc'[h] = place /\ holds'[h] = holds[h]
    BY <1>2 DEF IInv, TypeOK
  <2>2. \A q \in People : Known(q)' = Known(q) /\ OtherOwners(q)' = OtherOwners(q)
    BY <1>2 DEF Known, OtherOwners, Owners
  <2>3. holds[h].seen.role = "global:owner" /\ place \in {"change", "settle"}
    BY <1>1 DEF IInv, Working
  <2>4. place = "change" => OtherOwners(p) # {} /\ holds[h].next # NoRole
    OBVIOUS
  <2> HIDE DEF place
  <2> QED
    BY <1>1, <1>2, <2>1, <2>2, <2>3, <2>4 DEF Working, LoginSteps, ApprovalSteps, history
<1> HIDE DEF place
<1> QED
  BY <1>1, <1>2, <1>3, HoldingOf, PlainStep DEF outside, history, ApprovalSteps, IInv, TypeOK

\* Asking for access keeps the invariant.
LEMMA AskStep ==
  ASSUME IInv, NEW h \in Handlers, NEW p \in People, Ask(h, p)
  PROVE  IInv'
<1> DEFINE r == [Nothing EXCEPT !.person = p]
<1>1. r \in Holding /\ r.person = p
  BY NothingType DEF Nothing, Holding
<1> HIDE DEF r
<1>2. /\ pc' = [pc EXCEPT ![h] = "submit"] /\ holds' = [holds EXCEPT ![h] = r]
      /\ pc[h] = "idle" /\ "submit" \in Places
      /\ UNCHANGED <<users, requests, outside, history>>
  BY DEF Ask, Begin, r, Places
<1>3. Working(h)'
  <2>1. pc'[h] = "submit" /\ holds'[h] = r
    BY <1>2 DEF IInv, TypeOK
  <2> QED
    BY <1>1, <2>1 DEF Working, LoginSteps, ApprovalSteps
<1> QED
  BY <1>1, <1>2, <1>3, PlainStep DEF outside, history, ApprovalSteps, IInv, TypeOK

\* A reviewer is a user, and the request reviewed was made by somebody.
LEMMA ReviewStep ==
  ASSUME IInv, NEW h \in Handlers, NEW p \in People, NEW i \in Numbers,
         NEW verdict \in {"approved", "denied"}, Review(h, p, i, verdict)
  PROVE  IInv'
<1> DEFINE r == [Nothing EXCEPT !.person = requests[i].by, !.number = i, !.verdict = verdict]
<1>1. i \in Created /\ requests[i].by \in People /\ SomeUser
  BY DEF Review, IInv, Requesters, IsAdmin, Enabled, SomeUser
<1>2. r \in Holding /\ r.person = requests[i].by /\ r.number = i
  <2>1. i \in 0..MaxRequests
    BY BoundsAssumption DEF Numbers
  <2> QED
    BY <1>1, <2>1, NothingType DEF Nothing, Holding
<1>3. /\ pc' = [pc EXCEPT ![h] = "decide"] /\ holds' = [holds EXCEPT ![h] = r]
      /\ pc[h] = "idle" /\ "decide" \in Places
      /\ UNCHANGED <<users, requests, outside, history>>
  BY DEF Review, Begin, Places
<1> HIDE DEF r
<1>4. Working(h)'
  <2>1. pc'[h] = "decide" /\ holds'[h] = r
    BY <1>3 DEF IInv, TypeOK
  <2>2. SomeUser' /\ Created' = Created
    BY <1>1, <1>3 DEF SomeUser, Known, Created
  <2> QED
    BY <1>1, <1>2, <1>3, <2>1, <2>2 DEF Working, LoginSteps, ApprovalSteps
<1> QED
  BY <1>2, <1>3, <1>4, PlainStep DEF outside, history, ApprovalSteps, IInv, TypeOK

\* A new request is pending, and its requester a person.
LEMMA SubmitStep ==
  ASSUME IInv, NEW h \in Handlers, Submit(h)
  PROVE  IInv'
<1>1. pc[h] = "submit" /\ holds[h].person \in People
  BY DEF Submit, At, IInv, Working
<1>2. PICK i \in Numbers \ Created :
        requests' = IF Pending(holds[h].person) THEN requests
                    ELSE [requests EXCEPT ![i] = [by |-> holds[h].person, status |-> "pending"]]
  BY DEF Submit
<1>3. End(h) /\ UNCHANGED <<users, outside, history>>
  BY DEF Submit
<1>4. CASE requests' = requests
  BY <1>1, <1>3, <1>4, EndStep DEF history, ApprovalSteps, IInv, TypeOK
<1>5. CASE requests' # requests
  <2> DEFINE request == [by |-> holds[h].person, status |-> "pending"]
  <2>1. requests' = [requests EXCEPT ![i] = request]
    BY <1>2, <1>5
  <2>2. request \in [by : People \cup {Nobody}, status : {"none", "pending", "approved", "denied"}]
        /\ request.by \in People /\ request.status = "pending"
    BY <1>1
  <2> HIDE DEF request
  <2>3. requests'[i] = request /\ \A j \in Numbers : j # i => requests'[j] = requests[j]
    BY <2>1 DEF IInv, TypeOK
  <2>4. Created \subseteq Created' /\ Created' \subseteq Created \cup {i}
    BY <1>2, <2>3 DEF Created
  <2>5. TypeOK' /\ pc'[h] = "idle" /\ holds'[h] = Nothing
        /\ \A j \in Handlers : j # h => pc'[j] = pc[j] /\ holds'[j] = holds[j]
    BY <1>3, <2>1, <2>2, MoveType, NothingType DEF End, outside, history, Places, IInv, TypeOK
  <2>6. Working(h)'
    BY <2>5 DEF Working, LoginSteps, ApprovalSteps
  <2>7. \A j \in Created : requests'[j] = requests[j] /\ requests[j].by \in People
    BY <2>3 DEF IInv, Requesters, Created
  <2>8. \A j \in Created' : /\ requests'[j].by \in People
                            /\ requests'[j].status = "approved" =>
                                 j \in Created /\ requests[j].status = "approved"
    BY <2>2, <2>3, <2>4, <2>7
  <2> QED
    BY <1>1, <1>3, <2>4, <2>5, <2>6, <2>7, <2>8, QuietStep DEF history, ApprovalSteps
<1> QED
  BY <1>4, <1>5

\* The winner of a request goes on to apply an approval; its requester is
\* served by it already if enabled.
LEMMA DecideStep ==
  ASSUME IInv, NEW h \in Handlers, Decide(h)
  PROVE  IInv'
<1> DEFINE i == holds[h].number
           p == holds[h].person
           verdict == holds[h].verdict
           pending == requests[i].status = "pending"
           applies == pending /\ verdict = "approved"
           place == IF applies THEN "assign" ELSE "idle"
           r == IF applies THEN holds[h] ELSE Nothing
           decided == [requests[i] EXCEPT !.status = verdict]
<1>1. /\ pc[h] = "decide" /\ p \in People /\ SomeUser
      /\ i \in Created /\ requests[i].by = p
  BY DEF Decide, At, IInv, Working
<1>2. /\ requests' = IF pending THEN [requests EXCEPT ![i].status = verdict] ELSE requests
      /\ pc' = [pc EXCEPT ![h] = place] /\ holds' = [holds EXCEPT ![h] = r]
      /\ IF applies THEN /\ granted' = [granted EXCEPT ![p] = @ \cup ({"global:member"} \ {NoRole})]
                         /\ served' = IF Enabled(p) THEN served \cup {i} ELSE served
                    ELSE UNCHANGED <<granted, served>>
      /\ UNCHANGED <<users, idp, restrictNoRole, changes, failed, crossed>>
  <2>1. holds' = [holds EXCEPT ![h] = r]
    BY DEF Decide, Wins, To, End, IInv, TypeOK
  <2> QED
    BY <2>1 DEF Decide, Wins, To, End, Grant, outside
<1>3. i \in Numbers /\ place \in Places /\ r \in Holding /\ verdict \in {"none", "approved", "denied"}
  BY <1>1, NothingType DEF Created, Places, ApprovalSteps, IInv, TypeOK, Holding
<1>4. /\ decided \in [by : People \cup {Nobody}, status : {"none", "pending", "approved", "denied"}]
      /\ decided.by = p /\ decided.status = verdict
  BY <1>1, <1>3 DEF IInv, TypeOK
<1>5. /\ pending => requests'[i] = decided
      /\ ~pending => requests'[i] = requests[i]
      /\ \A j \in Numbers : j # i => requests'[j] = requests[j]
  BY <1>2, <1>3 DEF IInv, TypeOK
<1> HIDE DEF decided
<1>6. Created' = Created
  <2>1. decided # NoRequest
    BY <1>1, <1>4, NobodyAssumption DEF NoRequest
  <2> QED
    BY <1>1, <1>3, <1>5, <2>1 DEF Created
<1>7. requests' \in [Numbers -> [by : People \cup {Nobody},
                                status : {"none", "pending", "approved", "denied"}]]
  <2>1. requests' = IF pending THEN [requests EXCEPT ![i] = decided] ELSE requests
    BY <1>2, <1>3 DEF decided, IInv, TypeOK
  <2> QED
    BY <1>3, <1>4, <2>1 DEF IInv, TypeOK
<1>8. /\ granted' \in [People -> SUBSET Roles]
      /\ \A q \in People : granted[q] \subseteq granted'[q]
      /\ applies => "global:member" \in granted'[p]
      /\ served' \subseteq Numbers /\ served \subseteq served'
  BY <1>1, <1>2, <1>3, RolesAreRoles DEF IInv, TypeOK
<1>9. TypeOK' /\ pc'[h] = place /\ holds'[h] = r
      /\ \A j \in Handlers : j # h => pc'[j] = pc[j] /\ holds'[j] = holds[j]
  BY <1>2, <1>3, <1>7, <1>8, MoveType DEF IInv, TypeOK
<1>10. \A j \in Created : /\ requests'[j].by = requests[j].by /\ requests[j].by \in People
                          /\ requests[j].status = "approved" => requests'[j].status = "approved"
                          /\ requests'[j].status = "approved" =>
                               requests[j].status = "approved" \/ (j = i /\ applies)
  BY <1>1, <1>3, <1>4, <1>5 DEF Created, IInv, Requesters
<1>11. Working(h)'
  <2>1. SomeUser'
    BY <1>1, <1>2 DEF SomeUser, Known
  <2>2. CASE applies
    <3>1. pc'[h] = "assign" /\ holds'[h] = holds[h] /\ requests'[i] = decided
          /\ verdict = "approved"
      BY <1>5, <1>9, <2>2
    <3> QED
      BY <1>1, <1>4, <1>6, <1>8, <2>1, <2>2, <3>1 DEF Working, LoginSteps, ApprovalSteps
  <2>3. CASE ~ applies
    BY <1>9, <2>3 DEF Working, LoginSteps, ApprovalSteps
  <2> QED
    BY <2>2, <2>3
<1>12. \A j \in Created' : requests'[j].status = "approved" =>
         \/ j \in Created /\ requests[j].status = "approved"
         \/ /\ Enabled(requests'[j].by) => j \in served'
            /\ pc'[h] \in ApprovalSteps /\ holds'[h].number = j
  <2>1. ASSUME applies
        PROVE  /\ Enabled(requests'[i].by) => i \in served'
               /\ pc'[h] \in ApprovalSteps /\ holds'[h].number = i
    <3>1. requests'[i].by = p
      BY <1>1, <1>10
    <3> QED
      BY <1>2, <1>9, <2>1, <3>1 DEF ApprovalSteps
  <2> QED
    BY <1>6, <1>10, <2>1
<1>13. pc[h] \notin ApprovalSteps
  BY <1>1 DEF ApprovalSteps
<1> QED
  BY <1>2, <1>6, <1>8, <1>9, <1>10, <1>11, <1>12, <1>13, QuietStep

\* Assigning the role, finding the requester: the approval is still being
\* applied, or its requester is enabled and served.
LEMMA ApplyStep ==
  ASSUME IInv, NEW h \in Handlers, AssignRole(h) \/ FindRequester(h)
  PROVE  IInv'
<1> DEFINE p == holds[h].person
<1>1. /\ pc[h] \in ApprovalSteps /\ p \in People /\ SomeUser
      /\ holds[h].number \in Created /\ requests[holds[h].number].by = p
      /\ requests[holds[h].number].status = "approved" /\ "global:member" \in granted[p]
  BY DEF AssignRole, FindRequester, At, IInv, Working, ApprovalSteps
<1>2. UNCHANGED <<users, requests, restrictNoRole, changes, history>>
  BY DEF AssignRole, FindRequester, outside
<1>3. ASSUME NEW place \in ApprovalSteps, place = "enable" => Known(p),
             pc' = [pc EXCEPT ![h] = place], UNCHANGED holds,
             idp' \in [People -> Roles \cup {NoRole}]
      PROVE  IInv'
  <2>1. holds' = [holds EXCEPT ![h] = holds[h]] /\ holds[h] \in Holding
    BY <1>3, HoldingOf DEF IInv, TypeOK
  <2>2. pc'[h] = place
    BY <1>3 DEF IInv, TypeOK
  <2>3. SomeUser' /\ Created' = Created /\ \A q \in People : Known(q)' = Known(q)
    BY <1>1, <1>2 DEF SomeUser, Known, Created
  <2>4. place \in Places
    BY DEF Places
  <2>5. Working(h)'
    BY <1>1, <1>2, <1>3, <2>2, <2>3 DEF Working, LoginSteps, ApprovalSteps, history
  <2> QED
    BY <1>2, <1>3, <2>1, <2>4, <2>5, PlainStep DEF history, IInv, TypeOK
<1>4. CASE AssignRole(h)
  <2>1. idp' \in [People -> Roles \cup {NoRole}]
    <3>1. PICK role \in {idp[p], "global:member"} : idp' = [idp EXCEPT ![p] = role]
      BY <1>4 DEF AssignRole
    <3>2. role \in Roles \cup {NoRole}
      BY <1>1, RolesAreRoles DEF IInv, TypeOK
    <3> QED
      BY <3>1, <3>2 DEF IInv, TypeOK
  <2>2. pc' = [pc EXCEPT ![h] = "findRequester"] /\ UNCHANGED holds
    BY <1>4 DEF AssignRole, To
  <2> QED
    BY <1>3, <2>1, <2>2 DEF ApprovalSteps
<1>5. CASE FindRequester(h) /\ Needs(users[p]) # "idle"
  <2>1. pc' = [pc EXCEPT ![h] = Needs(users[p])] /\ UNCHANGED <<holds, idp>>
    BY <1>5 DEF FindRequester, To, outside
  <2>2. Needs(users[p]) \in ApprovalSteps /\ (Needs(users[p]) = "enable" => Known(p))
    BY <1>5 DEF Needs, ApprovalSteps, Known
  <2> QED
    BY <1>3, <2>1, <2>2 DEF IInv, TypeOK
<1>6. CASE FindRequester(h) /\ Needs(users[p]) = "idle"
  <2>1. End(h) /\ UNCHANGED outside
    BY <1>6 DEF FindRequester
  <2>2. Enabled(p)
    BY <1>6 DEF Needs, Enabled, Known
  <2>3. holds[h].number \in served
    BY <1>1, <2>2 DEF IInv, EnabledAreServed
  <2> QED
    BY <1>2, <2>1, <2>3, EndStep DEF history, IInv, TypeOK
<1> QED
  BY <1>4, <1>5, <1>6

\* A failure is recorded where it leaves an approval half applied.
LEMMA FailStep ==
  ASSUME IInv, NEW h \in Handlers, Fail(h)
  PROVE  IInv'
<1>1. failed' = IF pc[h] \in ApprovalSteps THEN failed \cup {holds[h].number} ELSE failed
  BY DEF Fail
<1>2. pc[h] \in ApprovalSteps => holds[h].number \in Numbers
  BY DEF IInv, Working, Created
<1>3. End(h) /\ UNCHANGED <<users, requests, outside, granted, served, crossed>>
  BY DEF Fail
<1> QED
  BY <1>1, <1>2, <1>3, EndStep DEF IInv, TypeOK

----------------------------------------------------------------------------
(* Steps that write a user.                                                *)

\* A write keeps the invariant where the role was granted and an owner stays,
\* or another one was counted and nobody else is about to step down.
LEMMA SetUserStep ==
  ASSUME IInv, NEW h \in Handlers, NEW place \in Places, NEW r \in Holding,
         NEW p \in People, NEW user \in User, SetUser(p, user),
         user.role # NoRole, user.role \in granted[p],
         pc' = [pc EXCEPT ![h] = place], holds' = [holds EXCEPT ![h] = r],
         UNCHANGED <<requests, outside, granted, failed>>,
         crossed' \in BOOLEAN, crossed => crossed',
         Known(p) \/ user.role = "global:owner" \/ SomeUser,
         users[p].role = "global:owner" /\ user.role # "global:owner" =>
           \/ crossed'
           \/ /\ OtherOwners(p) # {}
              /\ \A j \in Handlers \ {h} :
                   ~ (pc[j] = "change" /\ holds[j].seen.role = "global:owner"),
         pc[h] \in ApprovalSteps => holds[h].number \in served',
         Working(h)'
  PROVE  IInv'
<1>1. /\ users' = [users EXCEPT ![p] = user]
      /\ users'[p] = user /\ \A q \in People : q # p => users'[q] = users[q]
  BY DEF SetUser, IInv, TypeOK
<1>2. \A q \in People : (Known(q) => Known(q)') /\ (q # p => (Enabled(q)' <=> Enabled(q)))
  BY <1>1 DEF Known, Enabled
<1>3. /\ Owners \ {p} \subseteq Owners'
      /\ user.role = "global:owner" => p \in Owners'
      /\ users[p].role # "global:owner" => p \notin Owners
  BY <1>1 DEF Owners
<1>4. Created' = Created
  BY DEF Created
<1>5. served \subseteq served' /\ served' \subseteq Numbers
  BY DEF SetUser, Serves, Created, IInv, TypeOK
<1>6. /\ pc'[h] = place /\ holds'[h] = r
      /\ \A j \in Handlers : j # h => pc'[j] = pc[j] /\ holds'[j] = holds[j]
  BY MoveType DEF IInv
<1>7. TypeOK'
  BY <1>1, <1>5, MoveType DEF outside, IInv, TypeOK
<1>8. ASSUME NEW j \in Handlers PROVE Working(j)'
  <2>1. CASE j # h
    <3>1. ASSUME pc[j] = "change", holds[j].seen.role = "global:owner",
                 crossed \/ OtherOwners(holds[j].person) # {}
          PROVE  crossed' \/ OtherOwners(holds[j].person)' # {}
      BY <1>3, <1>6, <2>1, <3>1 DEF OtherOwners
    <3> QED
      BY <1>2, <1>4, <1>6, <2>1, <3>1, OthersWork DEF IInv
  <2> QED
    BY <2>1
<1>9. Requesters'
  BY <1>4 DEF IInv, Requesters
<1>10. EnabledAreServed'
  <2>1. ASSUME NEW i \in Created, requests[i].status = "approved", Enabled(requests[i].by)'
        PROVE  i \in served'
    <3>1. requests[i].by \in People
      BY DEF IInv, Requesters
    <3>2. CASE requests[i].by = p
      <4>1. ~user.disabled
        BY <1>1, <2>1, <3>1, <3>2 DEF Enabled
      <4> QED
        BY <2>1, <3>2, <4>1 DEF SetUser, Serves
    <3>3. CASE requests[i].by # p
      <4>1. Enabled(requests[i].by)
        BY <1>1, <2>1, <3>1, <3>3 DEF Enabled, Known
      <4> QED
        BY <1>5, <2>1, <4>1 DEF IInv, EnabledAreServed
    <3> QED
      BY <3>2, <3>3
  <2> QED
    BY <1>4, <2>1 DEF EnabledAreServed
<1>11. OwnerRemains'
  <2>1. SUFFICES ASSUME ~ crossed' PROVE Owners' # {}
    BY DEF OwnerRemains
  <2>2. CASE user.role = "global:owner"
    BY <1>3, <2>2
  <2>3. CASE user.role # "global:owner" /\ users[p].role = "global:owner"
    BY <1>3, <2>1, <2>3 DEF OtherOwners
  <2>4. CASE user.role # "global:owner" /\ users[p].role # "global:owner"
    <3>1. SomeUser
      BY <2>4 DEF SomeUser
    <3>2. Owners # {}
      BY <2>1, <3>1 DEF IInv, OwnerRemains, SomeUser
    <3> QED
      BY <1>3, <2>4, <3>2
  <2> QED
    BY <2>2, <2>3, <2>4
<1>12. RolesWereGranted'
  BY <1>1 DEF IInv, RolesWereGranted, Known
<1>13. ApprovalsTakeEffect'
  <2>1. ASSUME NEW i \in Created, requests[i].status = "approved", i \notin served' \cup failed
        PROVE  \E j \in Handlers : pc'[j] \in ApprovalSteps /\ holds'[j].number = i
    <3>1. PICK j \in Handlers : pc[j] \in ApprovalSteps /\ holds[j].number = i
      BY <1>5, <2>1 DEF IInv, ApprovalsTakeEffect
    <3>2. j # h
      BY <2>1, <3>1
    <3> QED
      BY <1>6, <3>1, <3>2
  <2> QED
    BY <1>4, <2>1 DEF ApprovalsTakeEffect
<1> QED
  BY <1>7, <1>8, <1>9, <1>10, <1>11, <1>12, <1>13 DEF IInv

\* A handler that has nothing left to do bears out its step.
LEMMA IdleWorks ==
  ASSUME NEW h \in Handlers, pc'[h] = "idle"
  PROVE  Working(h)'
BY DEF Working, LoginSteps, ApprovalSteps

\* Creating the user at a sign-in.
LEMMA CreateUserStep ==
  ASSUME IInv, NEW h \in Handlers, CreateUser(h)
  PROVE  IInv'
<1> DEFINE p == holds[h].person
           user == holds[h].seen
           place == AfterRead(user, holds[h].next)
<1>1. /\ pc[h] = "create" /\ p \in People /\ user.role \in granted[p]
      /\ user.role # "global:owner" => SomeUser
      /\ holds[h].next \in granted[p] \cup {NoRole}
  BY DEF CreateUser, At, IInv, Working, LoginSteps
<1>2. UNCHANGED <<requests, outside, granted, failed, crossed>>
  BY DEF CreateUser
<1>3. CASE Known(p)
  <2>1. End(h) /\ UNCHANGED <<users, served>>
    BY <1>3 DEF CreateUser
  <2> QED
    BY <1>1, <1>2, <2>1, EndStep DEF ApprovalSteps, IInv, TypeOK
<1>4. CASE ~ Known(p)
  <2>1. SetUser(p, user) /\ pc' = [pc EXCEPT ![h] = place] /\ UNCHANGED holds
    BY <1>4 DEF CreateUser, To
  <2>2. /\ user \in User /\ user.role # NoRole /\ holds[h] \in Holding
        /\ place \in Places /\ holds' = [holds EXCEPT ![h] = holds[h]]
    <3>1. user.role \in Roles
      BY <1>1 DEF IInv, TypeOK
    <3> QED
      BY <2>1, <3>1, HoldingOf, AfterReadOf, RolesAssumption DEF IInv, TypeOK, Places, LoginSteps
  <2>3. Working(h)'
    <3>1. /\ pc'[h] = place /\ holds'[h] = holds[h] /\ users'[p] = user
          /\ place \in {"countOwners", "change", "settle"}
          /\ place = "countOwners" => user.role = "global:owner"
          /\ place = "change" => holds[h].next # NoRole /\ user.role # "global:owner"
      BY <1>1, <2>1, AfterReadOf DEF SetUser, IInv, TypeOK
    <3> HIDE DEF place
    <3> QED
      BY <1>1, <1>2, <2>2, <3>1 DEF Working, Known, ApprovalSteps
  <2>4. users[p].role # "global:owner" /\ pc[h] \notin ApprovalSteps
    BY <1>1, <1>4, RolesAreRoles DEF Known, ApprovalSteps
  <2> HIDE DEF place, user
  <2> QED
    BY <1>1, <1>2, <2>1, <2>2, <2>3, <2>4, SetUserStep DEF IInv, TypeOK, user
<1> QED
  BY <1>3, <1>4

\* Changing the role: an owner who steps down without crossing another one
\* leaves the owner it has counted.
LEMMA ChangeRoleStep ==
  ASSUME IInv, NEW h \in Handlers, ChangeRole(h)
  PROVE  IInv'
<1> DEFINE p == holds[h].person
           next == holds[h].next
           user == [users[p] EXCEPT !.role = next]
<1>1. /\ pc[h] = "change" /\ p \in People /\ next # NoRole /\ Known(p)
      /\ next \in granted[p] \cup {NoRole}
      /\ holds[h].seen.role = "global:owner" => crossed \/ OtherOwners(p) # {}
  BY DEF ChangeRole, At, IInv, Working, LoginSteps
<1>2. user \in User /\ user.role = next
  BY <1>1, HoldingOf, UserOf DEF IInv, User
<1>3. /\ SetUser(p, user) /\ crossed' = (crossed \/ Crosses(h))
      /\ pc' = [pc EXCEPT ![h] = "settle"] /\ holds' = [holds EXCEPT ![h] = holds[h]]
      /\ UNCHANGED <<requests, outside, holds, granted, failed>>
  BY DEF ChangeRole, To, IInv, TypeOK
<1>4. crossed' \in BOOLEAN /\ (crossed => crossed') /\ (Crosses(h) => crossed')
  BY <1>3 DEF IInv, TypeOK, Crosses
<1>5. ASSUME users[p].role = "global:owner", next # "global:owner", ~ crossed'
      PROVE  /\ OtherOwners(p) # {}
             /\ \A j \in Handlers \ {h} :
                  ~ (pc[j] = "change" /\ holds[j].seen.role = "global:owner")
  BY <1>1, <1>4, <1>5 DEF Crosses
<1>6. Working(h)'
  <2>1. pc'[h] = "settle" /\ holds'[h] = holds[h] /\ users'[p] = user
    BY <1>1, <1>3 DEF SetUser, IInv, TypeOK
  <2> HIDE DEF user
  <2> QED
    BY <1>1, <1>2, <1>3, <2>1 DEF Working, Known, LoginSteps, ApprovalSteps
<1>7. holds[h] \in Holding /\ "settle" \in Places /\ pc[h] \notin ApprovalSteps
  BY <1>1, HoldingOf DEF IInv, Places, LoginSteps, ApprovalSteps
<1> HIDE DEF user
<1> QED
  BY <1>1, <1>2, <1>3, <1>4, <1>5, <1>6, <1>7, SetUserStep

\* Enabling or disabling a user who is known, role as it is, ends a request.
LEMMA SwitchStep ==
  ASSUME IInv, NEW h \in Handlers, NEW p \in People, Known(p), NEW off \in BOOLEAN,
         SetUser(p, [users[p] EXCEPT !.disabled = off]), End(h),
         UNCHANGED <<requests, outside, granted, failed, crossed>>,
         pc[h] \in ApprovalSteps => holds[h].number \in served'
  PROVE  IInv'
<1> DEFINE user == [users[p] EXCEPT !.disabled = off]
<1>1. user \in User /\ user.role = users[p].role
  BY UserOf DEF IInv, User
<1>2. user.role # NoRole /\ user.role \in granted[p]
  BY <1>1 DEF Known, IInv, RolesWereGranted
<1>3. /\ pc' = [pc EXCEPT ![h] = "idle"] /\ holds' = [holds EXCEPT ![h] = Nothing]
      /\ "idle" \in Places /\ Nothing \in Holding
  BY NothingType DEF End, Places
<1>4. Working(h)'
  BY <1>3, IdleWorks DEF IInv, TypeOK
<1>5. SetUser(p, user)
  OBVIOUS
<1> HIDE DEF user
<1> QED
  BY <1>1, <1>2, <1>3, <1>4, <1>5, SetUserStep DEF IInv, TypeOK

\* The last step of a sign-in.
LEMMA SettleStep ==
  ASSUME IInv, NEW h \in Handlers, Settle(h)
  PROVE  IInv'
<1> DEFINE p == holds[h].person
<1>1. pc[h] = "settle" /\ p \in People /\ Known(p) /\ pc[h] \notin ApprovalSteps
  BY DEF Settle, At, IInv, Working, ApprovalSteps
<1>2. End(h) /\ UNCHANGED <<requests, outside, granted, failed, crossed>>
  BY DEF Settle
<1>3. \/ SetUser(p, [users[p] EXCEPT !.disabled = TRUE])
      \/ SetUser(p, [users[p] EXCEPT !.disabled = FALSE])
      \/ UNCHANGED <<users, served>>
  BY DEF Settle
<1>4. CASE UNCHANGED <<users, served>>
  BY <1>1, <1>2, <1>4, EndStep DEF IInv, TypeOK
<1>5. CASE SetUser(p, [users[p] EXCEPT !.disabled = TRUE])
  BY <1>1, <1>2, <1>5, SwitchStep
<1>6. CASE SetUser(p, [users[p] EXCEPT !.disabled = FALSE])
  BY <1>1, <1>2, <1>6, SwitchStep
<1> QED
  BY <1>3, <1>4, <1>5, <1>6

\* The last steps of an approval serve the requester, or fail.
LEMMA AdmitStep ==
  ASSUME IInv, NEW h \in Handlers, CreateMember(h) \/ Enable(h)
  PROVE  IInv'
<1> DEFINE p == holds[h].person
           i == holds[h].number
<1>1. /\ pc[h] \in ApprovalSteps /\ pc[h] # "idle" /\ p \in People /\ SomeUser
      /\ i \in Created /\ i \in Numbers /\ requests[i].by = p
      /\ requests[i].status = "approved" /\ "global:member" \in granted[p]
  BY DEF CreateMember, Enable, At, IInv, Working, ApprovalSteps, Created
<1>2. i \in Serves(p)
  BY <1>1 DEF Serves
<1>3. CASE Enable(h)
  <2>1. Known(p)
    BY <1>3 DEF Enable, At, IInv, Working
  <2>2. /\ SetUser(p, [users[p] EXCEPT !.disabled = FALSE])
        /\ End(h) /\ UNCHANGED <<requests, outside, granted, failed, crossed>>
    BY <1>3 DEF Enable
  <2>3. i \in served'
    BY <1>1, <1>2, <2>1, <2>2, UserOf DEF SetUser, Known, IInv, User
  <2> QED
    BY <1>1, <2>1, <2>2, <2>3, SwitchStep
<1>4. CASE CreateMember(h) /\ Known(p)
  BY <1>1, <1>4, EndStep DEF CreateMember, IInv, TypeOK
<1>5. CASE CreateMember(h) /\ ~ Known(p)
  <2> DEFINE user == [role |-> "global:member", disabled |-> FALSE]
  <2>1. /\ SetUser(p, user) /\ End(h)
        /\ UNCHANGED <<requests, outside, granted, failed, crossed>>
    BY <1>5 DEF CreateMember
  <2>2. user \in User /\ user.role = "global:member" /\ user.disabled = FALSE
    BY RolesAreRoles DEF User
  <2> HIDE DEF user
  <2>3. i \in served'
    BY <1>2, <2>1, <2>2, RolesAreRoles DEF SetUser
  <2>4. /\ pc' = [pc EXCEPT ![h] = "idle"] /\ holds' = [holds EXCEPT ![h] = Nothing]
        /\ "idle" \in Places /\ Nothing \in Holding
    BY <2>1, NothingType DEF End, Places
  <2>5. Working(h)'
    BY <2>4, IdleWorks DEF IInv, TypeOK
  <2>6. users[p].role # "global:owner"
    BY <1>5, RolesAreRoles DEF Known
  <2> QED
    BY <1>1, <2>1, <2>2, <2>3, <2>4, <2>5, <2>6, RolesAreRoles, SetUserStep DEF IInv, TypeOK
<1> QED
  BY <1>3, <1>4, <1>5

----------------------------------------------------------------------------
\* A step that moves no handler and leaves users and requests alone.
LEMMA OutsideStep ==
  ASSUME IInv, TypeOK',
         UNCHANGED <<users, requests, pc, holds, granted, served, failed, crossed>>
  PROVE  IInv'
<1>1. \A h \in Handlers : Working(h)'
  <2>1. ASSUME NEW h \in Handlers PROVE Working(h)'
    <3>1. OtherOwners(holds[h].person)' = OtherOwners(holds[h].person)
      BY DEF OtherOwners, Owners
    <3> QED
      BY <3>1, OthersWork DEF IInv, Known, Created
  <2> QED
    BY <2>1
<1>2. Created' = Created /\ Owners' = Owners
  BY DEF Created, Owners
<1> QED
  BY <1>1, <1>2
  DEF IInv, Requesters, EnabledAreServed, Enabled, Known, OwnerRemains, RolesWereGranted,
      ApprovalsTakeEffect

\* Every step keeps the invariant.
LEMMA NextIInv == IInv /\ [Next]_vars => IInv'
<1> SUFFICES ASSUME IInv, [Next]_vars PROVE IInv'
  OBVIOUS
<1>1. CASE UNCHANGED vars
  BY <1>1, OutsideStep DEF vars, outside, history, IInv, TypeOK
<1>2. ASSUME NEW p \in People, Change(p) PROVE IInv'
  BY <1>2, OutsideStep DEF Change, history, IInv, TypeOK
<1>3. ASSUME NEW h \in Handlers, SignsIn(h) PROVE IInv'
  BY <1>3, FindUserStep, CountUsersStep, CreateUserStep, CountOwnersStep, ChangeRoleStep,
     SettleStep DEF SignsIn
<1>4. ASSUME NEW h \in Handlers, Decides(h) PROVE IInv'
  BY <1>4, DecideStep, ApplyStep, AdmitStep DEF Decides
<1> QED
  BY <1>1, <1>2, <1>3, <1>4, SignInStep, AskStep, ReviewStep, SubmitStep, FailStep DEF Next

\* The invariant always holds.
LEMMA AlwaysIInv == Spec => []IInv
BY InitIInv, NextIInv, PTL DEF Spec

----------------------------------------------------------------------------
\* Users, requests and handlers keep the fields the queries use.
THEOREM TypeCorrect == Spec => []TypeOK
<1>1. IInv => TypeOK
  BY DEF IInv
<1> QED
  BY <1>1, AlwaysIInv, PTL

\* An owner remains however sign-ins interleave, unless a demotion acted on a
\* count or a row that was no longer true (syncN8nUserRole, provisionUser).
THEOREM AnOwnerRemains == Spec => []OwnerRemains
<1>1. IInv => OwnerRemains
  BY DEF IInv
<1> QED
  BY <1>1, AlwaysIInv, PTL

\* Nobody holds a role that was not given (provisionUser, syncN8nUserRole and
\* reviewAccessRequest write no other).
THEOREM NoRoleUngranted == Spec => []RolesWereGranted
<1>1. IInv => RolesWereGranted
  BY DEF IInv
<1> QED
  BY <1>1, AlwaysIInv, PTL

\* An approval is being applied, has let its requester in, or has failed
\* (reviewAccessRequest).
THEOREM ApprovalsApplied == Spec => []ApprovalsTakeEffect
<1>1. IInv => ApprovalsTakeEffect
  BY DEF IInv
<1> QED
  BY <1>1, AlwaysIInv, PTL
=============================================================================
