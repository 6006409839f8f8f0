---------------------- MODULE LimitNotificationProofs ----------------------
(***************************************************************************)
(* LimitNotification implements SendOnce for every number of dispatches,   *)
(* projects, periods and recipients: the unique row of a claim gives the   *)
(* event to one dispatch, which mails it once and lets go of it.           *)
(***************************************************************************)
EXTENDS LimitNotification, TLAPS

\* The event a dispatch takes next is one of those it holds.
LEMMA FirstOf ==
  ASSUME NEW rows \in SUBSET Row, rows # {}
  PROVE  First(rows) \in rows /\ First(rows) \in Row
<1>1. \A row \in rows : row.key \in Weeks \/ row.key \in Years
  BY DEF Row, PeriodKey
<1>2. \E row \in rows : row.key \in Weeks \/ \A other \in rows : other.key \in Years
  BY <1>1
<1> QED
  BY <1>2 DEF First

\* What a dispatch holds, and that an idle one holds no events.
LEMMA DispatchOf ==
  ASSUME NotificationTypeOK, NEW i \in Dispatches
  PROVE  /\ dispatch[i].todo \in SUBSET Row /\ dispatch[i].claimed \in SUBSET Row
         /\ dispatch[i].to \in SUBSET Users
         /\ stage[i] = "idle" => dispatch[i].todo = {} /\ dispatch[i].claimed = {}
         /\ stage[i] # "idle" => dispatch[i] \in Dispatch
BY DEF NotificationTypeOK, Dispatch, NoDispatch

\* Moving on keeps the places and what dispatches hold well-typed.
LEMMA MovesType ==
  ASSUME NotificationTypeOK, NEW i \in Dispatches, NEW place \in DispatchPlaces, NEW d \in Dispatch,
         Moves(i, place, d)
  PROVE  /\ stage' \in [Dispatches -> DispatchPlaces]
         /\ dispatch' \in [Dispatches -> Dispatch \cup {NoDispatch}]
         /\ \A j \in Dispatches : IF stage'[j] = "idle" THEN dispatch'[j] = NoDispatch
                                                    ELSE dispatch'[j] \in Dispatch
<1>1. CASE place = "idle"
  BY <1>1 DEF Moves, NotificationTypeOK, DispatchPlaces
<1>2. CASE place # "idle"
  BY <1>2 DEF Moves, NotificationTypeOK
<1> QED
  BY <1>1, <1>2

----------------------------------------------------------------------------
(* The inductive invariant: an event is in the hands of one dispatch at    *)
(* most, which has claimed it and has not mailed it; one without a claim   *)
(* was never mailed.  A dispatch has something to do where it is.          *)

Unmailed(row) == attempts[row] = [u \in Users |-> 0]

Exclusive ==
  /\ \A i \in Dispatches : dispatch[i].claimed \subseteq claims
  /\ \A i, j \in Dispatches : i # j => dispatch[i].claimed \cap dispatch[j].claimed = {}
  /\ \A i \in Dispatches : \A row \in dispatch[i].claimed : Unmailed(row)
  /\ \A row \in Row \ claims : Unmailed(row)

Busy ==
  \A i \in Dispatches :
    /\ stage[i] = "claiming" => dispatch[i].todo # {}
    /\ stage[i] \in {"context", "members", "admins", "sending"} =>
         dispatch[i].claimed # {} /\ dispatch[i].todo = {}

IInv == NotificationTypeOK /\ Exclusive /\ Busy

\* The invariant holds at the start.
LEMMA InitIInv == NotificationInit => IInv
<1> SUFFICES ASSUME NotificationInit PROVE IInv
  OBVIOUS
<1>1. \A i \in Dispatches : dispatch[i] = NoDispatch /\ stage[i] = "idle"
  BY DEF NotificationInit
<1>2. NotificationTypeOK
  BY <1>1, UsersAssumption DEF NotificationInit, NotificationTypeOK, DispatchPlaces
<1> QED
  BY <1>1, <1>2 DEF NotificationInit, IInv, Exclusive, Busy, NoDispatch, Unmailed

\* A step that mails nothing, and in which one dispatch at most moves on, with
\* no more claimed events than it had.
LEMMA QuietMove ==
  ASSUME IInv, NEW i \in Dispatches, NEW place \in DispatchPlaces, NEW d \in Dispatch,
         Moves(i, place, d), attempts' = attempts,
         d.claimed \subseteq dispatch[i].claimed,
         claims \subseteq claims',
         place = "claiming" => d.todo # {},
         place \in {"context", "members", "admins", "sending"} =>
           d.claimed # {} /\ d.todo = {}
  PROVE  Exclusive' /\ Busy'
<1>1. \A j \in Dispatches : j # i => dispatch'[j] = dispatch[j] /\ stage'[j] = stage[j]
  BY DEF Moves, IInv, NotificationTypeOK
<1>2. /\ stage'[i] = place
      /\ dispatch'[i] = IF place = "idle" THEN NoDispatch ELSE d
  BY DEF Moves, IInv, NotificationTypeOK
<1>3. \A j \in Dispatches : dispatch'[j].claimed \subseteq dispatch[j].claimed
  BY <1>1, <1>2 DEF NoDispatch
<1>4. Exclusive'
  BY <1>3 DEF IInv, Exclusive, Unmailed
<1>5. Busy'
  BY <1>1, <1>2 DEF IInv, Busy
<1> QED
  BY <1>4, <1>5

\* An insert keeps the invariant: the row is claimed by one dispatch at most.
LEMMA ClaimStep ==
  ASSUME IInv, NEW i \in Dispatches, Claim(i)
  PROVE  IInv'
<1> DEFINE d == dispatch[i]
           row == First(d.todo)
           todo == d.todo \ {row}
           claimed == IF Wins(row) THEN d.claimed \cup {row} ELSE d.claimed
           next == [d EXCEPT !.todo = todo, !.claimed = claimed]
<1>1. stage[i] = "claiming" /\ d \in Dispatch /\ d.todo # {}
  BY DispatchOf DEF Claim, IInv, Busy
<1>2. row \in d.todo /\ row \in Row
  BY <1>1, FirstOf DEF Dispatch
<1>3. next \in Dispatch /\ next.todo = todo /\ next.claimed = claimed
  BY <1>1, <1>2 DEF Dispatch
<1>4. AfterClaim(todo, claimed) \in DispatchPlaces
  BY DEF AfterClaim, DispatchPlaces
<1>5. Moves(i, AfterClaim(todo, claimed), next)
  BY DEF Claim
<1> HIDE DEF next
<1>6. NotificationTypeOK'
  <2>1. claims' \subseteq Row
    BY <1>2 DEF Claim, IInv, NotificationTypeOK
  <2> QED
    BY <1>3, <1>4, <1>5, <2>1, MovesType DEF Claim, IInv, NotificationTypeOK
<1>7. /\ \A j \in Dispatches : j # i => dispatch'[j] = dispatch[j] /\ stage'[j] = stage[j]
      /\ stage'[i] = AfterClaim(todo, claimed)
      /\ dispatch'[i] = IF AfterClaim(todo, claimed) = "idle" THEN NoDispatch ELSE next
      /\ attempts' = attempts /\ claims' = claims \cup {row}
  BY <1>5 DEF Moves, Claim, IInv, NotificationTypeOK
<1>8a. claimed \subseteq d.claimed \/ (row \notin claims /\ claimed = d.claimed \cup {row})
  BY DEF Wins
<1>8. Exclusive'
  <2>1. dispatch'[i].claimed \subseteq claimed
    BY <1>3, <1>7 DEF NoDispatch
  <2>2. \A j \in Dispatches : j # i => dispatch'[j].claimed = dispatch[j].claimed
    BY <1>7
  <2> HIDE DEF claimed, row
  <2>3. claimed \subseteq claims'
    BY <1>7, <1>8a DEF IInv, Exclusive
  <2>4. \A j \in Dispatches : dispatch'[j].claimed \subseteq claims'
    BY <1>7, <2>1, <2>2, <2>3 DEF IInv, Exclusive
  <2>5. \A j \in Dispatches : j # i => claimed \cap dispatch[j].claimed = {}
    BY <1>8a DEF IInv, Exclusive
  <2>6. \A j, k \in Dispatches : j # k => dispatch'[j].claimed \cap dispatch'[k].claimed = {}
    BY <2>1, <2>2, <2>5 DEF IInv, Exclusive
  <2>7. \A r \in claimed : Unmailed(r)
    BY <1>2, <1>8a DEF IInv, Exclusive
  <2>8. \A j \in Dispatches : \A r \in dispatch'[j].claimed : Unmailed(r)
    BY <2>1, <2>2, <2>7 DEF IInv, Exclusive
  <2>9. \A r \in Row \ claims' : Unmailed(r)
    BY <1>7 DEF IInv, Exclusive
  <2> QED
    BY <1>7, <2>4, <2>6, <2>8, <2>9 DEF Exclusive, Unmailed
<1>9. Busy'
  <2>1. /\ stage'[i] = "claiming" => todo # {}
        /\ stage'[i] \in {"context", "members", "admins", "sending"} => claimed # {} /\ todo = {}
        /\ stage'[i] \in {"claiming", "context", "members", "admins", "sending"}
             => dispatch'[i].todo = todo /\ dispatch'[i].claimed = claimed
    BY <1>3, <1>7 DEF AfterClaim
  <2> HIDE DEF todo, claimed
  <2> QED
    BY <1>7, <2>1 DEF IInv, Busy
<1> QED
  BY <1>6, <1>8, <1>9 DEF IInv

\* Sending is a step of SendOnce: the event was unmailed, and is let go of.
LEMMA SendStep ==
  ASSUME IInv, NEW i \in Dispatches, Send(i)
  PROVE  IInv' /\ Promise!Next
<1> DEFINE d == dispatch[i]
           row == First(d.claimed)
           rest == d.claimed \ {row}
           next == [d EXCEPT !.claimed = rest]
           place == IF rest = {} THEN "idle" ELSE "sending"
<1>1. stage[i] = "sending" /\ d \in Dispatch /\ d.claimed # {} /\ d.todo = {}
  BY DispatchOf DEF Send, IInv, Busy
<1>2. row \in d.claimed /\ row \in Row
  BY <1>1, FirstOf DEF Dispatch
<1>3. next \in Dispatch /\ next.claimed = rest /\ next.todo = {}
  BY <1>1 DEF Dispatch
<1>4. Moves(i, place, next) /\ place \in DispatchPlaces
  BY DEF Send, DispatchPlaces
<1>5. d.to \in SUBSET Users
  BY <1>1 DEF Dispatch
<1>6. attempts' = [attempts EXCEPT ![row] = [u \in Users |-> IF u \in d.to THEN 1 ELSE 0]]
  <2>1. \A u \in Users : attempts[row][u] = 0
    BY <1>2 DEF IInv, Exclusive, Unmailed
  <2>2. [u \in Users |-> IF u \in d.to THEN attempts[row][u] + 1 ELSE attempts[row][u]]
          = [u \in Users |-> IF u \in d.to THEN 1 ELSE 0]
    BY <2>1
  <2> QED
    BY <2>2 DEF Send
<1>7. Promise!Next
  <2>1. attempts[row] = Promise!Nobody
    BY <1>2 DEF IInv, Exclusive, Unmailed, Promise!Nobody
  <2>2. Promise!Mail(row, d.to)
    BY <2>1, <1>6 DEF Promise!Mail, Promise!Mailing
  <2> QED
    BY <1>2, <1>5, <2>2 DEF Promise!Next
<1> HIDE DEF next
<1>8. NotificationTypeOK'
  <2>1. attempts' \in [Row -> [Users -> Nat]]
    BY <1>6 DEF IInv, NotificationTypeOK
  <2> QED
    BY <1>3, <1>4, <2>1, MovesType DEF Send, IInv, NotificationTypeOK
<1>9. /\ \A j \in Dispatches : j # i => dispatch'[j] = dispatch[j] /\ stage'[j] = stage[j]
      /\ stage'[i] = place
      /\ dispatch'[i] = IF place = "idle" THEN NoDispatch ELSE next
      /\ claims' = claims
      /\ \A r \in Row : r # row => attempts'[r] = attempts[r]
  BY <1>4, <1>6 DEF Moves, Send, IInv, NotificationTypeOK
<1>10. Exclusive'
  <2>1. dispatch'[i].claimed \subseteq rest
    BY <1>3, <1>9 DEF NoDispatch
  <2>2. \A j \in Dispatches : j # i => row \notin dispatch[j].claimed
    BY <1>2 DEF IInv, Exclusive
  <2>3. \A j \in Dispatches : /\ dispatch'[j].claimed \subseteq dispatch[j].claimed
                              /\ row \notin dispatch'[j].claimed
                              /\ dispatch'[j].claimed \subseteq Row
    BY <1>9, <2>1, <2>2, DispatchOf DEF IInv
  <2>4. row \in claims
    BY <1>2 DEF IInv, Exclusive
  <2> QED
    BY <1>9, <2>3, <2>4 DEF IInv, Exclusive, Unmailed
<1>11. Busy'
  <2>1. stage'[i] = "idle" \/ (stage'[i] = "sending" /\ rest # {} /\ dispatch'[i] = next)
    BY <1>9
  <2> QED
    BY <1>3, <1>9, <2>1 DEF IInv, Busy
<1> QED
  BY <1>7, <1>8, <1>10, <1>11 DEF IInv

\* Every other step mails nothing and claims nothing for a dispatch.
LEMMA SpawnStep ==
  ASSUME IInv, NEW i \in Dispatches, NEW p \in Projects, NEW key \in KeyPairs,
         NEW seen \in [PeriodType -> Observations \cup {NoLimit}],
         NEW soft \in BOOLEAN, Spawn(i, p, key, seen, soft)
  PROVE  IInv' /\ UNCHANGED attempts
<1> DEFINE events == EventsOf(p, key, seen, soft)
           d == [project |-> p, todo |-> events, claimed |-> {}, to |-> {}]
<1>1. events \subseteq Row
  BY DEF EventsOf
<1>2. d \in Dispatch
  BY <1>1 DEF Dispatch
<1> HIDE DEF events
<1>3. Moves(i, "claiming", d) /\ events # {} /\ "claiming" \in DispatchPlaces
  BY DEF Spawn, Moves, events, DispatchPlaces
<1>4. NotificationTypeOK'
  <2>1. detected' \subseteq Row /\ spawned' \in Nat
    BY <1>1 DEF Spawn, events, IInv, NotificationTypeOK
  <2> QED
    BY <1>2, <1>3, <2>1, MovesType DEF Spawn, IInv, NotificationTypeOK
<1>5. Exclusive' /\ Busy'
  BY <1>2, <1>3, QuietMove DEF Spawn
<1> QED
  BY <1>4, <1>5 DEF Spawn, IInv

\* Resolving the context and the recipients keeps the invariant.
LEMMA ResolveStep ==
  ASSUME IInv, NEW i \in Dispatches,
         ResolveContext(i) \/ ResolveMembers(i) \/ ResolveAdmins(i)
  PROVE  IInv' /\ UNCHANGED attempts
<1>1. /\ stage[i] \in {"context", "members", "admins"}
      /\ UNCHANGED <<claims, live, members, attempts, detected, dropped, spawned>>
  BY DEF ResolveContext, ResolveMembers, ResolveAdmins
<1>2. dispatch[i] \in Dispatch /\ dispatch[i].claimed # {} /\ dispatch[i].todo = {}
  BY <1>1, DispatchOf DEF IInv, Busy
<1>3. members[dispatch[i].project] \in SUBSET Users
  BY <1>2 DEF Dispatch, IInv, NotificationTypeOK
<1>4. dispatch[i].to \cup Admins \in SUBSET Users
  BY <1>2, UsersAssumption DEF Dispatch
<1>5. PICK place \in DispatchPlaces, to \in SUBSET Users :
        /\ place # "claiming"
        /\ \/ Moves(i, place, dispatch[i])
           \/ Moves(i, place, [dispatch[i] EXCEPT !.to = to])
  BY <1>3, <1>4 DEF ResolveContext, ResolveMembers, ResolveAdmins, SendTo, DispatchPlaces
<1>6. PICK d \in Dispatch : /\ Moves(i, place, d)
                            /\ d.claimed = dispatch[i].claimed /\ d.todo = {}
  BY <1>2, <1>5 DEF Dispatch
<1>7. NotificationTypeOK'
  BY <1>1, <1>6, MovesType DEF IInv, NotificationTypeOK
<1>8. Exclusive' /\ Busy'
  BY <1>1, <1>2, <1>5, <1>6, QuietMove
<1> QED
  BY <1>1, <1>7, <1>8 DEF IInv

\* A failed dispatch keeps the invariant.
LEMMA AbortStep ==
  ASSUME IInv, NEW i \in Dispatches, Abort(i)
  PROVE  IInv' /\ UNCHANGED attempts
<1>1. /\ stage' = [stage EXCEPT ![i] = "idle"]
      /\ dispatch' = [dispatch EXCEPT ![i] = NoDispatch]
  BY DEF Abort, Moves
<1>2. claims \subseteq claims' /\ claims' \subseteq Row
  <2>1. stage[i] = "claiming" => First(dispatch[i].todo) \in Row
    BY DispatchOf, FirstOf DEF IInv, Busy
  <2> QED
    BY <2>1 DEF Abort, IInv, NotificationTypeOK
<1>3. \A j \in Dispatches : /\ j # i => dispatch'[j] = dispatch[j] /\ stage'[j] = stage[j]
                            /\ dispatch'[i] = NoDispatch /\ stage'[i] = "idle"
  BY <1>1 DEF IInv, NotificationTypeOK
<1>4. NotificationTypeOK'
  <2>1. dropped' \subseteq Row
    BY DispatchOf DEF Abort, IInv, NotificationTypeOK
  <2>2. stage' \in [Dispatches -> DispatchPlaces]
    BY <1>1 DEF IInv, NotificationTypeOK, DispatchPlaces
  <2>3. dispatch' \in [Dispatches -> Dispatch \cup {NoDispatch}]
    BY <1>1 DEF IInv, NotificationTypeOK
  <2> QED
    BY <1>2, <1>3, <2>1, <2>2, <2>3 DEF Abort, IInv, NotificationTypeOK
<1>5. \A j \in Dispatches : dispatch'[j].claimed \subseteq dispatch[j].claimed
  BY <1>3 DEF NoDispatch
<1>6. Exclusive'
  BY <1>2, <1>5 DEF Abort, IInv, Exclusive, Unmailed
<1>7. Busy'
  BY <1>3 DEF IInv, Busy
<1> QED
  BY <1>4, <1>6, <1>7 DEF Abort, IInv

\* Changes of members and projects keep the invariant.
LEMMA WorldStep ==
  ASSUME IInv,
         \/ \E p \in Projects, who \in MemberChoices : ChangeMembers(p, who)
         \/ \E p \in Projects : DeleteProject(p)
         \/ UNCHANGED notificationVars
  PROVE  IInv' /\ UNCHANGED attempts
<1>1. UNCHANGED <<claims, stage, dispatch, attempts, detected, dropped, spawned>>
  BY DEF ChangeMembers, DeleteProject, notificationVars
<1>2. live' \subseteq Projects /\ members' \in [Projects -> SUBSET Users]
  BY UsersAssumption DEF ChangeMembers, DeleteProject, notificationVars, IInv, NotificationTypeOK
<1> QED
  BY <1>1, <1>2 DEF IInv, NotificationTypeOK, Exclusive, Busy, Unmailed

\* Every step keeps the invariant and is one mailing, or none.
LEMMA NextStep ==
  IInv /\ [NotificationNext]_notificationVars => IInv' /\ (Promise!Next \/ UNCHANGED attempts)
<1> SUFFICES ASSUME IInv, [NotificationNext]_notificationVars
             PROVE  IInv' /\ (Promise!Next \/ UNCHANGED attempts)
  OBVIOUS
<1>1. CASE \E i \in Dispatches, p \in Projects, key \in KeyPairs,
              seen \in [PeriodType -> Observations \cup {NoLimit}], soft \in BOOLEAN :
             Spawn(i, p, key, seen, soft)
  BY <1>1, SpawnStep
<1>2. CASE \E i \in Dispatches : Claim(i)
  BY <1>2, ClaimStep DEF Claim
<1>3. CASE \E i \in Dispatches :
             ResolveContext(i) \/ ResolveMembers(i) \/ ResolveAdmins(i)
  BY <1>3, ResolveStep
<1>4. CASE \E i \in Dispatches : Send(i)
  BY <1>4, SendStep
<1>5. CASE \E i \in Dispatches : Abort(i)
  BY <1>5, AbortStep
<1>6. CASE \/ \E p \in Projects, who \in MemberChoices : ChangeMembers(p, who)
           \/ \E p \in Projects : DeleteProject(p)
           \/ UNCHANGED notificationVars
  BY <1>6, WorldStep
<1> QED
  BY <1>1, <1>2, <1>3, <1>4, <1>5, <1>6 DEF NotificationNext, DispatchStep

\* The invariant holds in every reachable state.
LEMMA AlwaysIInv == NotificationSpec => []IInv
<1>1. IInv /\ [NotificationNext]_notificationVars => IInv'
  BY NextStep
<1> QED
  BY InitIInv, <1>1, PTL DEF NotificationSpec

----------------------------------------------------------------------------
\* The state of the dispatches keeps its shape, whatever the dispatches do.
THEOREM TypeCorrect == NotificationSpec => []NotificationTypeOK
<1>1. IInv => NotificationTypeOK
  BY DEF IInv
<1> QED
  BY <1>1, AlwaysIInv, PTL

\* Send once: the dispatches of any number of processes implement SendOnce.
\* An event is mailed in one go, to a set of recipients, and never again.
THEOREM DispatchesSendOnce == NotificationSpec => SendsOnce
<1>1. NotificationInit => Promise!Init
  BY DEF NotificationInit, Promise!Init, Promise!Nobody
<1>2. IInv /\ [NotificationNext]_notificationVars => [Promise!Next]_attempts
  BY NextStep
<1> QED
  BY <1>1, <1>2, AlwaysIInv, PTL DEF NotificationSpec, SendsOnce, Promise!Spec

----------------------------------------------------------------------------
(* No event slips through: what a dispatch has to do without having failed  *)
(* or won or lost a claim is still among its events to claim.               *)

\* What a step does to the parts EventsAccounted speaks of.
Accounts ==
  /\ claims \subseteq claims' /\ dropped \subseteq dropped'
  /\ \A i \in Dispatches : dispatch[i].todo \subseteq
       dispatch'[i].todo \cup claims' \cup dropped'

\* A step that moves what was to be claimed only to claims or losses, and detects
\* nothing new, keeps every event accounted for.
LEMMA AccountsKept ==
  ASSUME EventsAccounted, Accounts, UNCHANGED detected
  PROVE  EventsAccounted'
<1> SUFFICES ASSUME NEW row \in detected,
                    row \notin claims', row \notin dropped'
             PROVE  \E i \in Dispatches : row \in dispatch'[i].todo
  BY DEF EventsAccounted
<1>1. PICK i \in Dispatches : row \in dispatch[i].todo
  BY DEF EventsAccounted, Accounts
<1> QED
  BY <1>1 DEF Accounts

\* Every step keeps every detected event accounted for.
LEMMA StepAccounts ==
  ASSUME IInv, EventsAccounted, NEW i \in Dispatches, DispatchStep(i) \/ Abort(i)
  PROVE  EventsAccounted'
<1>0. UNCHANGED detected
  BY DEF DispatchStep, Claim, ResolveContext, ResolveMembers, ResolveAdmins, Send, Abort
<1>1. PICK place, d : Moves(i, place, d)
  BY DEF DispatchStep, Claim, ResolveContext, ResolveMembers, ResolveAdmins, Send,
         Abort, SendTo
<1>2. \A j \in Dispatches : j # i => dispatch'[j] = dispatch[j]
  BY <1>1 DEF Moves, IInv, NotificationTypeOK
<1>3. CASE Claim(i)
  <2> DEFINE row == First(dispatch[i].todo)
             todo == dispatch[i].todo \ {row}
  <2>1. dispatch[i] \in Dispatch
    BY <1>3, DispatchOf DEF Claim, IInv
  <2>2. PICK claimed : Moves(i, AfterClaim(todo, claimed),
                [dispatch[i] EXCEPT !.todo = todo, !.claimed = claimed])
    BY <1>3 DEF Claim
  <2>3. todo \subseteq dispatch'[i].todo
    BY <2>1, <2>2 DEF Moves, AfterClaim, IInv, NotificationTypeOK, Dispatch
  <2>4. claims' = claims \cup {row} /\ dropped' = dropped
    BY <1>3 DEF Claim
  <2>5. Accounts
    BY <1>2, <2>3, <2>4 DEF Accounts
  <2> QED
    BY <1>0, <2>5, AccountsKept
<1>4. CASE ResolveContext(i) \/ ResolveMembers(i) \/ ResolveAdmins(i) \/ Send(i)
  <2>1. dispatch[i].todo = {} /\ claims' = claims /\ dropped' = dropped
    BY <1>4 DEF ResolveContext, ResolveMembers, ResolveAdmins, Send, IInv, Busy
  <2>2. Accounts
    BY <1>2, <2>1 DEF Accounts
  <2> QED
    BY <1>0, <2>2, AccountsKept
<1>5. CASE Abort(i)
  <2>1. claims \subseteq claims' /\ dropped' = dropped \cup dispatch[i].claimed \cup dispatch[i].todo
    BY <1>5 DEF Abort
  <2>2. Accounts
    BY <1>2, <2>1 DEF Accounts
  <2> QED
    BY <1>0, <2>2, AccountsKept
<1> QED
  BY <1>3, <1>4, <1>5 DEF DispatchStep

\* No detected event slips through: it is claimed, about to be claimed, or was
\* in the hands of a dispatch that failed.
THEOREM EventsAreAccounted == NotificationSpec => []EventsAccounted
<1>1. NotificationInit => EventsAccounted
  BY DEF NotificationInit, EventsAccounted
<1>2. IInv /\ EventsAccounted /\ [NotificationNext]_notificationVars => EventsAccounted'
  <2> SUFFICES ASSUME IInv, EventsAccounted, [NotificationNext]_notificationVars PROVE EventsAccounted'
    OBVIOUS
  <2>1. ASSUME NEW i \in Dispatches, NEW p \in Projects, NEW key \in KeyPairs,
               NEW seen \in [PeriodType -> Observations \cup {NoLimit}],
               NEW soft \in BOOLEAN, Spawn(i, p, key, seen, soft)
        PROVE  EventsAccounted'
    <3> DEFINE events == EventsOf(p, key, seen, soft)
    <3>1. /\ detected' = detected \cup events /\ claims' = claims /\ dropped' = dropped
          /\ dispatch[i] = NoDispatch
      BY <2>1 DEF Spawn, IInv, NotificationTypeOK
    <3>2. /\ \A j \in Dispatches : j # i => dispatch'[j] = dispatch[j]
          /\ dispatch'[i].todo = events
      BY <2>1 DEF Spawn, IInv, NotificationTypeOK
    <3> HIDE DEF events
    <3>3. \A j \in Dispatches : dispatch[j].todo \subseteq dispatch'[j].todo
      BY <3>1, <3>2 DEF NoDispatch
    <3> QED
      BY <3>1, <3>2, <3>3 DEF EventsAccounted
  <2>2. ASSUME NEW i \in Dispatches, DispatchStep(i) \/ Abort(i)
        PROVE  EventsAccounted'
    BY <2>2, StepAccounts
  <2>3. CASE \/ \E p \in Projects, who \in MemberChoices : ChangeMembers(p, who)
             \/ \E p \in Projects : DeleteProject(p)
             \/ UNCHANGED notificationVars
    BY <2>3 DEF ChangeMembers, DeleteProject, notificationVars, EventsAccounted
  <2> QED
    BY <2>1, <2>2, <2>3 DEF NotificationNext
<1> QED
  BY <1>1, <1>2, AlwaysIInv, PTL DEF NotificationSpec

----------------------------------------------------------------------------
(* Who is told of a hard stop: a batch that has one is only ever sent with  *)
(* the admins among its recipients.                                         *)

AdminsIncluded ==
  \A i \in Dispatches :
    stage[i] = "sending" /\ HasHardStop(dispatch[i].claimed) => Admins \subseteq dispatch[i].to

\* A step of a dispatch other than Send reaches "sending" with the admins.
LEMMA ReachesAdmins ==
  ASSUME IInv, AdminsIncluded, NEW i \in Dispatches,
         \/ Claim(i) \/ ResolveContext(i) \/ ResolveMembers(i)
         \/ ResolveAdmins(i) \/ Abort(i)
  PROVE  AdminsIncluded'
<1>1. PICK place, d : Moves(i, place, d)
  BY DEF Claim, ResolveContext, ResolveMembers, ResolveAdmins, Abort, SendTo
<1>2. \A j \in Dispatches : j # i => dispatch'[j] = dispatch[j] /\ stage'[j] = stage[j]
  BY <1>1 DEF Moves, IInv, NotificationTypeOK
<1>3. CASE Claim(i) \/ ResolveContext(i) \/ Abort(i)
  <2>1. stage'[i] # "sending"
    BY <1>3 DEF Claim, ResolveContext, Abort, Moves, AfterClaim, IInv, NotificationTypeOK
  <2> QED
    BY <1>2, <2>1 DEF AdminsIncluded
<1>4. ASSUME ResolveMembers(i) \/ ResolveAdmins(i), stage'[i] = "sending",
             HasHardStop(dispatch'[i].claimed)
      PROVE  Admins \subseteq dispatch'[i].to
  <2>1. dispatch[i] \in Dispatch
    BY <1>4, DispatchOf DEF ResolveMembers, ResolveAdmins, IInv
  <2>2. PICK to : /\ dispatch'[i] = [dispatch[i] EXCEPT !.to = to]
                  /\ \/ ~HasHardStop(dispatch[i].claimed)
                     \/ Admins \subseteq to
    <3>1. CASE ResolveMembers(i)
      <4>1. ~HasHardStop(dispatch[i].claimed)
        BY <1>4, <3>1 DEF ResolveMembers, Moves, IInv, NotificationTypeOK
      <4>2. SendTo(i, members[dispatch[i].project])
        BY <3>1, <4>1 DEF ResolveMembers
      <4> QED
        BY <1>4, <4>1, <4>2 DEF SendTo, Moves, IInv, NotificationTypeOK
    <3>2. CASE ResolveAdmins(i)
      <4>1. SendTo(i, dispatch[i].to \cup Admins)
        BY <3>2 DEF ResolveAdmins
      <4> QED
        BY <1>4, <4>1 DEF SendTo, Moves, IInv, NotificationTypeOK
    <3> QED
      BY <1>4, <3>1, <3>2
  <2> QED
    BY <1>4, <2>1, <2>2 DEF Dispatch
<1> QED
  BY <1>2, <1>3, <1>4 DEF AdminsIncluded

\* Sending keeps the admins told of every hard stop anyone is told of.
LEMMA SendTellsAdmins ==
  ASSUME IInv, AdminsIncluded, HardStopReachesAdmins, NEW i \in Dispatches, Send(i)
  PROVE  AdminsIncluded' /\ HardStopReachesAdmins'
<1> DEFINE d == dispatch[i]
           row == First(d.claimed)
           rest == d.claimed \ {row}
           next == [d EXCEPT !.claimed = rest]
<1>1. stage[i] = "sending" /\ d \in Dispatch /\ d.claimed # {}
  BY DispatchOf DEF Send, IInv, Busy
<1>2. row \in d.claimed /\ row \in Row
  BY <1>1, FirstOf DEF Dispatch
<1>3. next.claimed = rest /\ next.to = d.to
  BY <1>1 DEF Dispatch
<1>4. /\ \A j \in Dispatches : j # i => dispatch'[j] = dispatch[j] /\ stage'[j] = stage[j]
      /\ stage'[i] = "sending" => dispatch'[i] = next
  BY DEF Send, Moves, IInv, NotificationTypeOK
<1>5. AdminsIncluded'
  <2>1. HasHardStop(rest) => HasHardStop(d.claimed)
    BY DEF HasHardStop
  <2> HIDE DEF next, rest
  <2> QED
    BY <1>1, <1>3, <1>4, <2>1 DEF AdminsIncluded
<1>6. HardStopReachesAdmins'
  <2>1. /\ \A u \in Users : attempts'[row][u] =
             IF u \in d.to THEN attempts[row][u] + 1 ELSE attempts[row][u]
        /\ \A r \in Row : r # row => attempts'[r] = attempts[r]
    BY <1>2 DEF Send, IInv, NotificationTypeOK
  <2>2. row.level = "reached_hard" => Admins \subseteq d.to
    BY <1>1, <1>2 DEF AdminsIncluded, HasHardStop
  <2>3. \A u \in Users : attempts[row][u] \in Nat
    BY <1>2 DEF IInv, NotificationTypeOK
  <2>4. row.level = "reached_hard" => \A a \in Admins : attempts'[row][a] > 0
    BY <2>1, <2>2, <2>3, UsersAssumption
  <2> HIDE DEF row
  <2> QED
    BY <2>1, <2>4 DEF HardStopReachesAdmins
<1> QED
  BY <1>5, <1>6

\* If anyone is told that the runs of a project are rejected, every platform
\* admin is told in the same mailing.
THEOREM AdminsHearOfHardStops == NotificationSpec => []HardStopReachesAdmins
<1> DEFINE Told == AdminsIncluded /\ HardStopReachesAdmins
<1>1. NotificationInit => Told
  BY UsersAssumption DEF NotificationInit, AdminsIncluded, HardStopReachesAdmins
<1>2. IInv /\ Told /\ [NotificationNext]_notificationVars => Told'
  <2> SUFFICES ASSUME IInv, Told, [NotificationNext]_notificationVars PROVE Told'
    OBVIOUS
  <2>1. ASSUME NEW i \in Dispatches, Send(i) PROVE Told'
    BY <2>1, SendTellsAdmins
  <2>2. ASSUME NEW i \in Dispatches,
               \/ Claim(i) \/ ResolveContext(i) \/ ResolveMembers(i)
               \/ ResolveAdmins(i) \/ Abort(i)
        PROVE  Told'
    <3>1. UNCHANGED attempts
      BY <2>2 DEF Claim, ResolveContext, ResolveMembers, ResolveAdmins, Abort
    <3> QED
      BY <2>2, <3>1, ReachesAdmins DEF HardStopReachesAdmins
  <2>3. ASSUME NEW i \in Dispatches, NEW p \in Projects, NEW key \in KeyPairs,
               NEW seen \in [PeriodType -> Observations \cup {NoLimit}],
               NEW soft \in BOOLEAN, Spawn(i, p, key, seen, soft)
        PROVE  Told'
    <3>1. /\ \A j \in Dispatches : j # i => dispatch'[j] = dispatch[j] /\ stage'[j] = stage[j]
          /\ stage'[i] = "claiming" /\ attempts' = attempts
      BY <2>3 DEF Spawn, IInv, NotificationTypeOK
    <3> QED
      BY <3>1 DEF AdminsIncluded, HardStopReachesAdmins
  <2>4. CASE \/ \E p \in Projects, who \in MemberChoices : ChangeMembers(p, who)
             \/ \E p \in Projects : DeleteProject(p)
             \/ UNCHANGED notificationVars
    BY <2>4 DEF ChangeMembers, DeleteProject, notificationVars, AdminsIncluded, HardStopReachesAdmins
  <2> QED
    BY <2>1, <2>2, <2>3, <2>4 DEF NotificationNext, DispatchStep
<1>3. Told => HardStopReachesAdmins
  OBVIOUS
<1> HIDE DEF Told
<1> QED
  BY <1>1, <1>2, <1>3, AlwaysIInv, PTL DEF NotificationSpec

----------------------------------------------------------------------------
(* What SendOnce entails, and that every mail has its reason.               *)

\* The mails about an event go out once, and the record of them stays.
AtMostOnce == \A row \in Row, u \in Users : attempts[row][u] <= 1
MailedStays ==
  [][\A row \in Row : ~Unmailed(row) => attempts'[row] = attempts[row]]_notificationVars

\* No recipient is mailed twice about one event (the unique row a dispatch has
\* to insert), in however many processes, and however often, it is detected.
THEOREM MailedAtMostOnce == NotificationSpec => []AtMostOnce
<1>1. NotificationInit => AtMostOnce
  BY DEF NotificationInit, AtMostOnce
<1>2. IInv /\ AtMostOnce /\ [NotificationNext]_notificationVars => AtMostOnce'
  <2> SUFFICES ASSUME IInv, AtMostOnce, Promise!Next PROVE AtMostOnce'
    BY NextStep DEF AtMostOnce
  <2>1. PICK row \in Row, to \in SUBSET Users : Promise!Mail(row, to)
    BY DEF Promise!Next
  <2>2. attempts' = [attempts EXCEPT ![row] = Promise!Mailing(to)]
    BY <2>1 DEF Promise!Mail
  <2>3. \A u \in Users : attempts'[row][u] <= 1
    BY <2>2 DEF Promise!Mailing, IInv, NotificationTypeOK
  <2> QED
    BY <2>2, <2>3 DEF AtMostOnce, IInv, NotificationTypeOK
<1> QED
  BY <1>1, <1>2, AlwaysIInv, PTL DEF NotificationSpec

\* Whatever happens to an event once it was mailed, nobody else is mailed about
\* it: not those who join the project, not the admins of a later batch.
THEOREM MailedEventsStay == NotificationSpec => MailedStays
<1>1. IInv /\ [NotificationNext]_notificationVars =>
        [\A row \in Row : ~Unmailed(row) => attempts'[row] = attempts[row]]_notificationVars
  <2> SUFFICES ASSUME IInv, Promise!Next, NEW row \in Row, ~Unmailed(row)
               PROVE  attempts'[row] = attempts[row]
    BY NextStep
  <2>1. PICK other \in Row, to \in SUBSET Users : Promise!Mail(other, to)
    BY DEF Promise!Next
  <2> QED
    BY <2>1 DEF Promise!Mail, Promise!Nobody, Unmailed, IInv, NotificationTypeOK
<1> QED
  BY <1>1, AlwaysIInv, PTL DEF NotificationSpec, MailedStays

\* Claims, and the events dispatches are still to claim, were detected.
Detected ==
  /\ claims \subseteq detected
  /\ \A i \in Dispatches : dispatch[i].todo \subseteq detected

\* A mail is about an event some check detected and some dispatch claimed.
MailsAreGenuine ==
  \A row \in Row, u \in Users : attempts[row][u] > 0 => row \in detected \cap claims

\* Claiming, sending and failing invent no event.
LEMMA StepDetected ==
  ASSUME IInv, Detected, NEW i \in Dispatches, DispatchStep(i) \/ Abort(i)
  PROVE  Detected'
<1>1. PICK place, d : Moves(i, place, d)
  BY DEF DispatchStep, Claim, ResolveContext, ResolveMembers, ResolveAdmins, Send,
         Abort, SendTo
<1>2. \A j \in Dispatches : j # i => dispatch'[j] = dispatch[j]
  BY <1>1 DEF Moves, IInv, NotificationTypeOK
<1>3. detected' = detected
  BY DEF DispatchStep, Claim, ResolveContext, ResolveMembers, ResolveAdmins, Send, Abort
<1>4. dispatch'[i].todo \subseteq dispatch[i].todo
  <2>1. CASE Claim(i)
    <3> DEFINE todo == dispatch[i].todo \ {First(dispatch[i].todo)}
    <3>1. dispatch[i] \in Dispatch
      BY <2>1, DispatchOf DEF Claim, IInv
    <3>2. PICK next, claimed : Moves(i, next, [dispatch[i] EXCEPT !.todo = todo, !.claimed = claimed])
      BY <2>1 DEF Claim
    <3> QED
      BY <3>1, <3>2 DEF Moves, IInv, NotificationTypeOK, Dispatch, NoDispatch
  <2>2. CASE ResolveContext(i)
    BY <2>2 DEF ResolveContext, Moves, IInv, NotificationTypeOK, NoDispatch
  <2>3. CASE ResolveMembers(i) \/ ResolveAdmins(i)
    <3>1. dispatch[i] \in Dispatch
      BY <2>3, DispatchOf DEF ResolveMembers, ResolveAdmins, IInv
    <3>2. PICK next, to : Moves(i, next, [dispatch[i] EXCEPT !.to = to])
      BY <2>3 DEF ResolveMembers, ResolveAdmins, SendTo
    <3> QED
      BY <3>1, <3>2 DEF Moves, IInv, NotificationTypeOK, Dispatch, NoDispatch
  <2>4. CASE Send(i)
    <3>1. dispatch[i] \in Dispatch
      BY <2>4, DispatchOf DEF Send, IInv
    <3>2. PICK next, rest : Moves(i, next, [dispatch[i] EXCEPT !.claimed = rest])
      BY <2>4 DEF Send
    <3> QED
      BY <3>1, <3>2 DEF Moves, IInv, NotificationTypeOK, Dispatch, NoDispatch
  <2>5. CASE Abort(i)
    BY <2>5 DEF Abort, Moves, IInv, NotificationTypeOK, NoDispatch
  <2> QED
    BY <2>1, <2>2, <2>3, <2>4, <2>5 DEF DispatchStep
<1>5. claims' \subseteq claims \cup dispatch[i].todo
  <2>1. CASE stage[i] = "claiming"
    <3>1. First(dispatch[i].todo) \in dispatch[i].todo
      BY <2>1, DispatchOf, FirstOf DEF IInv, Busy
    <3> QED
      BY <2>1, <3>1 DEF DispatchStep, Claim, ResolveContext, ResolveMembers,
           ResolveAdmins, Send, Abort
  <2>2. CASE stage[i] # "claiming"
    BY <2>2 DEF DispatchStep, Claim, ResolveContext, ResolveMembers, ResolveAdmins,
         Send, Abort
  <2> QED
    BY <2>1, <2>2
<1> QED
  BY <1>2, <1>3, <1>4, <1>5 DEF Detected

\* No false alarm, and no mail without the row that keeps others from sending it
\* (dispatchLimitNotifications claims before it sends), though dispatches crash
\* and inserts are committed whose answer is lost.
THEOREM MailsHaveTheirReason == NotificationSpec => []MailsAreGenuine
<1>1. NotificationInit => Detected
  BY DEF NotificationInit, Detected, NoDispatch
<1>2. IInv /\ Detected /\ [NotificationNext]_notificationVars => Detected'
  <2> SUFFICES ASSUME IInv, Detected, [NotificationNext]_notificationVars PROVE Detected'
    OBVIOUS
  <2>1. ASSUME NEW i \in Dispatches, NEW p \in Projects, NEW key \in KeyPairs,
               NEW seen \in [PeriodType -> Observations \cup {NoLimit}],
               NEW soft \in BOOLEAN, Spawn(i, p, key, seen, soft)
        PROVE  Detected'
    <3> DEFINE events == EventsOf(p, key, seen, soft)
    <3>1. detected' = detected \cup events /\ claims' = claims
      BY <2>1 DEF Spawn
    <3>2. /\ \A j \in Dispatches : j # i => dispatch'[j] = dispatch[j]
          /\ dispatch'[i].todo = events
      BY <2>1 DEF Spawn, IInv, NotificationTypeOK
    <3> HIDE DEF events
    <3> QED
      BY <3>1, <3>2 DEF Detected
  <2>2. ASSUME NEW i \in Dispatches, DispatchStep(i) \/ Abort(i)
        PROVE  Detected'
    BY <2>2, StepDetected
  <2>3. CASE \/ \E p \in Projects, who \in MemberChoices : ChangeMembers(p, who)
             \/ \E p \in Projects : DeleteProject(p)
             \/ UNCHANGED notificationVars
    BY <2>3 DEF ChangeMembers, DeleteProject, notificationVars, Detected
  <2> QED
    BY <2>1, <2>2, <2>3 DEF NotificationNext
<1>3. IInv /\ Detected => MailsAreGenuine
  <2> SUFFICES ASSUME IInv, Detected, NEW row \in Row, NEW u \in Users,
                      attempts[row][u] > 0
               PROVE  row \in claims
    BY DEF MailsAreGenuine, Detected
  <2> QED
    BY DEF IInv, Exclusive, Unmailed
<1> QED
  BY <1>1, <1>2, <1>3, AlwaysIInv, PTL DEF NotificationSpec
=============================================================================
