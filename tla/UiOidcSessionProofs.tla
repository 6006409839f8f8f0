------------------------- MODULE UiOidcSessionProofs -------------------------
(***************************************************************************)
(* For every number of processes, requests, tokens, logouts and failures:  *)
(* the refresh token of the session is never left used up while the token  *)
(* that replaces it exists; one access token is usable at most, and none   *)
(* that a logout has revoked, except the very tokens that were left behind *)
(* or written again.                                                       *)
(***************************************************************************)
EXTENDS UiOidcSession, TLAPS

\* Zero stands for no token.
LEMMA TokensArePositive == None \notin Tokens /\ None \in Maybe /\ Tokens \subseteq Maybe
BY BoundsAssumption DEF None, Tokens, Maybe

\* The fields of what a request holds.
LEMMA HoldingOf ==
  ASSUME NEW h \in Holding
  PROVE  /\ h.kind \in {"none", "login", "failed", "refresh", "logout", "cleanup"}
         /\ h.old \in Maybe /\ h.new \in Maybe /\ h.storing \in Maybe /\ h.rotated \in BOOLEAN
         /\ h.prev \in Maybe /\ h.keys \subseteq Tokens /\ h.before \subseteq Tokens
         /\ h.left \in 0..3
BY DEF Holding

\* A request that holds nothing is well-typed.
LEMMA NothingType ==
  /\ Nothing \in Holding /\ Nothing.kind = "none" /\ Nothing.left = 0
  /\ Nothing.old = None /\ Nothing.new = None /\ Nothing.prev = None /\ Nothing.storing = None
  /\ Nothing.keys = {} /\ Nothing.before = {}
BY TokensArePositive DEF Nothing, Holding

\* What a deletion begins with, at a logout or after a login failed to write.
LEMMA DeletionType ==
  ASSUME NEW kind \in {"logout", "cleanup"}, NEW before \in SUBSET Tokens, NEW storing \in Maybe
  PROVE  LET h == [Nothing EXCEPT !.kind = kind, !.before = before, !.storing = storing, !.left = 3] IN
         /\ h \in Holding /\ h.new = None /\ h.old = None /\ h.prev = None
         /\ h.keys = {} /\ h.before = before /\ h.storing = storing /\ h.left = 3 /\ h.kind = kind
<1>1. 3 \in 0..3
  OBVIOUS
<1> QED
  BY <1>1, NothingType DEF Holding

----------------------------------------------------------------------------
(* The inductive invariant.  Needs: a request has the tokens its step is   *)
(* going to use, and a refresh stores no token beside its steps.  Unused:  *)
(* a pair that was just issued is higher than any other token, and its     *)
(* refresh token nobody has used or stored yet (Fresh).                    *)

Needs(r) ==
  /\ pc[r] \in {"call", "answered"} => holds[r].old \in Tokens
  /\ pc[r] \in {"answered"} \cup Writing => holds[r].new \in Tokens
  /\ pc[r] \in Refreshing => holds[r].storing = None /\ Kind(r) = "refresh"
  /\ pc[r] = "purge" => holds[r].left > 0

\* The refresh token a request has got and not stored.
Fresh(r) == IF pc[r] = "answered" THEN holds[r].new ELSE holds[r].storing

Unused ==
  /\ refresh <= issued /\ \A token \in spent : token <= issued
  /\ \A r \in Requests : /\ holds[r].new <= issued /\ holds[r].old <= issued
                         /\ holds[r].storing <= issued
  /\ \A r \in Requests : Fresh(r) # None =>
       /\ Fresh(r) \notin spent /\ Fresh(r) # refresh
       /\ \A other \in Requests :
            /\ holds[other].old # Fresh(r)
            /\ other # r => Fresh(other) # Fresh(r)

IInv == TypeOK /\ (\A r \in Requests : Needs(r)) /\ Unused /\ RefreshTokenNotBurnt

\* The invariant holds at the start.
LEMMA InitIInv == Init => IInv
<1> SUFFICES ASSUME Init PROVE IInv
  OBVIOUS
<1>1. 1 \in Tokens /\ issued \in 0..MaxTokens
  BY BoundsAssumption DEF Init, Tokens
<1>2. /\ \A r \in Requests : pc[r] = "idle" /\ holds[r] = Nothing
      /\ spent = {} /\ refresh \in {0, 1} /\ refresh <= issued
  BY DEF Init, None
<1>3. TypeOK
  <2>1. /\ forward \in Maybe /\ refresh \in Maybe /\ reverse \subseteq Tokens
    BY <1>1, TokensArePositive DEF Init
  <2>2. /\ lock \in [Processes -> Requests \cup {NoOne}] /\ flight \in [Processes -> Lead]
        /\ pc \in [Requests -> Steps] /\ holds \in [Requests -> Holding]
    BY NothingType DEF Init, Lead, NoFlight, Steps
  <2> QED
    BY <1>1, <1>2, <2>1, <2>2 DEF Init, TypeOK
<1>4. \A r \in Requests : Needs(r)
  BY <1>2, NothingType DEF Needs, Writing, Refreshing
<1>5. Unused
  BY <1>1, <1>2 DEF Unused, Fresh, Nothing, None
<1> QED
  BY <1>2, <1>3, <1>4, <1>5 DEF IInv, RefreshTokenNotBurnt

\* Moving a request on keeps steps and what requests hold well-typed.
LEMMA MoveType ==
  ASSUME TypeOK, NEW r \in Requests, NEW step \in Steps, NEW h \in Holding,
         pc' = [pc EXCEPT ![r] = step], holds' = [holds EXCEPT ![r] = h]
  PROVE  /\ pc' \in [Requests -> Steps] /\ holds' \in [Requests -> Holding]
         /\ pc'[r] = step /\ holds'[r] = h
         /\ \A q \in Requests : q # r => pc'[q] = pc[q] /\ holds'[q] = holds[q]
BY DEF TypeOK

\* The end of a request and the start of a clean-up keep locks and single
\* flights well-typed.
LEMMA LocalType ==
  ASSUME TypeOK, NEW r \in Requests
  PROVE  /\ FlightAfter(r) \in [Processes -> Lead]
         /\ LockAfter(r) \in [Processes -> Requests \cup {NoOne}]
         /\ [lock EXCEPT ![Process(r)] = r] \in [Processes -> Requests \cup {NoOne}]
BY DEF FlightAfter, LockAfter, TypeOK, Lead, NoFlight

\* A step of request r that keeps the rest of Redis and of the provider out of
\* the invariant's way: nothing is issued or used up, the refresh token stays
\* or is removed, and r has no fresh token afterwards that it did not have.
LEMMA PlainStep ==
  ASSUME IInv, NEW r \in Requests, TypeOK',
         \A q \in Requests : q # r => pc'[q] = pc[q] /\ holds'[q] = holds[q],
         UNCHANGED provider, refresh' \in {refresh, None},
         dropped \subseteq dropped',
         pc[r] = "answered" => pc'[r] = "answered" \/ holds[r].old \in dropped',
         pc'[r] = "answered" => pc[r] = "answered" /\ UNCHANGED <<holds[r]>>,
         Fresh(r)' \in {None, Fresh(r)},
         holds'[r].new \in {None, holds[r].new},
         holds'[r].old \in {None, holds[r].old, refresh},
         holds'[r].storing \in {None, holds[r].storing},
         Needs(r)'
  PROVE  IInv'
<1>1. \A q \in Requests : Needs(q)'
  BY DEF IInv, Needs, Kind
<1>2. Unused'
  <2>1. issued' = issued /\ spent' = spent /\ issued \in Nat
    BY DEF provider, IInv, TypeOK
  <2>2. refresh' <= issued
    BY <2>1 DEF IInv, Unused, None
  <2>3. \A q \in Requests : /\ holds'[q].new <= issued /\ holds'[q].old <= issued
                            /\ holds'[q].storing <= issued
    BY <2>1 DEF IInv, Unused, None
  <2>4. \A q \in Requests : Fresh(q)' \in {None, Fresh(q)}
    BY DEF Fresh
  <2>5. \A q \in Requests : holds'[q].old \in {None, holds[q].old, refresh}
    OBVIOUS
  <2>6. ASSUME NEW q \in Requests, Fresh(q)' # None
        PROVE  /\ Fresh(q)' \notin spent' /\ Fresh(q)' # refresh'
               /\ \A other \in Requests :
                    /\ holds'[other].old # Fresh(q)'
                    /\ other # q => Fresh(other)' # Fresh(q)'
    BY <2>1, <2>4, <2>5, <2>6 DEF IInv, Unused
  <2> QED
    BY <2>1, <2>2, <2>3, <2>6 DEF IInv, Unused
<1>3. RefreshTokenNotBurnt'
  <2>1. SUFFICES ASSUME refresh' \in spent'
        PROVE  \/ \E q \in Requests : pc'[q] = "answered" /\ holds'[q].rotated
                                       /\ holds'[q].old = refresh'
               \/ refresh' \in dropped'
    BY DEF RefreshTokenNotBurnt
  <2>2. refresh' = refresh /\ refresh \in spent
    BY <2>1, TokensArePositive DEF provider, IInv, TypeOK
  <2>3. CASE refresh \in dropped
    BY <2>2, <2>3
  <2>4. CASE \E q \in Requests : pc[q] = "answered" /\ holds[q].rotated /\ holds[q].old = refresh
    BY <2>2, <2>4
  <2> QED
    BY <2>2, <2>3, <2>4 DEF IInv, RefreshTokenNotBurnt
<1> QED
  BY <1>1, <1>2, <1>3 DEF IInv

\* Such a step, with the types of what it writes.
LEMMA MoveStep ==
  ASSUME IInv, NEW r \in Requests, NEW step \in Steps, NEW h \in Holding,
         pc' = [pc EXCEPT ![r] = step], holds' = [holds EXCEPT ![r] = h],
         at' \in [Requests -> Processes], flight' \in [Processes -> Lead],
         lock' \in [Processes -> Requests \cup {NoOne}],
         forward' \in Maybe, reverse' \subseteq Tokens, refresh' \in {refresh, None},
         UNCHANGED provider, dropped \subseteq dropped', dropped' \subseteq Tokens,
         revoked' \subseteq Tokens, leaked' \subseteq Tokens, repeated' \subseteq Tokens,
         logouts' \in Nat, faults' \in Nat,
         pc[r] = "answered" => holds[r].old \in dropped',
         step # "answered",
         h.new \in {None, holds[r].new}, h.old \in {None, holds[r].old, refresh},
         h.storing \in {None, holds[r].storing},
         step = "call" => h.old \in Tokens,
         step \in Writing => h.new \in Tokens,
         step \in Refreshing => h.storing = None /\ h.kind = "refresh",
         step = "purge" => h.left > 0
  PROVE  IInv'
<1>1. /\ pc' \in [Requests -> Steps] /\ holds' \in [Requests -> Holding]
      /\ pc'[r] = step /\ holds'[r] = h
      /\ \A q \in Requests : q # r => pc'[q] = pc[q] /\ holds'[q] = holds[q]
  BY MoveType DEF IInv
<1>2. TypeOK'
  <2>1. refresh' \in Maybe
    BY TokensArePositive DEF IInv, TypeOK
  <2> QED
    BY <1>1, <2>1 DEF provider, IInv, TypeOK
<1>3. Needs(r)'
  BY <1>1 DEF Needs, Kind
<1>4. Fresh(r)' \in {None, Fresh(r)}
  BY <1>1 DEF Fresh, IInv, Needs, Refreshing
<1> QED
  BY <1>1, <1>2, <1>3, <1>4, PlainStep

\* A request that has come to its end, waits for its refresh token to be
\* stored, or goes on to clean up.
Over(r) ==
  \/ End(r)
  \/ Join(r)
  \/ \E storing \in {None, holds[r].storing} : CleanUp(r, storing)

\* Where it is then and what it holds.
LEMMA OverOf ==
  ASSUME IInv, NEW r \in Requests, Over(r)
  PROVE  \E step \in {"idle", "joining", "purge"}, h \in Holding :
           /\ pc' = [pc EXCEPT ![r] = step] /\ holds' = [holds EXCEPT ![r] = h]
           /\ h.new = None /\ h.old = None /\ h.prev = None /\ h.before = {}
           /\ h.storing \in {None, holds[r].storing}
           /\ step = "purge" => h.left > 0
<1>1. CASE End(r)
  BY <1>1, NothingType DEF End
<1>2. CASE Join(r)
  <2> DEFINE h == [Nothing EXCEPT !.kind = Kind(r), !.storing = holds[r].storing]
  <2>1. /\ h \in Holding /\ h.new = None /\ h.old = None /\ h.prev = None /\ h.before = {}
        /\ h.storing = holds[r].storing
    BY NothingType DEF Holding, Kind, IInv, TypeOK
  <2>2. pc' = [pc EXCEPT ![r] = "joining"] /\ holds' = [holds EXCEPT ![r] = h]
    BY <1>2 DEF Join, To, Hold
  <2> HIDE DEF h
  <2> QED
    BY <2>1, <2>2
<1>3. ASSUME NEW storing \in {None, holds[r].storing}, CleanUp(r, storing)
      PROVE  \E h \in Holding :
               /\ pc' = [pc EXCEPT ![r] = "purge"] /\ holds' = [holds EXCEPT ![r] = h]
               /\ h.new = None /\ h.old = None /\ h.prev = None /\ h.before = {}
               /\ h.storing \in {None, holds[r].storing} /\ h.left > 0
  <2> DEFINE h == [Nothing EXCEPT !.kind = "cleanup", !.storing = storing, !.left = 3]
  <2>1. storing \in Maybe /\ 3 \in 0..3
    BY TokensArePositive DEF IInv, TypeOK, Holding
  <2>2. /\ h \in Holding /\ h.new = None /\ h.old = None /\ h.prev = None /\ h.before = {}
        /\ h.storing = storing /\ h.left = 3
    BY <2>1, NothingType DEF Holding
  <2>3. pc' = [pc EXCEPT ![r] = "purge"] /\ holds' = [holds EXCEPT ![r] = h]
    BY <1>3 DEF CleanUp, To, Hold
  <2> HIDE DEF h
  <2>4. h.left > 0
    BY <2>2
  <2> QED
    BY <2>2, <2>3, <2>4
<1> QED
  BY <1>1, <1>2, <1>3 DEF Over

\* The end of a request keeps the invariant, whatever it does to the records
\* other than storing a refresh token.
LEMMA EndStep ==
  ASSUME IInv, NEW r \in Requests, Over(r),
         forward' \in Maybe, reverse' \subseteq Tokens, refresh' \in {refresh, None},
         UNCHANGED <<provider, logouts>>, dropped \subseteq dropped', dropped' \subseteq Tokens,
         revoked' \subseteq Tokens, leaked' \subseteq Tokens, repeated' \subseteq Tokens,
         faults' \in Nat,
         pc[r] = "answered" => holds[r].old \in dropped'
  PROVE  IInv'
<1>1. lock' \in [Processes -> Requests \cup {NoOne}] /\ flight' \in [Processes -> Lead]
  BY LocalType DEF Over, End, Join, CleanUp, IInv, TypeOK
<1>2. at' \in [Requests -> Processes] /\ logouts' \in Nat
  BY DEF Over, End, Join, CleanUp, To, IInv, TypeOK
<1>3. PICK step \in {"idle", "joining", "purge"}, h \in Holding :
        /\ pc' = [pc EXCEPT ![r] = step] /\ holds' = [holds EXCEPT ![r] = h]
        /\ h.new = None /\ h.old = None
        /\ h.storing \in {None, holds[r].storing}
        /\ step = "purge" => h.left > 0
  BY OverOf
<1>4. step \in Steps /\ step \notin {"answered", "call"} \cup Writing \cup Refreshing
  BY DEF Steps, Deleting, Writing, Refreshing
<1> QED
  BY <1>1, <1>2, <1>3, <1>4, MoveStep

\* Looking up and logging out begin with nothing that could be used up.
LEMMA BeginStep ==
  ASSUME IInv, NEW r \in Requests, NEW p \in Processes, Lookup(r, p) \/ Logout(r, p)
  PROVE  IInv'
<1> DEFINE look == [Nothing EXCEPT !.kind = "refresh"]
           out == [Nothing EXCEPT !.kind = "logout", !.before = reverse, !.left = 3]
           step == IF Lookup(r, p) THEN "known" ELSE "purge"
           h == IF Lookup(r, p) THEN look ELSE out
<1>1. /\ look \in Holding /\ look.new = None /\ look.old = None /\ look.storing = None
      /\ look.kind = "refresh"
      /\ out \in Holding /\ out.new = None /\ out.old = None /\ out.storing = None
      /\ out.left = 3
  <2>1. reverse \in SUBSET Tokens /\ 3 \in 0..3
    BY DEF IInv, TypeOK
  <2> QED
    BY <2>1, NothingType DEF Holding
<1>2. /\ pc' = [pc EXCEPT ![r] = step] /\ holds' = [holds EXCEPT ![r] = h]
      /\ at' = [at EXCEPT ![r] = p] /\ pc[r] = "idle" /\ logouts' \in Nat
      /\ UNCHANGED <<redis, local, provider, history, faults>>
  BY DEF Lookup, Logout, Begin, Hold, IInv, TypeOK
<1>3. step \in Steps /\ step \notin {"answered", "call"} \cup Writing
  BY DEF Steps, Refreshing, Writing, Deleting
<1>4. /\ h \in Holding /\ h.new = None /\ h.old = None /\ h.storing = None
      /\ step = "purge" => h.left > 0
      /\ step \in Refreshing => h.kind = "refresh"
  BY <1>1 DEF Refreshing
<1> HIDE DEF h, step
<1> QED
  BY <1>2, <1>3, <1>4, MoveStep DEF redis, local, history, IInv, TypeOK

----------------------------------------------------------------------------
(* The refresh token.                                                      *)

\* A refresh that starts, reads or is refused uses nothing up.
LEMMA ReadStep ==
  ASSUME IInv, NEW r \in Requests, StartRefresh(r) \/ ReadRefreshToken(r) \/ Refuse(r)
  PROVE  IInv'
<1>1. UNCHANGED <<redis, provider, history, logouts, faults>> /\ pc[r] # "answered"
  BY DEF StartRefresh, ReadRefreshToken, Refuse
<1>2. CASE End(r)
  <2>1. Over(r)
    BY <1>2 DEF Over
  <2> QED
    BY <1>1, <2>1, EndStep DEF redis, history, IInv, TypeOK
<1>3. CASE StartRefresh(r) /\ ~ End(r)
  <2>1. pc' = [pc EXCEPT ![r] = "readRefresh"] /\ UNCHANGED <<at, holds, lock>>
    BY <1>3 DEF StartRefresh, To
  <2>2. flight' \in [Processes -> Lead]
    <3>1. [leader |-> r, stale |-> FALSE] \in Lead
      BY DEF Lead
    <3>2. flight' = [flight EXCEPT ![Process(r)] = [leader |-> r, stale |-> FALSE]]
      BY <1>3 DEF StartRefresh
    <3> QED
      BY <3>1, <3>2 DEF IInv, TypeOK
  <2>3. /\ holds' = [holds EXCEPT ![r] = holds[r]] /\ holds[r] \in Holding
        /\ holds[r].storing = None /\ holds[r].kind = "refresh"
    BY <1>3, <2>1 DEF StartRefresh, Needs, Kind, Refreshing, IInv, TypeOK
  <2>4. "readRefresh" \in Steps /\ "readRefresh" \notin Writing
    BY DEF Steps, Refreshing, Writing
  <2>5. /\ at' \in [Requests -> Processes] /\ lock' \in [Processes -> Requests \cup {NoOne}]
        /\ forward' \in Maybe /\ reverse' \subseteq Tokens /\ refresh' = refresh
        /\ UNCHANGED <<provider, dropped>> /\ dropped \subseteq Tokens /\ revoked' \subseteq Tokens
        /\ leaked' \subseteq Tokens /\ repeated' \subseteq Tokens
        /\ logouts' \in Nat /\ faults' \in Nat
    BY <1>1, <2>1 DEF redis, history, IInv, TypeOK
  <2>6. "readRefresh" \notin {"answered", "call", "purge"}
    OBVIOUS
  <2> QED
    BY <1>1, <2>1, <2>2, <2>3, <2>4, <2>5, <2>6, MoveStep
<1>4. CASE ReadRefreshToken(r) /\ ~ End(r)
  <2> DEFINE h == [holds[r] EXCEPT !.old = refresh]
  <2>1. /\ pc' = [pc EXCEPT ![r] = "call"] /\ holds' = [holds EXCEPT ![r] = h]
        /\ UNCHANGED <<at, local>> /\ refresh # None
    BY <1>4 DEF ReadRefreshToken, To, Hold
  <2>2. /\ h \in Holding /\ h.new = holds[r].new /\ h.old = refresh
        /\ h.storing = holds[r].storing /\ h.storing = None /\ h.kind = "refresh"
    BY <1>4 DEF ReadRefreshToken, Needs, Kind, Refreshing, IInv, TypeOK, Holding
  <2>3. refresh \in Tokens
    BY <2>1 DEF IInv, TypeOK, Maybe
  <2>4. "call" \in Steps /\ "call" \notin Writing
    BY DEF Steps, Refreshing, Writing
  <2> HIDE DEF h
  <2> QED
    BY <1>1, <2>1, <2>2, <2>3, <2>4, MoveStep DEF redis, local, history, IInv, TypeOK
<1> QED
  BY <1>2, <1>3, <1>4 DEF Refuse

\* The provider's answer uses up the token it was asked with, and whoever
\* asked has the next one.
LEMMA ProvideStep ==
  ASSUME IInv, NEW r \in Requests, Provide(r)
  PROVE  IInv'
<1>1. PICK rotated \in BOOLEAN :
        /\ spent' = IF rotated THEN spent \cup {holds[r].old} ELSE spent
        /\ Hold(r, [holds[r] EXCEPT !.new = issued', !.rotated = rotated])
  BY DEF Provide
<1> DEFINE h == [holds[r] EXCEPT !.new = issued', !.rotated = rotated]
<1>2. /\ pc[r] = "call" /\ holds[r].old \in Tokens /\ holds[r].old \notin spent
      /\ issued' = issued + 1 /\ issued' \in Tokens /\ issued \in Nat
      /\ holds[r].old <= issued
  BY BoundsAssumption DEF Provide, IInv, Needs, TypeOK, Tokens, Unused
<1>3. /\ h \in Holding /\ h.new = issued' /\ h.rotated = rotated /\ h.old = holds[r].old
      /\ h.storing = None /\ h.kind = "refresh"
  BY <1>2, TokensArePositive DEF IInv, TypeOK, Holding, Needs, Kind, Refreshing
<1>4. /\ pc' = [pc EXCEPT ![r] = "answered"] /\ holds' = [holds EXCEPT ![r] = h]
      /\ UNCHANGED <<at, redis, local, history, logouts, faults>>
  BY <1>1 DEF Provide, To, Hold
<1>5. "answered" \in Steps
  BY DEF Steps, Refreshing
<1> HIDE DEF h
<1>6. /\ pc' \in [Requests -> Steps] /\ holds' \in [Requests -> Holding]
      /\ pc'[r] = "answered" /\ holds'[r] = h
      /\ \A q \in Requests : q # r => pc'[q] = pc[q] /\ holds'[q] = holds[q]
  BY <1>3, <1>4, <1>5, MoveType DEF IInv
<1>7. TypeOK'
  BY <1>1, <1>2, <1>4, <1>6 DEF redis, local, history, IInv, TypeOK, Tokens
<1>8. \A q \in Requests : Needs(q)'
  BY <1>2, <1>3, <1>6 DEF IInv, Needs, Kind, Writing
<1>9. Unused'
  <2>1. \A q \in Requests :
          /\ holds'[q].old = holds[q].old /\ holds'[q].old <= issued
          /\ holds'[q].new = IF q = r THEN issued + 1 ELSE holds[q].new
          /\ holds'[q].storing = holds[q].storing
          /\ Fresh(q)' = IF q = r THEN issued + 1 ELSE Fresh(q)
    <3>1. holds[r].storing = None
      BY <1>2 DEF IInv, Needs, Refreshing
    <3> QED
      BY <1>2, <1>3, <1>6, <3>1 DEF IInv, Unused, Fresh
  <2>2. \A q \in Requests : /\ holds[q].new \in Nat /\ holds[q].new <= issued
                            /\ holds[q].storing \in Nat /\ holds[q].storing <= issued
                            /\ holds[q].old \in Nat /\ holds[q].old <= issued
                            /\ Fresh(q) \in Nat /\ Fresh(q) <= issued
    BY BoundsAssumption DEF IInv, Unused, Fresh, TypeOK, Holding, Maybe, Tokens, None
  <2>3. refresh' = refresh /\ refresh \in Nat /\ refresh <= issued
    BY <1>4 DEF redis, IInv, Unused, TypeOK, Maybe, Tokens, None
  <2>4. \A token \in spent' : token \in Nat /\ token <= issued
    BY <1>1, <1>2 DEF IInv, Unused, TypeOK, Tokens
  <2>5. ASSUME NEW q \in Requests, Fresh(q) # None, q # r
        PROVE  /\ Fresh(q) \notin spent' /\ Fresh(q) # refresh
               /\ \A other \in Requests :
                    /\ holds[other].old # Fresh(q)
                    /\ other # q => Fresh(other)' # Fresh(q)
    BY <1>1, <1>2, <2>1, <2>2, <2>5 DEF IInv, Unused
  <2>6. /\ issued + 1 \notin spent' /\ issued + 1 # refresh
        /\ \A other \in Requests :
             /\ holds[other].old # issued + 1
             /\ other # r => Fresh(other)' # issued + 1
    BY <1>2, <2>1, <2>2, <2>3, <2>4
  <2>7. refresh' <= issued' /\ \A token \in spent' : token <= issued'
    BY <1>2, <2>3, <2>4
  <2>8. \A q \in Requests : /\ holds'[q].new <= issued' /\ holds'[q].old <= issued'
                            /\ holds'[q].storing <= issued'
    BY <1>2, <2>1, <2>2
  <2>9. \A q \in Requests : Fresh(q)' # None =>
          /\ Fresh(q)' \notin spent' /\ Fresh(q)' # refresh
          /\ \A other \in Requests :
               /\ holds[other].old # Fresh(q)'
               /\ other # q => Fresh(other)' # Fresh(q)'
    BY <2>1, <2>5, <2>6
  <2> QED
    BY <2>1, <2>3, <2>7, <2>8, <2>9 DEF Unused
<1>10. RefreshTokenNotBurnt'
  <2>1. refresh' = refresh /\ dropped' = dropped
    BY <1>4 DEF redis, history
  <2>2. CASE refresh \in spent
    <3>1. \A q \in Requests : pc[q] = "answered" => q # r
      BY <1>2
    <3> QED
      BY <1>6, <2>1, <2>2, <3>1 DEF IInv, RefreshTokenNotBurnt
  <2>3. CASE refresh \notin spent
    BY <1>1, <1>3, <1>6, <2>1, <2>3 DEF RefreshTokenNotBurnt
  <2> QED
    BY <2>2, <2>3
<1> QED
  BY <1>7, <1>8, <1>9, <1>10 DEF IInv

\* A lost answer is recorded as lost.
LEMMA DropStep ==
  ASSUME IInv, NEW r \in Requests, DropAnswer(r)
  PROVE  IInv'
<1>1. pc[r] = "answered" /\ holds[r].old \in Tokens
  BY DEF DropAnswer, IInv, Needs
<1>2. Over(r)
  BY DEF DropAnswer, Over
<1> QED
  BY <1>1, <1>2, EndStep DEF DropAnswer, redis, IInv, TypeOK

\* Storing a refresh token that nobody has used, by the request that has it and
\* has it no more afterwards.
LEMMA StoreFresh ==
  ASSUME IInv, NEW r \in Requests, TypeOK', Needs(r)',
         UNCHANGED <<provider, dropped>>,
         \A q \in Requests : q # r => pc'[q] = pc[q] /\ holds'[q] = holds[q],
         refresh' \in {refresh, Fresh(r)}, Fresh(r) # None, Fresh(r)' = None,
         pc[r] = "answered" /\ holds[r].rotated => refresh' = Fresh(r),
         holds'[r].new \in {None, holds[r].new}, holds'[r].old \in {None, holds[r].old},
         holds'[r].storing \in {None, holds[r].storing}, pc'[r] # "answered"
  PROVE  IInv'
<1>1. issued' = issued /\ spent' = spent /\ issued \in Nat
  BY DEF provider, IInv, TypeOK
<1>2. \A q \in Requests : Needs(q)'
  BY DEF IInv, Needs, Kind
<1>3. \A q \in Requests : q # r => Fresh(q)' = Fresh(q)
  BY DEF Fresh
<1>4. Fresh(r) <= issued /\ Fresh(r) \notin spent
  BY DEF Fresh, IInv, Unused
<1>5. Unused'
  <2>1. refresh' <= issued
    BY <1>4 DEF IInv, Unused
  <2>2. \A q \in Requests : /\ holds'[q].new <= issued /\ holds'[q].old <= issued
                            /\ holds'[q].storing <= issued
    BY <1>1 DEF IInv, Unused, None
  <2>3. ASSUME NEW q \in Requests, Fresh(q)' # None
        PROVE  /\ Fresh(q)' \notin spent' /\ Fresh(q)' # refresh'
               /\ \A other \in Requests :
                    /\ holds'[other].old # Fresh(q)'
                    /\ other # q => Fresh(other)' # Fresh(q)'
    <3>1. q # r /\ Fresh(q)' = Fresh(q)
      BY <1>3, <2>3
    <3>2. /\ Fresh(q) \notin spent /\ Fresh(q) # refresh /\ Fresh(q) # Fresh(r)
          /\ \A other \in Requests :
               /\ holds[other].old # Fresh(q)
               /\ other # q => Fresh(other) # Fresh(q)
      BY <2>3, <3>1 DEF IInv, Unused
    <3>3. \A other \in Requests : /\ Fresh(other)' \in {None, Fresh(other)}
                                  /\ holds'[other].old \in {None, holds[other].old}
      BY <1>3
    <3> QED
      BY <1>1, <2>3, <3>1, <3>2, <3>3
  <2> QED
    BY <1>1, <2>1, <2>2, <2>3 DEF IInv, Unused
<1>6. RefreshTokenNotBurnt'
  <2>1. CASE refresh' = Fresh(r)
    BY <1>1, <1>4, <2>1 DEF RefreshTokenNotBurnt
  <2>2. CASE refresh' # Fresh(r)
    <3>1. refresh' = refresh /\ ~ (pc[r] = "answered" /\ holds[r].rotated)
      BY <2>2
    <3> QED
      BY <1>1, <3>1 DEF IInv, RefreshTokenNotBurnt
  <2> QED
    BY <2>1, <2>2
<1> QED
  BY <1>2, <1>5, <1>6 DEF IInv

\* A refresh stores the token it got, if the provider rotated the old one.
LEMMA KeepStep ==
  ASSUME IInv, NEW r \in Requests, KeepAnswer(r)
  PROVE  IInv'
<1>1. /\ pc[r] = "answered" /\ holds[r].new \in Tokens /\ holds[r].storing = None
      /\ Fresh(r) = holds[r].new
  BY DEF KeepAnswer, IInv, Needs, Refreshing, Fresh
<1>2. /\ pc' = [pc EXCEPT ![r] = "access"] /\ UNCHANGED at
      /\ UNCHANGED <<forward, reverse, holds, local, provider, history, logouts, faults>>
      /\ refresh' \in {refresh, Fresh(r)}
      /\ holds[r].rotated => refresh' = Fresh(r)
  BY <1>1 DEF KeepAnswer, To
<1>3. /\ pc' \in [Requests -> Steps] /\ pc'[r] = "access"
      /\ \A q \in Requests : q # r => pc'[q] = pc[q]
  BY <1>2 DEF IInv, TypeOK, Steps, Writing
<1>4. TypeOK'
  <2>1. refresh' \in Maybe
    BY <1>1, <1>2, TokensArePositive DEF IInv, TypeOK
  <2>2. holds' \in [Requests -> Holding] /\ at' \in [Requests -> Processes]
    BY <1>2 DEF IInv, TypeOK
  <2> QED
    BY <1>2, <1>3, <2>1, <2>2 DEF local, provider, history, IInv, TypeOK
<1>5. Needs(r)' /\ Fresh(r)' = None
  BY <1>1, <1>2, <1>3 DEF Needs, Fresh, Refreshing
<1>6. Fresh(r) # None /\ \A q \in Requests : holds'[q] = holds[q]
  BY <1>1, <1>2, TokensArePositive
<1>7. UNCHANGED <<provider, dropped>>
  BY <1>2 DEF history
<1> QED
  BY <1>2, <1>3, <1>4, <1>5, <1>6, <1>7, StoreFresh

\* What a request goes on with once its refresh token is out of its hands.
LEMMA StoredOf ==
  ASSUME IInv, NEW r \in Requests, holds[r].storing # None, Stored(r)
  PROVE  /\ \/ End(r)
            \/ /\ holds' = [holds EXCEPT ![r] = [holds[r] EXCEPT !.storing = None]]
               /\ UNCHANGED <<pc, at, local>>
         /\ pc[r] \notin Refreshing
  BY DEF Stored, Hold, IInv, Needs

\* A login stores the refresh token it was issued, whatever else it is at.
LEMMA WriteRefreshStep ==
  ASSUME IInv, NEW r \in Requests, WriteRefreshToken(r)
  PROVE  IInv'
<1>1. /\ holds[r].storing # None /\ refresh' = holds[r].storing /\ Stored(r)
      /\ UNCHANGED <<forward, reverse, provider, history, logouts, faults>>
  BY DEF WriteRefreshToken
<1>2. pc[r] \notin Refreshing /\ pc[r] # "answered" /\ Fresh(r) = holds[r].storing
  BY <1>1, StoredOf DEF Refreshing, Fresh
<1>3. \E step \in {pc[r], "idle"}, h \in Holding :
        /\ pc' = [pc EXCEPT ![r] = step] /\ holds' = [holds EXCEPT ![r] = h]
        /\ h.storing = None
        /\ \/ step = "idle" /\ h.new = None /\ h.old = None
           \/ /\ step = pc[r] /\ h.new = holds[r].new /\ h.old = holds[r].old
              /\ h.left = holds[r].left
  <2>1. CASE End(r)
    BY <2>1, NothingType DEF End
  <2>2. CASE /\ holds' = [holds EXCEPT ![r] = [holds[r] EXCEPT !.storing = None]]
             /\ UNCHANGED <<pc, at, local>>
    <3> DEFINE h == [holds[r] EXCEPT !.storing = None]
    <3>1. /\ h \in Holding /\ h.storing = None /\ h.new = holds[r].new /\ h.old = holds[r].old
          /\ h.left = holds[r].left
      BY TokensArePositive DEF IInv, TypeOK, Holding
    <3>2. pc' = [pc EXCEPT ![r] = pc[r]] /\ holds' = [holds EXCEPT ![r] = h]
      BY <2>2 DEF IInv, TypeOK
    <3> HIDE DEF h
    <3> QED
      BY <3>1, <3>2
  <2> QED
    BY <1>1, <2>1, <2>2, StoredOf
<1>4. PICK step \in {pc[r], "idle"}, h \in Holding :
        /\ pc' = [pc EXCEPT ![r] = step] /\ holds' = [holds EXCEPT ![r] = h]
        /\ h.storing = None
        /\ \/ step = "idle" /\ h.new = None /\ h.old = None
           \/ /\ step = pc[r] /\ h.new = holds[r].new /\ h.old = holds[r].old
              /\ h.left = holds[r].left
  BY <1>3
<1>5. step \in Steps
  BY DEF IInv, TypeOK, Steps
<1>6. /\ pc' \in [Requests -> Steps] /\ holds' \in [Requests -> Holding]
      /\ pc'[r] = step /\ holds'[r] = h
      /\ \A q \in Requests : q # r => pc'[q] = pc[q] /\ holds'[q] = holds[q]
  BY <1>4, <1>5, MoveType DEF IInv
<1>7. TypeOK'
  <2>1. /\ lock' \in [Processes -> Requests \cup {NoOne}] /\ flight' \in [Processes -> Lead]
        /\ at' \in [Requests -> Processes]
    BY <1>1, StoredOf, LocalType DEF End, local, IInv, TypeOK
  <2>2. refresh' \in Maybe
    BY <1>1 DEF IInv, TypeOK, Holding
  <2> QED
    BY <1>1, <1>6, <2>1, <2>2 DEF provider, history, IInv, TypeOK
<1>8. Needs(r)' /\ Fresh(r)' = None
  BY <1>2, <1>4, <1>6 DEF Needs, Fresh, IInv, Writing, Refreshing
<1>9. /\ UNCHANGED <<provider, dropped>> /\ pc'[r] # "answered" /\ Fresh(r) # None
      /\ refresh' = Fresh(r)
      /\ holds'[r].new \in {None, holds[r].new} /\ holds'[r].old \in {None, holds[r].old}
      /\ holds'[r].storing = None
  BY <1>1, <1>2, <1>4, <1>6 DEF history
<1> QED
  BY <1>6, <1>7, <1>8, <1>9, StoreFresh

\* A login begins with a pair of its own.
LEMMA LoginStep ==
  ASSUME IInv, NEW r \in Requests, NEW p \in Processes, Login(r, p)
  PROVE  IInv'
<1> DEFINE h == [Nothing EXCEPT !.kind = "login", !.new = issued', !.storing = issued']
<1>1. issued' = issued + 1 /\ issued' \in Tokens /\ issued \in Nat
  BY BoundsAssumption DEF Login, IInv, TypeOK, Tokens
<1>2. h \in Holding /\ h.new = issued' /\ h.storing = issued' /\ h.old = None
  BY <1>1, NothingType, TokensArePositive DEF Nothing, Holding
<1>3. /\ pc' = [pc EXCEPT ![r] = "access"] /\ holds' = [holds EXCEPT ![r] = h]
      /\ at' = [at EXCEPT ![r] = p] /\ pc[r] = "idle"
      /\ UNCHANGED <<redis, local, spent, history, logouts, faults>>
  BY DEF Login, Begin, Hold
<1>4. "access" \in Steps
  BY DEF Steps, Writing
<1> HIDE DEF h
<1>5. /\ pc' \in [Requests -> Steps] /\ holds' \in [Requests -> Holding]
      /\ pc'[r] = "access" /\ holds'[r] = h
      /\ \A q \in Requests : q # r => pc'[q] = pc[q] /\ holds'[q] = holds[q]
  BY <1>2, <1>3, <1>4, MoveType DEF IInv
<1>6. TypeOK'
  BY <1>1, <1>3, <1>5 DEF redis, local, history, IInv, TypeOK, Tokens
<1>7. \A q \in Requests : Needs(q)'
  BY <1>1, <1>2, <1>5 DEF IInv, Needs, Kind, Refreshing
<1>8. Unused'
  <2>1. \A q \in Requests : /\ holds[q].new \in Nat /\ holds[q].new <= issued
                            /\ holds[q].old \in Nat /\ holds[q].old <= issued
                            /\ holds[q].storing \in Nat /\ holds[q].storing <= issued
                            /\ Fresh(q) \in Nat /\ Fresh(q) <= issued
    BY DEF IInv, Unused, Fresh, TypeOK, Holding, Maybe, Tokens, None
  <2>2. \A q \in Requests :
          /\ holds'[q].old \in Nat /\ holds'[q].old <= issued
          /\ holds'[q].old \in {None, holds[q].old}
          /\ holds'[q].new <= issued' /\ holds'[q].storing <= issued'
          /\ Fresh(q)' = IF q = r THEN issued + 1 ELSE Fresh(q)
    BY <1>1, <1>2, <1>5, <2>1 DEF None, Fresh
  <2>3. refresh' = refresh /\ refresh \in Nat /\ refresh <= issued
    BY <1>3 DEF redis, IInv, Unused, TypeOK, Maybe, Tokens, None
  <2>4. spent' = spent /\ \A token \in spent : token \in Nat /\ token <= issued
    BY <1>3 DEF IInv, Unused, TypeOK, Tokens
  <2>5. ASSUME NEW q \in Requests, Fresh(q) # None, q # r
        PROVE  /\ Fresh(q) \notin spent /\ Fresh(q) # refresh
               /\ \A other \in Requests :
                    /\ holds'[other].old # Fresh(q)
                    /\ other # q => Fresh(other)' # Fresh(q)
    <3>1. /\ Fresh(q) \notin spent /\ Fresh(q) # refresh
          /\ \A other \in Requests :
               holds[other].old # Fresh(q) /\ (other # q => Fresh(other) # Fresh(q))
      BY <2>5 DEF IInv, Unused
    <3> QED
      BY <1>1, <2>1, <2>2, <2>5, <3>1
  <2>6. /\ issued + 1 \notin spent /\ issued + 1 # refresh
        /\ \A other \in Requests :
             /\ holds'[other].old # issued + 1
             /\ other # r => Fresh(other)' # issued + 1
    BY <1>1, <2>1, <2>2, <2>3, <2>4
  <2>7. /\ refresh' <= issued' /\ \A token \in spent' : token <= issued'
        /\ \A q \in Requests : holds'[q].old <= issued'
    BY <1>1, <2>2, <2>3, <2>4
  <2> QED
    BY <2>2, <2>3, <2>4, <2>5, <2>6, <2>7 DEF Unused
<1>9. RefreshTokenNotBurnt'
  BY <1>3, <1>5 DEF redis, history, IInv, RefreshTokenNotBurnt
<1> QED
  BY <1>6, <1>7, <1>8, <1>9 DEF IInv

----------------------------------------------------------------------------
(* The other steps store no refresh token.                                 *)

\* Moving on to another step of a write or of a deletion.
LEMMA HopStep ==
  ASSUME IInv, NEW r \in Requests, pc[r] # "answered",
         NEW step \in Writing \cup Deleting, NEW h \in Holding,
         To(r, step), holds' = [holds EXCEPT ![r] = h],
         h.new = holds[r].new, h.old = holds[r].old, h.storing \in {None, holds[r].storing},
         step \in Writing => h.new \in Tokens, step = "purge" => h.left > 0,
         forward' \in Maybe, reverse' \subseteq Tokens, refresh' \in {refresh, None},
         lock' \in [Processes -> Requests \cup {NoOne}],
         UNCHANGED <<flight, provider, dropped, revoked, logouts>>,
         leaked' \subseteq Tokens, repeated' \subseteq Tokens, faults' \in Nat
  PROVE  IInv'
<1>1. step \in Steps /\ step \notin {"answered", "call"} \cup Refreshing
  BY DEF Steps, Refreshing, Writing, Deleting
<1>2. pc' = [pc EXCEPT ![r] = step] /\ UNCHANGED at
  BY DEF To
<1>3. /\ at' \in [Requests -> Processes] /\ flight' \in [Processes -> Lead]
      /\ UNCHANGED provider /\ dropped' = dropped /\ dropped \subseteq Tokens
      /\ revoked' \subseteq Tokens /\ logouts' \in Nat
  BY <1>2 DEF IInv, TypeOK
<1> QED
  BY <1>1, <1>2, <1>3, MoveStep

\* What a request at a step of a write or a deletion holds.
LEMMA WorkingOf ==
  ASSUME IInv, NEW r \in Requests, pc[r] \in Writing \cup Deleting
  PROVE  /\ pc[r] # "answered" /\ holds[r] \in Holding
         /\ holds[r].prev \in Maybe /\ holds[r].new \in Maybe
         /\ pc[r] \in Writing => holds[r].new \in Tokens
         /\ holds[r].left \in 0..3 /\ (pc[r] = "purge" => holds[r].left > 0)
         /\ holds = [holds EXCEPT ![r] = holds[r]]
<1>1. pc[r] # "answered"
  BY DEF Writing, Deleting
<1>2. holds[r] \in Holding /\ holds = [holds EXCEPT ![r] = holds[r]]
  BY DEF IInv, TypeOK
<1> QED
  BY <1>1, <1>2, HoldingOf DEF IInv, Needs

\* A write that moves on.
LEMMA WriteOnStep ==
  ASSUME IInv, NEW r \in Requests,
         \/ ReadForward(r) \/ FallBack(r) \/ DeleteReverse(r) \/ SetForward(r)
         \/ CheckForward(r) /\ ~ Finish(r)
  PROVE  IInv'
<1>1. pc[r] \in Writing
  BY DEF ReadForward, FallBack, DeleteReverse, SetForward, CheckForward, Writing
<1>2. /\ UNCHANGED <<flight, provider, dropped, revoked, logouts>> /\ faults' \in Nat
      /\ refresh' = refresh
  BY DEF ReadForward, FallBack, DeleteReverse, SetForward, CheckForward, redis, history,
         Take, local, IInv, TypeOK
<1>3. forward' \in Maybe /\ reverse' \subseteq Tokens
  <2>1. holds[r].new \in Tokens /\ holds[r].new \in Maybe
    BY <1>1, WorkingOf
  <2> QED
    BY <2>1 DEF ReadForward, FallBack, DeleteReverse, SetForward, CheckForward, redis,
                Script, IInv, TypeOK
<1>4. leaked' \subseteq Tokens /\ repeated' \subseteq Tokens
  <2>1. holds[r].new \in Tokens /\ forward \in Tokens \cup {None}
    BY <1>1, WorkingOf DEF IInv, TypeOK, Maybe
  <2> QED
    BY <2>1 DEF ReadForward, FallBack, Script, DeleteReverse, SetForward, CheckForward, history,
                IInv, TypeOK
<1>5. lock' \in [Processes -> Requests \cup {NoOne}]
  BY LocalType DEF ReadForward, Take, FallBack, DeleteReverse, SetForward, CheckForward, local,
                   IInv, TypeOK
<1>6. CASE ReadForward(r)
  <2> DEFINE h == [holds[r] EXCEPT !.prev = forward]
  <2>1. /\ h \in Holding /\ h.new = holds[r].new /\ h.old = holds[r].old
        /\ h.storing = holds[r].storing
    BY <1>1, WorkingOf DEF Holding, IInv, TypeOK
  <2>2. To(r, "swap") /\ holds' = [holds EXCEPT ![r] = h]
    BY <1>6 DEF ReadForward, Hold
  <2>3. "swap" \in Writing /\ "swap" # "purge"
    BY DEF Writing
  <2> HIDE DEF h
  <2> QED
    BY <1>1, <1>2, <1>3, <1>4, <1>5, <2>1, <2>2, <2>3, WorkingOf, HopStep
<1>7. CASE ~ ReadForward(r)
  <2>1. PICK step \in Writing : To(r, step)
    BY <1>7 DEF FallBack, DeleteReverse, SetForward, CheckForward, Writing
  <2>2. UNCHANGED holds
    BY <1>7 DEF FallBack, DeleteReverse, SetForward, CheckForward
  <2>3. step # "purge"
    BY DEF Writing
  <2> QED
    BY <1>1, <1>2, <1>3, <1>4, <1>5, <2>1, <2>2, <2>3, WorkingOf, HopStep
<1> QED
  BY <1>6, <1>7

\* A write that is over.
LEMMA WriteEndStep ==
  ASSUME IInv, NEW r \in Requests,
         Swap(r) \/ SetReverse(r) \/ (CheckForward(r) /\ Finish(r))
  PROVE  IInv'
<1>1. pc[r] \in Writing
  BY DEF Swap, SetReverse, CheckForward, Writing
<1>2. Finish(r) /\ UNCHANGED <<refresh, provider, dropped, revoked, logouts, faults>>
  BY DEF Swap, SetReverse, CheckForward, redis, history
<1>3. forward' \in Maybe /\ reverse' \subseteq Tokens
  <2>1. holds[r].new \in Tokens /\ holds[r].new \in Maybe
    BY <1>1, WorkingOf
  <2> QED
    BY <2>1 DEF Swap, SetReverse, CheckForward, Script, redis, IInv, TypeOK
<1>4. leaked' \subseteq Tokens /\ repeated' \subseteq Tokens
  <2>1. holds[r].new \in Tokens /\ forward \in Tokens \cup {None}
    BY <1>1, WorkingOf DEF IInv, TypeOK, Maybe
  <2> QED
    BY <2>1 DEF Swap, Script, SetReverse, CheckForward, history, IInv, TypeOK
<1>5. Over(r)
  BY <1>2 DEF Finish, Leave, Over
<1> QED
  BY <1>1, <1>2, <1>3, <1>4, <1>5, WorkingOf, EndStep DEF IInv, TypeOK

\* Deletions only remove the refresh token.
LEMMA DeleteStep ==
  ASSUME IInv, NEW r \in Requests, Deletes(r)
  PROVE  IInv'
<1>1. pc[r] \in Deleting
  BY DEF Deletes, Purge, PurgeKeys, Verify, GiveUp, Sweep, SweepKeys, Deleting
<1>2. CASE GiveUp(r) \/ SweepKeys(r)
  <2>1. /\ Over(r) /\ UNCHANGED <<refresh, provider, dropped, logouts, faults>>
        /\ forward' \in Maybe /\ reverse' \subseteq Tokens
    BY <1>2, TokensArePositive DEF GiveUp, SweepKeys, Leave, Over, IInv, TypeOK
  <2>3. leaked' \subseteq Tokens /\ repeated' \subseteq Tokens
    BY <1>2, <2>1 DEF GiveUp, SweepKeys, LeftBehind, IInv, TypeOK
  <2>2. revoked' \subseteq Tokens
    BY <1>1, <1>2, WorkingOf, HoldingOf DEF GiveUp, SweepKeys, IInv, TypeOK
  <2> QED
    BY <1>1, <2>1, <2>2, <2>3, WorkingOf, EndStep DEF IInv, TypeOK
<1>3. ASSUME NEW step \in Deleting, NEW h \in Holding, To(r, step),
             holds' = [holds EXCEPT ![r] = h], h.new = holds[r].new, h.old = holds[r].old,
             h.storing = holds[r].storing, step = "purge" => h.left > 0,
             lock' \in [Processes -> Requests \cup {NoOne}], flight' = flight,
             forward' \in Maybe, reverse' \subseteq Tokens, refresh' \in {refresh, None},
             UNCHANGED <<provider, history, logouts, faults>>
      PROVE  IInv'
  <2>1. step \notin Writing
    BY DEF Writing, Deleting
  <2>2. /\ UNCHANGED <<flight, provider, dropped, revoked, logouts>>
        /\ leaked' \subseteq Tokens /\ repeated' \subseteq Tokens /\ faults' \in Nat
    BY <1>3 DEF history, IInv, TypeOK
  <2> QED
    BY <1>1, <1>3, <2>1, <2>2, WorkingOf, HopStep
<1>4. CASE Purge(r)
  <2> DEFINE h == [holds[r] EXCEPT !.prev = forward, !.left = @ - 1]
  <2>1. holds[r].left - 1 \in 0..3
    BY <1>1, <1>4, WorkingOf DEF Purge
  <2>2. /\ h \in Holding /\ h.new = holds[r].new /\ h.old = holds[r].old
        /\ h.storing = holds[r].storing
    BY <1>1, <2>1, WorkingOf DEF Holding, IInv, TypeOK
  <2>3. lock' \in [Processes -> Requests \cup {NoOne}] /\ flight' = flight
    BY <1>4, LocalType DEF Purge, Take, local, IInv, TypeOK
  <2>4. To(r, "purgeKeys") /\ holds' = [holds EXCEPT ![r] = h]
    BY <1>4 DEF Purge, Hold
  <2>5. /\ forward' \in Maybe /\ reverse' \subseteq Tokens /\ refresh' = refresh
        /\ UNCHANGED <<provider, history, logouts, faults>>
    BY <1>4 DEF Purge, redis, IInv, TypeOK
  <2>6. "purgeKeys" \in Deleting /\ "purgeKeys" # "purge"
    BY DEF Deleting
  <2> HIDE DEF h
  <2> QED
    BY <1>3, <2>2, <2>3, <2>4, <2>5, <2>6
<1>5. CASE PurgeKeys(r)
  <2>1. /\ To(r, "verify") /\ UNCHANGED holds /\ refresh' = None
        /\ UNCHANGED <<local, provider, history, logouts, faults>>
        /\ forward' \in Maybe /\ reverse' \subseteq Tokens
    BY <1>5, TokensArePositive DEF PurgeKeys, IInv, TypeOK
  <2>2. lock' \in [Processes -> Requests \cup {NoOne}] /\ flight' = flight
    BY <2>1 DEF local, IInv, TypeOK
  <2>3. "verify" \in Deleting /\ "verify" # "purge"
    BY DEF Deleting
  <2> QED
    BY <1>1, <1>3, <2>1, <2>2, <2>3, WorkingOf
<1>6. CASE Verify(r)
  <2>1. /\ UNCHANGED <<provider, history, logouts, faults>> /\ refresh' = refresh
        /\ forward' \in Maybe /\ reverse' \subseteq Tokens /\ flight' = flight
        /\ lock' \in [Processes -> Requests \cup {NoOne}]
    BY <1>6 DEF Verify, redis, local, IInv, TypeOK
  <2> DEFINE h == [holds[r] EXCEPT !.prev = forward]
  <2>2. CASE To(r, "giveUp") /\ Hold(r, h)
    <3>1. /\ h \in Holding /\ h.new = holds[r].new /\ h.old = holds[r].old
          /\ h.storing = holds[r].storing
      BY <1>1, WorkingOf DEF Holding, IInv, TypeOK
    <3>2. "giveUp" \in Deleting /\ "giveUp" # "purge"
      BY DEF Deleting
    <3> HIDE DEF h
    <3> QED
      BY <1>3, <2>1, <2>2, <3>1, <3>2 DEF Hold
  <2>3. CASE To(r, "sweep") /\ UNCHANGED holds
    <3>1. "sweep" \in Deleting /\ "sweep" # "purge"
      BY DEF Deleting
    <3> QED
      BY <1>1, <1>3, <2>1, <2>3, <3>1, WorkingOf
  <2>4. CASE holds[r].left > 0 /\ To(r, "purge") /\ UNCHANGED holds
    <3>1. "purge" \in Deleting
      BY DEF Deleting
    <3> QED
      BY <1>1, <1>3, <2>1, <2>4, <3>1, WorkingOf
  <2> QED
    BY <1>6, <2>2, <2>3, <2>4 DEF Verify
<1>7. CASE Sweep(r)
  <2> DEFINE h == [holds[r] EXCEPT !.keys = reverse]
  <2>1. /\ h \in Holding /\ h.new = holds[r].new /\ h.old = holds[r].old
        /\ h.storing = holds[r].storing
    BY <1>1, WorkingOf DEF Holding, IInv, TypeOK
  <2>2. To(r, "sweepKeys") /\ holds' = [holds EXCEPT ![r] = h]
    BY <1>7 DEF Sweep, Listed, Hold
  <2>3. /\ UNCHANGED <<provider, history, logouts, faults>> /\ refresh' = refresh
        /\ forward' \in Maybe /\ reverse' \subseteq Tokens /\ flight' = flight
        /\ lock' \in [Processes -> Requests \cup {NoOne}]
    BY <1>7 DEF Sweep, redis, local, IInv, TypeOK
  <2>4. "sweepKeys" \in Deleting /\ "sweepKeys" # "purge"
    BY DEF Deleting
  <2> HIDE DEF h
  <2> QED
    BY <1>3, <2>1, <2>2, <2>3, <2>4
<1> QED
  BY <1>2, <1>4, <1>5, <1>6, <1>7 DEF Deletes

\* A token refused beside the access token is stored no more.
LEMMA StoreFailsOf ==
  ASSUME IInv, NEW r \in Requests, StoreFails(r)
  PROVE  /\ pc[r] \notin Refreshing
         /\ \/ Over(r)
            \/ /\ UNCHANGED <<pc, at, local>>
               /\ \E kind \in {Kind(r), "failed"}, storing \in {None, holds[r].storing} :
                    holds' = [holds EXCEPT ![r] =
                                [holds[r] EXCEPT !.kind = kind, !.storing = storing]]
<1>1. pc[r] \notin Refreshing
  BY DEF StoreFails, IInv, Needs
<1>2. CASE Kind(r) = "login"
  <2>1. PICK storing \in {None, holds[r].storing} :
          IF pc[r] = "joining"
            THEN CleanUp(r, storing)
            ELSE /\ Hold(r, [holds[r] EXCEPT !.kind = "failed", !.storing = storing])
                 /\ UNCHANGED <<pc, at, local>>
    BY <1>2 DEF StoreFails
  <2> QED
    BY <1>1, <2>1 DEF Over, Hold
<1>3. CASE Kind(r) # "login"
  <2>1. Stored(r)
    BY <1>3 DEF StoreFails
  <2>2. CASE End(r)
    BY <1>1, <2>2 DEF Over
  <2>3. CASE ~ End(r)
    <3>1. holds[r] \in Holding
      BY DEF IInv, TypeOK
    <3>2. [holds[r] EXCEPT !.storing = None]
            = [holds[r] EXCEPT !.kind = Kind(r), !.storing = None]
      BY <3>1 DEF Holding, Kind
    <3>3. holds' = [holds EXCEPT ![r] = [holds[r] EXCEPT !.kind = Kind(r), !.storing = None]]
          /\ UNCHANGED <<pc, at, local>>
      BY <2>1, <2>3, <3>2 DEF Stored, Hold
    <3> QED
      BY <1>1, <3>3
  <2> QED
    BY <2>2, <2>3
<1> QED
  BY <1>2, <1>3

\* A failed command stores nothing.
LEMMA FailStep ==
  ASSUME IInv, NEW r \in Requests, Fail(r)
  PROVE  IInv'
<1>1. UNCHANGED <<redis, provider, dropped, revoked, repeated, logouts>> /\ faults' \in Nat
  BY DEF Fail, IInv, TypeOK
<1>2. forward' \in Maybe /\ reverse' \subseteq Tokens /\ refresh' = refresh
  BY <1>1 DEF redis, IInv, TypeOK
<1>3. leaked' \subseteq Tokens
  BY <1>2 DEF Fail, LeftBehind, IInv, TypeOK, redis
<1>4. /\ pc[r] # "answered"
      /\ \/ Over(r)
         \/ /\ UNCHANGED <<pc, at, local>>
            /\ \E kind \in {Kind(r), "failed"}, storing \in {None, holds[r].storing} :
                 holds' = [holds EXCEPT ![r] =
                             [holds[r] EXCEPT !.kind = kind, !.storing = storing]]
  <2>1. CASE StoreFails(r)
    BY <2>1, StoreFailsOf DEF Refreshing
  <2>2. CASE pc[r] \in Writing /\ (End(r) \/ CleanUp(r, holds[r].storing))
    BY <2>2 DEF Writing, Over
  <2>3. CASE pc[r] \in Deleting /\ Leave(r)
    BY <2>3 DEF Deleting, Leave, Over
  <2> QED
    BY <2>1, <2>2, <2>3 DEF Fail
<1>5. CASE Over(r)
  <2>1. logouts' = logouts /\ revoked' \subseteq Tokens /\ repeated' \subseteq Tokens
        /\ dropped' = dropped /\ dropped \subseteq Tokens
    BY <1>1 DEF IInv, TypeOK
  <2> QED
    BY <1>1, <1>2, <1>3, <1>4, <1>5, <2>1, EndStep
<1>6. CASE ~ Over(r)
  <2>1. PICK kind \in {Kind(r), "failed"}, storing \in {None, holds[r].storing} :
          holds' = [holds EXCEPT ![r] = [holds[r] EXCEPT !.kind = kind, !.storing = storing]]
    BY <1>4, <1>6
  <2> DEFINE h == [holds[r] EXCEPT !.kind = kind, !.storing = storing]
  <2>2. /\ h \in Holding /\ h.new = holds[r].new /\ h.old = holds[r].old
        /\ h.storing \in {None, holds[r].storing} /\ h.left = holds[r].left
    BY TokensArePositive DEF IInv, TypeOK, Holding, Kind
  <2>3. pc[r] \in Steps /\ pc' = [pc EXCEPT ![r] = pc[r]] /\ holds' = [holds EXCEPT ![r] = h]
    BY <1>4, <1>6, <2>1 DEF IInv, TypeOK
  <2>4. pc[r] \notin Refreshing
    BY <1>6, StoreFailsOf DEF Fail, Over, Leave, Refreshing, Writing, Deleting
  <2>5. /\ pc[r] \in Writing => h.new \in Tokens
        /\ pc[r] = "purge" => h.left > 0
        /\ pc[r] # "call"
    BY <2>2, <2>4 DEF IInv, Needs, Refreshing
  <2>6. /\ at' \in [Requests -> Processes] /\ flight' \in [Processes -> Lead]
        /\ lock' \in [Processes -> Requests \cup {NoOne}]
        /\ dropped \subseteq dropped' /\ dropped' \subseteq Tokens
        /\ revoked' \subseteq Tokens /\ repeated' \subseteq Tokens /\ logouts' \in Nat
        /\ UNCHANGED provider
    BY <1>1, <1>4, <1>6 DEF local, IInv, TypeOK
  <2> HIDE DEF h
  <2> QED
    BY <1>1, <1>2, <1>3, <1>4, <2>2, <2>3, <2>4, <2>5, <2>6, MoveStep
<1> QED
  BY <1>5, <1>6

----------------------------------------------------------------------------
(* Steps of a process.                                                     *)

\* A crash loses the answers its requests had, and nothing else.
LEMMA CrashStep ==
  ASSUME IInv, NEW p \in Processes, Crash(p)
  PROVE  IInv'
<1> DEFINE mine == { r \in Requests : pc[r] # "idle" /\ Process(r) = p }
<1>1. /\ pc' = [r \in Requests |-> IF r \in mine THEN "idle" ELSE pc[r]]
      /\ holds' = [r \in Requests |-> IF r \in mine THEN Nothing ELSE holds[r]]
      /\ lock' = [lock EXCEPT ![p] = NoOne] /\ flight' = [flight EXCEPT ![p] = NoFlight]
      /\ dropped' = dropped \cup { holds[r].old : r \in { m \in mine : pc[m] = "answered" } }
      /\ UNCHANGED <<redis, at, provider, revoked, repeated, logouts>> /\ faults' = faults + 1
      /\ leaked' = leaked \cup LeftBehind(mine, reverse \ {forward})
  BY DEF Crash
<1>2. \A r \in Requests : \/ pc'[r] = pc[r] /\ holds'[r] = holds[r]
                          \/ /\ pc'[r] = "idle" /\ holds'[r] = Nothing
                             /\ pc[r] = "answered" => holds[r].old \in dropped'
  BY <1>1
<1>3. TypeOK'
  <2>1. dropped' \subseteq Tokens
    BY <1>1 DEF IInv, Needs, TypeOK
  <2>2. "idle" \in Steps /\ NoFlight \in Lead
    BY DEF Steps, NoFlight, Lead
  <2>3. pc' \in [Requests -> Steps] /\ holds' \in [Requests -> Holding]
    BY <1>1, <2>2, NothingType DEF IInv, TypeOK
  <2>4. lock' \in [Processes -> Requests \cup {NoOne}] /\ flight' \in [Processes -> Lead]
    BY <1>1, <2>2 DEF IInv, TypeOK
  <2>5. leaked' \subseteq Tokens /\ faults' \in Nat
    BY <1>1 DEF LeftBehind, IInv, TypeOK
  <2> QED
    BY <1>1, <2>1, <2>3, <2>4, <2>5 DEF redis, provider, IInv, TypeOK
<1>4. \A r \in Requests : Needs(r)'
  BY <1>2 DEF IInv, Needs, Kind, Refreshing, Writing
<1>5. Unused'
  <2>1. issued' = issued /\ spent' = spent /\ refresh' = refresh /\ issued \in Nat
    BY <1>1 DEF provider, redis, IInv, TypeOK
  <2>2. \A r \in Requests : Fresh(r)' \in {None, Fresh(r)}
    BY <1>2, NothingType DEF Fresh
  <2>3. \A r \in Requests : /\ holds'[r].new \in {None, holds[r].new}
                            /\ holds'[r].old \in {None, holds[r].old}
                            /\ holds'[r].storing \in {None, holds[r].storing}
    BY <1>2, NothingType
  <2>4. \A r \in Requests : /\ holds'[r].new <= issued /\ holds'[r].old <= issued
                            /\ holds'[r].storing <= issued
    BY <2>1, <2>3 DEF IInv, Unused, None
  <2>5. ASSUME NEW r \in Requests, Fresh(r)' # None
        PROVE  /\ Fresh(r)' \notin spent' /\ Fresh(r)' # refresh'
               /\ \A other \in Requests :
                    /\ holds'[other].old # Fresh(r)'
                    /\ other # r => Fresh(other)' # Fresh(r)'
    <3>1. /\ Fresh(r)' = Fresh(r) /\ Fresh(r) \notin spent /\ Fresh(r) # refresh
          /\ \A other \in Requests :
               holds[other].old # Fresh(r) /\ (other # r => Fresh(other) # Fresh(r))
      BY <2>2, <2>5 DEF IInv, Unused
    <3> QED
      BY <2>1, <2>2, <2>3, <2>5, <3>1
  <2> QED
    BY <2>1, <2>4, <2>5 DEF IInv, Unused
<1>6. RefreshTokenNotBurnt'
  <2>1. refresh' = refresh /\ spent' = spent /\ dropped \subseteq dropped'
    BY <1>1 DEF redis, provider
  <2>2. SUFFICES ASSUME refresh \in spent, refresh \notin dropped'
                 PROVE  \E r \in Requests : pc'[r] = "answered" /\ holds'[r].rotated
                                            /\ holds'[r].old = refresh
    BY <2>1 DEF RefreshTokenNotBurnt
  <2>3. PICK r \in Requests : pc[r] = "answered" /\ holds[r].rotated /\ holds[r].old = refresh
    BY <2>1, <2>2 DEF IInv, RefreshTokenNotBurnt
  <2> QED
    BY <1>2, <2>2, <2>3
<1> QED
  BY <1>3, <1>4, <1>5, <1>6 DEF IInv

\* Time passing changes no token.
LEMMA OvertimeStep ==
  ASSUME IInv, UNCHANGED <<redis, requests, provider, history, logouts, faults>>,
         flight' \in [Processes -> Lead], lock' = lock
  PROVE  IInv'
<1>1. UNCHANGED <<forward, reverse, refresh, pc, at, holds, issued, spent, dropped,
                  revoked, leaked, repeated, logouts, faults>>
  BY DEF redis, requests, provider, history
<1>2. TypeOK'
  BY <1>1 DEF IInv, TypeOK
<1>3. \A r \in Requests : Needs(r)'
  BY <1>1 DEF IInv, Needs, Kind
<1>4. Unused' /\ RefreshTokenNotBurnt'
  BY <1>1 DEF IInv, Unused, Fresh, RefreshTokenNotBurnt
<1> QED
  BY <1>2, <1>3, <1>4 DEF IInv

\* Every step keeps the invariant.
LEMMA NextIInv == IInv /\ [Next]_vars => IInv'
<1> SUFFICES ASSUME IInv, [Next]_vars PROVE IInv'
  OBVIOUS
<1>1. CASE UNCHANGED vars
  BY <1>1, OvertimeStep DEF vars, local, IInv, TypeOK
<1>2. ASSUME NEW p \in Processes, Overtime(p) PROVE IInv'
  <2>1. flight' \in [Processes -> Lead]
    BY <1>2 DEF Overtime, Lead, IInv, TypeOK
  <2> QED
    BY <1>2, <2>1, OvertimeStep DEF Overtime
<1>3. ASSUME NEW r \in Requests, Refreshes(r) PROVE IInv'
  BY <1>3, ReadStep, ProvideStep, DropStep, KeepStep DEF Refreshes
<1>4. ASSUME NEW r \in Requests, Writes(r) PROVE IInv'
  BY <1>4, WriteRefreshStep, WriteOnStep, WriteEndStep DEF Writes
<1> QED
  BY <1>1, <1>2, <1>3, <1>4, BeginStep, LoginStep, DeleteStep, FailStep, CrashStep DEF Next

\* The invariant always holds.
LEMMA AlwaysIInv == Spec => []IInv
BY InitIInv, NextIInv, PTL DEF Spec

----------------------------------------------------------------------------
\* Records and requests keep tokens where they have them.
THEOREM TypeCorrect == Spec => []TypeOK
<1>1. IInv => TypeOK
  BY DEF IInv
<1> QED
  BY <1>1, AlwaysIInv, PTL

\* Whatever refreshes, logins, logouts, failures and crashes interleave, the
\* refresh token stored is unused, or its successor is about to be stored or
\* was lost (refreshSessionByEmailInner).
THEOREM SessionKeepsItsRefreshToken == Spec => []RefreshTokenNotBurnt
<1>1. IInv => RefreshTokenNotBurnt
  BY DEF IInv
<1> QED
  BY <1>1, AlwaysIInv, PTL

----------------------------------------------------------------------------
(* The second invariant, about the access tokens.  Every new pair is one   *)
(* request's own; until it writes the token, the token is in no record and *)
(* known to no logout (Unwritten), and nobody else read it (Unseen).  A    *)
(* replacement has removed the record of the token it replaces, unless     *)
(* that record is written again too late (Gone), and a sweep has listed    *)
(* whatever its logout has to revoke (Listing).                            *)

Carrying == {"answered"} \cup Writing
Early == {"answered", "access", "swap"}

Distinct ==
  \A q, r \in Requests : q # r /\ holds[q].new # None => holds[q].new # holds[r].new

Issued ==
  /\ forward <= issued
  /\ \A token \in reverse \cup revoked : token <= issued
  /\ \A r \in Requests : /\ holds[r].prev <= issued
                         /\ \A token \in holds[r].before : token <= issued

Unwritten(q) ==
  pc[q] \in Carrying /\ holds[q].new \notin repeated =>
    /\ holds[q].new \notin reverse \cup revoked
    /\ \A r \in Requests : holds[q].new \notin holds[r].before

Unseen(q) ==
  pc[q] \in Early =>
    holds[q].new # forward /\ \A r \in Requests : holds[r].prev # holds[q].new

Gone(r) ==
  pc[r] \in {"recheck", "setForward"} => holds[r].prev \notin reverse \ leaked

Listing(r) ==
  pc[r] = "sweepKeys" => reverse \cap holds[r].before \subseteq holds[r].keys \cup repeated

RInv ==
  /\ Distinct /\ Issued
  /\ \A r \in Requests : Unwritten(r) /\ Unseen(r) /\ Gone(r) /\ Listing(r)
  /\ OneUsableToken /\ LogoutRevokes

\* Tokens are numbers.
LEMMA TokenNumbers ==
  ASSUME TypeOK
  PROVE  /\ issued \in Nat /\ forward \in Nat /\ refresh \in Nat
         /\ \A r \in Requests : /\ holds[r].new \in Nat /\ holds[r].prev \in Nat
                                /\ holds[r].before \subseteq Nat
         /\ reverse \subseteq Nat /\ revoked \subseteq Nat
BY BoundsAssumption DEF TypeOK, Holding, Maybe, Tokens, None

\* A request that carries a pair carries a token.
LEMMA CarriedOf ==
  ASSUME IInv, NEW r \in Requests, pc[r] \in Carrying
  PROVE  holds[r].new \in Tokens /\ holds[r].new # None
BY TokensArePositive DEF IInv, Needs, Carrying

\* The second invariant holds at the start.
LEMMA InitRInv == Init => RInv
<1> SUFFICES ASSUME Init PROVE RInv
  OBVIOUS
<1>1. \A r \in Requests : pc[r] = "idle" /\ holds[r] = Nothing
  BY DEF Init
<1>2. revoked = {} /\ reverse \subseteq {forward}
  BY DEF Init
<1>3. /\ forward <= issued /\ \A token \in reverse : token <= issued
  BY DEF Init, None
<1>4. None <= issued
  BY DEF Init, None
<1>5. Issued
  BY <1>1, <1>2, <1>3, <1>4, NothingType DEF Issued
<1>6. Distinct
  BY <1>1, NothingType DEF Distinct
<1>7. \A r \in Requests : Unwritten(r) /\ Unseen(r) /\ Gone(r) /\ Listing(r)
  BY <1>1 DEF Unwritten, Unseen, Gone, Listing, Carrying, Early, Writing
<1> QED
  BY <1>2, <1>5, <1>6, <1>7 DEF RInv, OneUsableToken, LogoutRevokes

\* How tokens flow in a step of r that issues none: records and values take
\* them from where they were, and only a request that carries one writes one.
Flow(r) ==
  /\ issued' = issued /\ leaked \subseteq leaked' /\ repeated \subseteq repeated'
  /\ \A q \in Requests : q # r => pc'[q] = pc[q] /\ holds'[q] = holds[q]
  /\ reverse' \subseteq reverse \cup {holds[r].new}
  /\ forward' \in {forward, None, holds[r].new}
  /\ pc[r] \notin Carrying => reverse' \subseteq reverse /\ forward' \in {forward, None}
  /\ revoked' \subseteq revoked \cup holds[r].before
  /\ holds'[r].new \in {None, holds[r].new}
  /\ holds'[r].prev \in {holds[r].prev, forward, None}
  /\ holds'[r].before \in {holds[r].before, {}, reverse}
  /\ pc'[r] \in Carrying => pc[r] \in Carrying /\ holds'[r].new = holds[r].new
  /\ pc'[r] \in Early => pc[r] \in Early

\* Where tokens flow, those that are anywhere were issued, each pair to one.
LEMMA FlowKeeps ==
  ASSUME IInv, RInv, NEW r \in Requests, Flow(r)
  PROVE  Distinct' /\ Issued'
<1>1. TypeOK /\ Unused
  BY DEF IInv
<1>2. \A q \in Requests : holds'[q].new \in {None, holds[q].new}
  BY DEF Flow
<1>3. Distinct'
  BY <1>2 DEF RInv, Distinct
<1>4. None <= issued /\ holds[r].new <= issued
  BY <1>1, TokenNumbers DEF Unused, None
<1>5. Issued'
  BY <1>4 DEF Flow, RInv, Issued
<1> QED
  BY <1>3, <1>5

\* A step of r keeps the records in order where it keeps those that r itself
\* looks after, and adds no record that another replacement has removed.
LEMMA RecordStep ==
  ASSUME IInv, RInv, NEW r \in Requests, Flow(r),
         pc'[r] \in Carrying => reverse' \subseteq reverse \/ holds[r].new \in repeated',
         pc'[r] \in Early => forward' \in {forward, None},
         Gone(r)', Listing(r)',
         \/ reverse' \subseteq reverse \/ holds[r].new \in leaked'
         \/ \A q \in Requests : pc[q] \in {"recheck", "setForward"} /\ q # r =>
                                  holds[q].prev # holds[r].new,
         \A token \in reverse' \ ({forward'} \cup leaked') :
           \/ \E q \in Requests : Cleans(q, token)'
           \/ token \in reverse \ ({forward} \cup leaked) /\ ~ Cleans(r, token),
         \/ revoked' = revoked
         \/ reverse' \subseteq reverse /\ reverse' \cap holds[r].before \subseteq repeated'
  PROVE  RInv'
<1>1. Distinct' /\ Issued'
  BY FlowKeeps
<1>2. ASSUME NEW q \in Requests PROVE Unwritten(q)'
  <2>1. SUFFICES ASSUME pc'[q] \in Carrying, holds'[q].new \notin repeated'
        PROVE  /\ holds'[q].new \notin reverse' \cup revoked'
               /\ \A other \in Requests : holds'[q].new \notin holds'[other].before
    BY DEF Unwritten
  <2>2. pc[q] \in Carrying /\ holds'[q].new = holds[q].new /\ holds[q].new \notin repeated
    BY <2>1 DEF Flow
  <2>3. /\ holds[q].new \notin reverse \cup revoked
        /\ \A other \in Requests : holds[q].new \notin holds[other].before
    BY <2>2 DEF RInv, Unwritten
  <2>4. q # r => holds[q].new # holds[r].new
    BY <2>2, CarriedOf DEF RInv, Distinct
  <2>5. holds[q].new \notin reverse' \cup revoked'
    BY <2>1, <2>2, <2>3, <2>4 DEF Flow
  <2>6. \A other \in Requests : holds[q].new \notin holds'[other].before
    BY <2>3 DEF Flow
  <2> QED
    BY <2>2, <2>5, <2>6
<1>3. ASSUME NEW q \in Requests PROVE Unseen(q)'
  <2>1. SUFFICES ASSUME pc'[q] \in Early
        PROVE  /\ holds'[q].new # forward'
               /\ \A other \in Requests : holds'[other].prev # holds'[q].new
    BY DEF Unseen
  <2>2. pc[q] \in Early /\ pc[q] \in Carrying /\ pc'[q] \in Carrying
    BY <2>1 DEF Flow, Early, Carrying, Writing
  <2>3. holds'[q].new = holds[q].new /\ holds[q].new # None
    BY <2>2, CarriedOf DEF Flow
  <2>4. /\ holds[q].new # forward
        /\ \A other \in Requests : holds[other].prev # holds[q].new
    BY <2>2 DEF RInv, Unseen
  <2>5. q # r => holds[q].new # holds[r].new
    BY <2>3 DEF RInv, Distinct
  <2>6. holds[q].new # forward'
    BY <2>1, <2>3, <2>4, <2>5 DEF Flow
  <2>7. \A other \in Requests : holds'[other].prev # holds[q].new
    BY <2>3, <2>4 DEF Flow
  <2> QED
    BY <2>3, <2>6, <2>7
<1>4. ASSUME NEW q \in Requests PROVE Gone(q)' /\ Listing(q)'
  <2>1. CASE q = r
    BY <2>1
  <2>2. CASE q # r
    <3>1. pc'[q] = pc[q] /\ holds'[q] = holds[q] /\ Gone(q) /\ Listing(q)
      BY <2>2 DEF Flow, RInv
    <3>2. /\ reverse' \subseteq reverse \cup {holds[r].new}
          /\ leaked \subseteq leaked' /\ repeated \subseteq repeated'
      BY DEF Flow
    <3>3. \/ reverse' \subseteq reverse \/ holds[r].new \in repeated
          \/ holds[r].new \notin holds[q].before
      BY DEF Flow, RInv, Unwritten
    <3>4. Gone(q)'
      BY <2>2, <3>1, <3>2 DEF Gone
    <3>5. Listing(q)'
      BY <3>1, <3>2, <3>3 DEF Listing
    <3> QED
      BY <3>4, <3>5
  <2> QED
    BY <2>1, <2>2
<1>5. OneUsableToken'
  <2>1. SUFFICES ASSUME NEW token \in reverse' \ ({forward'} \cup leaked')
                 PROVE  \E q \in Requests : Cleans(q, token)'
    BY DEF OneUsableToken
  <2>2. CASE token \in reverse \ ({forward} \cup leaked) /\ ~ Cleans(r, token)
    <3>1. PICK q \in Requests : Cleans(q, token)
      BY <2>2 DEF RInv, OneUsableToken
    <3>2. pc'[q] = pc[q] /\ holds'[q] = holds[q]
      BY <2>2, <3>1 DEF Flow
    <3> QED
      BY <3>1, <3>2 DEF Cleans
  <2> QED
    BY <2>1, <2>2
<1>6. LogoutRevokes'
  <2>1. \/ reverse' \subseteq reverse \/ holds[r].new \in repeated
        \/ holds[r].new \notin revoked
    BY DEF Flow, RInv, Unwritten
  <2>2. reverse \cap revoked \subseteq repeated
    BY DEF RInv, LogoutRevokes
  <2> QED
    BY <2>1, <2>2 DEF Flow, LogoutRevokes
<1> QED
  BY <1>1, <1>2, <1>3, <1>4, <1>5, <1>6 DEF RInv

\* A step that leaves the records alone.
LEMMA QuietStep ==
  ASSUME IInv, RInv, NEW r \in Requests,
         UNCHANGED <<forward, reverse, revoked, issued>>,
         leaked \subseteq leaked', repeated' = repeated,
         \A q \in Requests : q # r => pc'[q] = pc[q] /\ holds'[q] = holds[q],
         holds'[r].new \in {None, holds[r].new},
         holds'[r].prev \in {holds[r].prev, forward, None},
         holds'[r].before \in {holds[r].before, {}, reverse},
         pc'[r] \in Carrying => pc[r] \in Carrying /\ holds'[r].new = holds[r].new,
         pc'[r] \in Early => pc[r] \in Early,
         Gone(r)', Listing(r)',
         \A token \in reverse \ ({forward} \cup leaked') :
           Cleans(r, token) => \E q \in Requests : Cleans(q, token)'
  PROVE  RInv'
<1>1. Flow(r)
  BY DEF Flow
<1> QED
  BY <1>1, RecordStep

\* Where a request is after it has ended, waits to be done, or cleans up.
LEMMA EndOf ==
  ASSUME IInv, NEW r \in Requests, Over(r)
  PROVE  /\ \A q \in Requests : q # r => pc'[q] = pc[q] /\ holds'[q] = holds[q]
         /\ pc'[r] \in {"idle", "joining", "purge"}
         /\ pc'[r] \notin Carrying /\ pc'[r] \notin Early
         /\ holds'[r].new = None /\ holds'[r].prev = None /\ holds'[r].before = {}
         /\ Gone(r)' /\ Listing(r)'
<1>1. PICK step \in {"idle", "joining", "purge"}, h \in Holding :
        /\ pc' = [pc EXCEPT ![r] = step] /\ holds' = [holds EXCEPT ![r] = h]
        /\ h.new = None /\ h.prev = None /\ h.before = {}
  BY OverOf
<1>2. /\ pc'[r] = step /\ holds'[r] = h
      /\ \A q \in Requests : q # r => pc'[q] = pc[q] /\ holds'[q] = holds[q]
  BY <1>1 DEF IInv, TypeOK
<1>3. pc'[r] \notin Carrying /\ pc'[r] \notin Early
  BY <1>2 DEF Carrying, Early, Writing
<1> QED
  BY <1>1, <1>2, <1>3 DEF Gone, Listing

\* Where it is after it has moved on.
LEMMA HopOf ==
  ASSUME IInv, NEW r \in Requests, NEW step, NEW h, To(r, step),
         holds' = [holds EXCEPT ![r] = h]
  PROVE  /\ \A q \in Requests : q # r => pc'[q] = pc[q] /\ holds'[q] = holds[q]
         /\ pc'[r] = step /\ holds'[r] = h
BY DEF To, IInv, TypeOK

\* A request that was not deleting and comes to its end, with no record
\* changed, keeps the records in order.
LEMMA QuietEnd ==
  ASSUME IInv, RInv, NEW r \in Requests, Over(r), pc[r] \notin Deleting,
         UNCHANGED <<forward, reverse, revoked, issued, repeated>>, leaked \subseteq leaked'
  PROVE  RInv'
<1>1. \A token : ~ Cleans(r, token)
  BY DEF Cleans, Deleting
<1> QED
  BY <1>1, EndOf, QuietStep

\* What a deletion leaves behind when it stops is recorded, and somebody else
\* removes the rest.
LEMMA OthersClean ==
  ASSUME NEW r \in Requests, NEW records, NEW token \in records,
         token \notin LeftBehind({r}, records), Cleans(r, token),
         \A q \in Requests : q # r => pc'[q] = pc[q] /\ holds'[q] = holds[q]
  PROVE  \E q \in Requests : Cleans(q, token)'
<1>1. PICK q \in Requests \ {r} : Cleans(q, token)
  BY DEF LeftBehind
<1>2. pc'[q] = pc[q] /\ holds'[q] = holds[q]
  BY <1>1
<1> QED
  BY <1>1, <1>2 DEF Cleans

\* A request that only has its refresh token off its hands, or is marked.
LEMMA BesideStep ==
  ASSUME IInv, RInv, NEW r \in Requests,
         UNCHANGED <<forward, reverse, revoked, issued, leaked, repeated, pc>>,
         NEW h, holds' = [holds EXCEPT ![r] = h],
         h.new = holds[r].new, h.prev = holds[r].prev, h.before = holds[r].before,
         h.keys = holds[r].keys
  PROVE  RInv'
<1>1. /\ \A q \in Requests : q # r => pc'[q] = pc[q] /\ holds'[q] = holds[q]
      /\ pc'[r] = pc[r] /\ holds'[r] = h
  BY DEF IInv, TypeOK
<1>2. Gone(r)' /\ Listing(r)'
  BY <1>1 DEF RInv, Gone, Listing
<1>3. \A token : Cleans(r, token) => Cleans(r, token)'
  BY <1>1 DEF Cleans
<1> QED
  BY <1>1, <1>2, <1>3, QuietStep

\* Beginnings: a logout knows every record there is.
LEMMA BeginRecords ==
  ASSUME IInv, RInv, NEW r \in Requests, NEW p \in Processes, Lookup(r, p) \/ Logout(r, p)
  PROVE  RInv'
<1> DEFINE look == [Nothing EXCEPT !.kind = "refresh"]
           out == [Nothing EXCEPT !.kind = "logout", !.before = reverse, !.left = 3]
<1>1. /\ look.new = None /\ look.prev = None /\ look.before = {}
      /\ out.new = None /\ out.prev = None /\ out.before = reverse
  BY NothingType DEF Nothing
<1> HIDE DEF look, out
<1>2. /\ pc[r] = "idle"
      /\ \/ pc' = [pc EXCEPT ![r] = "known"] /\ holds' = [holds EXCEPT ![r] = look]
         \/ pc' = [pc EXCEPT ![r] = "purge"] /\ holds' = [holds EXCEPT ![r] = out]
      /\ UNCHANGED <<redis, provider, history>>
  BY DEF Lookup, Logout, Begin, Hold, look, out
<1>3. /\ \A q \in Requests : q # r => pc'[q] = pc[q] /\ holds'[q] = holds[q]
      /\ \/ pc'[r] = "known" /\ holds'[r] = look
         \/ pc'[r] = "purge" /\ holds'[r] = out
  BY <1>2 DEF IInv, TypeOK
<1>4. pc'[r] \notin Carrying /\ pc'[r] \notin Early /\ Gone(r)' /\ Listing(r)'
  BY <1>3 DEF Carrying, Early, Writing, Gone, Listing
<1>5. \A token : ~ Cleans(r, token)
  BY <1>2 DEF Cleans, Deleting
<1>6. UNCHANGED <<forward, reverse, revoked, leaked, repeated, issued>>
  BY <1>2 DEF redis, provider, history
<1> QED
  BY <1>1, <1>3, <1>4, <1>5, <1>6, QuietStep

\* Refreshes, up to where they hold the pair they will write, and the refresh
\* token of a login.
LEMMA RefreshRecords ==
  ASSUME IInv, RInv, NEW r \in Requests,
         \/ StartRefresh(r) \/ ReadRefreshToken(r) \/ Refuse(r) \/ DropAnswer(r)
         \/ KeepAnswer(r)
  PROVE  RInv'
<1>1. UNCHANGED <<forward, reverse, revoked, leaked, repeated, issued>>
  BY DEF StartRefresh, ReadRefreshToken, Refuse, DropAnswer, KeepAnswer,
         redis, provider, history
<1>2. pc[r] \in {"known", "readRefresh", "call", "answered"}
  BY DEF StartRefresh, ReadRefreshToken, Refuse, DropAnswer, KeepAnswer
<1>3. pc[r] \notin Deleting /\ \A token : ~ Cleans(r, token)
  BY <1>2 DEF Deleting, Cleans
<1>4. CASE End(r)
  BY <1>1, <1>3, <1>4, QuietEnd DEF Over
<1>5. ASSUME NEW step \in {"readRefresh", "call", "access"}, NEW h, To(r, step),
             holds' = [holds EXCEPT ![r] = h],
             h.new = holds[r].new, h.prev = holds[r].prev, h.before = holds[r].before,
             step = "access" => pc[r] = "answered"
      PROVE  RInv'
  <2>1. pc'[r] = step /\ holds'[r] = h
        /\ \A q \in Requests : q # r => pc'[q] = pc[q] /\ holds'[q] = holds[q]
    BY <1>5, HopOf
  <2>2. /\ Gone(r)' /\ Listing(r)'
        /\ pc'[r] \in Carrying => pc[r] \in Carrying
        /\ pc'[r] \in Early => pc[r] \in Early
    BY <1>5, <2>1 DEF Gone, Listing, Carrying, Early, Writing
  <2> QED
    BY <1>1, <1>3, <1>5, <2>1, <2>2, QuietStep
<1>6. holds = [holds EXCEPT ![r] = holds[r]]
  BY DEF IInv, TypeOK
<1>7. CASE StartRefresh(r) /\ ~ End(r)
  <2>1. To(r, "readRefresh") /\ UNCHANGED holds
    BY <1>7 DEF StartRefresh
  <2> QED
    BY <1>5, <1>6, <2>1
<1>8. CASE ReadRefreshToken(r) /\ ~ End(r)
  <2> DEFINE h == [holds[r] EXCEPT !.old = refresh]
  <2>1. To(r, "call") /\ holds' = [holds EXCEPT ![r] = h]
    BY <1>8 DEF ReadRefreshToken, Hold
  <2>2. h.new = holds[r].new /\ h.prev = holds[r].prev /\ h.before = holds[r].before
    BY DEF IInv, TypeOK, Holding
  <2> HIDE DEF h
  <2> QED
    BY <1>5, <2>1, <2>2
<1>9. CASE KeepAnswer(r)
  <2>1. To(r, "access") /\ UNCHANGED holds /\ pc[r] = "answered"
    BY <1>9 DEF KeepAnswer
  <2> QED
    BY <1>5, <1>6, <2>1
<1> QED
  BY <1>4, <1>7, <1>8, <1>9 DEF Refuse, DropAnswer

\* The refresh token of a login touches no record of an access token.
LEMMA StoredRecords ==
  ASSUME IInv, RInv, NEW r \in Requests, holds[r].storing # None, Stored(r),
         UNCHANGED <<forward, reverse, revoked, issued, leaked, repeated>>
  PROVE  RInv'
<1>1. CASE pc[r] = "joining"
  <2>1. Over(r) /\ pc[r] \notin Deleting
    BY <1>1 DEF Stored, Over, Deleting
  <2> QED
    BY <2>1, QuietEnd
<1>2. CASE pc[r] # "joining"
  <2> DEFINE h == [holds[r] EXCEPT !.storing = None]
  <2>1. holds' = [holds EXCEPT ![r] = h] /\ UNCHANGED pc
    BY <1>2 DEF Stored, Hold
  <2>2. /\ h.new = holds[r].new /\ h.prev = holds[r].prev /\ h.before = holds[r].before
        /\ h.keys = holds[r].keys
    BY DEF IInv, TypeOK, Holding
  <2> HIDE DEF h
  <2> QED
    BY <2>1, <2>2, BesideStep
<1> QED
  BY <1>1, <1>2

\* A new pair is in no record and in no other request's hands.
LEMMA IssueRecords ==
  ASSUME IInv, RInv, NEW r \in Requests,
         Provide(r) \/ \E p \in Processes : Login(r, p)
  PROVE  RInv'
<1>1. /\ issued' = issued + 1 /\ issued \in Nat
      /\ UNCHANGED <<forward, reverse, revoked, leaked, repeated>>
      /\ pc[r] \in {"idle", "call"} /\ pc'[r] \in {"access", "answered"}
  <2>1. issued' = issued + 1 /\ issued \in Nat
    BY TokenNumbers DEF Provide, Login, IInv
  <2>2. pc[r] \in {"idle", "call"} /\ pc'[r] \in {"access", "answered"}
    BY DEF Provide, Login, Begin, To, IInv, TypeOK
  <2>3. UNCHANGED <<forward, reverse, revoked, leaked, repeated>>
    BY DEF Provide, Login, redis, history
  <2> QED
    BY <2>1, <2>2, <2>3
<1>2. PICK h \in Holding :
        /\ holds' = [holds EXCEPT ![r] = h] /\ h.new = issued'
        /\ h.prev \in {None, holds[r].prev} /\ h.before \in {{}, holds[r].before}
  <2>1. issued' \in Tokens
    <3>1. issued < MaxTokens
      BY DEF Provide, Login
    <3> QED
      BY <1>1, <3>1, BoundsAssumption DEF Tokens
  <2>2. CASE Provide(r)
    <3>1. PICK rotated \in BOOLEAN : Hold(r, [holds[r] EXCEPT !.new = issued', !.rotated = rotated])
      BY <2>2 DEF Provide
    <3> DEFINE h == [holds[r] EXCEPT !.new = issued', !.rotated = rotated]
    <3>2. h \in Holding /\ h.new = issued' /\ h.prev = holds[r].prev /\ h.before = holds[r].before
      BY <2>1, TokensArePositive DEF IInv, TypeOK, Holding
    <3> QED
      BY <3>1, <3>2 DEF Hold
  <2>3. CASE \E p \in Processes : Login(r, p)
    <3> DEFINE h == [Nothing EXCEPT !.kind = "login", !.new = issued', !.storing = issued']
    <3>1. h \in Holding /\ h.new = issued' /\ h.prev = None /\ h.before = {}
      BY <2>1, NothingType, TokensArePositive DEF Holding
    <3>2. holds' = [holds EXCEPT ![r] = h]
      BY <2>3 DEF Login, Begin, Hold
    <3> QED
      BY <3>1, <3>2
  <2> QED
    BY <2>2, <2>3
<1>3. /\ holds'[r] = h
      /\ \A q \in Requests : q # r => pc'[q] = pc[q] /\ holds'[q] = holds[q]
  BY <1>2 DEF Provide, Login, Begin, To, IInv, TypeOK
<1>4. /\ forward \in Nat /\ reverse \subseteq Nat /\ revoked \subseteq Nat
      /\ \A q \in Requests : /\ holds[q].new \in Nat /\ holds[q].prev \in Nat
                             /\ holds[q].before \subseteq Nat /\ holds[q].new <= issued
  BY TokenNumbers DEF IInv, Unused
<1>5. Distinct'
  <2>1. \A q \in Requests : q # r => holds'[q].new = holds[q].new /\ holds'[q].new # issued'
    BY <1>1, <1>3, <1>4
  <2>2. holds'[r].new = issued'
    BY <1>2, <1>3
  <2> QED
    BY <2>1, <2>2 DEF RInv, Distinct
<1>6. /\ forward <= issued /\ \A token \in reverse \cup revoked : token <= issued
      /\ \A q \in Requests : /\ holds'[q].prev \in Nat /\ holds'[q].prev <= issued
                             /\ holds'[q].before \subseteq Nat
                             /\ \A token \in holds'[q].before : token <= issued
  BY <1>1, <1>2, <1>3, <1>4 DEF RInv, Issued, None
<1>7. Issued'
  <2>1. UNCHANGED <<forward, reverse, revoked>> /\ issued' = issued + 1 /\ issued \in Nat
    BY <1>1
  <2>2. \A n \in Nat : n <= issued => n <= issued'
    BY <2>1
  <2>3. forward' <= issued'
    BY <1>4, <1>6, <2>1, <2>2
  <2>4. ASSUME NEW token \in reverse' \cup revoked' PROVE token <= issued'
    <3>1. token \in Nat /\ token <= issued
      BY <1>4, <1>6, <2>1
    <3> QED
      BY <2>2, <3>1
  <2>5. ASSUME NEW q \in Requests
        PROVE  holds'[q].prev <= issued' /\ \A token \in holds'[q].before : token <= issued'
    BY <1>6, <2>2
  <2> QED
    BY <2>3, <2>4, <2>5 DEF Issued
<1>8. Unwritten(r)' /\ Unseen(r)'
  <2>1. /\ issued' \notin reverse \cup revoked /\ issued' # forward
        /\ \A q \in Requests : issued' \notin holds'[q].before /\ issued' # holds'[q].prev
    BY <1>1, <1>4, <1>6
  <2> QED
    BY <1>1, <1>2, <1>3, <2>1 DEF Unwritten, Unseen
<1>9. ASSUME NEW q \in Requests, q # r PROVE Unwritten(q)' /\ Unseen(q)'
  <2>1. \A other \in Requests : /\ holds'[other].before \in {{}, holds[other].before}
                                /\ holds'[other].prev \in {None, holds[other].prev}
    BY <1>2, <1>3
  <2>2. Unwritten(q)'
    BY <1>1, <1>3, <1>9, <2>1 DEF RInv, Unwritten
  <2>3. Unseen(q)'
    <3>1. pc[q] \in Early => holds[q].new # None
      BY CarriedOf DEF Early, Carrying, Writing
    <3> QED
      BY <1>1, <1>3, <1>9, <2>1, <3>1 DEF RInv, Unseen
  <2> QED
    BY <2>2, <2>3
<1>10. \A q \in Requests : Gone(q)' /\ Listing(q)'
  BY <1>1, <1>3 DEF RInv, Gone, Listing
<1>11. OneUsableToken'
  <2>1. SUFFICES ASSUME NEW token \in reverse' \ ({forward'} \cup leaked')
                 PROVE  \E q \in Requests : Cleans(q, token)'
    BY DEF OneUsableToken
  <2>2. PICK q \in Requests : Cleans(q, token)
    BY <1>1 DEF RInv, OneUsableToken
  <2>3. q # r
    BY <1>1, <2>2 DEF Cleans, Deleting
  <2> QED
    BY <1>3, <2>2, <2>3 DEF Cleans
<1>12. LogoutRevokes'
  BY <1>1 DEF RInv, LogoutRevokes
<1> QED
  BY <1>5, <1>7, <1>8, <1>9, <1>10, <1>11, <1>12 DEF RInv

\* A write that leaves the records alone.
LEMMA WriteOnRecords ==
  ASSUME IInv, RInv, NEW r \in Requests, ReadForward(r) \/ CheckForward(r)
  PROVE  RInv'
<1>1. pc[r] \in Writing /\ pc[r] # "setReverse" /\ pc[r] \in Carrying
  BY DEF ReadForward, CheckForward, Writing, Carrying
<1>2. pc[r] \notin Deleting /\ \A token : ~ Cleans(r, token)
  BY <1>1 DEF Writing, Deleting, Cleans
<1>3. UNCHANGED <<forward, reverse, revoked, leaked, repeated, issued>>
  BY DEF ReadForward, CheckForward, redis, provider, history
<1>4. CASE ReadForward(r)
  <2> DEFINE h == [holds[r] EXCEPT !.prev = forward]
  <2>1. h.new = holds[r].new /\ h.prev = forward /\ h.before = holds[r].before
    BY DEF IInv, TypeOK, Holding
  <2>2. To(r, "swap") /\ holds' = [holds EXCEPT ![r] = h] /\ pc[r] \in Early
    BY <1>4 DEF ReadForward, Hold, Early
  <2> HIDE DEF h
  <2>3. pc'[r] = "swap" /\ holds'[r] = h
        /\ \A q \in Requests : q # r => pc'[q] = pc[q] /\ holds'[q] = holds[q]
    BY <2>2, HopOf
  <2>4. Gone(r)' /\ Listing(r)'
    BY <2>3 DEF Gone, Listing
  <2> QED
    BY <1>1, <1>2, <1>3, <2>1, <2>2, <2>3, <2>4, QuietStep
<1>5. CASE CheckForward(r) /\ ~ Finish(r)
  <2>1. PICK step \in {"delete", "setForward"} :
          To(r, step) /\ (step = "setForward" => pc[r] = "recheck")
    BY <1>5 DEF CheckForward
  <2>2. UNCHANGED holds /\ holds = [holds EXCEPT ![r] = holds[r]]
    BY <1>5 DEF CheckForward, IInv, TypeOK
  <2>3. pc'[r] = step /\ holds'[r] = holds[r]
        /\ \A q \in Requests : q # r => pc'[q] = pc[q] /\ holds'[q] = holds[q]
    BY <2>1, <2>2, HopOf
  <2>4. Gone(r)' /\ Listing(r)' /\ pc'[r] \notin Early
    BY <1>3, <2>1, <2>2, <2>3 DEF RInv, Gone, Listing, Early
  <2> QED
    BY <1>1, <1>2, <1>3, <2>2, <2>3, <2>4, QuietStep
<1>6. CASE CheckForward(r) /\ Finish(r)
  <2>1. Over(r)
    BY <1>6 DEF Finish, Leave, Over
  <2> QED
    BY <1>2, <1>3, <2>1, QuietEnd
<1> QED
  BY <1>4, <1>5, <1>6

\* The script: the current token changes together with the record of the old
\* one, and a token that is overwritten unseen is recorded as left behind.
LEMMA ScriptKeeps ==
  ASSUME IInv, RInv, NEW r \in Requests, pc[r] = "swap", Script(r)
  PROVE  /\ \A q \in Requests : holds[q].prev # holds[r].new
         /\ leaked \subseteq leaked'
         /\ reverse' \ ({forward'} \cup leaked') \subseteq reverse \ ({forward} \cup leaked)
         /\ reverse' \subseteq reverse \cup {holds[r].new}
         /\ forward' \in {forward, holds[r].new}
<1>1. \A q \in Requests : holds[q].prev # holds[r].new
  BY DEF RInv, Unseen, Early
<1>2. None \notin reverse
  BY TokensArePositive DEF IInv, TypeOK
<1> QED
  BY <1>1, <1>2 DEF Script, Swaps

\* The script whose answer is lost, and the writes one by one after it.
LEMMA FallBackRecords ==
  ASSUME IInv, RInv, NEW r \in Requests, FallBack(r)
  PROVE  RInv'
<1> DEFINE step == IF holds[r].prev = None THEN "setForward" ELSE "check"
<1>1. /\ pc[r] = "swap" /\ pc[r] \in Carrying
      /\ issued' = issued /\ revoked' = revoked
      /\ To(r, step) /\ UNCHANGED holds /\ holds = [holds EXCEPT ![r] = holds[r]]
  BY DEF FallBack, Carrying, Writing, provider, IInv, TypeOK
<1>2. \A token : ~ Cleans(r, token)
  BY <1>1 DEF Deleting, Cleans
<1>3. pc'[r] = step /\ holds'[r] = holds[r]
      /\ \A q \in Requests : q # r => pc'[q] = pc[q] /\ holds'[q] = holds[q]
  BY <1>1, HopOf
<1>4. reverse' \subseteq Tokens => Gone(r)' /\ Listing(r)'
  BY <1>3, TokensArePositive DEF Gone, Listing
<1>5. pc'[r] \notin Early
  BY <1>3 DEF Early
<1>6. CASE UNCHANGED <<forward, reverse, leaked, repeated>>
  <2>1. Gone(r)' /\ Listing(r)'
    BY <1>4, <1>6 DEF IInv, TypeOK
  <2> QED
    BY <1>1, <1>2, <1>3, <1>5, <1>6, <2>1, QuietStep
<1>7. CASE Script(r) /\ repeated' = repeated \cup {holds[r].new}
  <2>1. Gone(r)' /\ Listing(r)'
    BY <1>1, <1>4, <1>7, CarriedOf, ScriptKeeps DEF IInv, TypeOK
  <2>2. Flow(r)
    BY <1>1, <1>3, <1>5, <1>7, ScriptKeeps DEF Flow
  <2> QED
    BY <1>1, <1>2, <1>3, <1>5, <1>7, <2>1, <2>2, ScriptKeeps, RecordStep
<1> QED
  BY <1>6, <1>7 DEF FallBack

\* The writes themselves: the current token changes together with the record
\* of the old one, or after that record is gone.
LEMMA WriteRecords ==
  ASSUME IInv, RInv, NEW r \in Requests,
         Swap(r) \/ DeleteReverse(r) \/ SetForward(r) \/ SetReverse(r)
  PROVE  RInv'
<1>1. pc[r] \in {"swap", "delete", "setForward", "setReverse"}
  BY DEF Swap, DeleteReverse, SetForward, SetReverse
<1>2. pc[r] \in Carrying /\ pc[r] \notin Deleting /\ \A token : ~ Cleans(r, token)
  BY <1>1 DEF Writing, Carrying, Deleting, Cleans
<1>3. /\ issued' = issued /\ revoked' = revoked /\ repeated' = repeated
      /\ leaked \subseteq leaked'
  <2>1. issued' = issued /\ revoked' = revoked /\ repeated' = repeated
    BY DEF Swap, DeleteReverse, SetForward, SetReverse, provider, history
  <2>2. leaked \subseteq leaked'
    BY DEF Swap, Script, DeleteReverse, SetForward, SetReverse, history
  <2> QED
    BY <2>1, <2>2
<1>4. holds = [holds EXCEPT ![r] = holds[r]]
  BY DEF IInv, TypeOK
<1>5. CASE Swap(r)
  <2>1. pc[r] = "swap" /\ Script(r) /\ Over(r)
    BY <1>5 DEF Swap, Finish, Leave, Over
  <2>2. Flow(r)
    BY <1>2, <1>3, <2>1, EndOf, ScriptKeeps DEF Flow
  <2>3. pc'[r] \notin Carrying /\ pc'[r] \notin Early /\ Gone(r)' /\ Listing(r)'
    BY <2>1, EndOf
  <2> QED
    BY <1>2, <1>3, <2>1, <2>2, <2>3, ScriptKeeps, RecordStep
<1>6. CASE DeleteReverse(r)
  <2>1. /\ To(r, "recheck") /\ UNCHANGED holds /\ forward' = forward
        /\ reverse' = reverse \ {holds[r].prev}
    BY <1>6 DEF DeleteReverse
  <2>2. pc'[r] = "recheck" /\ holds'[r] = holds[r]
        /\ \A q \in Requests : q # r => pc'[q] = pc[q] /\ holds'[q] = holds[q]
    BY <1>4, <2>1, HopOf
  <2>3. Flow(r) /\ pc'[r] \notin Early
    BY <1>2, <1>3, <2>1, <2>2 DEF Flow, Early
  <2>4. Gone(r)' /\ Listing(r)'
    BY <2>1, <2>2 DEF Gone, Listing
  <2> QED
    BY <1>2, <1>3, <2>1, <2>3, <2>4, RecordStep
<1>7. CASE SetForward(r)
  <2>1. /\ To(r, "setReverse") /\ UNCHANGED <<holds, reverse>> /\ forward' = holds[r].new
        /\ leaked' = leaked \cup ({forward} \ {None, holds[r].prev, holds[r].new})
    BY <1>7 DEF SetForward
  <2>2. pc'[r] = "setReverse" /\ holds'[r] = holds[r]
        /\ \A q \in Requests : q # r => pc'[q] = pc[q] /\ holds'[q] = holds[q]
    BY <1>4, <2>1, HopOf
  <2>3. Flow(r) /\ pc'[r] \notin Early
    BY <1>2, <1>3, <2>1, <2>2 DEF Flow, Early
  <2>4. Gone(r)' /\ Listing(r)'
    BY <2>2 DEF Gone, Listing
  <2>5. reverse' \ ({forward'} \cup leaked') \subseteq reverse \ ({forward} \cup leaked)
    <3>1. holds[r].prev \notin reverse \ leaked
      BY <1>7 DEF RInv, Gone, SetForward
    <3>2. None \notin reverse
      BY TokensArePositive DEF IInv, TypeOK
    <3> QED
      BY <2>1, <3>1, <3>2
  <2> QED
    BY <1>2, <1>3, <2>1, <2>2, <2>3, <2>4, <2>5, RecordStep
<1>8. CASE SetReverse(r)
  <2>1. /\ Over(r) /\ forward' = forward /\ reverse' = reverse \cup {holds[r].new}
        /\ holds[r].new \in leaked' \/ (~ Overtaken(r) /\ ~ Late(r))
    BY <1>8 DEF SetReverse, Finish, Leave, Over
  <2>2. Flow(r)
    BY <1>2, <1>3, <2>1, EndOf DEF Flow
  <2>3. pc'[r] \notin Carrying /\ pc'[r] \notin Early /\ Gone(r)' /\ Listing(r)'
    BY <2>1, EndOf
  <2>4. \/ holds[r].new \in leaked'
        \/ \A q \in Requests : pc[q] \in {"recheck", "setForward"} => holds[q].prev # holds[r].new
    BY <2>1 DEF Overtaken
  <2>5. ASSUME NEW token \in reverse' \ ({forward'} \cup leaked'),
               token \notin reverse \ ({forward} \cup leaked)
        PROVE  \E q \in Requests : Cleans(q, token)'
    <3>1. token = holds[r].new /\ token # forward /\ ~ Late(r)
      BY <1>3, <2>1, <2>5
    <3>2. PICK q \in Requests : Cleans(q, token)
      BY <3>1 DEF Late
    <3>3. pc'[q] = pc[q] /\ holds'[q] = holds[q]
      BY <1>2, <2>2, <3>2 DEF Flow
    <3> QED
      BY <3>2, <3>3 DEF Cleans
  <2> QED
    BY <1>2, <1>3, <2>2, <2>3, <2>4, <2>5, RecordStep
<1> QED
  BY <1>5, <1>6, <1>7, <1>8

\* Deletions: whoever removes the current token goes on to remove the records
\* of all others, and a sweep that ends has removed what it listed.
LEMMA DeleteRecords ==
  ASSUME IInv, RInv, NEW r \in Requests, Deletes(r)
  PROVE  RInv'
<1>1. pc[r] \in Deleting
  BY DEF Deletes, Purge, PurgeKeys, Verify, GiveUp, Sweep, SweepKeys, Deleting
<1>2. pc[r] \notin Carrying
  BY <1>1 DEF Deleting, Carrying, Writing
<1>3. issued' = issued
  BY DEF Deletes, Purge, PurgeKeys, Verify, GiveUp, Sweep, SweepKeys, provider
<1>4. holds = [holds EXCEPT ![r] = holds[r]]
  BY DEF IInv, TypeOK
<1>5. ASSUME NEW step \in Deleting \ {"sweepKeys"}, NEW h, To(r, step),
             holds' = [holds EXCEPT ![r] = h],
             h.new = holds[r].new, h.before = holds[r].before,
             h.prev \in {holds[r].prev, forward},
             UNCHANGED <<forward, reverse, revoked, leaked, repeated>>
      PROVE  RInv'
  <2>1. pc'[r] = step /\ holds'[r] = h
        /\ \A q \in Requests : q # r => pc'[q] = pc[q] /\ holds'[q] = holds[q]
    BY <1>5, HopOf
  <2>2. pc'[r] \notin Carrying /\ pc'[r] \notin Early /\ Gone(r)' /\ Listing(r)'
    BY <2>1 DEF Deleting, Carrying, Early, Writing, Gone, Listing
  <2>3. \A token : Cleans(r, token)'
    BY <2>1 DEF Cleans
  <2> QED
    BY <1>3, <1>5, <2>1, <2>2, <2>3, QuietStep
<1>6. CASE Purge(r)
  <2> DEFINE h == [holds[r] EXCEPT !.prev = forward, !.left = @ - 1]
  <2>1. h.new = holds[r].new /\ h.prev = forward /\ h.before = holds[r].before
    BY DEF IInv, TypeOK, Holding
  <2>2. /\ To(r, "purgeKeys") /\ holds' = [holds EXCEPT ![r] = h]
        /\ UNCHANGED <<forward, reverse, revoked, leaked, repeated>>
    BY <1>6 DEF Purge, Hold, redis, history
  <2>3. "purgeKeys" \in Deleting \ {"sweepKeys"}
    BY DEF Deleting
  <2> HIDE DEF h
  <2> QED
    BY <1>5, <2>1, <2>2, <2>3
<1>7. CASE Verify(r)
  <2> DEFINE h == [holds[r] EXCEPT !.prev = forward]
  <2>1. h.new = holds[r].new /\ h.prev = forward /\ h.before = holds[r].before
    BY DEF IInv, TypeOK, Holding
  <2>2. UNCHANGED <<forward, reverse, revoked, leaked, repeated>>
    BY <1>7 DEF Verify, redis, history
  <2>3. PICK step \in {"sweep", "purge", "giveUp"} :
          To(r, step) /\ (UNCHANGED holds \/ holds' = [holds EXCEPT ![r] = h])
    BY <1>7 DEF Verify, Hold
  <2>4. step \in Deleting \ {"sweepKeys"}
    BY DEF Deleting
  <2> HIDE DEF h
  <2> QED
    BY <1>4, <1>5, <2>1, <2>2, <2>3, <2>4
<1>8. CASE Sweep(r)
  <2> DEFINE h == [holds[r] EXCEPT !.keys = reverse]
  <2>1. /\ h.new = holds[r].new /\ h.prev = holds[r].prev /\ h.before = holds[r].before
        /\ h.keys = reverse
    BY DEF IInv, TypeOK, Holding
  <2>2. /\ To(r, "sweepKeys") /\ holds' = [holds EXCEPT ![r] = h]
        /\ UNCHANGED <<forward, reverse, revoked, leaked, repeated>>
    BY <1>8 DEF Sweep, Listed, Hold, redis, history
  <2> HIDE DEF h
  <2>3. pc'[r] = "sweepKeys" /\ holds'[r] = h
        /\ \A q \in Requests : q # r => pc'[q] = pc[q] /\ holds'[q] = holds[q]
    BY <2>2, HopOf
  <2>4. pc'[r] \notin Carrying /\ pc'[r] \notin Early /\ Gone(r)' /\ Listing(r)'
    BY <2>1, <2>2, <2>3 DEF Carrying, Early, Writing, Gone, Listing
  <2>5. \A token \in reverse : Cleans(r, token)'
    BY <2>1, <2>3 DEF Cleans
  <2> QED
    BY <1>3, <2>1, <2>2, <2>3, <2>4, <2>5, QuietStep
<1>9. CASE PurgeKeys(r)
  <2>1. /\ To(r, "verify") /\ UNCHANGED holds /\ forward' = None
        /\ reverse' = reverse \ {holds[r].prev} /\ UNCHANGED <<revoked, leaked, repeated>>
    BY <1>9 DEF PurgeKeys, history
  <2>2. pc'[r] = "verify" /\ holds'[r] = holds[r]
        /\ \A q \in Requests : q # r => pc'[q] = pc[q] /\ holds'[q] = holds[q]
    BY <1>4, <2>1, HopOf
  <2>3. pc'[r] \notin Carrying /\ pc'[r] \notin Early /\ Gone(r)' /\ Listing(r)'
    BY <2>2 DEF Carrying, Early, Writing, Gone, Listing
  <2>4. \A token : Cleans(r, token)'
    BY <2>2 DEF Cleans, Deleting
  <2>5. Flow(r)
    BY <1>2, <1>3, <2>1, <2>2, <2>3 DEF Flow
  <2> QED
    BY <2>1, <2>3, <2>4, <2>5, RecordStep
<1>10. CASE GiveUp(r) \/ SweepKeys(r)
  <2>1. /\ Over(r) /\ reverse' \subseteq reverse /\ forward' \in {forward, None}
        /\ revoked' \subseteq revoked \cup holds[r].before
        /\ leaked \subseteq leaked' /\ repeated' = repeated
    BY <1>10 DEF GiveUp, SweepKeys, Leave, Over
  <2>2. /\ pc'[r] \notin Carrying /\ pc'[r] \notin Early /\ Gone(r)' /\ Listing(r)' /\ Flow(r)
    BY <1>2, <1>3, <2>1, EndOf DEF Flow
  <2>3. CASE GiveUp(r)
    <3>1. /\ pc[r] = "giveUp" /\ revoked' = revoked
          /\ leaked' = leaked \cup LeftBehind({r}, reverse')
      BY <2>3 DEF GiveUp
    <3>2. \A token : Cleans(r, token)
      BY <3>1 DEF Cleans, Deleting
    <3>3. \A token \in reverse' \ leaked' : \E q \in Requests : Cleans(q, token)'
      BY <2>1, <3>1, <3>2, EndOf, OthersClean
    <3> QED
      BY <2>1, <2>2, <3>1, <3>3, RecordStep
  <2>4. CASE SweepKeys(r)
    <3>1. /\ pc[r] = "sweepKeys" /\ forward' = forward /\ leaked' = leaked
          /\ reverse' = reverse \ holds[r].keys
      BY <2>4 DEF SweepKeys
    <3>2. reverse' \cap holds[r].before \subseteq repeated'
      BY <2>1, <3>1 DEF RInv, Listing
    <3>3. \A token \in reverse' : ~ Cleans(r, token)
      BY <3>1 DEF Cleans
    <3> QED
      BY <2>1, <2>2, <3>1, <3>2, <3>3, RecordStep
  <2> QED
    BY <1>10, <2>3, <2>4
<1> QED
  BY <1>6, <1>7, <1>8, <1>9, <1>10 DEF Deletes

\* A failed command of a deletion may leave records behind, which are recorded;
\* of a write, the records are as they were.
LEMMA FailRecords ==
  ASSUME IInv, RInv, NEW r \in Requests, Fail(r)
  PROVE  RInv'
<1>1. UNCHANGED <<forward, reverse, revoked, issued, repeated>>
  BY DEF Fail, redis, provider
<1>2. CASE StoreFails(r) /\ leaked' = leaked
  <2>1. CASE Kind(r) \in {"failed", "cleanup"} /\ holds[r].storing # None /\ Stored(r)
    BY <1>1, <1>2, <2>1, StoredRecords
  <2>2. ASSUME NEW storing, pc[r] = "joining", CleanUp(r, storing),
               storing \in {None, holds[r].storing}
        PROVE  RInv'
    <3>1. Over(r) /\ pc[r] \notin Deleting
      BY <2>2 DEF Over, Deleting
    <3> QED
      BY <1>1, <1>2, <3>1, QuietEnd
  <2>3. ASSUME NEW storing, UNCHANGED pc,
               Hold(r, [holds[r] EXCEPT !.kind = "failed", !.storing = storing])
        PROVE  RInv'
    <3> DEFINE h == [holds[r] EXCEPT !.kind = "failed", !.storing = storing]
    <3>1. /\ h.new = holds[r].new /\ h.prev = holds[r].prev /\ h.before = holds[r].before
          /\ h.keys = holds[r].keys
      BY DEF IInv, TypeOK, Holding
    <3>2. holds' = [holds EXCEPT ![r] = h]
      BY <2>3 DEF Hold
    <3> HIDE DEF h
    <3> QED
      BY <1>1, <1>2, <2>3, <3>1, <3>2, BesideStep
  <2> QED
    BY <1>2, <2>1, <2>2, <2>3 DEF StoreFails
<1>3. CASE pc[r] \in Writing /\ (End(r) \/ CleanUp(r, holds[r].storing)) /\ leaked' = leaked
  <2>1. Over(r) /\ pc[r] \notin Deleting
    BY <1>3 DEF Over, Writing, Deleting
  <2> QED
    BY <1>1, <1>3, <2>1, QuietEnd
<1>4. CASE Leave(r) /\ leaked' = leaked \cup LeftBehind({r}, reverse \ {forward})
  <2>1. Over(r)
    BY <1>4 DEF Leave, Over
  <2>2. \A token \in reverse \ ({forward} \cup leaked') :
          Cleans(r, token) => \E q \in Requests : Cleans(q, token)'
    BY <1>4, <2>1, EndOf, OthersClean
  <2> QED
    BY <1>1, <1>4, <2>1, <2>2, EndOf, QuietStep
<1> QED
  BY <1>2, <1>3, <1>4 DEF Fail

\* A crash drops requests; what only deletions among them were going to remove
\* is recorded as left behind.
LEMMA CrashRecords ==
  ASSUME IInv, RInv, NEW p \in Processes, Crash(p)
  PROVE  RInv'
<1> DEFINE mine == { r \in Requests : pc[r] # "idle" /\ Process(r) = p }
<1>1. /\ pc' = [r \in Requests |-> IF r \in mine THEN "idle" ELSE pc[r]]
      /\ holds' = [r \in Requests |-> IF r \in mine THEN Nothing ELSE holds[r]]
  BY DEF Crash
<1>2. /\ UNCHANGED <<forward, reverse, revoked, issued, repeated>>
      /\ leaked' = leaked \cup LeftBehind(mine, reverse \ {forward})
  BY DEF Crash, redis, provider
<1>3. \A r \in Requests : \/ pc'[r] = pc[r] /\ holds'[r] = holds[r] /\ r \notin mine
                          \/ pc'[r] = "idle" /\ holds'[r] = Nothing /\ r \in mine
  BY <1>1
<1> HIDE DEF mine
<1>4. Distinct'
  BY <1>3, NothingType DEF RInv, Distinct
<1>5. Issued'
  <2>1. None <= issued
    BY TokenNumbers DEF IInv, None
  <2>2. ASSUME NEW r \in Requests
        PROVE  /\ holds'[r].prev \in {None, holds[r].prev}
               /\ holds'[r].before \subseteq holds[r].before
    BY <1>3, NothingType
  <2> QED
    BY <1>2, <2>1, <2>2 DEF RInv, Issued
<1>6. ASSUME NEW q \in Requests PROVE Unwritten(q)' /\ Unseen(q)' /\ Gone(q)' /\ Listing(q)'
  <2>1. CASE pc'[q] = "idle"
    BY <2>1 DEF Unwritten, Unseen, Gone, Listing, Carrying, Early, Writing
  <2>2. CASE pc'[q] # "idle"
    <3>1. pc'[q] = pc[q] /\ holds'[q] = holds[q]
      BY <1>3, <2>2
    <3>2. \A r \in Requests : /\ holds'[r].before \in {{}, holds[r].before}
                              /\ holds'[r].prev \in {None, holds[r].prev}
      BY <1>3, NothingType
    <3>3. pc[q] \in Early => holds[q].new # None
      BY CarriedOf DEF Early, Carrying, Writing
    <3>4. Unwritten(q)' /\ Unseen(q)'
      BY <1>2, <3>1, <3>2, <3>3 DEF RInv, Unwritten, Unseen
    <3>5. Gone(q)' /\ Listing(q)'
      BY <1>2, <3>1 DEF RInv, Gone, Listing
    <3> QED
      BY <3>4, <3>5
  <2> QED
    BY <2>1, <2>2
<1>7. OneUsableToken'
  <2>1. SUFFICES ASSUME NEW token \in reverse' \ ({forward'} \cup leaked')
                 PROVE  \E q \in Requests : Cleans(q, token)'
    BY DEF OneUsableToken
  <2>2. PICK q \in Requests \ mine : Cleans(q, token)
    <3>1. PICK r \in Requests : Cleans(r, token)
      BY <1>2 DEF RInv, OneUsableToken
    <3>2. token \in reverse \ {forward} /\ token \notin LeftBehind(mine, reverse \ {forward})
      BY <1>2
    <3> QED
      BY <3>1, <3>2 DEF LeftBehind
  <2> QED
    BY <1>3, <2>2 DEF Cleans
<1>8. LogoutRevokes'
  BY <1>2 DEF RInv, LogoutRevokes
<1> QED
  BY <1>4, <1>5, <1>6, <1>7, <1>8 DEF RInv

\* Time passing changes no record.
LEMMA OvertimeRecords ==
  ASSUME RInv, UNCHANGED <<redis, requests, provider, history>>
  PROVE  RInv'
BY DEF RInv, Distinct, Issued, OneUsableToken, LogoutRevokes, Unwritten, Unseen, Gone,
       Listing, Cleans, redis, requests, provider, history

\* Every step keeps the second invariant.
LEMMA NextRInv == IInv /\ RInv /\ [Next]_vars => RInv'
<1> SUFFICES ASSUME IInv, RInv, [Next]_vars PROVE RInv'
  OBVIOUS
<1>1. CASE UNCHANGED vars
  BY <1>1, OvertimeRecords DEF vars
<1>2. ASSUME NEW p \in Processes, Overtime(p) PROVE RInv'
  BY <1>2, OvertimeRecords DEF Overtime
<1>3. ASSUME NEW r \in Requests, Refreshes(r) PROVE RInv'
  BY <1>3, RefreshRecords, IssueRecords DEF Refreshes
<1>4. ASSUME NEW r \in Requests, WriteRefreshToken(r) PROVE RInv'
  BY <1>4, StoredRecords DEF WriteRefreshToken, provider, history
<1>5. ASSUME NEW r \in Requests, Writes(r) PROVE RInv'
  BY <1>4, <1>5, FallBackRecords, WriteOnRecords, WriteRecords DEF Writes
<1>6. ASSUME NEW r \in Requests, NEW p \in Processes, Lookup(r, p) \/ Login(r, p) \/ Logout(r, p)
      PROVE  RInv'
  BY <1>6, BeginRecords, IssueRecords
<1> QED
  BY <1>1, <1>2, <1>3, <1>5, <1>6, DeleteRecords, FailRecords, CrashRecords DEF Next

\* The second invariant always holds.
LEMMA AlwaysRInv == Spec => []RInv
BY InitRInv, NextRInv, AlwaysIInv, PTL DEF Spec

----------------------------------------------------------------------------
\* Every bearer of an e-mail that is trusted besides the current one is about
\* to be removed by a deletion, or is itself one of those left behind: written
\* over by a write that saw none, written late, or abandoned by a deletion that
\* stopped.  An incident with one token excuses no other token
\* (setUiOidcAccessTokenRecord and both deletions).
THEOREM OneTokenIsUsable == Spec => []OneUsableToken
<1>1. RInv => OneUsableToken
  BY DEF RInv
<1> QED
  BY <1>1, AlwaysRInv, PTL

\* What was usable when a logout began is usable no more once it has swept, in
\* any process, whatever refreshes, logins, other deletions, failures and
\* crashes come between, except a token whose own write is done a second time
\* because the script that did it gave no answer (deleteUiOidcTokens).
THEOREM LogoutIsFinal == Spec => []LogoutRevokes
<1>1. RInv => LogoutRevokes
  BY DEF RInv
<1> QED
  BY <1>1, AlwaysRInv, PTL
=============================================================================
