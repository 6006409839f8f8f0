---------------------------- MODULE UiOidcSession ----------------------------
(***************************************************************************)
(* The tokens kept in Redis for one e-mail and the requests that change    *)
(* them: logins, refreshes of a session and logouts, in several processes. *)
(* Redis maps the e-mail to its access token (forward) and an access token *)
(* to the e-mail (reverse); a bearer is trusted while its reverse record   *)
(* exists.  Every Redis command and every call of the provider is an       *)
(* action.  Mutations of the access token take turns inside a process, and *)
(* refreshes of a process share one provider call.                         *)
(*                                                                         *)
(* The provider is external: it issues pairs of an access and a refresh    *)
(* token, numbered in order, and may rotate refresh tokens, which are then *)
(* good for one use.                                                       *)
(***************************************************************************)
EXTENDS Naturals, FiniteSets

CONSTANTS
  Processes, Requests,
  NoOne,          \* no request
  MaxTokens,      \* bound of the model: pairs issued
  MaxLogouts,     \* bound of the model: logouts
  MaxFaults       \* bound of the model: Redis failures and crashes

ASSUME NoOneAssumption == NoOne \notin Requests
ASSUME BoundsAssumption ==
  MaxTokens \in Nat \ {0} /\ MaxLogouts \in Nat /\ MaxFaults \in Nat

VARIABLES
  forward, reverse, refresh,   \* the records in Redis
  lock, flight,                \* per process: who mutates, who refreshes
  pc, at, holds,               \* per request: its step, process and values
  issued, spent,               \* the provider: pairs issued, tokens used up
  dropped,                     \* history: tokens whose successor was lost
  revoked,                     \* history: tokens known when a logout began
  leaked,                      \* history: tokens whose record was left behind
  repeated,                    \* history: tokens written once more
  logouts, faults

redis == <<forward, reverse, refresh>>
local == <<lock, flight>>
requests == <<pc, at, holds>>
provider == <<issued, spent>>
history == <<dropped, revoked, leaked, repeated>>
vars == <<redis, local, requests, provider, history, logouts, faults>>

----------------------------------------------------------------------------
None == 0
Tokens == 1..MaxTokens
Maybe == Tokens \cup {None}
Lead == [leader : Requests \cup {NoOne}, stale : BOOLEAN]
NoFlight == [leader |-> NoOne, stale |-> FALSE]

Refreshing == {"known", "readRefresh", "call", "answered"}
Writing == {"access", "swap", "check", "delete", "recheck", "setForward", "setReverse"}
Deleting == {"purge", "purgeKeys", "verify", "giveUp", "sweep", "sweepKeys"}
Steps == {"idle", "joining"} \cup Refreshing \cup Writing \cup Deleting

\* kind: what the request is; old: the refresh token it uses; new: the pair it
\* was issued; storing: the refresh token it is writing beside its other steps;
\* prev: the access token it read; keys: the records it will remove, before:
\* those known when it began; left: attempts left.
Holding == [kind : {"none", "login", "failed", "refresh", "logout", "cleanup"},
            old : Maybe, new : Maybe, storing : Maybe, rotated : BOOLEAN, prev : Maybe,
            keys : SUBSET Tokens, before : SUBSET Tokens, left : 0..3]
Nothing == [kind |-> "none", old |-> None, new |-> None, storing |-> None,
            rotated |-> FALSE, prev |-> None, keys |-> {}, before |-> {}, left |-> 0]

Kind(r) == holds[r].kind
Process(r) == at[r]

\* Before any login, or with the session of one that is over.
Init ==
  /\ \/ forward = None /\ reverse = {} /\ refresh = None /\ issued = 0
     \/ forward = 1 /\ reverse = {1} /\ refresh = 1 /\ issued = 1
  /\ spent = {} /\ dropped = {} /\ revoked = {} /\ leaked = {} /\ repeated = {}
  /\ lock = [p \in Processes |-> NoOne]
  /\ flight = [p \in Processes |-> NoFlight]
  /\ pc = [r \in Requests |-> "idle"]
  /\ at \in [Requests -> Processes]
  /\ holds = [r \in Requests |-> Nothing]
  /\ logouts = 0 /\ faults = 0

----------------------------------------------------------------------------
To(r, step) == pc' = [pc EXCEPT ![r] = step] /\ UNCHANGED at
Hold(r, holding) == holds' = [holds EXCEPT ![r] = holding]
Begin(r, p, step, holding) ==
  /\ pc[r] = "idle"
  /\ pc' = [pc EXCEPT ![r] = step] /\ at' = [at EXCEPT ![r] = p]
  /\ Hold(r, holding)

\* A refresh that ends removes the entry of its process, whoever leads by now.
FlightAfter(r) ==
  IF Kind(r) = "refresh" /\ pc[r] # "known"
    THEN [flight EXCEPT ![Process(r)] = NoFlight] ELSE flight
LockAfter(r) ==
  IF lock[Process(r)] = r THEN [lock EXCEPT ![Process(r)] = NoOne] ELSE lock

End(r) ==
  /\ pc' = [pc EXCEPT ![r] = "idle"] /\ holds' = [holds EXCEPT ![r] = Nothing]
  /\ flight' = FlightAfter(r) /\ lock' = LockAfter(r) /\ UNCHANGED at

\* A login that failed to write its tokens removes what it wrote, even while
\* its refresh token is still on the way.
CleanUp(r, storing) ==
  /\ To(r, "purge")
  /\ Hold(r, [Nothing EXCEPT !.kind = "cleanup", !.storing = storing, !.left = 3])
  /\ lock' = LockAfter(r) /\ UNCHANGED flight

\* Whoever is through otherwise waits for it, without the lock.
Join(r) ==
  /\ To(r, "joining")
  /\ Hold(r, [Nothing EXCEPT !.kind = Kind(r), !.storing = holds[r].storing])
  /\ lock' = LockAfter(r) /\ UNCHANGED flight

Leave(r) == IF holds[r].storing = None THEN End(r) ELSE Join(r)
Finish(r) == IF Kind(r) = "failed" THEN CleanUp(r, holds[r].storing) ELSE Leave(r)

Take(r) ==
  /\ lock[Process(r)] = NoOne
  /\ lock' = [lock EXCEPT ![Process(r)] = r] /\ UNCHANGED flight

----------------------------------------------------------------------------
(* Refreshing a session.                                                   *)

\* A credential was found valid and has to be refreshed: an access token with
\* its reverse record, or one of our own with the id of the session, which is
\* not in the model, so that anybody may come.
Lookup(r, p) ==
  /\ Begin(r, p, "known", [Nothing EXCEPT !.kind = "refresh"])
  /\ UNCHANGED <<redis, local, provider, history, logouts, faults>>

\* Whoever finds a refresh under way takes its result and is done.
Leads(r) == LET entry == flight[Process(r)] IN entry.leader = NoOne \/ entry.stale

StartRefresh(r) ==
  /\ pc[r] = "known"
  /\ IF Leads(r)
       THEN /\ flight' = [flight EXCEPT ![Process(r)] = [leader |-> r, stale |-> FALSE]]
            /\ To(r, "readRefresh") /\ UNCHANGED <<holds, lock>>
       ELSE End(r)
  /\ UNCHANGED <<redis, provider, history, logouts, faults>>

\* Ten seconds have passed.
Overtime(p) ==
  /\ flight[p].leader # NoOne /\ ~flight[p].stale
  /\ flight' = [flight EXCEPT ![p].stale = TRUE]
  /\ UNCHANGED <<redis, lock, requests, provider, history, logouts, faults>>

ReadRefreshToken(r) ==
  /\ pc[r] = "readRefresh"
  /\ IF refresh = None
       THEN End(r)
       ELSE /\ To(r, "call") /\ Hold(r, [holds[r] EXCEPT !.old = refresh])
            /\ UNCHANGED local
  /\ UNCHANGED <<redis, provider, history, logouts, faults>>

\* The provider answers with a new pair, rotating the refresh token or not.
Provide(r) ==
  /\ pc[r] = "call" /\ holds[r].old \notin spent /\ issued < MaxTokens
  /\ issued' = issued + 1
  /\ \E rotated \in BOOLEAN :
       /\ spent' = IF rotated THEN spent \cup {holds[r].old} ELSE spent
       /\ Hold(r, [holds[r] EXCEPT !.new = issued', !.rotated = rotated])
  /\ To(r, "answered")
  /\ UNCHANGED <<redis, local, history, logouts, faults>>

Refuse(r) ==
  /\ pc[r] = "call"
  /\ End(r)
  /\ UNCHANGED <<redis, provider, history, logouts, faults>>

\* The answer is lost, or the user info it allows cannot be fetched.
DropAnswer(r) ==
  /\ pc[r] = "answered"
  /\ End(r)
  /\ dropped' = dropped \cup {holds[r].old}
  /\ UNCHANGED <<redis, provider, revoked, leaked, repeated, logouts, faults>>

\* (Mutant: the rotated refresh token is not stored.)
KeepAnswerUnrotated(r) ==
  /\ pc[r] = "answered"
  /\ To(r, "access")
  /\ UNCHANGED <<redis, holds, local, provider, history, logouts, faults>>

KeepAnswer(r) ==
  /\ pc[r] = "answered"
  /\ refresh' = IF holds[r].rotated THEN holds[r].new ELSE refresh
  /\ To(r, "access")
  /\ UNCHANGED <<forward, reverse, holds, local, provider, history, logouts, faults>>

----------------------------------------------------------------------------
(* Login: the tokens of a new pair are written side by side, the access    *)
(* token under the lock and the refresh token whenever its turn comes.     *)

Login(r, p) ==
  /\ issued < MaxTokens /\ issued' = issued + 1
  /\ Begin(r, p, "access",
           [Nothing EXCEPT !.kind = "login", !.new = issued', !.storing = issued'])
  /\ UNCHANGED <<redis, local, spent, history, logouts, faults>>

\* What the request goes on with once its refresh token is written or refused.
Stored(r) ==
  IF pc[r] = "joining"
    THEN End(r)
    ELSE Hold(r, [holds[r] EXCEPT !.storing = None]) /\ UNCHANGED <<pc, at, local>>

WriteRefreshToken(r) ==
  /\ holds[r].storing # None
  /\ refresh' = holds[r].storing
  /\ Stored(r)
  /\ UNCHANGED <<forward, reverse, provider, history, logouts, faults>>

----------------------------------------------------------------------------
(* setUiOidcAccessTokenRecord.                                             *)

ReadForward(r) ==
  /\ pc[r] = "access"
  /\ Take(r)
  /\ To(r, "swap") /\ Hold(r, [holds[r] EXCEPT !.prev = forward])
  /\ UNCHANGED <<redis, provider, history, logouts, faults>>

\* (Mutant: the script does not compare.)
SwapsAnyway(prev) == TRUE

\* The script: a write fails when another one got in first.
Swaps(prev) == prev = None \/ forward = prev

\* A write by a request that saw no token overwrites whatever is there, and
\* leaves the record of what it overwrites.
Script(r) ==
  LET prev == holds[r].prev IN
  /\ forward' = IF Swaps(prev) THEN holds[r].new ELSE forward
  /\ reverse' = IF Swaps(prev) THEN (reverse \ {prev}) \cup {holds[r].new} ELSE reverse
  /\ leaked' = IF prev = None /\ forward # None THEN leaked \cup {forward} ELSE leaked

Swap(r) ==
  /\ pc[r] = "swap"
  /\ Script(r) /\ Finish(r)
  /\ UNCHANGED <<refresh, provider, dropped, revoked, repeated, logouts, faults>>

\* The script fails and the writes are done one by one, or it wrote and only
\* its answer is lost, and they are done again.
FallBack(r) ==
  /\ pc[r] = "swap" /\ faults < MaxFaults /\ faults' = faults + 1
  /\ \/ UNCHANGED <<forward, reverse, leaked, repeated>>
     \/ /\ Swaps(holds[r].prev) /\ Script(r)
        /\ repeated' = repeated \cup {holds[r].new}
  /\ To(r, IF holds[r].prev = None THEN "setForward" ELSE "check")
  /\ UNCHANGED <<refresh, holds, local, provider, dropped, revoked, logouts>>

CheckForward(r) ==
  /\ pc[r] \in {"check", "recheck"}
  /\ IF forward # holds[r].prev
       THEN Finish(r)
       ELSE /\ To(r, IF pc[r] = "check" THEN "delete" ELSE "setForward")
            /\ UNCHANGED <<holds, local>>
  /\ UNCHANGED <<redis, provider, history, logouts, faults>>

DeleteReverse(r) ==
  /\ pc[r] = "delete"
  /\ reverse' = reverse \ {holds[r].prev}
  /\ To(r, "recheck")
  /\ UNCHANGED <<forward, refresh, holds, local, provider, history, logouts, faults>>

\* What another request wrote since is overwritten, and its record left.
SetForward(r) ==
  /\ pc[r] = "setForward"
  /\ forward' = holds[r].new
  /\ leaked' = leaked \cup ({forward} \ {None, holds[r].prev, holds[r].new})
  /\ To(r, "setReverse")
  /\ UNCHANGED <<reverse, refresh, holds, local, provider, dropped, revoked, repeated,
                 logouts, faults>>

Cleans(r, token) ==
  \/ pc[r] \in Deleting \ {"sweepKeys"}
  \/ pc[r] = "sweepKeys" /\ token \in holds[r].keys

\* Another request that replaces this token deleted its record too early.
Overtaken(r) ==
  \E other \in Requests :
    pc[other] \in {"recheck", "setForward"} /\ holds[other].prev = holds[r].new

\* It was replaced or deleted since, and nobody is about to sweep.
Late(r) ==
  forward # holds[r].new /\ ~ \E other \in Requests : Cleans(other, holds[r].new)

SetReverse(r) ==
  /\ pc[r] = "setReverse"
  /\ reverse' = reverse \cup {holds[r].new}
  /\ leaked' = IF Overtaken(r) \/ Late(r) THEN leaked \cup {holds[r].new} ELSE leaked
  /\ Finish(r)
  /\ UNCHANGED <<forward, refresh, provider, dropped, revoked, repeated, logouts, faults>>

----------------------------------------------------------------------------
(* Deleting: deleteUiOidcTokens at logout, deleteUiOidcTokenRecords after a *)
(* login failed to write its tokens.                                       *)

Logout(r, p) ==
  /\ logouts < MaxLogouts /\ logouts' = logouts + 1
  /\ Begin(r, p, "purge", [Nothing EXCEPT !.kind = "logout", !.before = reverse, !.left = 3])
  /\ UNCHANGED <<redis, local, provider, history, faults>>

Purge(r) ==
  /\ pc[r] = "purge"
  /\ IF lock[Process(r)] = r THEN UNCHANGED local ELSE Take(r)
  /\ To(r, "purgeKeys")
  /\ Hold(r, [holds[r] EXCEPT !.prev = forward, !.left = @ - 1])
  /\ UNCHANGED <<redis, provider, history, logouts, faults>>

PurgeKeys(r) ==
  /\ pc[r] = "purgeKeys"
  /\ forward' = None /\ refresh' = None /\ reverse' = reverse \ {holds[r].prev}
  /\ To(r, "verify")
  /\ UNCHANGED <<holds, local, provider, history, logouts, faults>>

\* Somebody wrote again: try again, or remove what is there and give up.
Verify(r) ==
  /\ pc[r] = "verify"
  /\ \/ forward = None /\ To(r, "sweep") /\ UNCHANGED holds
     \/ forward # None /\ holds[r].left > 0 /\ To(r, "purge") /\ UNCHANGED holds
     \/ /\ forward # None /\ holds[r].left = 0
        /\ To(r, "giveUp") /\ Hold(r, [holds[r] EXCEPT !.prev = forward])
  /\ UNCHANGED <<redis, local, provider, history, logouts, faults>>

\* The records that only these requests were going to remove.
LeftBehind(some, records) ==
  { token \in records : /\ \E r \in some : Cleans(r, token)
                        /\ \A r \in Requests \ some : ~Cleans(r, token) }

\* Without a sweep.
GiveUp(r) ==
  /\ pc[r] = "giveUp"
  /\ forward' = None /\ reverse' = reverse \ {holds[r].prev}
  /\ leaked' = leaked \cup LeftBehind({r}, reverse')
  /\ Leave(r)
  /\ UNCHANGED <<refresh, provider, dropped, revoked, repeated, logouts, faults>>

\* (Mutant: the sweep deletes nothing.)
NothingListed == {}

\* The sweep lists the reverse records of the e-mail, then deletes them.
Listed == reverse

Sweep(r) ==
  /\ pc[r] = "sweep"
  /\ To(r, "sweepKeys") /\ Hold(r, [holds[r] EXCEPT !.keys = Listed])
  /\ UNCHANGED <<redis, local, provider, history, logouts, faults>>

SweepKeys(r) ==
  /\ pc[r] = "sweepKeys"
  /\ reverse' = reverse \ holds[r].keys
  /\ revoked' = revoked \cup holds[r].before
  /\ Leave(r)
  /\ UNCHANGED <<forward, refresh, provider, dropped, leaked, repeated, logouts, faults>>

----------------------------------------------------------------------------
(* Failures.                                                               *)

\* A token beside the access token is refused: the refresh token, or the id
\* token, which is not in the model.  The login still writes its access token
\* before it cleans up; a clean-up under way takes no notice.
StoreFails(r) ==
  \/ /\ Kind(r) = "login"
     /\ \E storing \in {None, holds[r].storing} :
          IF pc[r] = "joining"
            THEN CleanUp(r, storing)
            ELSE /\ Hold(r, [holds[r] EXCEPT !.kind = "failed", !.storing = storing])
                 /\ UNCHANGED <<pc, at, local>>
  \/ Kind(r) \in {"failed", "cleanup"} /\ holds[r].storing # None /\ Stored(r)

\* Another command fails; a logout or a clean-up just ends.
Fail(r) ==
  /\ faults < MaxFaults /\ faults' = faults + 1
  /\ \/ StoreFails(r) /\ UNCHANGED leaked
     \/ /\ pc[r] \in Writing \ {"swap"} /\ UNCHANGED leaked
        /\ IF Kind(r) = "refresh" THEN End(r) ELSE CleanUp(r, holds[r].storing)
     \/ /\ pc[r] \in Deleting /\ Leave(r)
        /\ leaked' = leaked \cup LeftBehind({r}, reverse \ {forward})
  /\ UNCHANGED <<redis, provider, dropped, revoked, repeated, logouts>>

\* A process dies with its requests, its lock and its single flight.
Crash(p) ==
  LET mine == { r \in Requests : pc[r] # "idle" /\ Process(r) = p } IN
  /\ faults < MaxFaults /\ faults' = faults + 1
  /\ pc' = [r \in Requests |-> IF r \in mine THEN "idle" ELSE pc[r]]
  /\ holds' = [r \in Requests |-> IF r \in mine THEN Nothing ELSE holds[r]]
  /\ lock' = [lock EXCEPT ![p] = NoOne] /\ flight' = [flight EXCEPT ![p] = NoFlight]
  /\ dropped' = dropped \cup { holds[r].old : r \in { m \in mine : pc[m] = "answered" } }
  /\ leaked' = leaked \cup LeftBehind(mine, reverse \ {forward})
  /\ UNCHANGED <<redis, at, provider, revoked, repeated, logouts>>

----------------------------------------------------------------------------
Refreshes(r) ==
  \/ StartRefresh(r) \/ ReadRefreshToken(r) \/ Provide(r) \/ Refuse(r)
  \/ DropAnswer(r) \/ KeepAnswer(r)
Writes(r) ==
  \/ WriteRefreshToken(r) \/ ReadForward(r) \/ Swap(r) \/ FallBack(r)
  \/ CheckForward(r) \/ DeleteReverse(r) \/ SetForward(r) \/ SetReverse(r)
Deletes(r) ==
  Purge(r) \/ PurgeKeys(r) \/ Verify(r) \/ GiveUp(r) \/ Sweep(r) \/ SweepKeys(r)

Next ==
  \/ \E r \in Requests, p \in Processes : Lookup(r, p) \/ Login(r, p) \/ Logout(r, p)
  \/ \E r \in Requests : Refreshes(r) \/ Writes(r) \/ Deletes(r) \/ Fail(r)
  \/ \E p \in Processes : Overtime(p) \/ Crash(p)

Spec == Init /\ [][Next]_vars

----------------------------------------------------------------------------
\* Records hold tokens that were issued, requests what their step needs.
TypeOK ==
  /\ forward \in Maybe /\ reverse \subseteq Tokens /\ refresh \in Maybe
  /\ lock \in [Processes -> Requests \cup {NoOne}]
  /\ flight \in [Processes -> Lead]
  /\ pc \in [Requests -> Steps] /\ at \in [Requests -> Processes]
  /\ holds \in [Requests -> Holding]
  /\ issued \in 0..MaxTokens
  /\ spent \subseteq Tokens /\ dropped \subseteq Tokens /\ revoked \subseteq Tokens
  /\ leaked \subseteq Tokens /\ repeated \subseteq Tokens
  /\ logouts \in Nat /\ faults \in Nat

\* A rotating provider never leaves the session with a used-up refresh token
\* while its successor exists: whatever refreshes, logins and logouts race in
\* whatever processes, the token stored is unused, or a request is about to
\* store the next one, or that one was lost (refreshSessionByEmailInner).
RefreshTokenNotBurnt ==
  refresh \in spent =>
    \/ \E r \in Requests : pc[r] = "answered" /\ holds[r].rotated /\ holds[r].old = refresh
    \/ refresh \in dropped

\* A bearer that is no longer the current one is not trusted, unless a deletion
\* is about to remove its record: the script, the fallback and both deletions
\* agree on this.  Left out is a token whose own record was left behind: by a
\* first write over it, by a write of the fallback that was overtaken between
\* two commands, or by a deletion that failed, crashed or gave up.
OneUsableToken ==
  \A token \in reverse \ ({forward} \cup leaked) : \E r \in Requests : Cleans(r, token)

\* A logout that ran to its sweep leaves no bearer usable, then and for good,
\* that was usable when it began, whatever refreshes, logins and other logouts
\* run beside it and fail in whatever processes (deleteUiOidcTokens).  Left out
\* is a token that is written once more because the script that wrote it did
\* not answer.
LogoutRevokes == reverse \cap revoked \subseteq repeated
=============================================================================
