-------------------------------- MODULE Sessions --------------------------------
(***************************************************************************)
(* Sign-in: tenant-service's refresh sessions and access tokens, and the   *)
(* browser that keeps them.                                                *)
(*                                                                         *)
(* A session is a row of user_sessions and lasts until it is deleted.  An  *)
(* access token is a JWT: nobody looks up the session or the membership    *)
(* behind it, it simply expires.  The tabs of a browser share its local    *)
(* storage, each with a copy of its own in memory, and each refreshes the  *)
(* access token, or signs out, when a request was refused; other tabs do   *)
(* the same in between.  The owner of the organisation removes members.    *)
(*                                                                         *)
(* A request takes less than a unit of time: a statement has three         *)
(* seconds, an access token fifteen minutes.  Its answer may come late.    *)
(***************************************************************************)
EXTENDS Integers, FiniteSets

CONSTANTS
  People, Ids,            \* users; sessions, each created by one Login
  OwnerOf,                \* the user a session will be created for
  Tabs,
  Company, Personal,      \* the organisation all are in; the one a removed user gets
  None,                   \* no token, no session, no organisation
  TTL,                    \* life of an access token
  MaxTime,                \* bound: time
  MaxRemovals, MaxTrouble \* bounds: members removed; failed requests

ASSUME OwnerAssumption == OwnerOf \in [Ids -> People] /\ None \notin Ids
ASSUME PlacesAssumption == Company # Personal /\ None \notin {Company, Personal}
ASSUME TimeAssumption == TTL \in Nat \ {0} /\ MaxTime \in Nat /\ MaxRemovals \in Nat /\ MaxTrouble \in Nat

VARIABLES
  now,
  live,      \* user_sessions
  used,      \* sessions ever created
  place,     \* GetUserPrimaryTenant of a user
  removing,  \* RemoveMember: how far the owner's request is
  storage,   \* localStorage: gm_access, gm_refresh
  memory,    \* the same in the state of a tab
  tab,       \* where a tab is
  call,      \* the refresh or login of the tab
  signouts,  \* calls of /auth/logout under way
  removals, trouble,
  endedAt,   \* history variable: when a session was deleted
  revoked,   \* history variable: sessions ended by a removal, or a sign-out other than of a dead session
  movedAt    \* history variable: when a user's organisation last changed

serverVars   == <<live, place, removing, endedAt, revoked, movedAt>>
browserVars  == <<storage, memory, tab, call>>
sessionsVars == <<now, serverVars, used, browserVars, signouts, removals, trouble>>

Orgs_  == {Company, Personal}
Token  == [session : Ids, org : Orgs_, exp : 0..MaxTime + TTL]
Keys   == [access : Token \cup {None}, refresh : Ids \cup {None}]
NoKeys == [access |-> None, refresh |-> None]
Calls  == [session : Ids \cup {None}, token : Token \cup {None}, why : {"none", "dead", "trouble"}]
NoCall == [session |-> None, token |-> None, why |-> "none"]

SessionsTypeOK ==
  /\ now \in 0..MaxTime /\ live \subseteq used /\ used \subseteq Ids
  /\ place \in [People -> Orgs_ \cup {None}]
  /\ removing \in [who : People \cup {None}, at : {"idle", "provision", "revoke"}]
  /\ storage \in Keys /\ memory \in [Tabs -> Keys]
  /\ tab \in [Tabs -> {"idle", "signin", "denied", "validate", "lookup", "answered", "refused"}]
  /\ call \in [Tabs -> Calls]
  /\ signouts \subseteq [session : Ids, why : {"user", "dead", "late", "trouble"}]
  /\ removals \in 0..MaxRemovals /\ trouble \in 0..MaxTrouble
  /\ revoked \subseteq Ids /\ endedAt \in [Ids -> 0..MaxTime] /\ movedAt \in [People -> 0..MaxTime]

SessionsInit ==
  /\ now = 0 /\ live = {} /\ used = {}
  /\ place = [u \in People |-> Company]
  /\ removing = [who |-> None, at |-> "idle"]
  /\ storage = NoKeys /\ memory = [t \in Tabs |-> NoKeys]
  /\ tab = [t \in Tabs |-> "idle"] /\ call = [t \in Tabs |-> NoCall]
  /\ signouts = {} /\ removals = 0 /\ trouble = 0
  /\ revoked = {} /\ endedAt = [s \in Ids |-> 0] /\ movedAt = [u \in People |-> 0]

Valid(k)   == k # None /\ now < k.exp
Or(a, b)   == IF a # None THEN a ELSE b
Goes(t, l, c) == tab' = [tab EXCEPT ![t] = l] /\ call' = [call EXCEPT ![t] = c]
Trouble    == trouble < MaxTrouble /\ trouble' = trouble + 1

\* issueAccessToken
Issue(s) == [session |-> s, org |-> place[OwnerOf[s]], exp |-> now + TTL]

End(ss) ==
  /\ live' = live \ ss
  /\ endedAt' = [s \in Ids |-> IF s \in ss \cap live THEN now ELSE endedAt[s]]

------------------------------------------------------------------------------
(* Signing in.                                                              *)

\* Login up to CreateSession; the page is shown by a tab that holds no token.
Login(t, s) ==
  /\ tab[t] = "idle" /\ memory[t].access = None /\ s \notin used
  /\ live' = live \cup {s} /\ used' = used \cup {s}
  /\ Goes(t, "signin", [NoCall EXCEPT !.session = s])
  /\ UNCHANGED <<now, place, removing, endedAt, revoked, movedAt, storage, memory, signouts, removals, trouble>>

\* The primary tenant, the tokens, and storeAuth; without a tenant the tab turns to the set-up
\* of an organisation.
StoreAuth(t) ==
  LET s == call[t].session  keys == [access |-> Issue(s), refresh |-> s] IN
  /\ tab[t] = "signin"
  /\ Goes(t, "idle", NoCall)
  /\ IF place[OwnerOf[s]] = None THEN UNCHANGED <<storage, memory>>
     ELSE storage' = keys /\ memory' = [memory EXCEPT ![t] = keys]
  /\ UNCHANGED <<now, serverVars, used, signouts, removals, trouble>>

\* A tab opened or loaded again takes what the storage holds.
Load(t) ==
  /\ tab[t] = "idle"
  /\ memory' = [memory EXCEPT ![t] = storage]
  /\ UNCHANGED <<now, serverVars, used, storage, tab, call, signouts, removals, trouble>>

------------------------------------------------------------------------------
(* A request, and the refresh that a refusal starts.                        *)

\* apiFetch: JWTMiddleware refuses an expired token.
ApiFetch(t) ==
  /\ tab[t] = "idle" /\ memory[t].access # None
  /\ ~Valid(Or(storage.access, memory[t].access))
  /\ Goes(t, "denied", NoCall)
  /\ UNCHANGED <<now, serverVars, used, storage, memory, signouts, removals, trouble>>

TryRefresh(t) ==
  LET s == Or(storage.refresh, memory[t].refresh) IN
  /\ tab[t] = "denied"
  /\ IF s = None THEN Goes(t, "refused", [NoCall EXCEPT !.why = "dead"])
     ELSE Goes(t, "validate", [NoCall EXCEPT !.session = s])
  /\ UNCHANGED <<now, serverVars, used, storage, memory, signouts, removals, trouble>>

\* Mutant of ValidateSession: the row of a deleted session is not missed.
EverCreated(s) == s \in used
\* ValidateSession; seven days outlast the model.
ValidateSession(s) == s \in live

\* Mutant of Refresh: a refresh ends the session it was made with.
RefreshOnce(t) ==
  LET s == call[t].session IN
  /\ tab[t] = "validate"
  /\ IF s \in live THEN Goes(t, "lookup", call[t]) /\ End({s})
     ELSE Goes(t, "refused", [call[t] EXCEPT !.why = "dead"]) /\ UNCHANGED <<live, endedAt>>
  /\ UNCHANGED <<now, place, removing, revoked, movedAt, used, storage, memory, signouts, removals, trouble>>
Refresh(t) ==
  LET s == call[t].session IN
  /\ tab[t] = "validate"
  /\ IF ValidateSession(s) THEN Goes(t, "lookup", call[t])
     ELSE Goes(t, "refused", [call[t] EXCEPT !.why = "dead"])
  /\ UNCHANGED <<now, serverVars, used, storage, memory, signouts, removals, trouble>>

\* GetUserPrimaryTenant; the role and the tenant of the new token are those of today.
RefreshLookup(t) ==
  LET s == call[t].session IN
  /\ tab[t] = "lookup"
  /\ IF place[OwnerOf[s]] = None THEN Goes(t, "refused", [call[t] EXCEPT !.why = "dead"])
     ELSE Goes(t, "answered", [call[t] EXCEPT !.token = Issue(s)])
  /\ UNCHANGED <<now, serverVars, used, storage, memory, signouts, removals, trouble>>

\* authRateLimit, a failed statement or a lost answer: any of them counts as a refusal.
RefreshFails(t) ==
  /\ tab[t] \in {"validate", "lookup"} /\ Trouble
  /\ Goes(t, "refused", [call[t] EXCEPT !.why = "trouble"])
  /\ UNCHANGED <<now, serverVars, used, storage, memory, signouts, removals>>

\* setAccessToken, whatever the storage holds by now; the request is sent again.
Answered(t) ==
  /\ tab[t] = "answered"
  /\ storage' = [storage EXCEPT !.access = call[t].token]
  /\ memory' = [memory EXCEPT ![t].access = call[t].token]
  /\ Goes(t, "idle", NoCall)
  /\ UNCHANGED <<now, serverVars, used, signouts, removals, trouble>>

------------------------------------------------------------------------------
(* Signing out.                                                             *)

\* logout: it ends the session it finds now, and forgets everything without waiting.
SignOut(t, why) ==
  LET s == Or(storage.refresh, memory[t].refresh) IN
  /\ signouts' = signouts \cup (IF s = None THEN {} ELSE {[session |-> s, why |-> why[s]]})
  /\ storage' = NoKeys /\ memory' = [memory EXCEPT ![t] = NoKeys]
  /\ Goes(t, "idle", NoCall)
  /\ UNCHANGED <<now, serverVars, used, removals, trouble>>

Logout(t) ==
  tab[t] = "idle" /\ memory[t].access # None /\ SignOut(t, [s \in Ids |-> "user"])

\* The session refused, and the one the tab now ends, may be two.
LogoutRefused(t) ==
  LET cause == [s \in Ids |->
                  IF call[t].why = "dead" /\ call[t].session # s THEN "late" ELSE call[t].why] IN
  tab[t] = "refused" /\ SignOut(t, cause)

\* DeleteSession, or the call or the statement is lost.
DeleteSession(d) ==
  /\ signouts' = signouts \ {d}
  /\ \/ /\ End({d.session}) /\ UNCHANGED trouble
        /\ revoked' = IF d.why = "dead" THEN revoked ELSE revoked \cup {d.session}
     \/ Trouble /\ UNCHANGED <<live, endedAt, revoked>>
  /\ UNCHANGED <<now, place, removing, movedAt, used, browserVars, removals>>

------------------------------------------------------------------------------
(* The owner removes a member; the clock.                                   *)

Moves(u, p) == place' = [place EXCEPT ![u] = p] /\ movedAt' = [movedAt EXCEPT ![u] = now]

RemoveMember(u) ==
  /\ removing.at = "idle" /\ place[u] = Company /\ removals < MaxRemovals
  /\ removals' = removals + 1
  /\ Moves(u, None)
  /\ removing' = [who |-> u, at |-> "provision"]
  /\ UNCHANGED <<now, live, used, endedAt, revoked, browserVars, signouts, trouble>>

Provision ==
  /\ removing.at = "provision"
  /\ Moves(removing.who, Personal)
  /\ removing' = [removing EXCEPT !.at = "revoke"]
  /\ UNCHANGED <<now, live, used, endedAt, revoked, browserVars, signouts, removals, trouble>>

DeleteAllUserSessions ==
  /\ removing.at = "revoke"
  /\ End({s \in Ids : OwnerOf[s] = removing.who})
  /\ revoked' = revoked \cup {s \in Ids : OwnerOf[s] = removing.who}
  /\ removing' = [who |-> None, at |-> "idle"]
  /\ UNCHANGED <<now, place, movedAt, used, browserVars, signouts, removals, trouble>>

\* A statement of the request fails, which nobody repeats: the user is left without an
\* organisation, or with the sessions.
RemovalFails ==
  /\ removing.at # "idle" /\ Trouble
  /\ removing' = [who |-> None, at |-> "idle"]
  /\ UNCHANGED <<now, live, place, endedAt, revoked, movedAt, used, browserVars, signouts, removals>>

Tick ==
  /\ now < MaxTime /\ removing.at = "idle"
  /\ \A t \in Tabs : tab[t] \notin {"signin", "validate", "lookup"}
  /\ now' = now + 1
  /\ UNCHANGED <<serverVars, used, browserVars, signouts, removals, trouble>>

------------------------------------------------------------------------------
TabStep(t) ==
  \/ \E s \in Ids : Login(t, s)
  \/ StoreAuth(t) \/ Load(t) \/ ApiFetch(t) \/ TryRefresh(t) \/ Refresh(t) \/ RefreshLookup(t)
  \/ RefreshFails(t) \/ Answered(t) \/ Logout(t) \/ LogoutRefused(t)

SessionsNext ==
  \/ \E t \in Tabs : TabStep(t)
  \/ \E d \in signouts : DeleteSession(d)
  \/ \E u \in People : RemoveMember(u)
  \/ Provision \/ DeleteAllUserSessions \/ RemovalFails \/ Tick

SessionsSpec == SessionsInit /\ [][SessionsNext]_sessionsVars

------------------------------------------------------------------------------
\* A token outlives its session, and the membership it names, by the life of an access token
\* at most: whatever refreshes, sign-ins and late answers were under way when the session was
\* deleted or the member removed ("invalidate sessions so the removed user gets new tokens").
Held == {storage.access} \cup {memory[t].access : t \in Tabs} \cup {call[t].token : t \in Tabs}
AccessEndsInTime ==
  \A k \in Held \ {None} :
    /\ k.session \in live \/ k.exp <= endedAt[k.session] + TTL
    /\ k.org = place[OwnerOf[k.session]] \/ k.exp <= movedAt[OwnerOf[k.session]] + TTL

\* A tab signs itself out of a session only when its user chose to sign out of it, in any tab,
\* or was removed; unless the refresh ran into the rate limit or another failure, or another
\* tab changed the session in the storage meanwhile, in this tab or in one before it.
SignedOutForCause ==
  \A d \in signouts :
    d.why = "dead" => d.session \in revoked \/ place[OwnerOf[d.session]] # Company
=============================================================================
