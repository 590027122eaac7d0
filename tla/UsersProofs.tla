------------------------------ MODULE UsersProofs ------------------------------
(***************************************************************************)
(* Machine-checked proofs about Sessions, for every number of users,       *)
(* sessions and tabs, every life of a token and every bound.               *)
(*                                                                         *)
(* On the types (STypes) rest two inductive invariants: that a token is    *)
(* never older than its life, nor issued for a session that ended at an    *)
(* earlier time (InTime), and that a session which ended, or that a        *)
(* refresh found ended, had a cause (Caused).                              *)
(***************************************************************************)
EXTENDS MCUsers, GmailConnectionProofs, TLAPS

------------------------------------------------------------------------------
(* Type correctness, with what a request under way works with.              *)

TabLabels == {"idle", "signin", "denied", "validate", "lookup", "answered", "refused"}

ServerTypeOK ==
  /\ now \in 0..MaxTime /\ live \subseteq used /\ used \subseteq Ids
  /\ place \in [People -> Orgs_ \cup {None}]
  /\ removing \in [who : People \cup {None}, at : {"idle", "provision", "revoke"}]
  /\ revoked \subseteq Ids /\ endedAt \in [Ids -> 0..MaxTime] /\ movedAt \in [People -> 0..MaxTime]
KeysTypeOK == storage \in Keys /\ memory \in [Tabs -> Keys]
CallsTypeOK == tab \in [Tabs -> TabLabels] /\ call \in [Tabs -> Calls]
CountsTypeOK ==
  /\ signouts \subseteq [session : Ids, why : {"user", "dead", "late", "trouble"}]
  /\ removals \in 0..MaxRemovals /\ trouble \in 0..MaxTrouble

\* A tab at the server has a session, one refused a reason; a removal has somebody to remove.
AtWork ==
  \A t \in Tabs : /\ tab[t] \in {"signin", "validate", "lookup"} => call[t].session \in Ids
                  /\ tab[t] = "refused" => call[t].why # "none"
Removal == removing.at # "idle" => removing.who \in People

STypes == SessionsTypeOK /\ AtWork /\ Removal

LEMMA STypesParts ==
  /\ SessionsTypeOK <=> ServerTypeOK /\ KeysTypeOK /\ CallsTypeOK /\ CountsTypeOK
  /\ SessionsTypeOK' <=> ServerTypeOK' /\ KeysTypeOK' /\ CallsTypeOK' /\ CountsTypeOK'
<1>1. SessionsTypeOK <=> ServerTypeOK /\ KeysTypeOK /\ CallsTypeOK /\ CountsTypeOK
  BY DEF SessionsTypeOK, ServerTypeOK, KeysTypeOK, CallsTypeOK, CountsTypeOK, TabLabels
<1>2. SessionsTypeOK' <=> ServerTypeOK' /\ KeysTypeOK' /\ CallsTypeOK' /\ CountsTypeOK'
  BY DEF SessionsTypeOK, ServerTypeOK, KeysTypeOK, CallsTypeOK, CountsTypeOK, TabLabels
<1>3. QED
  BY <1>1, <1>2

\* Tab t goes to l with the call c, the others stay.
Becomes(t, l, c) ==
  /\ tab'[t] = l /\ call'[t] = c
  /\ \A x \in Tabs \ {t} : tab'[x] = tab[x] /\ call'[x] = call[x]

LEMMA GoesType ==
  ASSUME CallsTypeOK, AtWork, NEW t \in Tabs, NEW l \in TabLabels, NEW c \in Calls, Goes(t, l, c),
         l \in {"signin", "validate", "lookup"} => c.session \in Ids,
         l = "refused" => c.why # "none"
  PROVE  CallsTypeOK' /\ AtWork' /\ Becomes(t, l, c)
<1>1. Becomes(t, l, c)
  BY DEF CallsTypeOK, Goes, Becomes
<1>2. CallsTypeOK'
  BY DEF CallsTypeOK, Goes
<1>3. AtWork'
  BY <1>1 DEF AtWork, Becomes
<1>4. QED
  BY <1>1, <1>2, <1>3

LEMMA NoCallType ==
  /\ NoCall \in Calls /\ NoCall.session = None /\ NoCall.token = None /\ NoCall.why = "none"
  /\ [NoCall EXCEPT !.why = "dead"] \in Calls /\ [NoCall EXCEPT !.why = "dead"].why = "dead"
  /\ [NoCall EXCEPT !.why = "dead"].session = None /\ [NoCall EXCEPT !.why = "dead"].token = None
BY DEF NoCall, Calls

LEMMA SessionCallType ==
  ASSUME NEW s \in Ids
  PROVE  /\ [NoCall EXCEPT !.session = s] \in Calls
         /\ [NoCall EXCEPT !.session = s].session = s /\ [NoCall EXCEPT !.session = s].token = None
BY DEF NoCall, Calls

LEMMA RefusedCallType ==
  ASSUME NEW c \in Calls, NEW w \in {"dead", "trouble"}
  PROVE  /\ [c EXCEPT !.why = w] \in Calls /\ [c EXCEPT !.why = w].why = w
         /\ [c EXCEPT !.why = w].session = c.session /\ [c EXCEPT !.why = w].token = c.token
BY DEF Calls

LEMMA AnsweredCallType ==
  ASSUME NEW c \in Calls, NEW k \in Token
  PROVE  /\ [c EXCEPT !.token = k] \in Calls /\ [c EXCEPT !.token = k].token = k
         /\ [c EXCEPT !.token = k].session = c.session
BY DEF Calls

\* issueAccessToken for a user who belongs to an organisation.
LEMMA IssueType ==
  ASSUME ServerTypeOK, NEW s \in Ids, place[OwnerOf[s]] # None
  PROVE  /\ Issue(s) \in Token /\ Issue(s).session = s
         /\ Issue(s).org = place[OwnerOf[s]] /\ Issue(s).exp = now + TTL
<1>1. OwnerOf[s] \in People
  BY OwnerAssumption
<1>2. place[OwnerOf[s]] \in Orgs_
  BY <1>1 DEF ServerTypeOK
<1>3. now + TTL \in 0..MaxTime + TTL
  BY TimeAssumption DEF ServerTypeOK
<1>4. QED
  BY <1>2, <1>3 DEF Issue, Token

LEMMA NoKeysType == NoKeys \in Keys /\ NoKeys.access = None /\ NoKeys.refresh = None
BY DEF NoKeys, Keys

\* DELETE FROM user_sessions
LEMMA EndEffect ==
  ASSUME ServerTypeOK, NEW ss \in SUBSET Ids, End(ss)
  PROVE  /\ live' = live \ ss /\ endedAt' \in [Ids -> 0..MaxTime]
         /\ \A s \in Ids : endedAt'[s] = IF s \in ss /\ s \in live THEN now ELSE endedAt[s]
BY DEF ServerTypeOK, End

LEMMA TypesInit == SessionsInit => STypes
<1> SUFFICES ASSUME SessionsInit
             PROVE  STypes
  OBVIOUS
<1>1. ServerTypeOK /\ Removal
  BY TimeAssumption DEF SessionsInit, ServerTypeOK, Orgs_, Removal
<1>2. KeysTypeOK
  BY NoKeysType DEF SessionsInit, KeysTypeOK
<1>3. CallsTypeOK /\ AtWork
  BY NoCallType DEF SessionsInit, CallsTypeOK, TabLabels, AtWork
<1>4. CountsTypeOK
  BY TimeAssumption DEF SessionsInit, CountsTypeOK
<1>5. QED
  BY <1>1, <1>2, <1>3, <1>4, STypesParts DEF STypes

\* The types of what a step leaves alone.
LEMMA ServerStays ==
  ASSUME ServerTypeOK, Removal, UNCHANGED <<now, serverVars, used>>
  PROVE  ServerTypeOK' /\ Removal'
BY DEF ServerTypeOK, Removal, serverVars

LEMMA BrowserStays ==
  ASSUME KeysTypeOK, CallsTypeOK, AtWork, UNCHANGED browserVars
  PROVE  KeysTypeOK' /\ CallsTypeOK' /\ AtWork'
BY DEF KeysTypeOK, CallsTypeOK, AtWork, browserVars

\* Each step: the types, and where the tab goes.
LEMMA LoginType ==
  ASSUME STypes, NEW t \in Tabs, NEW s \in Ids, Login(t, s)
  PROVE  STypes' /\ Becomes(t, "signin", [NoCall EXCEPT !.session = s])
<1>1. ServerTypeOK /\ KeysTypeOK /\ CallsTypeOK /\ CountsTypeOK /\ AtWork /\ Removal
  BY STypesParts DEF STypes
<1>2. CallsTypeOK' /\ AtWork' /\ Becomes(t, "signin", [NoCall EXCEPT !.session = s])
  BY <1>1, SessionCallType, GoesType DEF Login, TabLabels
<1>3. ServerTypeOK' /\ Removal'
  BY <1>1 DEF Login, ServerTypeOK, Removal
<1>4. KeysTypeOK' /\ CountsTypeOK'
  BY <1>1 DEF Login, KeysTypeOK, CountsTypeOK
<1>5. QED
  BY <1>2, <1>3, <1>4, STypesParts DEF STypes

LEMMA StoreAuthType ==
  ASSUME STypes, NEW t \in Tabs, StoreAuth(t)
  PROVE  /\ STypes' /\ Becomes(t, "idle", NoCall) /\ call[t].session \in Ids
         /\ \/ UNCHANGED <<storage, memory>>
            \/ \E k \in Token :
                 /\ k = Issue(call[t].session) /\ place[OwnerOf[call[t].session]] # None
                 /\ storage' = [access |-> k, refresh |-> call[t].session]
                 /\ memory' = [memory EXCEPT ![t] = storage']
<1>1. ServerTypeOK /\ KeysTypeOK /\ CallsTypeOK /\ CountsTypeOK /\ AtWork /\ Removal
  BY STypesParts DEF STypes
<1>2. CallsTypeOK' /\ AtWork' /\ Becomes(t, "idle", NoCall)
  BY <1>1, NoCallType, GoesType DEF StoreAuth, TabLabels
<1>3. ServerTypeOK' /\ Removal' /\ CountsTypeOK'
  BY <1>1, ServerStays DEF StoreAuth, CountsTypeOK
<1>4. PICK s \in Ids : s = call[t].session
  BY <1>1 DEF StoreAuth, AtWork
<1>5. CASE UNCHANGED <<storage, memory>>
  BY <1>1, <1>2, <1>3, <1>4, <1>5, STypesParts DEF STypes, KeysTypeOK
<1>6. CASE place[OwnerOf[s]] # None
  <2>1. PICK k \in Token : k = Issue(s)
    BY <1>1, <1>6, IssueType
  <2>2. storage' = [access |-> k, refresh |-> s] /\ memory' = [memory EXCEPT ![t] = storage']
    BY <1>4, <1>6, <2>1 DEF StoreAuth
  <2>3. storage' \in Keys
    BY <2>2 DEF Keys
  <2>4. KeysTypeOK'
    BY <1>1, <2>2, <2>3 DEF KeysTypeOK
  <2>5. QED
    BY <1>2, <1>3, <1>4, <1>6, <2>1, <2>2, <2>4, STypesParts DEF STypes
<1>7. QED
  BY <1>4, <1>5, <1>6 DEF StoreAuth

LEMMA LoadType ==
  ASSUME STypes, NEW t \in Tabs, Load(t)
  PROVE  STypes' /\ UNCHANGED <<tab, call>>
<1>1. ServerTypeOK /\ KeysTypeOK /\ CallsTypeOK /\ CountsTypeOK /\ AtWork /\ Removal
  BY STypesParts DEF STypes
<1>2. ServerTypeOK' /\ Removal' /\ CountsTypeOK'
  BY <1>1, ServerStays DEF Load, CountsTypeOK
<1>3. KeysTypeOK' /\ CallsTypeOK' /\ AtWork'
  BY <1>1 DEF Load, KeysTypeOK, CallsTypeOK, AtWork
<1>4. QED
  BY <1>2, <1>3, STypesParts DEF STypes, Load

\* The steps of a refresh that change nothing but where the tab is.
LEMMA ForwardType ==
  ASSUME STypes, NEW t \in Tabs, NEW l \in TabLabels, NEW c \in Calls, Goes(t, l, c),
         l \in {"signin", "validate", "lookup"} => c.session \in Ids,
         l = "refused" => c.why # "none",
         UNCHANGED <<now, serverVars, used, storage, memory, signouts, removals>>,
         trouble' \in 0..MaxTrouble
  PROVE  STypes' /\ Becomes(t, l, c)
<1>1. ServerTypeOK /\ KeysTypeOK /\ CallsTypeOK /\ CountsTypeOK /\ AtWork /\ Removal
  BY STypesParts DEF STypes
<1>2. CallsTypeOK' /\ AtWork' /\ Becomes(t, l, c)
  BY <1>1, GoesType
<1>3. ServerTypeOK' /\ Removal' /\ CountsTypeOK' /\ KeysTypeOK'
  BY <1>1, ServerStays DEF CountsTypeOK, KeysTypeOK
<1>4. QED
  BY <1>2, <1>3, STypesParts DEF STypes

LEMMA ApiFetchType ==
  ASSUME STypes, NEW t \in Tabs, ApiFetch(t)
  PROVE  STypes' /\ Becomes(t, "denied", NoCall)
<1>1. trouble' \in 0..MaxTrouble
  BY DEF ApiFetch, STypes, SessionsTypeOK
<1>2. QED
  BY <1>1, NoCallType, ForwardType DEF ApiFetch, TabLabels

LEMMA TryRefreshType ==
  ASSUME STypes, NEW t \in Tabs, TryRefresh(t)
  PROVE  /\ STypes'
         /\ \/ Becomes(t, "refused", [NoCall EXCEPT !.why = "dead"])
            \/ \E s \in Ids : /\ s = storage.refresh \/ s = memory[t].refresh
                              /\ Becomes(t, "validate", [NoCall EXCEPT !.session = s])
<1>1. trouble' \in 0..MaxTrouble
  BY DEF TryRefresh, STypes, SessionsTypeOK
<1>2. PICK s : s = Or(storage.refresh, memory[t].refresh)
  OBVIOUS
<1>3. s \in Ids \cup {None} /\ (s = storage.refresh \/ s = memory[t].refresh)
  <2>1. storage.refresh \in Ids \cup {None} /\ memory[t].refresh \in Ids \cup {None}
    BY STypesParts DEF STypes, KeysTypeOK, Keys
  <2>2. QED
    BY <1>2, <2>1 DEF Or
<1>4. CASE s = None
  <2>1. Goes(t, "refused", [NoCall EXCEPT !.why = "dead"])
    BY <1>2, <1>4 DEF TryRefresh
  <2>2. QED
    BY <1>1, <2>1, NoCallType, ForwardType DEF TryRefresh, TabLabels
<1>5. CASE s # None
  <2>1. Goes(t, "validate", [NoCall EXCEPT !.session = s]) /\ s \in Ids
    BY <1>2, <1>3, <1>5 DEF TryRefresh
  <2>2. STypes' /\ Becomes(t, "validate", [NoCall EXCEPT !.session = s])
    BY <1>1, <2>1, SessionCallType, ForwardType DEF TryRefresh, TabLabels
  <2>3. QED
    BY <1>3, <2>1, <2>2
<1>6. QED
  BY <1>4, <1>5

LEMMA RefreshType ==
  ASSUME STypes, NEW t \in Tabs, Refresh(t)
  PROVE  /\ STypes' /\ call[t] \in Calls /\ call[t].session \in Ids
         /\ \/ call[t].session \in live /\ Becomes(t, "lookup", call[t])
            \/ call[t].session \notin live /\ Becomes(t, "refused", [call[t] EXCEPT !.why = "dead"])
<1>1. trouble' \in 0..MaxTrouble
  BY DEF Refresh, STypes, SessionsTypeOK
<1>2. call[t] \in Calls /\ call[t].session \in Ids
  BY STypesParts DEF STypes, CallsTypeOK, AtWork, Refresh
<1>3. CASE call[t].session \in live
  <2>1. Goes(t, "lookup", call[t])
    BY <1>3 DEF Refresh, ValidateSession
  <2>2. QED
    BY <1>1, <1>2, <1>3, <2>1, ForwardType DEF Refresh, TabLabels
<1>4. CASE call[t].session \notin live
  <2>1. Goes(t, "refused", [call[t] EXCEPT !.why = "dead"])
    BY <1>4 DEF Refresh, ValidateSession
  <2>2. QED
    BY <1>1, <1>2, <1>4, <2>1, RefusedCallType, ForwardType DEF Refresh, TabLabels
<1>5. QED
  BY <1>3, <1>4

LEMMA RefreshLookupType ==
  ASSUME STypes, NEW t \in Tabs, RefreshLookup(t)
  PROVE  /\ STypes' /\ call[t] \in Calls /\ call[t].session \in Ids
         /\ \/ /\ place[OwnerOf[call[t].session]] = None
               /\ Becomes(t, "refused", [call[t] EXCEPT !.why = "dead"])
            \/ \E k \in Token :
                 /\ k = Issue(call[t].session) /\ place[OwnerOf[call[t].session]] # None
                 /\ Becomes(t, "answered", [call[t] EXCEPT !.token = k])
<1>1. trouble' \in 0..MaxTrouble
  BY DEF RefreshLookup, STypes, SessionsTypeOK
<1>2. call[t] \in Calls /\ call[t].session \in Ids /\ ServerTypeOK
  BY STypesParts DEF STypes, CallsTypeOK, AtWork, RefreshLookup
<1>3. PICK s \in Ids : s = call[t].session
  BY <1>2
<1>4. CASE place[OwnerOf[s]] = None
  <2>1. Goes(t, "refused", [call[t] EXCEPT !.why = "dead"])
    BY <1>3, <1>4 DEF RefreshLookup
  <2>2. QED
    BY <1>1, <1>2, <1>3, <1>4, <2>1, RefusedCallType, ForwardType DEF RefreshLookup, TabLabels
<1>5. CASE place[OwnerOf[s]] # None
  <2>1. PICK k \in Token : k = Issue(s)
    BY <1>2, <1>5, IssueType
  <2>2. Goes(t, "answered", [call[t] EXCEPT !.token = k])
    BY <1>3, <1>5, <2>1 DEF RefreshLookup
  <2>3. STypes' /\ Becomes(t, "answered", [call[t] EXCEPT !.token = k])
    BY <1>1, <1>2, <2>2, AnsweredCallType, ForwardType DEF RefreshLookup, TabLabels
  <2>4. QED
    BY <1>2, <1>3, <1>5, <2>1, <2>3
<1>6. QED
  BY <1>4, <1>5

LEMMA RefreshFailsType ==
  ASSUME STypes, NEW t \in Tabs, RefreshFails(t)
  PROVE  /\ STypes' /\ call[t] \in Calls
         /\ Becomes(t, "refused", [call[t] EXCEPT !.why = "trouble"])
<1>1. trouble' \in 0..MaxTrouble
  BY TimeAssumption DEF RefreshFails, Trouble, STypes, SessionsTypeOK
<1>2. call[t] \in Calls
  BY STypesParts DEF STypes, CallsTypeOK
<1>3. QED
  BY <1>1, <1>2, RefusedCallType, ForwardType DEF RefreshFails, TabLabels

LEMMA AnsweredType ==
  ASSUME STypes, NEW t \in Tabs, Answered(t)
  PROVE  /\ STypes' /\ Becomes(t, "idle", NoCall)
         /\ storage'.access = call[t].token /\ storage'.refresh = storage.refresh
         /\ memory'[t].access = call[t].token /\ memory'[t].refresh = memory[t].refresh
         /\ \A x \in Tabs \ {t} : memory'[x] = memory[x]
<1>1. ServerTypeOK /\ KeysTypeOK /\ CallsTypeOK /\ CountsTypeOK /\ AtWork /\ Removal
  BY STypesParts DEF STypes
<1>2. CallsTypeOK' /\ AtWork' /\ Becomes(t, "idle", NoCall)
  BY <1>1, NoCallType, GoesType DEF Answered, TabLabels
<1>3. ServerTypeOK' /\ Removal' /\ CountsTypeOK'
  BY <1>1, ServerStays DEF Answered, CountsTypeOK
<1>4. PICK k \in Token \cup {None} : k = call[t].token
  BY <1>1 DEF CallsTypeOK, Calls
<1>5. PICK m \in Keys : m = memory[t]
  BY <1>1 DEF KeysTypeOK
<1>6. [m EXCEPT !.access = k] \in Keys /\ [m EXCEPT !.access = k].access = k
      /\ [m EXCEPT !.access = k].refresh = m.refresh
  BY DEF Keys
<1>7. storage' \in Keys /\ storage'.access = k /\ storage'.refresh = storage.refresh
  BY <1>1, <1>4 DEF Answered, KeysTypeOK, Keys
<1>8. memory' = [memory EXCEPT ![t] = [m EXCEPT !.access = k]]
  BY <1>4, <1>5 DEF Answered
<1>9. memory'[t] = [m EXCEPT !.access = k] /\ \A x \in Tabs \ {t} : memory'[x] = memory[x]
  BY <1>1, <1>8 DEF KeysTypeOK
<1>10. KeysTypeOK'
  BY <1>1, <1>6, <1>7, <1>8 DEF KeysTypeOK
<1>11. QED
  BY <1>2, <1>3, <1>4, <1>5, <1>6, <1>7, <1>9, <1>10, STypesParts DEF STypes

\* What a tab that signs out sends, if it finds a session.
LEMMA SignOutType ==
  ASSUME STypes, NEW t \in Tabs, NEW why \in [Ids -> {"user", "dead", "late", "trouble"}],
         SignOut(t, why)
  PROVE  /\ STypes' /\ Becomes(t, "idle", NoCall)
         /\ storage' = NoKeys /\ memory'[t] = NoKeys /\ \A x \in Tabs \ {t} : memory'[x] = memory[x]
         /\ \/ UNCHANGED signouts
            \/ \E s \in Ids : /\ s = storage.refresh \/ s = memory[t].refresh
                              /\ signouts' = signouts \cup {[session |-> s, why |-> why[s]]}
<1>1. ServerTypeOK /\ KeysTypeOK /\ CallsTypeOK /\ CountsTypeOK /\ AtWork /\ Removal
  BY STypesParts DEF STypes
<1>2. CallsTypeOK' /\ AtWork' /\ Becomes(t, "idle", NoCall)
  BY <1>1, NoCallType, GoesType DEF SignOut, TabLabels
<1>3. ServerTypeOK' /\ Removal'
  BY <1>1, ServerStays DEF SignOut
<1>4. storage' = NoKeys /\ memory' = [memory EXCEPT ![t] = NoKeys]
  BY DEF SignOut
<1>5. KeysTypeOK' /\ memory'[t] = NoKeys /\ \A x \in Tabs \ {t} : memory'[x] = memory[x]
  BY <1>1, <1>4, NoKeysType DEF KeysTypeOK
<1>6. PICK s : s = Or(storage.refresh, memory[t].refresh)
  OBVIOUS
<1>7. s \in Ids \cup {None} /\ (s = storage.refresh \/ s = memory[t].refresh)
  <2>1. storage.refresh \in Ids \cup {None} /\ memory[t].refresh \in Ids \cup {None}
    BY <1>1 DEF KeysTypeOK, Keys
  <2>2. QED
    BY <1>6, <2>1 DEF Or
<1>8. signouts' = signouts \cup (IF s = None THEN {} ELSE {[session |-> s, why |-> why[s]]})
  BY <1>6 DEF SignOut
<1>9. CASE s = None
  <2>1. UNCHANGED signouts
    BY <1>8, <1>9
  <2>2. CountsTypeOK'
    BY <1>1, <2>1 DEF CountsTypeOK, SignOut
  <2>3. QED
    BY <1>2, <1>3, <1>4, <1>5, <2>1, <2>2, STypesParts DEF STypes
<1>10. CASE s # None
  <2>1. s \in Ids /\ signouts' = signouts \cup {[session |-> s, why |-> why[s]]}
    BY <1>7, <1>8, <1>10
  <2>2. CountsTypeOK'
    BY <1>1, <2>1 DEF CountsTypeOK, SignOut
  <2>3. QED
    BY <1>2, <1>3, <1>4, <1>5, <1>7, <2>1, <2>2, STypesParts DEF STypes
<1>11. QED
  BY <1>9, <1>10

LEMMA LogoutType ==
  ASSUME STypes, NEW t \in Tabs, Logout(t)
  PROVE  SignOut(t, [s \in Ids |-> "user"])
         /\ [s \in Ids |-> "user"] \in [Ids -> {"user", "dead", "late", "trouble"}]
BY DEF Logout

\* The cause that LogoutRefused gives: "dead" for the session that was refused.
LEMMA LogoutRefusedType ==
  ASSUME STypes, NEW t \in Tabs, LogoutRefused(t)
  PROVE  \E why \in [Ids -> {"user", "dead", "late", "trouble"}] :
           /\ SignOut(t, why)
           /\ \A s \in Ids : why[s] = "dead" => call[t].why = "dead" /\ call[t].session = s
<1>1. tab[t] = "refused" /\ call[t] \in Calls /\ call[t].why # "none"
  BY STypesParts DEF LogoutRefused, STypes, CallsTypeOK, AtWork
<1>2. PICK w \in {"dead", "trouble"} : w = call[t].why
  BY <1>1 DEF Calls
<1> DEFINE why == [s \in Ids |-> IF call[t].why = "dead" /\ call[t].session # s THEN "late" ELSE call[t].why]
<1>3. why \in [Ids -> {"user", "dead", "late", "trouble"}]
  BY <1>2
<1>4. SignOut(t, why)
  BY DEF LogoutRefused
<1>5. \A s \in Ids : why[s] = "dead" => call[t].why = "dead" /\ call[t].session = s
  OBVIOUS
<1>6. QED
  BY <1>3, <1>4, <1>5

LEMMA DeleteSessionType ==
  ASSUME STypes, NEW d \in signouts, DeleteSession(d)
  PROVE  /\ STypes' /\ d.session \in Ids /\ signouts' = signouts \ {d}
         /\ \/ UNCHANGED <<live, endedAt, revoked>>
            \/ End({d.session}) /\ revoked' = IF d.why = "dead" THEN revoked ELSE revoked \cup {d.session}
<1>1. ServerTypeOK /\ KeysTypeOK /\ CallsTypeOK /\ CountsTypeOK /\ AtWork /\ Removal
  BY STypesParts DEF STypes
<1>2. KeysTypeOK' /\ CallsTypeOK' /\ AtWork'
  BY <1>1, BrowserStays DEF DeleteSession
<1>3. d.session \in Ids /\ CountsTypeOK'
  BY <1>1, TimeAssumption DEF DeleteSession, Trouble, CountsTypeOK
<1>4. UNCHANGED <<now, place, removing, movedAt, used>>
  BY DEF DeleteSession
<1>5. CASE UNCHANGED <<live, endedAt, revoked>>
  <2>1. ServerTypeOK' /\ Removal'
    BY <1>1, <1>4, <1>5 DEF ServerTypeOK, Removal
  <2>2. QED
    BY <1>2, <1>3, <1>5, <2>1, STypesParts DEF STypes, DeleteSession
<1>6. CASE End({d.session}) /\ revoked' = IF d.why = "dead" THEN revoked ELSE revoked \cup {d.session}
  <2>1. live' = live \ {d.session} /\ endedAt' \in [Ids -> 0..MaxTime]
    BY <1>1, <1>3, <1>6, EndEffect
  <2>2. ServerTypeOK' /\ Removal'
    BY <1>1, <1>3, <1>4, <1>6, <2>1 DEF ServerTypeOK, Removal
  <2>3. QED
    BY <1>2, <1>3, <1>6, <2>2, STypesParts DEF STypes, DeleteSession
<1>7. QED
  BY <1>5, <1>6 DEF DeleteSession

LEMMA MovesType ==
  ASSUME ServerTypeOK, NEW u \in People, NEW p \in Orgs_ \cup {None}, Moves(u, p)
  PROVE  /\ place' \in [People -> Orgs_ \cup {None}] /\ movedAt' \in [People -> 0..MaxTime]
         /\ place'[u] = p /\ movedAt'[u] = now
         /\ \A v \in People \ {u} : place'[v] = place[v] /\ movedAt'[v] = movedAt[v]
BY DEF ServerTypeOK, Moves

LEMMA RemoveMemberType ==
  ASSUME STypes, NEW u \in People, RemoveMember(u)
  PROVE  STypes'
<1>1. ServerTypeOK /\ KeysTypeOK /\ CallsTypeOK /\ CountsTypeOK /\ AtWork /\ Removal
  BY STypesParts DEF STypes
<1>2. KeysTypeOK' /\ CallsTypeOK' /\ AtWork' /\ CountsTypeOK'
  BY <1>1, BrowserStays, TimeAssumption DEF RemoveMember, CountsTypeOK
<1>3. place' \in [People -> Orgs_ \cup {None}] /\ movedAt' \in [People -> 0..MaxTime]
  BY <1>1, MovesType DEF RemoveMember
<1>4. ServerTypeOK' /\ Removal'
  BY <1>1, <1>3 DEF RemoveMember, ServerTypeOK, Removal
<1>5. QED
  BY <1>2, <1>4, STypesParts DEF STypes

LEMMA ProvisionType ==
  ASSUME STypes, Provision
  PROVE  STypes' /\ removing.who \in People
<1>1. ServerTypeOK /\ KeysTypeOK /\ CallsTypeOK /\ CountsTypeOK /\ AtWork /\ Removal
  BY STypesParts DEF STypes
<1>2. KeysTypeOK' /\ CallsTypeOK' /\ AtWork' /\ CountsTypeOK'
  BY <1>1, BrowserStays DEF Provision, CountsTypeOK
<1>3. PICK u \in People : u = removing.who
  BY <1>1 DEF Provision, Removal
<1>4. place' \in [People -> Orgs_ \cup {None}] /\ movedAt' \in [People -> 0..MaxTime]
  BY <1>1, <1>3, MovesType DEF Provision, Orgs_
<1>5. removing' \in [who : People \cup {None}, at : {"idle", "provision", "revoke"}]
      /\ removing'.who = u
  BY <1>1, <1>3 DEF Provision, ServerTypeOK
<1>6. ServerTypeOK' /\ Removal'
  BY <1>1, <1>4, <1>5 DEF Provision, ServerTypeOK, Removal
<1>7. QED
  BY <1>2, <1>3, <1>6, STypesParts DEF STypes

LEMMA DeleteAllType ==
  ASSUME STypes, DeleteAllUserSessions
  PROVE  STypes'
<1>1. ServerTypeOK /\ KeysTypeOK /\ CallsTypeOK /\ CountsTypeOK /\ AtWork /\ Removal
  BY STypesParts DEF STypes
<1>2. KeysTypeOK' /\ CallsTypeOK' /\ AtWork' /\ CountsTypeOK'
  BY <1>1, BrowserStays DEF DeleteAllUserSessions, CountsTypeOK
<1>3. live' \subseteq live /\ endedAt' \in [Ids -> 0..MaxTime]
  BY <1>1, EndEffect DEF DeleteAllUserSessions
<1>4. ServerTypeOK' /\ Removal'
  BY <1>1, <1>3 DEF DeleteAllUserSessions, ServerTypeOK, Removal
<1>5. QED
  BY <1>2, <1>4, STypesParts DEF STypes

LEMMA RemovalFailsType ==
  ASSUME STypes, RemovalFails
  PROVE  STypes'
<1>1. ServerTypeOK /\ KeysTypeOK /\ CallsTypeOK /\ CountsTypeOK /\ AtWork /\ Removal
  BY STypesParts DEF STypes
<1>2. KeysTypeOK' /\ CallsTypeOK' /\ AtWork'
  BY <1>1, BrowserStays DEF RemovalFails
<1>3. CountsTypeOK'
  BY <1>1, TimeAssumption DEF RemovalFails, Trouble, CountsTypeOK
<1>4. ServerTypeOK' /\ Removal'
  BY <1>1 DEF RemovalFails, ServerTypeOK, Removal
<1>5. QED
  BY <1>2, <1>3, <1>4, STypesParts DEF STypes

LEMMA TickType ==
  ASSUME STypes, Tick
  PROVE  STypes'
<1>1. ServerTypeOK /\ KeysTypeOK /\ CallsTypeOK /\ CountsTypeOK /\ AtWork /\ Removal
  BY STypesParts DEF STypes
<1>2. KeysTypeOK' /\ CallsTypeOK' /\ AtWork' /\ CountsTypeOK'
  BY <1>1, BrowserStays DEF Tick, CountsTypeOK
<1>3. ServerTypeOK' /\ Removal'
  BY <1>1, TimeAssumption DEF Tick, serverVars, ServerTypeOK, Removal
<1>4. QED
  BY <1>2, <1>3, STypesParts DEF STypes

LEMMA TypesNext ==
  ASSUME STypes, [SessionsNext]_sessionsVars
  PROVE  STypes'
<1>1. ASSUME NEW t \in Tabs, TabStep(t)
      PROVE  STypes'
  <2>1. ASSUME NEW why \in [Ids -> {"user", "dead", "late", "trouble"}], SignOut(t, why)
        PROVE  STypes'
    BY <2>1, SignOutType
  <2>2. Logout(t) \/ LogoutRefused(t) => STypes'
    BY <2>1, LogoutType, LogoutRefusedType
  <2>3. QED
    BY <1>1, <2>2, LoginType, StoreAuthType, LoadType, ApiFetchType, TryRefreshType, RefreshType,
       RefreshLookupType, RefreshFailsType, AnsweredType DEF TabStep
<1>2. CASE UNCHANGED sessionsVars
  BY <1>2 DEF STypes, SessionsTypeOK, AtWork, Removal, sessionsVars, serverVars, browserVars
<1>3. QED
  BY <1>1, <1>2, DeleteSessionType, RemoveMemberType, ProvisionType, DeleteAllType,
     RemovalFailsType, TickType
  DEF SessionsNext

\* Every variable keeps its type: in particular a token names a session and an organisation,
\* and a tab that asks the server to refresh has a session to ask for.
THEOREM SessionsTypeCorrect == SessionsSpec => [](SessionsTypeOK /\ AtWork /\ Removal)
<1>1. SessionsInit => STypes
  BY TypesInit
<1>2. STypes /\ [SessionsNext]_sessionsVars => STypes'
  BY TypesNext
<1>3. STypes => SessionsTypeOK /\ AtWork /\ Removal
  BY DEF STypes
<1>4. QED
  BY <1>1, <1>2, <1>3, PTL DEF SessionsSpec

------------------------------------------------------------------------------
(* A token ends with the life it was issued for.                            *)

\* What may be said of a token, wherever it is held.
Good(k) ==
  /\ k.exp <= now + TTL
  /\ k.session \in live \/ k.exp <= endedAt[k.session] + TTL
  /\ k.org = place[OwnerOf[k.session]] \/ k.exp <= movedAt[OwnerOf[k.session]] + TTL

\* The session for which a token is about to be issued was live within this unit of time.
Backed(s) == s \in live \/ endedAt[s] = now
AtHand == \A t \in Tabs : tab[t] \in {"signin", "lookup"} => Backed(call[t].session)

InTime == (\A k \in Held \ {None} : Good(k)) /\ AtHand

LEMMA TokenType ==
  ASSUME ServerTypeOK, NEW k \in Token
  PROVE  /\ k.session \in Ids /\ k.exp \in Int /\ OwnerOf[k.session] \in People
         /\ endedAt[k.session] \in Int /\ movedAt[OwnerOf[k.session]] \in Int
         /\ now \in Int /\ TTL \in Int
BY OwnerAssumption, TimeAssumption DEF Token, ServerTypeOK

LEMMA HeldType ==
  ASSUME STypes
  PROVE  Held \subseteq Token \cup {None}
BY STypesParts DEF STypes, KeysTypeOK, CallsTypeOK, Keys, Calls, Held

\* A session that ends does so now, and what was issued for it ends a life later at most.
LEMMA EndGood ==
  ASSUME STypes, NEW ss \in SUBSET Ids, End(ss), UNCHANGED <<now, place, movedAt>>
  PROVE  /\ \A k \in Token : Good(k) => Good(k)'
         /\ \A s \in Ids : Backed(s) => Backed(s)'
<1>1. ServerTypeOK
  BY STypesParts DEF STypes
<1>2. /\ live' = live \ ss
      /\ \A s \in Ids : endedAt'[s] = IF s \in ss /\ s \in live THEN now ELSE endedAt[s]
  BY <1>1, EndEffect
<1>3. ASSUME NEW k \in Token, Good(k)
      PROVE  Good(k)'
  <2>1. k.session \in Ids /\ k.exp \in Int /\ now \in Int /\ TTL \in Int
    BY <1>1, TokenType
  <2>2. k.session \in live' \/ k.exp <= endedAt'[k.session] + TTL
    BY <1>2, <1>3, <2>1 DEF Good
  <2>3. QED
    BY <1>3, <2>2 DEF Good
<1>4. QED
  BY <1>2, <1>3 DEF Backed

\* An organisation that a user leaves does not outlast a token either.
LEMMA MovesGood ==
  ASSUME STypes, NEW u \in People, NEW p \in Orgs_ \cup {None}, Moves(u, p),
         UNCHANGED <<now, live, endedAt>>
  PROVE  /\ \A k \in Token : Good(k) => Good(k)'
         /\ \A s \in Ids : Backed(s) => Backed(s)'
<1>1. ServerTypeOK
  BY STypesParts DEF STypes
<1>2. /\ movedAt'[u] = now
      /\ \A v \in People \ {u} : place'[v] = place[v] /\ movedAt'[v] = movedAt[v]
  BY <1>1, MovesType
<1>3. ASSUME NEW k \in Token, Good(k)
      PROVE  Good(k)'
  <2>1. OwnerOf[k.session] \in People
    BY <1>1, TokenType
  <2>2. k.org = place'[OwnerOf[k.session]] \/ k.exp <= movedAt'[OwnerOf[k.session]] + TTL
    BY <1>2, <1>3, <2>1 DEF Good
  <2>3. QED
    BY <1>3, <2>2 DEF Good
<1>4. QED
  BY <1>3 DEF Backed

\* A step of the server alone.
LEMMA ServerInTime ==
  ASSUME STypes, InTime, UNCHANGED browserVars,
         \A k \in Token : Good(k) => Good(k)',
         \A s \in Ids : Backed(s) => Backed(s)'
  PROVE  InTime'
<1>1. Held' = Held /\ Held \subseteq Token \cup {None}
  BY HeldType DEF Held, browserVars
<1>2. \A k \in Held' \ {None} : Good(k)'
  BY <1>1 DEF InTime
<1>3. \A t \in Tabs : tab[t] \in {"signin", "lookup"} => call[t].session \in Ids
  BY DEF STypes, AtWork
<1>4. AtHand'
  BY <1>3 DEF InTime, AtHand, browserVars
<1>5. QED
  BY <1>2, <1>4 DEF InTime

\* A step of tab t after which no token is held but those held before and a good one.
LEMMA TabInTime ==
  ASSUME STypes, InTime, NEW t \in Tabs, NEW l, NEW c, Becomes(t, l, c),
         UNCHANGED <<now, place, movedAt, endedAt>>, live \subseteq live',
         NEW k, k = None \/ Good(k)', Held' \subseteq Held \cup {None, k},
         l \in {"signin", "lookup"} => c.session \in live'
  PROVE  InTime'
<1>1. Held \subseteq Token \cup {None}
  BY HeldType
<1>2. \A j \in Held \ {None} : Good(j)'
  BY DEF InTime, Good
<1>3. \A j \in Held' \ {None} : Good(j)'
  BY <1>2
<1>4. AtHand'
  <2> SUFFICES ASSUME NEW x \in Tabs, tab'[x] \in {"signin", "lookup"}
               PROVE  call'[x].session \in live' \/ endedAt'[call'[x].session] = now'
    BY DEF AtHand, Backed
  <2>1. CASE x = t
    BY <2>1 DEF Becomes, Backed
  <2>2. CASE x # t
    BY <2>2 DEF Becomes, Backed, InTime, AtHand
  <2>3. QED
    BY <2>1, <2>2
<1>5. QED
  BY <1>3, <1>4 DEF InTime

LEMMA HeldOf ==
  ASSUME NEW k, storage'.access \in Held \cup {None, k},
         \A t \in Tabs : memory'[t].access \in Held \cup {None, k},
         \A t \in Tabs : call'[t].token \in Held \cup {None, k}
  PROVE  Held' \subseteq Held \cup {None, k}
BY DEF Held

LEMMA HoldersHeld ==
  storage.access \in Held /\ \A t \in Tabs : memory[t].access \in Held /\ call[t].token \in Held
BY DEF Held

\* The token that issueAccessToken makes for a session at hand.
LEMMA IssueGood ==
  ASSUME STypes, NEW s \in Ids, Backed(s), place[OwnerOf[s]] # None, NEW k \in Token, k = Issue(s)
  PROVE  Good(k)
<1>1. ServerTypeOK
  BY STypesParts DEF STypes
<1>2. k.session = s /\ k.org = place[OwnerOf[s]] /\ k.exp = now + TTL
  BY <1>1, IssueType
<1>3. k.exp \in Int
  BY <1>1, TokenType
<1>4. QED
  BY <1>2, <1>3 DEF Good, Backed

LEMMA TabStepInTime ==
  ASSUME STypes, InTime, NEW t \in Tabs, TabStep(t)
  PROVE  InTime'
<1>1. ServerTypeOK /\ KeysTypeOK /\ CallsTypeOK
  BY STypesParts DEF STypes
<1>2. ASSUME NEW s \in Ids, Login(t, s)
      PROVE  InTime'
  <2>1. Becomes(t, "signin", [NoCall EXCEPT !.session = s])
        /\ [NoCall EXCEPT !.session = s].token = None /\ [NoCall EXCEPT !.session = s].session = s
    BY <1>2, LoginType, SessionCallType
  <2>2. Held' \subseteq Held \cup {None, None}
    BY <1>2, <2>1, HoldersHeld, HeldOf DEF Login, Becomes
  <2>3. live \subseteq live' /\ s \in live' /\ UNCHANGED <<now, place, movedAt, endedAt>>
    BY <1>2 DEF Login
  <2>4. PICK c : c = [NoCall EXCEPT !.session = s]
    OBVIOUS
  <2>5. QED
    BY <2>1, <2>2, <2>3, <2>4, TabInTime
<1>3. ASSUME StoreAuth(t)
      PROVE  InTime'
  <2>1. Becomes(t, "idle", NoCall) /\ NoCall.token = None
    BY <1>3, StoreAuthType, NoCallType
  <2>2. UNCHANGED <<now, live, place, movedAt, endedAt>>
    BY <1>3 DEF StoreAuth, serverVars
  <2>3. CASE UNCHANGED <<storage, memory>>
    <3>1. Held' \subseteq Held \cup {None, None}
      BY <2>1, <2>3, HoldersHeld, HeldOf DEF Becomes
    <3>2. QED
      BY <2>1, <2>2, <3>1, TabInTime
  <2>4. ASSUME NEW k \in Token, k = Issue(call[t].session), place[OwnerOf[call[t].session]] # None,
               storage' = [access |-> k, refresh |-> call[t].session],
               memory' = [memory EXCEPT ![t] = storage']
        PROVE  InTime'
    <3>1. PICK s \in Ids : s = call[t].session
      BY <1>3, StoreAuthType
    <3>2. Backed(s)
      BY <1>3, <3>1 DEF StoreAuth, InTime, AtHand
    <3>3. Good(k)
      BY <2>4, <3>1, <3>2, IssueGood
    <3>4. Good(k)'
      BY <2>2, <3>3 DEF Good
    <3>5. storage'.access = k /\ memory'[t].access = k /\ \A x \in Tabs \ {t} : memory'[x] = memory[x]
      BY <1>1, <2>4 DEF KeysTypeOK
    <3>6. Held' \subseteq Held \cup {None, k}
      BY <2>1, <3>5, HoldersHeld, HeldOf DEF Becomes
    <3>7. QED
      BY <2>1, <2>2, <3>4, <3>6, TabInTime
  <2>5. QED
    BY <1>3, <2>3, <2>4, StoreAuthType
<1>4. ASSUME Load(t)
      PROVE  InTime'
  <2>1. UNCHANGED <<now, serverVars, storage, tab, call>>
    BY <1>4 DEF Load
  <2>2. memory'[t] = storage /\ \A x \in Tabs \ {t} : memory'[x] = memory[x]
    BY <1>1, <1>4 DEF Load, KeysTypeOK
  <2>3. Held' \subseteq Held
    BY <2>1, <2>2 DEF Held
  <2>4. QED
    BY <2>1, <2>3 DEF InTime, Good, AtHand, Backed, serverVars
<1>5. ASSUME NEW l, NEW c, Becomes(t, l, c), c.token = None \/ c.token = call[t].token,
             UNCHANGED <<now, serverVars, storage, memory>>,
             l \in {"signin", "lookup"} => c.session \in live
      PROVE  InTime'
  <2>1. Held' \subseteq Held \cup {None, None}
    BY <1>5, HoldersHeld, HeldOf DEF Becomes
  <2>2. QED
    BY <1>5, <2>1, TabInTime DEF serverVars
<1>6. CASE ApiFetch(t)
  BY <1>5, <1>6, ApiFetchType, NoCallType DEF ApiFetch
<1>7. CASE TryRefresh(t)
  BY <1>5, <1>7, TryRefreshType, NoCallType, SessionCallType DEF TryRefresh
<1>8. CASE Refresh(t)
  BY <1>5, <1>8, RefreshType, RefusedCallType DEF Refresh
<1>9. CASE RefreshLookup(t)
  <2>1. UNCHANGED <<now, serverVars, storage, memory>>
    BY <1>9 DEF RefreshLookup
  <2>2. CASE Becomes(t, "refused", [call[t] EXCEPT !.why = "dead"])
    BY <1>5, <1>9, <2>1, <2>2, RefreshLookupType, RefusedCallType
  <2>3. ASSUME NEW k \in Token, k = Issue(call[t].session), place[OwnerOf[call[t].session]] # None,
               Becomes(t, "answered", [call[t] EXCEPT !.token = k])
        PROVE  InTime'
    <3>1. PICK s \in Ids : s = call[t].session
      BY <1>9, RefreshLookupType
    <3>2. Backed(s)
      BY <1>9, <3>1 DEF RefreshLookup, InTime, AtHand
    <3>3. Good(k)
      BY <2>3, <3>1, <3>2, IssueGood
    <3>4. Good(k)'
      BY <2>1, <3>3 DEF Good, serverVars
    <3>5. [call[t] EXCEPT !.token = k].token = k
      BY <1>9, RefreshLookupType, AnsweredCallType
    <3>6. Held' \subseteq Held \cup {None, k}
      BY <2>1, <2>3, <3>5, HoldersHeld, HeldOf DEF Becomes
    <3>7. QED
      BY <2>1, <2>3, <3>4, <3>6, TabInTime DEF serverVars
  <2>4. QED
    BY <1>9, <2>2, <2>3, RefreshLookupType
<1>10. CASE RefreshFails(t)
  BY <1>5, <1>10, RefreshFailsType, RefusedCallType DEF RefreshFails
<1>11. CASE Answered(t)
  <2>1. Becomes(t, "idle", NoCall) /\ NoCall.token = None
        /\ storage'.access = call[t].token /\ memory'[t].access = call[t].token
        /\ \A x \in Tabs \ {t} : memory'[x] = memory[x]
    BY <1>11, AnsweredType, NoCallType
  <2>2. Held' \subseteq Held \cup {None, None}
    BY <2>1, HoldersHeld, HeldOf DEF Becomes
  <2>3. QED
    BY <1>11, <2>1, <2>2, TabInTime DEF Answered, serverVars
<1>12. ASSUME NEW why \in [Ids -> {"user", "dead", "late", "trouble"}], SignOut(t, why)
       PROVE  InTime'
  <2>1. Becomes(t, "idle", NoCall) /\ NoCall.token = None
        /\ storage'.access = None /\ memory'[t].access = None
        /\ \A x \in Tabs \ {t} : memory'[x] = memory[x]
    BY <1>12, SignOutType, NoCallType, NoKeysType
  <2>2. Held' \subseteq Held \cup {None, None}
    BY <2>1, HoldersHeld, HeldOf DEF Becomes
  <2>3. QED
    BY <1>12, <2>1, <2>2, TabInTime DEF SignOut, serverVars
<1>13. Logout(t) \/ LogoutRefused(t) => InTime'
  BY <1>12, LogoutType, LogoutRefusedType
<1>14. QED
  BY <1>2, <1>3, <1>4, <1>6, <1>7, <1>8, <1>9, <1>10, <1>11, <1>13 DEF TabStep

LEMMA InTimeNext ==
  ASSUME STypes, InTime, [SessionsNext]_sessionsVars
  PROVE  InTime'
<1>1. ServerTypeOK
  BY STypesParts DEF STypes
<1>2. ASSUME NEW d \in signouts, DeleteSession(d)
      PROVE  InTime'
  <2>1. UNCHANGED <<now, place, movedAt, browserVars>> /\ d.session \in Ids
    BY <1>2, DeleteSessionType DEF DeleteSession
  <2>2. CASE UNCHANGED <<live, endedAt>>
    BY <2>1, <2>2, ServerInTime DEF Good, Backed
  <2>3. CASE End({d.session})
    <3>1. {d.session} \in SUBSET Ids
      BY <2>1
    <3>2. QED
      BY <2>1, <2>3, <3>1, EndGood, ServerInTime
  <2>4. QED
    BY <1>2, <2>2, <2>3, DeleteSessionType
<1>3. ASSUME NEW u \in People, RemoveMember(u)
      PROVE  InTime'
  BY <1>3, MovesGood, ServerInTime DEF RemoveMember
<1>4. CASE Provision
  <2>1. PICK u \in People : u = removing.who
    BY <1>4, ProvisionType
  <2>2. Moves(u, Personal) /\ Personal \in Orgs_
    BY <1>4, <2>1 DEF Provision, Orgs_
  <2>3. QED
    BY <1>4, <2>2, MovesGood, ServerInTime DEF Provision
<1>5. CASE DeleteAllUserSessions
  <2>1. PICK ss \in SUBSET Ids : ss = {s \in Ids : OwnerOf[s] = removing.who}
    OBVIOUS
  <2>2. End(ss)
    BY <1>5, <2>1 DEF DeleteAllUserSessions
  <2>3. QED
    BY <1>5, <2>2, EndGood, ServerInTime DEF DeleteAllUserSessions
<1>6. CASE Tick
  <2>1. now' = now + 1 /\ UNCHANGED <<serverVars, browserVars>> /\ now \in Int /\ TTL \in Int
    BY <1>1, <1>6, TimeAssumption DEF Tick, ServerTypeOK
  <2>2. Held' = Held /\ Held \subseteq Token \cup {None}
    BY <2>1, HeldType DEF Held, browserVars
  <2>3. ASSUME NEW k \in Token, Good(k)
        PROVE  Good(k)'
    <3>1. k.exp \in Int
      BY <1>1, TokenType
    <3>2. QED
      BY <2>1, <2>3, <3>1 DEF Good, serverVars
  <2>4. \A k \in Held' \ {None} : Good(k)'
    BY <2>2, <2>3 DEF InTime
  <2>5. AtHand'
    BY <1>6, <2>1 DEF Tick, AtHand, browserVars
  <2>6. QED
    BY <2>4, <2>5 DEF InTime
<1>7. CASE UNCHANGED sessionsVars
  BY <1>7 DEF sessionsVars, serverVars, browserVars, InTime, Held, Good, AtHand, Backed
<1>8. CASE RemovalFails
  BY <1>8, ServerInTime DEF RemovalFails, Good, Backed
<1>9. QED
  BY <1>2, <1>3, <1>4, <1>5, <1>6, <1>7, <1>8, TabStepInTime DEF SessionsNext

LEMMA InTimeInit == SessionsInit => InTime
<1> SUFFICES ASSUME SessionsInit
             PROVE  InTime
  OBVIOUS
<1>1. Held \subseteq {None}
  BY NoCallType, NoKeysType DEF SessionsInit, Held
<1>2. AtHand
  BY DEF SessionsInit, AtHand
<1>3. QED
  BY <1>1, <1>2 DEF InTime

\* AccessEndsInTime: whatever refreshes, sign-ins and late answers were under way when a session
\* was deleted or a member removed, no token outlives it by more than the life of a token.
THEOREM TokensEndInTime == SessionsSpec => []AccessEndsInTime
<1>1. SessionsInit => STypes /\ InTime
  BY TypesInit, InTimeInit
<1>2. STypes /\ InTime /\ [SessionsNext]_sessionsVars => (STypes /\ InTime)'
  BY TypesNext, InTimeNext
<1>3. InTime => AccessEndsInTime
  BY DEF InTime, Good, AccessEndsInTime
<1>4. QED
  BY <1>1, <1>2, <1>3, PTL DEF SessionsSpec

------------------------------------------------------------------------------
(* Nobody is signed out without a cause.                                    *)

\* What ended session s: a sign-out that a user or a failure asked for, or a removal.
Cause(s) == s \in revoked \/ place[OwnerOf[s]] # Company

\* The sessions a browser knows were all created.
Known ==
  /\ storage.refresh \in used \cup {None}
  /\ \A t \in Tabs : /\ memory[t].refresh \in used \cup {None}
                     /\ call[t].session \in used \cup {None}

Caused ==
  /\ Known
  /\ \A s \in used \ live : Cause(s)
  /\ \A t \in Tabs : tab[t] = "refused" /\ call[t].why = "dead" /\ call[t].session # None
                       => Cause(call[t].session)
  /\ \A d \in signouts : d.why = "dead" => Cause(d.session)

\* A step after which every cause is still one, no session ended without, and the browser is as it was.
LEMMA ServerCaused ==
  ASSUME STypes, Caused, UNCHANGED <<used, browserVars>>, signouts' \subseteq signouts,
         \A s \in Ids : Cause(s) => Cause(s)',
         \A s \in live \ live' : Cause(s)'
  PROVE  Caused'
<1>1. used \subseteq Ids /\ (\A d \in signouts : d.session \in Ids)
      /\ \A t \in Tabs : call[t].session \in Ids \cup {None}
  BY STypesParts DEF STypes, ServerTypeOK, CountsTypeOK, CallsTypeOK, Calls
<1>2. Known'
  BY DEF Caused, Known, browserVars
<1>3. \A s \in used' \ live' : Cause(s)'
  BY <1>1 DEF Caused
<1>4. \A t \in Tabs : tab'[t] = "refused" /\ call'[t].why = "dead" /\ call'[t].session # None
                        => Cause(call[t].session)'
  <2> SUFFICES ASSUME NEW t \in Tabs, tab[t] = "refused", call[t].why = "dead", call[t].session # None
               PROVE  Cause(call[t].session)'
    BY DEF browserVars
  <2>1. PICK s \in Ids : s = call[t].session
    BY <1>1
  <2>2. Cause(s)'
    BY <2>1 DEF Caused
  <2>3. QED
    BY <2>1, <2>2 DEF Cause, browserVars
<1>5. \A d \in signouts' : d.why = "dead" => Cause(d.session)'
  BY <1>1 DEF Caused
<1>6. QED
  BY <1>2, <1>3, <1>4, <1>5 DEF Caused, browserVars

\* A step of tab t that ends nothing: it holds sessions it held before, and is refused with a cause.
LEMMA TabCaused ==
  ASSUME STypes, Caused, NEW t \in Tabs, NEW l, NEW c, Becomes(t, l, c),
         UNCHANGED <<serverVars, used, signouts>>,
         c.session \in used \cup {None},
         l = "refused" /\ c.why = "dead" /\ c.session # None => Cause(c.session),
         storage'.refresh \in used \cup {None},
         \A x \in Tabs : memory'[x].refresh \in used \cup {None}
  PROVE  Caused'
<1>1. Known'
  BY DEF Becomes, Caused, Known
<1>2. ASSUME NEW x \in Tabs, tab'[x] = "refused", call'[x].why = "dead", call'[x].session # None
      PROVE  Cause(call'[x].session)
  <2>1. CASE x = t
    BY <1>2, <2>1 DEF Becomes
  <2>2. CASE x # t
    BY <1>2, <2>2 DEF Becomes, Caused
  <2>3. QED
    BY <2>1, <2>2
<1>3. \A s : Cause(s)' <=> Cause(s)
  BY DEF Cause, serverVars
<1>4. QED
  BY <1>1, <1>2, <1>3 DEF Caused, Cause, serverVars

LEMMA TabStepCaused ==
  ASSUME STypes, Caused, NEW t \in Tabs, TabStep(t)
  PROVE  Caused'
<1>1. ServerTypeOK /\ KeysTypeOK /\ CallsTypeOK
  BY STypesParts DEF STypes
<1>2. Known /\ live \subseteq used /\ used \subseteq Ids
  BY <1>1 DEF Caused, ServerTypeOK
<1>3. ASSUME NEW s \in Ids, Login(t, s)
      PROVE  Caused'
  <2>1. Becomes(t, "signin", [NoCall EXCEPT !.session = s]) /\ [NoCall EXCEPT !.session = s].session = s
    BY <1>3, LoginType, SessionCallType
  <2>2. live' = live \cup {s} /\ used' = used \cup {s}
        /\ UNCHANGED <<place, revoked, signouts, storage, memory>>
    BY <1>3 DEF Login
  <2>3. Known'
    BY <1>2, <2>1, <2>2 DEF Known, Becomes
  <2>4. \A x : Cause(x)' <=> Cause(x)
    BY <2>2 DEF Cause
  <2>5. \A x \in Tabs : tab'[x] = "refused" => x # t /\ tab[x] = "refused" /\ call'[x] = call[x]
    BY <2>1 DEF Becomes
  <2>6. QED
    BY <2>2, <2>3, <2>4, <2>5 DEF Caused, Cause
<1>4. ASSUME NEW l, NEW c, Becomes(t, l, c), UNCHANGED <<serverVars, used, signouts, storage, memory>>,
             c.session \in used \cup {None},
             l = "refused" /\ c.why = "dead" /\ c.session # None => Cause(c.session)
      PROVE  Caused'
  BY <1>2, <1>4, TabCaused DEF Known
<1>5. CASE StoreAuth(t)
  <2>1. Becomes(t, "idle", NoCall) /\ NoCall.session = None
        /\ UNCHANGED <<serverVars, used, signouts>>
    BY <1>5, StoreAuthType, NoCallType DEF StoreAuth
  <2>2. CASE UNCHANGED <<storage, memory>>
    BY <1>4, <2>1, <2>2
  <2>3. ASSUME storage'.refresh = call[t].session, memory' = [memory EXCEPT ![t] = storage']
        PROVE  Caused'
    <3>1. call[t].session \in used \cup {None}
      BY <1>2 DEF Known
    <3>2. \A x \in Tabs : memory'[x].refresh \in used \cup {None}
      BY <1>1, <1>2, <2>3, <3>1 DEF Known, KeysTypeOK
    <3>3. QED
      BY <2>1, <2>3, <3>1, <3>2, TabCaused
  <2>4. QED
    BY <1>5, <2>2, <2>3, StoreAuthType
<1>6. CASE Load(t)
  <2>1. UNCHANGED <<live, used, place, revoked, storage, tab, call, signouts>>
    BY <1>6 DEF Load, serverVars
  <2>2. \A x \in Tabs : memory'[x].refresh \in used \cup {None}
    BY <1>1, <1>2, <1>6 DEF Load, Known, KeysTypeOK
  <2>3. Known'
    BY <1>2, <2>1, <2>2 DEF Known
  <2>4. QED
    BY <2>1, <2>3 DEF Caused, Cause
<1>7. CASE ApiFetch(t)
  BY <1>4, <1>7, ApiFetchType, NoCallType DEF ApiFetch
<1>8. CASE TryRefresh(t)
  <2>1. UNCHANGED <<serverVars, used, signouts, storage, memory>>
    BY <1>8 DEF TryRefresh
  <2>2. CASE Becomes(t, "refused", [NoCall EXCEPT !.why = "dead"])
    BY <1>4, <2>1, <2>2, NoCallType
  <2>3. ASSUME NEW s \in Ids, s = storage.refresh \/ s = memory[t].refresh,
               Becomes(t, "validate", [NoCall EXCEPT !.session = s])
        PROVE  Caused'
    <3>1. [NoCall EXCEPT !.session = s].session \in used \cup {None}
      BY <1>2, <2>3, SessionCallType DEF Known
    <3>2. QED
      BY <1>4, <2>1, <2>3, <3>1
  <2>4. QED
    BY <1>8, <2>2, <2>3, TryRefreshType
<1>9. CASE Refresh(t)
  <2>1. UNCHANGED <<serverVars, used, signouts, storage, memory>>
    BY <1>9 DEF Refresh
  <2>2. PICK s \in Ids : s = call[t].session
    BY <1>9, RefreshType
  <2>3. call[t] \in Calls /\ s \in used \cup {None}
    BY <1>2, <1>9, <2>2, RefreshType DEF Known
  <2>4. CASE Becomes(t, "lookup", call[t])
    BY <1>4, <2>1, <2>2, <2>3, <2>4
  <2>5. CASE s \notin live /\ Becomes(t, "refused", [call[t] EXCEPT !.why = "dead"])
    <3>1. [call[t] EXCEPT !.why = "dead"].session = s
      BY <2>2, <2>3, RefusedCallType
    <3>2. s # None => Cause(s)
      BY <2>3, <2>5 DEF Caused
    <3>3. QED
      BY <1>4, <2>1, <2>3, <2>5, <3>1, <3>2
  <2>6. QED
    BY <1>9, <2>2, <2>4, <2>5, RefreshType
<1>10. CASE RefreshLookup(t)
  <2>1. UNCHANGED <<serverVars, used, signouts, storage, memory>>
    BY <1>10 DEF RefreshLookup
  <2>2. PICK s \in Ids : s = call[t].session
    BY <1>10, RefreshLookupType
  <2>3. call[t] \in Calls /\ s \in used \cup {None}
    BY <1>2, <1>10, <2>2, RefreshLookupType DEF Known
  <2>4. ASSUME NEW k \in Token, Becomes(t, "answered", [call[t] EXCEPT !.token = k])
        PROVE  Caused'
    <3>1. [call[t] EXCEPT !.token = k].session = s
      BY <2>2, <2>3, AnsweredCallType
    <3>2. QED
      BY <1>4, <2>1, <2>3, <2>4, <3>1
  <2>5. CASE place[OwnerOf[s]] = None /\ Becomes(t, "refused", [call[t] EXCEPT !.why = "dead"])
    <3>1. [call[t] EXCEPT !.why = "dead"].session = s
      BY <2>2, <2>3, RefusedCallType
    <3>2. Cause(s)
      BY <2>5, PlacesAssumption DEF Cause
    <3>3. QED
      BY <1>4, <2>1, <2>3, <2>5, <3>1, <3>2
  <2>6. QED
    BY <1>10, <2>2, <2>4, <2>5, RefreshLookupType
<1>11. CASE RefreshFails(t)
  <2>1. UNCHANGED <<serverVars, used, signouts, storage, memory>>
    BY <1>11 DEF RefreshFails
  <2>2. call[t] \in Calls /\ Becomes(t, "refused", [call[t] EXCEPT !.why = "trouble"])
    BY <1>11, RefreshFailsType
  <2>3. [call[t] EXCEPT !.why = "trouble"].session = call[t].session
        /\ [call[t] EXCEPT !.why = "trouble"].why = "trouble"
    BY <2>2, RefusedCallType
  <2>4. QED
    BY <1>2, <1>4, <2>1, <2>2, <2>3 DEF Known
<1>12. CASE Answered(t)
  <2>1. Becomes(t, "idle", NoCall) /\ NoCall.session = None
        /\ storage'.refresh = storage.refresh /\ memory'[t].refresh = memory[t].refresh
        /\ \A x \in Tabs \ {t} : memory'[x] = memory[x]
    BY <1>12, AnsweredType, NoCallType
  <2>2. QED
    BY <1>2, <1>12, <2>1, TabCaused DEF Known, Answered
<1>13. ASSUME NEW why \in [Ids -> {"user", "dead", "late", "trouble"}], SignOut(t, why),
              \A s \in Ids : why[s] = "dead" => Cause(s)
       PROVE  Caused'
  <2>1. Becomes(t, "idle", NoCall) /\ NoCall.session = None
        /\ storage'.refresh = None /\ memory'[t].refresh = None
        /\ \A x \in Tabs \ {t} : memory'[x] = memory[x]
    BY <1>13, SignOutType, NoCallType, NoKeysType
  <2>2. Known'
    BY <1>2, <1>13, <2>1 DEF SignOut, Known, Becomes
  <2>3. \A x : Cause(x)' <=> Cause(x)
    BY <1>13 DEF SignOut, serverVars, Cause
  <2>4. \A x \in Tabs : tab'[x] = "refused" => tab[x] = "refused" /\ call'[x] = call[x]
    BY <2>1 DEF Becomes
  <2>5. UNCHANGED <<live, used, place, revoked>>
    BY <1>13 DEF SignOut, serverVars
  <2>6. \A d \in signouts' : d.why = "dead" => Cause(d.session)
    BY <1>13, SignOutType DEF Caused
  <2>7. QED
    BY <2>2, <2>3, <2>4, <2>5, <2>6 DEF Caused, Cause
<1>14. CASE Logout(t)
  <2>1. SignOut(t, [s \in Ids |-> "user"])
        /\ [s \in Ids |-> "user"] \in [Ids -> {"user", "dead", "late", "trouble"}]
    BY <1>14, LogoutType
  <2>2. QED
    BY <1>13, <2>1
<1>15. CASE LogoutRefused(t)
  <2>1. PICK why \in [Ids -> {"user", "dead", "late", "trouble"}] :
          /\ SignOut(t, why)
          /\ \A s \in Ids : why[s] = "dead" => call[t].why = "dead" /\ call[t].session = s
    BY <1>15, LogoutRefusedType
  <2>2. ASSUME NEW s \in Ids, why[s] = "dead"
        PROVE  Cause(s)
    <3>1. tab[t] = "refused" /\ call[t].why = "dead" /\ call[t].session = s /\ s # None
      BY <1>15, <2>1, <2>2, OwnerAssumption DEF LogoutRefused
    <3>2. Cause(call[t].session)
      BY <3>1 DEF Caused
    <3>3. QED
      BY <3>1, <3>2
  <2>3. QED
    BY <1>13, <2>1, <2>2
<1>16. QED
  BY <1>3, <1>5, <1>6, <1>7, <1>8, <1>9, <1>10, <1>11, <1>12, <1>14, <1>15 DEF TabStep

LEMMA CausedNext ==
  ASSUME STypes, Caused, [SessionsNext]_sessionsVars
  PROVE  Caused'
<1>1. ServerTypeOK
  BY STypesParts DEF STypes
<1>2. ASSUME NEW d \in signouts, DeleteSession(d)
      PROVE  Caused'
  <2>1. UNCHANGED <<place, used, browserVars>> /\ d.session \in Ids /\ signouts' \subseteq signouts
    BY <1>2, DeleteSessionType DEF DeleteSession
  <2>2. CASE UNCHANGED <<live, endedAt, revoked>>
    BY <2>1, <2>2, ServerCaused DEF Cause
  <2>3. CASE End({d.session}) /\ revoked' = IF d.why = "dead" THEN revoked ELSE revoked \cup {d.session}
    <3>1. live' = live \ {d.session} /\ revoked \subseteq revoked'
      BY <2>3 DEF End
    <3>2. Cause(d.session)'
      <4>1. CASE d.why = "dead"
        <5>1. Cause(d.session)
          BY <4>1 DEF Caused
        <5>2. QED
          BY <2>1, <3>1, <5>1 DEF Cause
      <4>2. CASE d.why # "dead"
        BY <2>3, <4>2 DEF Cause
      <4>3. QED
        BY <4>1, <4>2
    <3>3. \A s \in Ids : Cause(s) => Cause(s)'
      BY <2>1, <3>1 DEF Cause
    <3>4. QED
      BY <2>1, <3>1, <3>2, <3>3, ServerCaused
  <2>4. QED
    BY <1>2, <2>2, <2>3, DeleteSessionType
<1>3. ASSUME NEW u \in People, NEW p \in {Personal, None}, Moves(u, p),
             UNCHANGED <<live, used, revoked, browserVars, signouts>>
      PROVE  Caused'
  <2>1. p \in Orgs_ \cup {None} /\ p # Company
    BY PlacesAssumption DEF Orgs_
  <2>2. place'[u] = p /\ \A v \in People \ {u} : place'[v] = place[v]
    BY <1>1, <1>3, <2>1, MovesType
  <2>3. \A s \in Ids : Cause(s) => Cause(s)'
    BY <1>3, <2>1, <2>2, OwnerAssumption DEF Cause
  <2>4. QED
    BY <1>3, <2>3, ServerCaused
<1>4. ASSUME NEW u \in People, RemoveMember(u)
      PROVE  Caused'
  BY <1>3, <1>4 DEF RemoveMember
<1>5. CASE Provision
  <2>1. PICK u \in People : u = removing.who
    BY <1>5, ProvisionType
  <2>2. QED
    BY <1>3, <1>5, <2>1 DEF Provision
<1>6. CASE DeleteAllUserSessions
  <2>1. PICK ss \in SUBSET Ids : ss = {s \in Ids : OwnerOf[s] = removing.who}
    OBVIOUS
  <2>2. live' = live \ ss /\ revoked' = revoked \cup ss
        /\ UNCHANGED <<place, used, browserVars, signouts>>
    BY <1>6, <2>1 DEF DeleteAllUserSessions, End
  <2>3. (\A s \in Ids : Cause(s) => Cause(s)') /\ (\A s \in live \ live' : Cause(s)')
    BY <2>2 DEF Cause
  <2>4. QED
    BY <2>2, <2>3, ServerCaused
<1>7. CASE RemovalFails \/ Tick \/ UNCHANGED sessionsVars
  <2>1. UNCHANGED <<live, place, revoked, used, browserVars, signouts>>
    BY <1>7 DEF RemovalFails, Tick, sessionsVars, serverVars
  <2>2. QED
    BY <2>1, ServerCaused DEF Cause
<1>8. QED
  BY <1>2, <1>4, <1>5, <1>6, <1>7, TabStepCaused DEF SessionsNext

LEMMA CausedInit == SessionsInit => Caused
BY NoCallType, NoKeysType DEF SessionsInit, Caused, Known

\* SignedOutForCause: a tab tells the server to end a session that a refresh found dead only if
\* its user signed out of it in some tab or was removed, or a failure had ended it before.
THEOREM NobodySignedOutWithoutCause == SessionsSpec => []SignedOutForCause
<1>1. SessionsInit => STypes /\ Caused
  BY TypesInit, CausedInit
<1>2. STypes /\ Caused /\ [SessionsNext]_sessionsVars => (STypes /\ Caused)'
  BY TypesNext, CausedNext
<1>3. Caused => SignedOutForCause
  BY DEF Caused, Cause, SignedOutForCause
<1>4. QED
  BY <1>1, <1>2, <1>3, PTL DEF SessionsSpec

------------------------------------------------------------------------------
(* Mailboxes and sign-in side by side.                                       *)

\* MCUsers starts like both, and each of its steps is one of either or leaves it alone: so
\* what is proved of GmailConnection and Sessions holds of the run.
THEOREM SideBySide == Spec => GmailSpec /\ SessionsSpec
<1>1. Init => GmailInit /\ SessionsInit
  BY DEF Init
<1>2. [Next]_<<gmailVars, sessionsVars>> =>
        [GmailNext]_gmailVars /\ [SessionsNext]_sessionsVars
  BY DEF Next
<1>3. QED
  BY <1>1, <1>2, PTL DEF Spec, GmailSpec, SessionsSpec

\* TypeOK of MCUsers: the types of both.
THEOREM UsersTypeCorrect == Spec => []TypeOK
<1>1. GmailTypeOK /\ SessionsTypeOK => TypeOK
  BY DEF TypeOK
<1>2. QED
  BY <1>1, SideBySide, TypeCorrect, SessionsTypeCorrect, PTL
=============================================================================
