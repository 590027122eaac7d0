---------------------------- MODULE GmailConnection ----------------------------
(***************************************************************************)
(* Connecting and disconnecting Gmail mailboxes: tenant-service's rows of  *)
(* oauth_tokens, one for each user, the counter mailbox_count with which a *)
(* tenant's plan limits them, and the watches Gmail keeps.                 *)
(*                                                                         *)
(* A handler takes the tenant from an access token: that of its request,   *)
(* or the one that went to Google's consent screen as the state and came   *)
(* back with the callback.  A row keeps the tenant it was inserted with,   *)
(* and people change organisations; a tenant that its owner deletes takes  *)
(* its rows along (ON DELETE CASCADE).  The tokens of the model do not     *)
(* expire: it has no clock, and fifteen minutes are enough for all of it.  *)
(* Counter, row and watch are written by separate statements and calls;    *)
(* scans end by writing the row back when Google renewed its token.        *)
(***************************************************************************)
EXTENDS Integers, FiniteSets

CONSTANTS
  Owners,        \* users; each has one Gmail mailbox, of the same address
  Nobody,        \* no user
  Orgs, NoOrg,   \* tenants
  FirstOrg,      \* the one in which everybody is when the model starts
  Goroutines,    \* requests and scans at once
  Allowance,     \* the numbers of mailboxes that plans allow
  FirstAllowance, \* the one every tenant has when the model starts
  MaxMishaps,    \* bound: failed statements and calls
  MaxMoves       \* bound: changes of organisation and of plan, tenants deleted, idle disconnects

ASSUME NobodyAssumption == NoOrg \notin Orgs /\ FirstOrg \in Orgs /\ Nobody \notin Owners
ASSUME AllowanceAssumption == Allowance \subseteq Nat /\ FirstAllowance \in Allowance
ASSUME ConnectionFinite == IsFiniteSet(Goroutines) /\ Goroutines # {} /\ IsFiniteSet(Owners)
ASSUME ConnectionBounds == MaxMishaps \in Nat /\ MaxMoves \in Nat

VARIABLES
  member,    \* the organisation a user is in
  tokens,    \* the organisations that access tokens of a user name
  gone,      \* tenants deleted
  allowed,   \* GetPlanLimits(plan).Mailboxes of a tenant
  count,     \* tenants.mailbox_count
  row,       \* oauth_tokens: the tenant in the user's row
  watch,     \* Gmail: the mailboxes with a watch
  stopping,  \* stopWatch goroutines not done
  step,      \* where each request or scan is
  work,      \* whose mailbox it works on, for which tenant, and whether it was counted
  mishaps, moves,
  drift,     \* history variable: tenants whose counter a named cause made wrong
  peak,      \* history variable: the largest allowance a tenant had
  movers,    \* history variable: users who changed organisation with a mailbox, or on the way to one
  unwatched  \* history variable: rows that a named cause left without a watch

gmailVars == <<member, tokens, gone, allowed, count, row, watch, stopping, step, work, mishaps, moves,
               drift, peak, movers, unwatched>>
causeVars == <<drift, peak, movers, unwatched>>
worldVars == <<member, tokens, gone, allowed, mishaps, moves>>

NoWork == [user |-> Nobody, org |-> NoOrg, counted |-> FALSE]
GmailTypeOK ==
  /\ member \in [Owners -> Orgs] /\ tokens \in [Owners -> SUBSET Orgs]
  /\ row \in [Owners -> Orgs \cup {NoOrg}]
  /\ allowed \in [Orgs -> Allowance] /\ peak \in [Orgs -> Allowance]
  /\ count \in [Orgs -> Nat]
  /\ watch \subseteq Owners /\ stopping \subseteq Owners /\ drift \subseteq Orgs /\ gone \subseteq Orgs
  /\ movers \subseteq Owners /\ unwatched \subseteq Owners
  /\ step \in [Goroutines -> {"idle", "increment", "store", "watch", "delete", "decrement", "scan"}]
  /\ work \in [Goroutines -> [user : Owners \cup {Nobody}, org : Orgs \cup {NoOrg}, counted : BOOLEAN]]
  /\ mishaps \in 0..MaxMishaps /\ moves \in 0..MaxMoves

\* Everybody is in one organisation, nobody has connected a mailbox.
GmailInit ==
  /\ member = [u \in Owners |-> FirstOrg] /\ tokens = [u \in Owners |-> {FirstOrg}]
  /\ row = [u \in Owners |-> NoOrg]
  /\ allowed = [t \in Orgs |-> FirstAllowance] /\ peak = allowed
  /\ count = [t \in Orgs |-> 0]
  /\ gone = {} /\ watch = {} /\ stopping = {} /\ movers = {} /\ unwatched = {} /\ drift = {}
  /\ step = [g \in Goroutines |-> "idle"] /\ work = [g \in Goroutines |-> NoWork]
  /\ mishaps = 0 /\ moves = 0

Connected(u) == row[u] # NoOrg
Rows(t)      == {u \in Owners : row[u] = t}
\* Those that may yet write a row of u.
Writers(u)   == {g \in Goroutines : step[g] \in {"increment", "store", "scan"} /\ work[g].user = u}
Watching(u)  == \E g \in Goroutines : step[g] = "watch" /\ work[g].user = u

Take(g, l, u, t) ==
  /\ step[g] = "idle"
  /\ step' = [step EXCEPT ![g] = l]
  /\ work' = [work EXCEPT ![g] = [user |-> u, org |-> t, counted |-> FALSE]]
Proceed(g, l) == step' = [step EXCEPT ![g] = l] /\ UNCHANGED work
ToWatch(g) ==
  /\ step' = [step EXCEPT ![g] = "watch"]
  /\ work' = [work EXCEPT ![g] = [NoWork EXCEPT !.user = work[g].user]]
Finish(g) == step' = [step EXCEPT ![g] = "idle"] /\ work' = [work EXCEPT ![g] = NoWork]
Mishap    == mishaps < MaxMishaps /\ mishaps' = mishaps + 1
Change    == moves < MaxMoves /\ moves' = moves + 1
Blame(ts) == drift' = drift \cup ts

------------------------------------------------------------------------------
(* Connecting.                                                              *)

\* Mutant of HasRoom: the limit itself still has room.
HasRoomAbove(t) == t \notin gone /\ count[t] <= allowed[t]
\* The SELECT of CheckAndIncrementMailbox.
HasRoom(t) == t \notin gone /\ count[t] < allowed[t]

\* GoogleCallback up to its first write, for the tenant t of the token in its state: a mailbox
\* that is connected needs no room, one of which GetOAuthToken failed counts as not connected.
GoogleCallback(g, u, t) ==
  /\ \/ Connected(u) /\ Take(g, "store", u, t) /\ UNCHANGED mishaps
     \/ /\ HasRoom(t) /\ Take(g, "increment", u, t)
        /\ IF Connected(u) THEN Mishap ELSE UNCHANGED mishaps
  /\ movers' = IF t # member[u] THEN movers \cup {u} ELSE movers
  /\ UNCHANGED <<member, tokens, gone, allowed, moves, count, row, watch, stopping, drift, peak, unwatched>>

\* The UPDATE, which does not look at the limit again; the number of a deleted tenant means nothing.
Increment(g) ==
  /\ step[g] = "increment"
  /\ count' = [count EXCEPT ![work[g].org] = @ + 1]
  /\ step' = [step EXCEPT ![g] = "store"] /\ work' = [work EXCEPT ![g].counted = TRUE]
  /\ UNCHANGED <<worldVars, row, watch, stopping, causeVars>>

\* Mutant of UpsertOAuthToken: the row moves to the tenant of the request.
UpsertMoving(u, t) == row' = [row EXCEPT ![u] = t]
\* INSERT, or ON CONFLICT an update that keeps the tenant.
UpsertOAuthToken(u, t) == row' = [row EXCEPT ![u] = IF Connected(u) THEN @ ELSE t]

\* An INSERT needs its tenant.
Storable(w) == Connected(w.user) \/ w.org \notin gone

\* Mutant of StoreToken: a watch is only registered for the first connection.
StoreQuietly(g) ==
  LET w == work[g] IN
  /\ step[g] = "store" /\ Storable(w)
  /\ UpsertOAuthToken(w.user, w.org)
  /\ Blame(IF w.counted = Connected(w.user) THEN {w.org} ELSE {})
  /\ IF w.counted THEN ToWatch(g) ELSE Finish(g)
  /\ UNCHANGED <<worldVars, count, watch, stopping, peak, movers, unwatched>>
\* A callback that was counted may find another's row, one that was not may insert a row.
StoreToken(g) ==
  LET w == work[g] IN
  /\ step[g] = "store" /\ Storable(w)
  /\ UpsertOAuthToken(w.user, w.org)
  /\ Blame(IF w.counted = Connected(w.user) THEN {w.org} ELSE {})
  /\ ToWatch(g)
  /\ UNCHANGED <<worldVars, count, watch, stopping, peak, movers, unwatched>>

\* The counter stays incremented.
StoreFails(g) ==
  /\ step[g] = "store"
  /\ IF Storable(work[g]) THEN Mishap ELSE UNCHANGED mishaps
  /\ Blame(IF work[g].counted THEN {work[g].org} ELSE {})
  /\ Finish(g)
  /\ UNCHANGED <<member, tokens, gone, allowed, moves, count, row, watch, stopping, peak, movers, unwatched>>

\* registerWatch; a failure is logged.
RegisterWatch(g) ==
  LET u == work[g].user IN
  /\ step[g] = "watch"
  /\ \/ watch' = watch \cup {u} /\ unwatched' = unwatched \ {u} /\ UNCHANGED mishaps
     \/ /\ Mishap /\ UNCHANGED watch
        /\ unwatched' = IF Connected(u) THEN unwatched \cup ({u} \ watch) ELSE unwatched
  /\ Finish(g)
  /\ UNCHANGED <<member, tokens, gone, allowed, moves, count, row, stopping, drift, peak, movers>>

\* renewAllWatches, at the start of the service and every six days, for the rows it listed.
RenewWatch(g, u) ==
  /\ Connected(u) /\ Take(g, "watch", u, NoOrg)
  /\ UNCHANGED <<worldVars, count, row, watch, stopping, causeVars>>

------------------------------------------------------------------------------
(* Disconnecting.                                                           *)

\* The row is read for the goroutine that stops the watch.
GmailDisconnect(g, u, t) ==
  /\ Take(g, "delete", u, t)
  /\ IF Connected(u) THEN stopping' = stopping \cup {u} /\ UNCHANGED moves
     ELSE Change /\ UNCHANGED stopping
  /\ UNCHANGED <<member, tokens, gone, allowed, mishaps, count, row, watch, causeVars>>

\* Mutant of DeleteOAuthToken: only a row of the request's tenant is deleted.
DeleteOwn(u, t) == row' = [row EXCEPT ![u] = IF @ = t THEN NoOrg ELSE @]
\* The tenant is not asked for.
DeleteOAuthToken(u, t) == row' = [row EXCEPT ![u] = NoOrg]

\* What the next statement takes from the counter is not always what this one deletes: there
\* may be no row, or one of another tenant, or the DELETE fails and its error is ignored.
Delete(g) ==
  LET u == work[g].user  t == work[g].org IN
  /\ step[g] = "delete"
  /\ \/ /\ DeleteOAuthToken(u, t)
        /\ Blame(IF row[u] = t THEN {} ELSE {t, row[u]} \cap Orgs)
        /\ movers' = IF Writers(u) = {} THEN movers \ {u} ELSE movers
        /\ unwatched' = unwatched \ {u} /\ UNCHANGED mishaps
     \/ Mishap /\ Blame({t}) /\ UNCHANGED <<row, movers, unwatched>>
  /\ Proceed(g, "decrement")
  /\ UNCHANGED <<member, tokens, gone, allowed, moves, count, watch, stopping, peak>>

\* Mutant of OneLess: without the floor.
OneLessUnfloored(n) == n - 1
\* GREATEST(0, mailbox_count - 1)
OneLess(n) == IF n > 0 THEN n - 1 ELSE 0

\* DecrementMailboxCount.
Decrement(g) ==
  LET t == work[g].org IN
  /\ step[g] = "decrement"
  /\ \/ count' = [count EXCEPT ![t] = OneLess(@)] /\ UNCHANGED <<mishaps, drift>>
     \/ Mishap /\ Blame({t}) /\ UNCHANGED count
  /\ Finish(g)
  /\ UNCHANGED <<member, tokens, gone, allowed, moves, row, watch, stopping, peak, movers, unwatched>>

\* The goroutine, or its failure, or the end of the service before it ran.
StopWatch(u) ==
  /\ u \in stopping
  /\ stopping' = stopping \ {u}
  /\ \/ /\ watch' = watch \ {u} /\ UNCHANGED mishaps
        /\ unwatched' = IF Connected(u) THEN unwatched \cup {u} ELSE unwatched
     \/ Mishap /\ UNCHANGED <<watch, unwatched>>
  /\ UNCHANGED <<member, tokens, gone, allowed, moves, count, row, step, work, drift, peak, movers>>

------------------------------------------------------------------------------
(* Scans, and what happens to the users and the tenants meanwhile.          *)

StartScan(g, u) ==
  /\ Connected(u) /\ Take(g, "scan", u, row[u])
  /\ UNCHANGED <<worldVars, count, row, watch, stopping, causeVars>>

\* refreshTokenIfNeeded: nothing, or an upsert of the row read at the start of the scan, which
\* brings back one that was deleted meanwhile.
EndScan(g) ==
  LET w == work[g] IN
  /\ step[g] = "scan"
  /\ \/ UNCHANGED <<row, drift, unwatched>>
     \/ /\ Storable(w) /\ UpsertOAuthToken(w.user, w.org)
        /\ Blame(IF Connected(w.user) THEN {} ELSE {w.org})
        /\ unwatched' = IF Connected(w.user) THEN unwatched ELSE unwatched \cup {w.user}
  /\ Finish(g)
  /\ UNCHANGED <<worldVars, count, watch, stopping, peak, movers>>

\* The user leaves, is removed, or joins another organisation; the mailbox stays as it is.
ChangeOrg(u, t) ==
  /\ t # member[u] /\ t \notin gone /\ Change
  /\ member' = [member EXCEPT ![u] = t] /\ tokens' = [tokens EXCEPT ![u] = @ \cup {t}]
  /\ movers' = IF Connected(u) \/ Writers(u) # {} THEN movers \cup {u} ELSE movers
  /\ UNCHANGED <<gone, allowed, mishaps, count, row, watch, stopping, step, work, drift, peak, unwatched>>

\* DeleteTenant, for an owner who joins another organisation: the rows go with the tenant, the
\* watches stay, and the access tokens of other members still name it.
DeleteTenant(u, t) ==
  LET left == member[u] IN
  /\ t # left /\ {t, left} \cap gone = {} /\ Change
  /\ member' = [member EXCEPT ![u] = t] /\ tokens' = [tokens EXCEPT ![u] = @ \cup {t}]
  /\ gone' = gone \cup {left} /\ Blame({left})
  /\ row' = [v \in Owners |-> IF row[v] = left THEN NoOrg ELSE row[v]]
  /\ movers' = IF row'[u] # NoOrg \/ Writers(u) # {} THEN movers \cup {u} ELSE movers
  /\ unwatched' = {v \in unwatched : row[v] # left}
  /\ UNCHANGED <<allowed, mishaps, count, watch, stopping, step, work, peak>>

ChangeAllowance(t, a) ==
  /\ a # allowed[t] /\ t \notin gone /\ Change
  /\ allowed' = [allowed EXCEPT ![t] = a]
  /\ peak' = [peak EXCEPT ![t] = IF a > @ THEN a ELSE @]
  /\ UNCHANGED <<member, tokens, gone, mishaps, count, row, watch, stopping, step, work, drift, movers, unwatched>>

------------------------------------------------------------------------------
Connect(g) ==
  \/ \E u \in Owners : RenewWatch(g, u) \/ \E t \in tokens[u] : GoogleCallback(g, u, t)
  \/ Increment(g) \/ StoreToken(g) \/ StoreFails(g) \/ RegisterWatch(g)
Disconnect(g) ==
  \/ \E u \in Owners : \E t \in tokens[u] : GmailDisconnect(g, u, t)
  \/ Delete(g) \/ Decrement(g)
Scan(g) == EndScan(g) \/ \E u \in Owners : StartScan(g, u)
World ==
  \/ \E u \in Owners : StopWatch(u) \/ \E t \in Orgs : ChangeOrg(u, t) \/ DeleteTenant(u, t)
  \/ \E t \in Orgs, a \in Allowance : ChangeAllowance(t, a)

GmailNext == World \/ \E g \in Goroutines : Connect(g) \/ Disconnect(g) \/ Scan(g)

GmailSpec == GmailInit /\ [][GmailNext]_gmailVars

------------------------------------------------------------------------------
\* The counter is the number of a tenant's rows, corrected by the requests between two of their
\* statements, for every tenant but those that one of these happened to: a disconnect without
\* a row or with another tenant's, a failed statement, two callbacks of one user, a callback
\* or a scan that brought back a row deleted after it looked.
At(l, t) == Cardinality({g \in Goroutines : step[g] = l /\ work[g].org = t})
CountExact ==
  \A t \in Orgs \ drift :
    count[t] = Cardinality(Rows(t)) + At("decrement", t)
                 + Cardinality({g \in Goroutines : step[g] = "store" /\ work[g].org = t /\ work[g].counted})

\* CheckAndIncrementMailbox "checks the mailbox limit then increments if allowed": with those
\* that passed the check and have no row yet, a tenant has at most one mailbox fewer than
\* there are requests at once above the most its plans allowed.
Passed(g) == step[g] = "increment" \/ (step[g] = "store" /\ work[g].counted)
MailboxesBounded ==
  \A t \in Orgs \ drift :
    Cardinality(Rows(t)) + Cardinality({g \in Goroutines : Passed(g) /\ work[g].org = t})
      < peak[t] + Cardinality(Goroutines)

\* Mail is checked, counted and quarantined for the organisation its reader is in, unless the
\* reader changed organisation after connecting, or after asking to and before the callback,
\* and has not disconnected since: no scan, no second connection and no disconnect moves or
\* revives a row otherwise.
ScannedForOwnOrg == \A u \in Owners \ movers : Connected(u) => row[u] = member[u]

\* A connected mailbox has a watch, so that its mail is scanned as it comes, unless the call
\* failed, a disconnect's goroutine ran after the next connection, or a scan revived the row.
ConnectedIsWatched ==
  \A u \in Owners : Connected(u) => u \in watch \cup unwatched \/ Watching(u)
=============================================================================
