------------------------- MODULE GmailConnectionProofs -------------------------
(***************************************************************************)
(* Machine-checked proofs about GmailConnection, for any number of users,  *)
(* tenants, and requests and scans at once, and any bounds.                *)
(***************************************************************************)
EXTENDS GmailConnection, FiniteSetTheorems, TLAPS

------------------------------------------------------------------------------
(* Type correctness: the part about requests and scans, and the rest.       *)

Labels == {"idle", "increment", "store", "watch", "delete", "decrement", "scan"}
RequestsTypeOK ==
  /\ step \in [Goroutines -> Labels]
  /\ work \in [Goroutines -> [user : Owners \cup {Nobody}, org : Orgs \cup {NoOrg}, counted : BOOLEAN]]
TenantsTypeOK ==
  /\ member \in [Owners -> Orgs] /\ tokens \in [Owners -> SUBSET Orgs]
  /\ row \in [Owners -> Orgs \cup {NoOrg}]
  /\ allowed \in [Orgs -> Allowance] /\ peak \in [Orgs -> Allowance]
  /\ count \in [Orgs -> Nat] /\ gone \subseteq Orgs
  /\ mishaps \in 0..MaxMishaps /\ moves \in 0..MaxMoves
MailboxesTypeOK ==
  /\ watch \subseteq Owners /\ stopping \subseteq Owners
  /\ drift \subseteq Orgs /\ movers \subseteq Owners /\ unwatched \subseteq Owners

LEMMA TypeParts ==
  /\ GmailTypeOK <=> RequestsTypeOK /\ TenantsTypeOK /\ MailboxesTypeOK
  /\ GmailTypeOK' <=> RequestsTypeOK' /\ TenantsTypeOK' /\ MailboxesTypeOK'
BY DEF GmailTypeOK, RequestsTypeOK, TenantsTypeOK, MailboxesTypeOK, Labels

LEMMA TakeType ==
  ASSUME RequestsTypeOK, NEW g \in Goroutines, NEW l \in Labels, NEW u \in Owners,
         NEW t \in Orgs \cup {NoOrg}, Take(g, l, u, t)
  PROVE  RequestsTypeOK'
BY DEF RequestsTypeOK, Take

LEMMA ProceedType ==
  ASSUME RequestsTypeOK, NEW g \in Goroutines, NEW l \in Labels, Proceed(g, l)
  PROVE  RequestsTypeOK'
BY DEF RequestsTypeOK, Proceed

LEMMA WatchType ==
  ASSUME RequestsTypeOK, NEW g \in Goroutines, ToWatch(g)
  PROVE  RequestsTypeOK'
BY DEF RequestsTypeOK, ToWatch, NoWork, Labels

LEMMA FinishType ==
  ASSUME RequestsTypeOK, NEW g \in Goroutines, Finish(g)
  PROVE  RequestsTypeOK'
BY DEF RequestsTypeOK, Finish, NoWork, Labels

\* A goroutine past its first step works on a user's mailbox, for a tenant until it turns to
\* the watch.
Employed ==
  \A g \in Goroutines :
    /\ step[g] # "idle" => work[g].user \in Owners
    /\ step[g] \notin {"idle", "watch"} => work[g].org \in Orgs

LEMMA BoundsType ==
  ASSUME mishaps \in 0..MaxMishaps, moves \in 0..MaxMoves
  PROVE  /\ Mishap => mishaps' \in 0..MaxMishaps
         /\ Change => moves' \in 0..MaxMoves
BY ConnectionBounds DEF Mishap, Change

TInv == GmailTypeOK /\ Employed

LEMMA TInvInit == GmailInit => TInv
BY NobodyAssumption, AllowanceAssumption, ConnectionBounds
DEF GmailInit, TInv, GmailTypeOK, Employed, NoWork

LEMMA ConnectType ==
  ASSUME TInv, NEW g \in Goroutines, Connect(g)
  PROVE  TInv'
<1> USE DEF TInv
<1> RequestsTypeOK /\ TenantsTypeOK /\ MailboxesTypeOK
  BY TypeParts
<1>1. ASSUME NEW u \in Owners, NEW s \in Orgs, GoogleCallback(g, u, s)
      PROVE  TInv'
  <2>1. RequestsTypeOK'
    BY <1>1, TakeType DEF GoogleCallback, TenantsTypeOK, Labels
  <2>2. TenantsTypeOK' /\ MailboxesTypeOK'
    BY <1>1, BoundsType DEF GoogleCallback, TenantsTypeOK, MailboxesTypeOK, causeVars
  <2>3. Employed'
    BY <1>1 DEF GoogleCallback, Take, Employed, RequestsTypeOK, TenantsTypeOK
  <2>4. QED
    BY <2>1, <2>2, <2>3, TypeParts
<1>2. ASSUME NEW u \in Owners, RenewWatch(g, u)
      PROVE  TInv'
  <2>1. RequestsTypeOK'
    BY <1>2, TakeType DEF RenewWatch, Labels
  <2>2. TenantsTypeOK' /\ MailboxesTypeOK'
    BY <1>2 DEF RenewWatch, TenantsTypeOK, MailboxesTypeOK, worldVars, causeVars
  <2>3. Employed'
    BY <1>2 DEF RenewWatch, Take, Employed, RequestsTypeOK
  <2>4. QED
    BY <2>1, <2>2, <2>3, TypeParts
<1>3. CASE Increment(g)
  <2>1. RequestsTypeOK' /\ Employed'
    BY <1>3 DEF Increment, RequestsTypeOK, Employed, Labels
  <2>2. TenantsTypeOK' /\ MailboxesTypeOK'
    BY <1>3 DEF Increment, TenantsTypeOK, MailboxesTypeOK, worldVars, causeVars, Employed
  <2>3. QED
    BY <2>1, <2>2, TypeParts
<1>4. CASE StoreToken(g)
  <2>1. work[g].user \in Owners /\ work[g].org \in Orgs
    BY <1>4 DEF StoreToken, Employed
  <2>2. RequestsTypeOK' /\ Employed'
    BY <1>4, <2>1, WatchType DEF StoreToken, ToWatch, NoWork, Employed, RequestsTypeOK
  <2>3. TenantsTypeOK' /\ MailboxesTypeOK'
    BY <1>4, <2>1
    DEF StoreToken, UpsertOAuthToken, Blame, TenantsTypeOK, MailboxesTypeOK, worldVars
  <2>4. QED
    BY <2>2, <2>3, TypeParts
<1>5. CASE StoreFails(g)
  <2>1. work[g].org \in Orgs
    BY <1>5 DEF StoreFails, Employed
  <2>2. RequestsTypeOK' /\ Employed'
    BY <1>5, FinishType DEF StoreFails, Finish, Employed, RequestsTypeOK
  <2>3. TenantsTypeOK' /\ MailboxesTypeOK'
    BY <1>5, <2>1, BoundsType DEF StoreFails, Blame, TenantsTypeOK, MailboxesTypeOK
  <2>4. QED
    BY <2>2, <2>3, TypeParts
<1>6. CASE RegisterWatch(g)
  <2>1. work[g].user \in Owners
    BY <1>6 DEF RegisterWatch, Employed
  <2>2. RequestsTypeOK' /\ Employed'
    BY <1>6, FinishType DEF RegisterWatch, Finish, Employed, RequestsTypeOK
  <2>3. TenantsTypeOK' /\ MailboxesTypeOK'
    BY <1>6, <2>1, BoundsType DEF RegisterWatch, TenantsTypeOK, MailboxesTypeOK
  <2>4. QED
    BY <2>2, <2>3, TypeParts
<1>7. QED
  BY <1>1, <1>2, <1>3, <1>4, <1>5, <1>6 DEF Connect, TenantsTypeOK

LEMMA DisconnectType ==
  ASSUME TInv, NEW g \in Goroutines, Disconnect(g)
  PROVE  TInv'
<1> USE DEF TInv
<1> RequestsTypeOK /\ TenantsTypeOK /\ MailboxesTypeOK
  BY TypeParts
<1>1. ASSUME NEW u \in Owners, NEW s \in Orgs, GmailDisconnect(g, u, s)
      PROVE  TInv'
  <2>1. RequestsTypeOK' /\ Employed'
    BY <1>1, TakeType DEF GmailDisconnect, Take, Employed, RequestsTypeOK, TenantsTypeOK, Labels
  <2>2. TenantsTypeOK' /\ MailboxesTypeOK'
    BY <1>1, BoundsType DEF GmailDisconnect, TenantsTypeOK, MailboxesTypeOK, causeVars
  <2>3. QED
    BY <2>1, <2>2, TypeParts
<1>2. CASE Delete(g)
  <2>1. work[g].user \in Owners /\ work[g].org \in Orgs
    BY <1>2 DEF Delete, Employed
  <2>2. RequestsTypeOK' /\ Employed'
    BY <1>2, ProceedType DEF Delete, Proceed, Employed, RequestsTypeOK, Labels
  <2>3. TenantsTypeOK' /\ MailboxesTypeOK'
    BY <1>2, <2>1, BoundsType
    DEF Delete, DeleteOAuthToken, Blame, TenantsTypeOK, MailboxesTypeOK
  <2>4. QED
    BY <2>2, <2>3, TypeParts
<1>3. CASE Decrement(g)
  <2>1. work[g].org \in Orgs
    BY <1>3 DEF Decrement, Employed
  <2>2. RequestsTypeOK' /\ Employed'
    BY <1>3, FinishType DEF Decrement, Finish, Employed, RequestsTypeOK
  <2>3. TenantsTypeOK' /\ MailboxesTypeOK'
    BY <1>3, <2>1, BoundsType DEF Decrement, OneLess, Blame, TenantsTypeOK, MailboxesTypeOK
  <2>4. QED
    BY <2>2, <2>3, TypeParts
<1>4. QED
  BY <1>1, <1>2, <1>3 DEF Disconnect, TenantsTypeOK

LEMMA ScanType ==
  ASSUME TInv, NEW g \in Goroutines, Scan(g)
  PROVE  TInv'
<1> USE DEF TInv
<1> RequestsTypeOK /\ TenantsTypeOK /\ MailboxesTypeOK
  BY TypeParts
<1>1. ASSUME NEW u \in Owners, StartScan(g, u)
      PROVE  TInv'
  <2>1. row[u] \in Orgs
    BY <1>1 DEF StartScan, Connected, TenantsTypeOK
  <2>2. RequestsTypeOK' /\ Employed'
    BY <1>1, <2>1, TakeType DEF StartScan, Take, Employed, RequestsTypeOK, Labels
  <2>3. TenantsTypeOK' /\ MailboxesTypeOK'
    BY <1>1 DEF StartScan, TenantsTypeOK, MailboxesTypeOK, worldVars, causeVars
  <2>4. QED
    BY <2>2, <2>3, TypeParts
<1>2. CASE EndScan(g)
  <2>1. work[g].user \in Owners /\ work[g].org \in Orgs
    BY <1>2 DEF EndScan, Employed
  <2>2. RequestsTypeOK' /\ Employed'
    BY <1>2, FinishType DEF EndScan, Finish, Employed, RequestsTypeOK
  <2>3. TenantsTypeOK' /\ MailboxesTypeOK'
    BY <1>2, <2>1
    DEF EndScan, UpsertOAuthToken, Blame, TenantsTypeOK, MailboxesTypeOK, worldVars
  <2>4. QED
    BY <2>2, <2>3, TypeParts
<1>3. QED
  BY <1>1, <1>2 DEF Scan

LEMMA WorldType ==
  ASSUME TInv, World
  PROVE  TInv'
<1> USE DEF TInv
<1> RequestsTypeOK /\ TenantsTypeOK /\ MailboxesTypeOK
  BY TypeParts
<1>1. ASSUME NEW u \in Owners, StopWatch(u)
      PROVE  TInv'
  <2>1. RequestsTypeOK' /\ Employed' /\ TenantsTypeOK' /\ MailboxesTypeOK'
    BY <1>1, BoundsType DEF StopWatch, RequestsTypeOK, Employed, TenantsTypeOK, MailboxesTypeOK
  <2>2. QED
    BY <2>1, TypeParts
<1>2. ASSUME NEW u \in Owners, NEW t \in Orgs, ChangeOrg(u, t)
      PROVE  TInv'
  <2>1. RequestsTypeOK' /\ Employed' /\ TenantsTypeOK' /\ MailboxesTypeOK'
    BY <1>2, BoundsType DEF ChangeOrg, RequestsTypeOK, Employed, TenantsTypeOK, MailboxesTypeOK
  <2>2. QED
    BY <2>1, TypeParts
<1>3. ASSUME NEW u \in Owners, NEW t \in Orgs, DeleteTenant(u, t)
      PROVE  TInv'
  <2>1. RequestsTypeOK' /\ Employed' /\ TenantsTypeOK' /\ MailboxesTypeOK'
    BY <1>3, BoundsType
    DEF DeleteTenant, Blame, RequestsTypeOK, Employed, TenantsTypeOK, MailboxesTypeOK
  <2>2. QED
    BY <2>1, TypeParts
<1>4. ASSUME NEW t \in Orgs, NEW a \in Allowance, ChangeAllowance(t, a)
      PROVE  TInv'
  <2>1. RequestsTypeOK' /\ Employed' /\ TenantsTypeOK' /\ MailboxesTypeOK'
    BY <1>4, BoundsType
    DEF ChangeAllowance, RequestsTypeOK, Employed, TenantsTypeOK, MailboxesTypeOK
  <2>2. QED
    BY <2>1, TypeParts
<1>5. QED
  BY <1>1, <1>2, <1>3, <1>4 DEF World

LEMMA TInvNext == TInv /\ [GmailNext]_gmailVars => TInv'
<1> SUFFICES ASSUME TInv, [GmailNext]_gmailVars PROVE TInv'
  OBVIOUS
<1>1. CASE UNCHANGED gmailVars
  BY <1>1 DEF TInv, GmailTypeOK, Employed, gmailVars
<1>2. CASE GmailNext
  BY <1>2, ConnectType, DisconnectType, ScanType, WorldType DEF GmailNext
<1>3. QED
  BY <1>1, <1>2

\* Every variable keeps its type, for any number of users, tenants and goroutines.
THEOREM TypeCorrect == GmailSpec => []GmailTypeOK
<1>1. TInv => GmailTypeOK
  BY DEF TInv
<1>2. QED
  BY <1>1, TInvInit, TInvNext, PTL DEF GmailSpec

------------------------------------------------------------------------------
(* Mail is scanned for the organisation of its reader.  Whoever may yet     *)
(* write a row of a user who did not move writes the user's organisation.   *)

WritesOwn ==
  \A u \in Owners \ movers, g \in Goroutines :
    step[g] \in {"increment", "store", "scan"} /\ work[g].user = u => work[g].org = member[u]
OwnInv == ScannedForOwnOrg /\ WritesOwn

LEMMA OwnInvInit == GmailInit => OwnInv
BY DEF GmailInit, OwnInv, ScannedForOwnOrg, WritesOwn, Connected

\* A step that takes nobody out of movers, moves nobody, writes no row, and begins no write.
LEMMA OwnUnmoved ==
  ASSUME OwnInv, UNCHANGED <<member, row, movers>>,
         \A g \in Goroutines :
           step'[g] \in {"increment", "store", "scan"} =>
             step[g] \in {"increment", "store", "scan"}
               /\ work'[g].user = work[g].user /\ work'[g].org = work[g].org
  PROVE  OwnInv'
BY DEF OwnInv, ScannedForOwnOrg, WritesOwn, Connected

LEMMA ConnectOwn ==
  ASSUME TInv, OwnInv, NEW g \in Goroutines, Connect(g)
  PROVE  OwnInv'
<1> RequestsTypeOK /\ TenantsTypeOK /\ MailboxesTypeOK
  BY TypeParts DEF TInv
<1>1. ASSUME NEW u \in Owners, NEW s \in Orgs, GoogleCallback(g, u, s)
      PROVE  OwnInv'
  BY <1>1, SMTT(30) DEF GoogleCallback, Take, OwnInv, ScannedForOwnOrg, WritesOwn, Connected,
     RequestsTypeOK, TenantsTypeOK, causeVars
<1>2. ASSUME NEW u \in Owners, RenewWatch(g, u)
      PROVE  OwnInv'
  BY <1>2, OwnUnmoved DEF RenewWatch, Take, RequestsTypeOK, worldVars, causeVars
<1>3. CASE Increment(g)
  BY <1>3, OwnUnmoved DEF Increment, RequestsTypeOK, worldVars, causeVars
<1>4. CASE StoreToken(g)
  <2>1. UNCHANGED <<member, movers>> /\ ToWatch(g)
    BY <1>4 DEF StoreToken, worldVars
  <2>2. WritesOwn'
    BY <2>1 DEF ToWatch, OwnInv, WritesOwn, RequestsTypeOK
  <2>3. ScannedForOwnOrg'
    BY <1>4, <2>1 DEF StoreToken, UpsertOAuthToken, OwnInv, ScannedForOwnOrg, WritesOwn,
       Connected, TenantsTypeOK
  <2>4. QED
    BY <2>2, <2>3 DEF OwnInv
<1>5. CASE StoreFails(g)
  BY <1>5, OwnUnmoved DEF StoreFails, Finish, RequestsTypeOK
<1>6. CASE RegisterWatch(g)
  BY <1>6, OwnUnmoved DEF RegisterWatch, Finish, RequestsTypeOK
<1>7. QED
  BY <1>1, <1>2, <1>3, <1>4, <1>5, <1>6 DEF Connect, TenantsTypeOK

LEMMA DisconnectOwn ==
  ASSUME TInv, OwnInv, NEW g \in Goroutines, Disconnect(g)
  PROVE  OwnInv'
<1> RequestsTypeOK /\ TenantsTypeOK /\ MailboxesTypeOK
  BY TypeParts DEF TInv
<1>1. ASSUME NEW u \in Owners, NEW s \in Orgs, GmailDisconnect(g, u, s)
      PROVE  OwnInv'
  BY <1>1, OwnUnmoved DEF GmailDisconnect, Take, RequestsTypeOK, causeVars
<1>2. CASE Delete(g)
  <2> DEFINE u == work[g].user
  <2>1. /\ UNCHANGED <<member, work>> /\ step' = [step EXCEPT ![g] = "decrement"]
        /\ \/ UNCHANGED <<row, movers>>
           \/ row' = [row EXCEPT ![u] = NoOrg]
              /\ movers' = IF Writers(u) = {} THEN movers \ {u} ELSE movers
    BY <1>2 DEF Delete, Proceed, DeleteOAuthToken
  <2>2. \A v \in Owners : v \notin movers' => v \notin movers \/ (v = u /\ Writers(u) = {})
    BY <2>1
  <2>3. WritesOwn'
    BY <2>1, <2>2 DEF Writers, OwnInv, WritesOwn, RequestsTypeOK
  <2>4. ScannedForOwnOrg'
    BY <2>1, <2>2 DEF OwnInv, ScannedForOwnOrg, Connected, TenantsTypeOK
  <2>5. QED
    BY <2>3, <2>4 DEF OwnInv
<1>3. CASE Decrement(g)
  BY <1>3, OwnUnmoved DEF Decrement, Finish, RequestsTypeOK
<1>4. QED
  BY <1>1, <1>2, <1>3 DEF Disconnect, TenantsTypeOK

LEMMA ScanOwn ==
  ASSUME TInv, OwnInv, NEW g \in Goroutines, Scan(g)
  PROVE  OwnInv'
<1> RequestsTypeOK /\ TenantsTypeOK /\ MailboxesTypeOK
  BY TypeParts DEF TInv
<1>1. ASSUME NEW u \in Owners, StartScan(g, u)
      PROVE  OwnInv'
  BY <1>1 DEF StartScan, Take, OwnInv, ScannedForOwnOrg, WritesOwn, Connected,
     RequestsTypeOK, worldVars, causeVars
<1>2. CASE EndScan(g)
  <2>1. UNCHANGED <<member, movers>> /\ Finish(g)
    BY <1>2 DEF EndScan, worldVars
  <2>2. WritesOwn'
    BY <2>1 DEF Finish, OwnInv, WritesOwn, RequestsTypeOK
  <2>3. ScannedForOwnOrg'
    BY <1>2, <2>1 DEF EndScan, UpsertOAuthToken, OwnInv, ScannedForOwnOrg, WritesOwn,
       Connected, TenantsTypeOK
  <2>4. QED
    BY <2>2, <2>3 DEF OwnInv
<1>3. QED
  BY <1>1, <1>2 DEF Scan

LEMMA WorldOwn ==
  ASSUME TInv, OwnInv, World
  PROVE  OwnInv'
<1> RequestsTypeOK /\ TenantsTypeOK /\ MailboxesTypeOK
  BY TypeParts DEF TInv
<1>1. ASSUME NEW u \in Owners, StopWatch(u)
      PROVE  OwnInv'
  BY <1>1, OwnUnmoved DEF StopWatch
<1>2. ASSUME NEW u \in Owners, NEW t \in Orgs, ChangeOrg(u, t)
      PROVE  OwnInv'
  BY <1>2 DEF ChangeOrg, Writers, OwnInv, ScannedForOwnOrg, WritesOwn, Connected, TenantsTypeOK
<1>3. ASSUME NEW u \in Owners, NEW t \in Orgs, DeleteTenant(u, t)
      PROVE  OwnInv'
  BY <1>3 DEF DeleteTenant, Writers, OwnInv, ScannedForOwnOrg, WritesOwn, Connected, TenantsTypeOK
<1>4. ASSUME NEW t \in Orgs, NEW a \in Allowance, ChangeAllowance(t, a)
      PROVE  OwnInv'
  BY <1>4, OwnUnmoved DEF ChangeAllowance
<1>5. QED
  BY <1>1, <1>2, <1>3, <1>4 DEF World

LEMMA OwnInvNext == TInv /\ OwnInv /\ [GmailNext]_gmailVars => OwnInv'
<1> SUFFICES ASSUME TInv, OwnInv, [GmailNext]_gmailVars PROVE OwnInv'
  OBVIOUS
<1>1. CASE UNCHANGED gmailVars
  BY <1>1, OwnUnmoved DEF gmailVars
<1>2. CASE GmailNext
  BY <1>2, ConnectOwn, DisconnectOwn, ScanOwn, WorldOwn DEF GmailNext
<1>3. QED
  BY <1>1, <1>2

\* A mailbox is scanned for the organisation its reader is in, as long as the reader has not
\* changed organisation since asking to connect it: no callback, scan or disconnect of any
\* number that overlap gives the row another tenant.
THEOREM MailScannedForOwnOrg == GmailSpec => []ScannedForOwnOrg
<1>1. OwnInv => ScannedForOwnOrg
  BY DEF OwnInv
<1>2. QED
  BY <1>1, TInvInit, TInvNext, OwnInvInit, OwnInvNext, PTL DEF GmailSpec

------------------------------------------------------------------------------
(* A connected mailbox has a watch: the property is inductive.              *)

\* Another goroutine's step keeps the watcher of a mailbox, for it is not idle.
LEMMA WatchersStay ==
  ASSUME RequestsTypeOK, NEW g \in Goroutines, step[g] # "watch",
         \A h \in Goroutines \ {g} : step'[h] = step[h] /\ work'[h] = work[h]
  PROVE  \A u \in Owners : Watching(u) => Watching(u)'
BY DEF Watching

LEMMA ConnectWatched ==
  ASSUME TInv, ConnectedIsWatched, NEW g \in Goroutines, Connect(g)
  PROVE  ConnectedIsWatched'
<1> RequestsTypeOK /\ TenantsTypeOK /\ MailboxesTypeOK
  BY TypeParts DEF TInv
<1>1. ASSUME NEW u \in Owners, NEW s \in Orgs, GoogleCallback(g, u, s)
      PROVE  ConnectedIsWatched'
  <2>1. UNCHANGED <<row, watch, unwatched>> /\ \E l \in Labels : Take(g, l, u, s)
    BY <1>1 DEF GoogleCallback, causeVars, Labels
  <2>2. \A v \in Owners : Watching(v) => Watching(v)'
    BY <2>1, WatchersStay DEF Take, RequestsTypeOK
  <2>3. QED
    BY <2>1, <2>2 DEF ConnectedIsWatched, Connected
<1>2. ASSUME NEW u \in Owners, RenewWatch(g, u)
      PROVE  ConnectedIsWatched'
  <2>1. UNCHANGED <<row, watch, unwatched>> /\ Take(g, "watch", u, NoOrg)
    BY <1>2 DEF RenewWatch, causeVars
  <2>2. \A v \in Owners : Watching(v) => Watching(v)'
    BY <2>1, WatchersStay DEF Take, RequestsTypeOK
  <2>3. QED
    BY <2>1, <2>2 DEF ConnectedIsWatched, Connected
<1>3. CASE Increment(g)
  <2>1. UNCHANGED <<row, watch, unwatched>>
    BY <1>3 DEF Increment, causeVars
  <2>2. \A v \in Owners : Watching(v) => Watching(v)'
    BY <1>3, WatchersStay DEF Increment, RequestsTypeOK
  <2>3. QED
    BY <2>1, <2>2 DEF ConnectedIsWatched, Connected
<1>4. CASE StoreToken(g)
  <2>1. UNCHANGED <<watch, unwatched>> /\ step[g] = "store" /\ ToWatch(g)
        /\ \A v \in Owners : row'[v] # NoOrg => Connected(v) \/ v = work[g].user
    BY <1>4 DEF StoreToken, UpsertOAuthToken, Connected, TenantsTypeOK
  <2>2. \A v \in Owners : Watching(v) => Watching(v)'
    BY <2>1, WatchersStay DEF ToWatch, RequestsTypeOK
  <2>3. \A v \in Owners : v = work[g].user => Watching(v)'
    BY <2>1 DEF ToWatch, Watching, NoWork, RequestsTypeOK
  <2>4. QED
    BY <2>1, <2>2, <2>3 DEF ConnectedIsWatched, Connected
<1>5. CASE StoreFails(g)
  <2>1. UNCHANGED <<row, watch, unwatched>>
    BY <1>5 DEF StoreFails
  <2>2. \A v \in Owners : Watching(v) => Watching(v)'
    BY <1>5, WatchersStay DEF StoreFails, Finish, RequestsTypeOK
  <2>3. QED
    BY <2>1, <2>2 DEF ConnectedIsWatched, Connected
<1>6. CASE RegisterWatch(g)
  <2> DEFINE u == work[g].user
  <2>1. UNCHANGED row /\ watch \subseteq watch' /\ (Connected(u) => u \in watch' \cup unwatched')
        /\ \A v \in Owners \ {u} : v \in unwatched => v \in unwatched'
    BY <1>6 DEF RegisterWatch
  <2>2. \A v \in Owners \ {u} : Watching(v) => Watching(v)'
    BY <1>6 DEF RegisterWatch, Finish, Watching, RequestsTypeOK
  <2>3. QED
    BY <2>1, <2>2 DEF ConnectedIsWatched, Connected
<1>7. QED
  BY <1>1, <1>2, <1>3, <1>4, <1>5, <1>6 DEF Connect, TenantsTypeOK

LEMMA DisconnectWatched ==
  ASSUME TInv, ConnectedIsWatched, NEW g \in Goroutines, Disconnect(g)
  PROVE  ConnectedIsWatched'
<1> RequestsTypeOK /\ TenantsTypeOK
  BY TypeParts DEF TInv
<1>1. /\ step[g] # "watch" /\ UNCHANGED watch
      /\ \A h \in Goroutines \ {g} : step'[h] = step[h] /\ work'[h] = work[h]
  BY DEF Disconnect, GmailDisconnect, Delete, Decrement, Take, Proceed, Finish,
     RequestsTypeOK, causeVars
<1>2. \A v \in Owners : row'[v] # NoOrg => Connected(v) /\ (v \in unwatched => v \in unwatched')
  BY DEF Disconnect, GmailDisconnect, Delete, Decrement, DeleteOAuthToken, Connected,
     TenantsTypeOK, causeVars
<1>3. QED
  BY <1>1, <1>2, WatchersStay DEF ConnectedIsWatched, Connected

LEMMA ScanWatched ==
  ASSUME TInv, ConnectedIsWatched, NEW g \in Goroutines, Scan(g)
  PROVE  ConnectedIsWatched'
<1> RequestsTypeOK /\ TenantsTypeOK
  BY TypeParts DEF TInv
<1>1. /\ step[g] # "watch" /\ UNCHANGED watch /\ unwatched \subseteq unwatched'
      /\ \A h \in Goroutines \ {g} : step'[h] = step[h] /\ work'[h] = work[h]
  BY DEF Scan, StartScan, EndScan, Take, Finish, RequestsTypeOK, causeVars
<1>2. \A v \in Owners : row'[v] # NoOrg => Connected(v) \/ v \in unwatched'
  BY DEF Scan, StartScan, EndScan, UpsertOAuthToken, Connected, TenantsTypeOK
<1>3. QED
  BY <1>1, <1>2, WatchersStay DEF ConnectedIsWatched, Connected

LEMMA WorldWatched ==
  ASSUME TInv, ConnectedIsWatched, World
  PROVE  ConnectedIsWatched'
<1> TenantsTypeOK
  BY TypeParts DEF TInv
<1>1. UNCHANGED <<step, work>>
  BY DEF World, StopWatch, ChangeOrg, DeleteTenant, ChangeAllowance
<1>2. \A v \in Owners : row'[v] # NoOrg => Connected(v)
  BY DEF World, StopWatch, ChangeOrg, DeleteTenant, ChangeAllowance, Connected, TenantsTypeOK
<1>3. \A v \in Owners : row'[v] # NoOrg /\ v \in watch \cup unwatched => v \in watch' \cup unwatched'
  BY <1>2 DEF World, StopWatch, ChangeOrg, DeleteTenant, ChangeAllowance, TenantsTypeOK
<1>4. QED
  BY <1>1, <1>2, <1>3 DEF ConnectedIsWatched, Connected, Watching

\* A connected mailbox is watched, or about to be, but for the three causes that the property
\* names: whatever connects, disconnects, renewals and scans overlap.
THEOREM WatchedWhileConnected == GmailSpec => []ConnectedIsWatched
<1>1. GmailInit => ConnectedIsWatched
  BY DEF GmailInit, ConnectedIsWatched, Connected
<1>2. TInv /\ ConnectedIsWatched /\ [GmailNext]_gmailVars => ConnectedIsWatched'
  <2> SUFFICES ASSUME TInv, ConnectedIsWatched, [GmailNext]_gmailVars
               PROVE  ConnectedIsWatched'
    OBVIOUS
  <2>1. CASE UNCHANGED gmailVars
    BY <2>1 DEF gmailVars, ConnectedIsWatched, Connected, Watching
  <2>2. CASE GmailNext
    BY <2>2, ConnectWatched, DisconnectWatched, ScanWatched, WorldWatched DEF GmailNext
  <2>3. QED
    BY <2>1, <2>2
<1>3. QED
  BY <1>1, <1>2, TInvInit, TInvNext, PTL DEF GmailSpec

------------------------------------------------------------------------------
(* Counting rows and requests.                                               *)

One(b) == IF b THEN 1 ELSE 0

\* Two finite sets that differ in one element at most.
LEMMA OneApart ==
  ASSUME NEW X, NEW Y, NEW x, IsFiniteSet(X), X \ {x} = Y \ {x}
  PROVE  /\ IsFiniteSet(Y) /\ Cardinality(X) \in Nat /\ Cardinality(Y) \in Nat
         /\ Cardinality(Y) + One(x \in X) = Cardinality(X) + One(x \in Y)
<1> PICK Z : Z = X \ {x}
  OBVIOUS
<1>1. IsFiniteSet(Z) /\ IsFiniteSet(Z \cup {x})
  BY FS_RemoveElement, FS_AddElement
<1>2. Cardinality(Z \cup {x}) = Cardinality(Z) + 1 /\ Cardinality(Z) \in Nat
  <2>1. x \notin Z
    OBVIOUS
  <2>2. QED
    BY <1>1, <2>1, FS_AddElement, FS_CardinalityType
<1>3. (X = Z /\ x \notin X) \/ (X = Z \cup {x} /\ x \in X)
  OBVIOUS
<1>4. (Y = Z /\ x \notin Y) \/ (Y = Z \cup {x} /\ x \in Y)
  OBVIOUS
<1>5. QED
  BY <1>1, <1>2, <1>3, <1>4 DEF One

\* Requests between two of their statements: about to take a mailbox from the counter,
\* counted without a row, and let through without one.
Decrementing(t) == {g \in Goroutines : step[g] = "decrement" /\ work[g].org = t}
Counted(t)      == {g \in Goroutines : step[g] = "store" /\ work[g].org = t /\ work[g].counted}
LetThrough(t)   == {g \in Goroutines : Passed(g) /\ work[g].org = t}

LEMMA SetsFinite ==
  ASSUME NEW t
  PROVE  /\ IsFiniteSet(Rows(t)) /\ IsFiniteSet(Decrementing(t)) /\ IsFiniteSet(Counted(t))
         /\ IsFiniteSet(LetThrough(t))
         /\ Cardinality(Rows(t)) \in Nat /\ Cardinality(Decrementing(t)) \in Nat
         /\ Cardinality(Counted(t)) \in Nat /\ Cardinality(LetThrough(t)) \in Nat
<1>1. \A X \in SUBSET Owners : IsFiniteSet(X) /\ Cardinality(X) \in Nat
  BY ConnectionFinite, FS_Subset, FS_CardinalityType
<1>2. \A X \in SUBSET Goroutines : IsFiniteSet(X) /\ Cardinality(X) \in Nat
  BY ConnectionFinite, FS_Subset, FS_CardinalityType
<1>3. Rows(t) \in SUBSET Owners
  BY DEF Rows
<1>4. Decrementing(t) \in SUBSET Goroutines /\ Counted(t) \in SUBSET Goroutines /\ LetThrough(t) \in SUBSET Goroutines
  BY DEF Decrementing, Counted, LetThrough
<1>5. QED
  BY <1>1, <1>2, <1>3, <1>4

\* A step of one goroutine.
LEMMA RequestMoves ==
  ASSUME NEW g \in Goroutines, NEW t,
         \A h \in Goroutines \ {g} : step'[h] = step[h] /\ work'[h] = work[h]
  PROVE  /\ Cardinality(Decrementing(t)') + One(g \in Decrementing(t))
              = Cardinality(Decrementing(t)) + One(g \in Decrementing(t)')
         /\ Cardinality(Counted(t)') + One(g \in Counted(t)) = Cardinality(Counted(t)) + One(g \in Counted(t)')
         /\ Cardinality(LetThrough(t)') + One(g \in LetThrough(t))
              = Cardinality(LetThrough(t)) + One(g \in LetThrough(t)')
         /\ Cardinality(Decrementing(t)') \in Nat /\ Cardinality(Counted(t)') \in Nat
         /\ Cardinality(LetThrough(t)') \in Nat
<1>1. PICK d, e : d = Decrementing(t) /\ e = Decrementing(t)'
  OBVIOUS
<1>2. PICK c, k : c = Counted(t) /\ k = Counted(t)'
  OBVIOUS
<1>3. PICK p, q : p = LetThrough(t) /\ q = LetThrough(t)'
  OBVIOUS
<1>4. d \ {g} = e \ {g}
  BY <1>1 DEF Decrementing
<1>5. c \ {g} = k \ {g}
  BY <1>2 DEF Counted
<1>6. p \ {g} = q \ {g}
  BY <1>3 DEF LetThrough, Passed
<1>7. IsFiniteSet(d) /\ IsFiniteSet(c) /\ IsFiniteSet(p)
  BY <1>1, <1>2, <1>3, SetsFinite
<1>8. Cardinality(e) + One(g \in d) = Cardinality(d) + One(g \in e) /\ Cardinality(e) \in Nat
  BY <1>4, <1>7, OneApart
<1>9. Cardinality(k) + One(g \in c) = Cardinality(c) + One(g \in k) /\ Cardinality(k) \in Nat
  BY <1>5, <1>7, OneApart
<1>10. Cardinality(q) + One(g \in p) = Cardinality(p) + One(g \in q) /\ Cardinality(q) \in Nat
  BY <1>6, <1>7, OneApart
<1>11. QED
  BY <1>1, <1>2, <1>3, <1>8, <1>9, <1>10

\* A step that writes one row.
LEMMA RowMoves ==
  ASSUME NEW u \in Owners, NEW t, \A v \in Owners \ {u} : row'[v] = row[v]
  PROVE  /\ Cardinality(Rows(t)') + One(row[u] = t) = Cardinality(Rows(t)) + One(row'[u] = t)
         /\ Cardinality(Rows(t)') \in Nat
<1>1. PICK r, s : r = Rows(t) /\ s = Rows(t)'
  OBVIOUS
<1>2. r \ {u} = s \ {u} /\ (u \in r <=> row[u] = t) /\ (u \in s <=> row'[u] = t)
  BY <1>1 DEF Rows
<1>3. IsFiniteSet(r)
  BY <1>1, SetsFinite
<1>4. Cardinality(s) + One(u \in r) = Cardinality(r) + One(u \in s) /\ Cardinality(s) \in Nat
  BY <1>2, <1>3, OneApart
<1>5. QED
  BY <1>1, <1>2, <1>4 DEF One

------------------------------------------------------------------------------
(* The counter is exact, and the mailboxes are bounded.                      *)

Exact(t)   == count[t] = Cardinality(Rows(t)) + Cardinality(Decrementing(t)) + Cardinality(Counted(t))
Bounded(t) == Cardinality(Rows(t)) + Cardinality(LetThrough(t)) < peak[t] + Cardinality(Goroutines)
Balance == /\ \A t \in Orgs \ drift : Exact(t) /\ Bounded(t)
           /\ \A t \in Orgs : allowed[t] <= peak[t]

\* A step of one goroutine that writes one row at most keeps the counter exact when it adds
\* to it what it adds to the rows and to the requests that stand for one.
LEMMA ExactStep ==
  ASSUME TInv, NEW t \in Orgs, Exact(t), NEW g \in Goroutines, NEW u \in Owners,
         \A h \in Goroutines \ {g} : step'[h] = step[h] /\ work'[h] = work[h],
         \A v \in Owners \ {u} : row'[v] = row[v],
         count'[t] \in Nat,
         count'[t] + One(row[u] = t) + One(g \in Decrementing(t)) + One(g \in Counted(t))
           = count[t] + One(row'[u] = t) + One(g \in Decrementing(t)') + One(g \in Counted(t)')
  PROVE  Exact(t)'
<1> PICK i, j, k, l, m, n \in {0, 1} :
      /\ i = One(row[u] = t) /\ j = One(g \in Decrementing(t)) /\ k = One(g \in Counted(t))
      /\ l = One(row'[u] = t) /\ m = One(g \in Decrementing(t)') /\ n = One(g \in Counted(t)')
  BY DEF One
<1>1. Cardinality(Rows(t)') + i = Cardinality(Rows(t)) + l /\ Cardinality(Rows(t)') \in Nat
  BY RowMoves
<1>2. /\ Cardinality(Decrementing(t)') + j = Cardinality(Decrementing(t)) + m
      /\ Cardinality(Counted(t)') + k = Cardinality(Counted(t)) + n
      /\ Cardinality(Decrementing(t)') \in Nat /\ Cardinality(Counted(t)') \in Nat
  BY RequestMoves
<1>3. /\ Cardinality(Rows(t)) \in Nat /\ Cardinality(Decrementing(t)) \in Nat
      /\ Cardinality(Counted(t)) \in Nat
  BY SetsFinite
<1>4. count'[t] + i + j + k = count[t] + l + m + n
  OBVIOUS
<1>5. count[t] = Cardinality(Rows(t)) + Cardinality(Decrementing(t)) + Cardinality(Counted(t))
  BY DEF Exact
<1>6. count'[t] = Cardinality(Rows(t)') + Cardinality(Decrementing(t)') + Cardinality(Counted(t)')
  <2>1. PICK r, d, c \in Nat :
          /\ r = Cardinality(Rows(t)) /\ d = Cardinality(Decrementing(t)) /\ c = Cardinality(Counted(t))
    BY <1>3
  <2>2. PICK q, e, b, x \in Nat :
          /\ q = Cardinality(Rows(t)') /\ e = Cardinality(Decrementing(t)') /\ b = Cardinality(Counted(t)')
          /\ x = count'[t]
    BY <1>1, <1>2
  <2>3. q + i = r + l /\ e + j = d + m /\ b + k = c + n
    BY <1>1, <1>2, <2>1, <2>2
  <2>4. x + i + j + k = r + d + c + l + m + n
    BY <1>4, <1>5, <2>1, <2>2
  <2>5. x = q + e + b
    BY <2>3, <2>4
  <2>6. QED
    BY <2>2, <2>5
<1>7. QED
  BY <1>6 DEF Exact

LEMMA BoundedStep ==
  ASSUME TInv, NEW t \in Orgs, Bounded(t), NEW g \in Goroutines, NEW u \in Owners,
         \A h \in Goroutines \ {g} : step'[h] = step[h] /\ work'[h] = work[h],
         \A v \in Owners \ {u} : row'[v] = row[v],
         peak'[t] = peak[t],
         One(row'[u] = t) + One(g \in LetThrough(t)') <= One(row[u] = t) + One(g \in LetThrough(t))
  PROVE  Bounded(t)'
<1> PICK i, j, k, l \in {0, 1} :
      /\ i = One(row[u] = t) /\ j = One(g \in LetThrough(t))
      /\ k = One(row'[u] = t) /\ l = One(g \in LetThrough(t)')
  BY DEF One
<1>1. Cardinality(Rows(t)') + i = Cardinality(Rows(t)) + k /\ Cardinality(Rows(t)') \in Nat
  BY RowMoves, ZenonT(60)
<1>2. /\ Cardinality(LetThrough(t)') + j = Cardinality(LetThrough(t)) + l
      /\ Cardinality(LetThrough(t)') \in Nat
  BY RequestMoves
<1>3. Cardinality(Rows(t)) \in Nat /\ Cardinality(LetThrough(t)) \in Nat
  BY SetsFinite
<1>4. peak[t] \in Nat /\ Cardinality(Goroutines) \in Nat
  BY ConnectionFinite, FS_CardinalityType, AllowanceAssumption DEF TInv, GmailTypeOK
<1>5. k + l <= i + j
  OBVIOUS
<1>6. Cardinality(Rows(t)) + Cardinality(LetThrough(t)) < peak[t] + Cardinality(Goroutines)
  BY DEF Bounded
<1>7. Cardinality(Rows(t)') + Cardinality(LetThrough(t)') < peak[t] + Cardinality(Goroutines)
  <2>1. PICK r, c, q, b, m \in Nat :
          /\ r = Cardinality(Rows(t)) /\ c = Cardinality(LetThrough(t))
          /\ q = Cardinality(Rows(t)') /\ b = Cardinality(LetThrough(t)')
          /\ m = peak[t] + Cardinality(Goroutines)
    BY <1>1, <1>2, <1>3, <1>4
  <2>2. q + i = r + k /\ b + j = c + l /\ r + c < m
    BY <1>1, <1>2, <1>6, <2>1
  <2>3. q + b < m
    BY <1>5, <2>2
  <2>4. QED
    BY <2>1, <2>3
<1>8. QED
  BY <1>7 DEF Bounded


LEMMA BalanceFrame ==
  ASSUME TInv, NEW t \in Orgs, Exact(t), Bounded(t), NEW g \in Goroutines,
         \A h \in Goroutines \ {g} : step'[h] = step[h] /\ work'[h] = work[h],
         UNCHANGED <<row, peak>>, count'[t] = count[t],
         /\ g \in Decrementing(t)' <=> g \in Decrementing(t)
         /\ g \in Counted(t)' <=> g \in Counted(t)
         /\ g \in LetThrough(t)' => g \in LetThrough(t)
  PROVE  Exact(t)' /\ Bounded(t)'
<1>1. Rows(t)' = Rows(t)
  BY DEF Rows
<1>2. Cardinality(Decrementing(t)') = Cardinality(Decrementing(t))
  <2>1. /\ Cardinality(Decrementing(t)') + One(g \in Decrementing(t))
              = Cardinality(Decrementing(t)) + One(g \in Decrementing(t)')
        /\ Cardinality(Decrementing(t)') \in Nat
    BY RequestMoves
  <2>2. Cardinality(Decrementing(t)) \in Nat
    BY SetsFinite
  <2>3. QED
    BY <2>1, <2>2 DEF One
<1>3. Cardinality(Counted(t)') = Cardinality(Counted(t))
  <2>1. /\ Cardinality(Counted(t)') + One(g \in Counted(t)) = Cardinality(Counted(t)) + One(g \in Counted(t)')
        /\ Cardinality(Counted(t)') \in Nat
    BY RequestMoves
  <2>2. Cardinality(Counted(t)) \in Nat
    BY SetsFinite
  <2>3. QED
    BY <2>1, <2>2 DEF One
<1>4. Cardinality(LetThrough(t)') <= Cardinality(LetThrough(t)) /\ Cardinality(LetThrough(t)') \in Nat
  <2>1. /\ Cardinality(LetThrough(t)') + One(g \in LetThrough(t))
              = Cardinality(LetThrough(t)) + One(g \in LetThrough(t)')
        /\ Cardinality(LetThrough(t)') \in Nat
    BY RequestMoves
  <2>2. Cardinality(LetThrough(t)) \in Nat
    BY SetsFinite
  <2>3. QED
    BY <2>1, <2>2 DEF One
<1>5. /\ Cardinality(Rows(t)) \in Nat /\ Cardinality(LetThrough(t)) \in Nat
      /\ peak[t] \in Nat /\ Cardinality(Goroutines) \in Nat
  BY SetsFinite, ConnectionFinite, FS_CardinalityType, AllowanceAssumption DEF TInv, GmailTypeOK
<1>6. Exact(t)'
  BY <1>1, <1>2, <1>3 DEF Exact
<1>7. Cardinality(Rows(t)) + Cardinality(LetThrough(t)') < peak[t] + Cardinality(Goroutines)
  BY <1>4, <1>5 DEF Bounded
<1>8. QED
  BY <1>1, <1>6, <1>7 DEF Bounded

LEMMA ConnectBalance ==
  ASSUME TInv, TInv', Balance, NEW g \in Goroutines, Connect(g)
  PROVE  Balance'
<1> RequestsTypeOK /\ TenantsTypeOK /\ MailboxesTypeOK
  BY TypeParts DEF TInv
<1>1. UNCHANGED <<allowed, peak>> /\ drift \subseteq drift'
      /\ \A h \in Goroutines \ {g} : step'[h] = step[h] /\ work'[h] = work[h]
  BY DEF Connect, GoogleCallback, RenewWatch, Increment, StoreToken, StoreFails, RegisterWatch, Take,
     ToWatch, Finish, Blame, RequestsTypeOK, worldVars, causeVars
<1> SUFFICES ASSUME NEW t \in Orgs \ drift'
             PROVE  Exact(t)' /\ Bounded(t)'
  BY <1>1 DEF Balance
<1>2. Exact(t) /\ Bounded(t) /\ t \in Orgs /\ allowed[t] <= peak[t]
  BY <1>1 DEF Balance
<1>3. ASSUME NEW u \in Owners, NEW s \in Orgs, GoogleCallback(g, u, s)
      PROVE  Exact(t)' /\ Bounded(t)'
  <2>1. /\ UNCHANGED <<row, count, peak>> /\ step[g] = "idle" /\ step'[g] \in {"store", "increment"}
        /\ ~work'[g].counted /\ work'[g].org = s
    BY <1>3 DEF GoogleCallback, Take, RequestsTypeOK, causeVars
  <2>2. CASE step'[g] = "store" \/ s # t
    BY <1>1, <1>2, <2>1, <2>2, BalanceFrame DEF Decrementing, Counted, LetThrough, Passed
  <2>3. CASE step'[g] = "increment" /\ s = t
    <3>1. Exact(t)'
      <4>1. /\ One(g \in Decrementing(t)) = 0 /\ One(g \in Decrementing(t)') = 0
            /\ One(g \in Counted(t)) = 0 /\ One(g \in Counted(t)') = 0
        BY <2>1, <2>3 DEF Decrementing, Counted, One
      <4>2. One(row'[u] = t) = One(row[u] = t) /\ One(row[u] = t) \in {0, 1} /\ count'[t] = count[t] /\ count[t] \in Nat
        BY <2>1 DEF One, TenantsTypeOK
      <4>3. count'[t] + One(row[u] = t) + One(g \in Decrementing(t)) + One(g \in Counted(t))
              = count[t] + One(row'[u] = t) + One(g \in Decrementing(t)') + One(g \in Counted(t)')
        BY <4>1, <4>2
      <4>4. QED
        BY <1>1, <1>2, <2>1, <4>2, <4>3, ExactStep
    <3>2. count[t] < allowed[t]
      BY <1>3, <2>3 DEF GoogleCallback, HasRoom, Take, RequestsTypeOK
    <3>3. PICK p, c, x : p = LetThrough(t)' /\ c = Counted(t)' /\ x = p \ c
      OBVIOUS
    <3>4. p \in SUBSET Goroutines /\ c \in SUBSET Goroutines /\ c \subseteq p
      BY <3>3 DEF LetThrough, Counted, Passed
    <3>5. IsFiniteSet(c) /\ IsFiniteSet(x) /\ c \cap x = {} /\ p = c \cup x
      BY <3>3, <3>4, ConnectionFinite, FS_Subset
    <3>6. Cardinality(p) = Cardinality(c) + Cardinality(x)
      <4>1. Cardinality(p) = Cardinality(c) + Cardinality(x) - Cardinality(c \cap x) /\ Cardinality(c \cap x) = 0
        BY <3>5, FS_Union, FS_EmptySet
      <4>2. Cardinality(c) \in Nat /\ Cardinality(x) \in Nat
        BY <3>5, FS_CardinalityType
      <4>3. QED
        BY <4>1, <4>2
    <3>7. Cardinality(x) <= Cardinality(Goroutines) /\ Cardinality(x) \in Nat
      <4>1. x \in SUBSET Goroutines
        BY <3>3, <3>4
      <4>2. QED
        BY <4>1, ConnectionFinite, FS_Subset, FS_CardinalityType
    <3>8. Cardinality(Rows(t)') = Cardinality(Rows(t)) /\ Cardinality(Counted(t)') = Cardinality(Counted(t))
      <4>1. Rows(t)' = Rows(t)
        BY <2>1 DEF Rows
      <4>2. Counted(t)' = Counted(t)
        BY <1>1, <2>1, <2>3 DEF Counted
      <4>3. QED
        BY <4>1, <4>2
    <3>9. /\ Cardinality(Rows(t)) \in Nat /\ Cardinality(Decrementing(t)) \in Nat
          /\ Cardinality(Counted(t)) \in Nat /\ Cardinality(Goroutines) \in Nat
          /\ allowed[t] \in Nat /\ peak[t] \in Nat
      BY SetsFinite, ConnectionFinite, FS_CardinalityType, AllowanceAssumption DEF TenantsTypeOK
    <3>10. Cardinality(Rows(t)) + Cardinality(Counted(t)) < peak[t]
      BY <1>2, <3>2, <3>9 DEF Exact
    <3>11. Cardinality(Rows(t)') + Cardinality(LetThrough(t)') < peak[t] + Cardinality(Goroutines)
      BY <3>3, <3>6, <3>7, <3>8, <3>9, <3>10
    <3>12. QED
      BY <2>1, <3>1, <3>11 DEF Bounded
  <2>4. QED
    BY <2>1, <2>2, <2>3
<1>4. ASSUME NEW u \in Owners, RenewWatch(g, u)
      PROVE  Exact(t)' /\ Bounded(t)'
  <2>1. /\ UNCHANGED <<row, count, peak>> /\ step[g] = "idle" /\ step'[g] = "watch"
    BY <1>4 DEF RenewWatch, Take, RequestsTypeOK, causeVars
  <2>2. QED
    BY <1>1, <1>2, <2>1, BalanceFrame DEF Decrementing, Counted, LetThrough, Passed
<1>5. CASE Increment(g)
  <2>1. /\ UNCHANGED <<row, peak>> /\ step[g] = "increment" /\ step'[g] = "store"
        /\ work'[g].counted /\ work'[g].org = work[g].org /\ work[g].user \in Owners
        /\ count' = [count EXCEPT ![work[g].org] = @ + 1]
    BY <1>5 DEF Increment, TInv, Employed, RequestsTypeOK, causeVars
  <2>2. CASE work[g].org # t
    <3>1. count'[t] = count[t] /\ count[t] \in Nat
      BY <1>2, <2>1, <2>2 DEF TenantsTypeOK
    <3>2. /\ One(g \in Decrementing(t)') = One(g \in Decrementing(t)) /\ One(g \in Counted(t)') = One(g \in Counted(t))
          /\ One(g \in LetThrough(t)') = One(g \in LetThrough(t))
          /\ One(g \in Decrementing(t)) = 0 /\ One(g \in Counted(t)) = 0 /\ One(g \in LetThrough(t)) = 0
      BY <2>1, <2>2 DEF Decrementing, Counted, LetThrough, One
    <3>3. PICK i \in {0, 1} : i = One(row[work[g].user] = t) /\ i = One(row'[work[g].user] = t)
      BY <2>1 DEF One
    <3>4. count'[t] + i + 0 + 0 = count[t] + i + 0 + 0 /\ i + 0 <= i + 0
      BY <3>1
    <3>5. Exact(t)'
      BY <1>1, <1>2, <2>1, <3>1, <3>2, <3>3, <3>4, ExactStep
    <3>6. Bounded(t)'
      BY <1>1, <1>2, <2>1, <3>2, <3>3, <3>4, BoundedStep
    <3>7. QED
      BY <3>5, <3>6
  <2>3. CASE work[g].org = t
    <3>1. count'[t] = count[t] + 1 /\ count[t] \in Nat
      BY <1>2, <2>1, <2>3 DEF TenantsTypeOK
    <3>2. /\ One(g \in Decrementing(t)') = 0 /\ One(g \in Counted(t)') = 1 /\ One(g \in LetThrough(t)') = 1
          /\ One(g \in Decrementing(t)) = 0 /\ One(g \in Counted(t)) = 0 /\ One(g \in LetThrough(t)) = 1
      BY <2>1, <2>3 DEF Decrementing, Counted, LetThrough, Passed, One
    <3>3. PICK i \in {0, 1} : i = One(row[work[g].user] = t) /\ i = One(row'[work[g].user] = t)
      BY <2>1 DEF One
    <3>4. count'[t] + i + 0 + 0 = count[t] + i + 0 + 1 /\ i + 1 <= i + 1 /\ count'[t] \in Nat
      BY <3>1
    <3>5. Exact(t)'
      BY <1>1, <1>2, <2>1, <3>2, <3>3, <3>4, ExactStep
    <3>6. Bounded(t)'
      BY <1>1, <1>2, <2>1, <3>2, <3>3, <3>4, BoundedStep
    <3>7. QED
      BY <3>5, <3>6
  <2>4. QED
    BY <2>2, <2>3
<1>6. CASE StoreToken(g)
  <2>1. PICK u \in Owners, s \in Orgs, b \in BOOLEAN :
          /\ u = work[g].user /\ s = work[g].org /\ b = work[g].counted /\ step[g] = "store" /\ step'[g] = "watch"
          /\ row' = [row EXCEPT ![u] = IF row[u] # NoOrg THEN row[u] ELSE s]
          /\ drift' = drift \cup (IF b = (row[u] # NoOrg) THEN {s} ELSE {})
          /\ UNCHANGED <<count, peak>>
    BY <1>6 DEF StoreToken, TInv, Employed, RequestsTypeOK, UpsertOAuthToken, Connected, Blame, ToWatch
  <2>2. (s = t) => (b = (row[u] = NoOrg))
    BY <2>1
  <2>3. count'[t] = count[t] /\ count[t] \in Nat /\ peak'[t] = peak[t]
    BY <1>2, <2>1 DEF TenantsTypeOK
  <2>4. \A v \in Owners \ {u} : row'[v] = row[v]
    BY <2>1 DEF TenantsTypeOK
  <2>5. row'[u] = (IF row[u] # NoOrg THEN row[u] ELSE s) /\ NoOrg # t
    BY <2>1, NobodyAssumption DEF TenantsTypeOK
  <2>6. /\ One(g \in Decrementing(t)') = 0 /\ One(g \in Counted(t)') = 0 /\ One(g \in LetThrough(t)') = 0
        /\ One(g \in Decrementing(t)) = 0
        /\ One(g \in Counted(t)) = One(s = t /\ b) /\ One(g \in LetThrough(t)) = One(s = t /\ b)
    BY <2>1 DEF Decrementing, Counted, LetThrough, Passed, One
  <2>7. PICK i, j, k \in {0, 1} : i = One(row[u] = t) /\ j = One(row'[u] = t) /\ k = One(s = t /\ b)
    BY DEF One
  <2>8. i + k = j
    <3>1. CASE row[u] # NoOrg
      BY <2>2, <2>5, <2>7, <3>1 DEF One
    <3>2. CASE row[u] = NoOrg
      BY <2>2, <2>5, <2>7, <3>2 DEF One
    <3>3. QED
      BY <3>1, <3>2
  <2>9. count'[t] + i + 0 + k = count[t] + j + 0 + 0 /\ j + 0 <= i + k
    BY <2>3, <2>8
  <2>10. Exact(t)'
    <3>1. count'[t] \in Nat
      BY <2>3
    <3>2. count'[t] + One(row[u] = t) + One(g \in Decrementing(t)) + One(g \in Counted(t))
            = count[t] + One(row'[u] = t) + One(g \in Decrementing(t)') + One(g \in Counted(t)')
      BY <2>6, <2>7, <2>9
    <3>3. QED
      BY <1>1, <1>2, <2>4, <3>1, <3>2, ExactStep
  <2>11. Bounded(t)'
    BY <1>1, <1>2, <2>3, <2>4, <2>6, <2>7, <2>9, BoundedStep
  <2>12. QED
    BY <2>10, <2>11
<1>7. CASE StoreFails(g)
  <2>1. /\ UNCHANGED <<row, count, peak>> /\ step[g] = "store" /\ step'[g] = "idle"
        /\ drift' = drift \cup (IF work[g].counted THEN {work[g].org} ELSE {})
    BY <1>7 DEF StoreFails, Finish, Blame, RequestsTypeOK
  <2>2. work[g].counted => work[g].org # t
    BY <2>1
  <2>3. QED
    BY <1>1, <1>2, <2>1, <2>2, BalanceFrame DEF Decrementing, Counted, LetThrough, Passed
<1>8. CASE RegisterWatch(g)
  <2>1. /\ UNCHANGED <<row, count, peak>> /\ step[g] = "watch" /\ step'[g] = "idle"
    BY <1>8 DEF RegisterWatch, Finish, RequestsTypeOK
  <2>2. QED
    BY <1>1, <1>2, <2>1, BalanceFrame DEF Decrementing, Counted, LetThrough, Passed
<1>9. QED
  BY <1>3, <1>4, <1>5, <1>6, <1>7, <1>8 DEF Connect, TenantsTypeOK

LEMMA DisconnectBalance ==
  ASSUME TInv, TInv', Balance, NEW g \in Goroutines, Disconnect(g)
  PROVE  Balance'
<1> RequestsTypeOK /\ TenantsTypeOK /\ MailboxesTypeOK
  BY TypeParts DEF TInv
<1>1. UNCHANGED <<allowed, peak>> /\ drift \subseteq drift'
      /\ \A h \in Goroutines \ {g} : step'[h] = step[h] /\ work'[h] = work[h]
  BY DEF Disconnect, GmailDisconnect, Delete, Decrement, Take, Proceed, Finish, Blame, RequestsTypeOK, causeVars
<1> SUFFICES ASSUME NEW t \in Orgs \ drift'
             PROVE  Exact(t)' /\ Bounded(t)'
  BY <1>1 DEF Balance
<1>2. Exact(t) /\ Bounded(t) /\ t \in Orgs
  BY <1>1 DEF Balance
<1>3. ASSUME NEW u \in Owners, NEW s \in Orgs, GmailDisconnect(g, u, s)
      PROVE  Exact(t)' /\ Bounded(t)'
  <2>1. UNCHANGED <<row, count, peak>> /\ step[g] = "idle" /\ step'[g] = "delete"
    BY <1>3 DEF GmailDisconnect, Take, RequestsTypeOK, causeVars
  <2>2. QED
    BY <1>1, <1>2, <2>1, BalanceFrame DEF Decrementing, Counted, LetThrough, Passed
<1>4. CASE Delete(g)
  <2>1. PICK u \in Owners, s \in Orgs :
          /\ u = work[g].user /\ s = work[g].org /\ step[g] = "delete" /\ step'[g] = "decrement"
          /\ work'[g].org = s
          /\ \/ row' = [row EXCEPT ![u] = NoOrg]
                /\ drift' = drift \cup (IF row[u] = s THEN {} ELSE {s, row[u]} \cap Orgs)
             \/ row' = row /\ drift' = drift \cup {s}
          /\ UNCHANGED <<count, peak>>
    BY <1>4 DEF Delete, TInv, Employed, RequestsTypeOK, DeleteOAuthToken, Blame, Proceed
  <2>2. \A v \in Owners \ {u} : row'[v] = row[v]
    BY <2>1 DEF TenantsTypeOK
  <2>3. count'[t] = count[t] /\ count[t] \in Nat /\ count'[t] \in Nat /\ peak'[t] = peak[t]
    BY <1>2, <2>1 DEF TenantsTypeOK
  <2>4. /\ One(g \in Decrementing(t)) = 0 /\ One(g \in Decrementing(t)') = One(s = t)
        /\ One(g \in Counted(t)) = 0 /\ One(g \in Counted(t)') = 0
        /\ One(g \in LetThrough(t)) = 0 /\ One(g \in LetThrough(t)') = 0
    BY <2>1 DEF Decrementing, Counted, LetThrough, Passed, One
  <2>5. PICK i, j, k \in {0, 1} : i = One(row[u] = t) /\ j = One(row'[u] = t) /\ k = One(s = t)
    BY DEF One
  <2>6. i = j + k
    <3>1. CASE row' = [row EXCEPT ![u] = NoOrg]
               /\ drift' = drift \cup (IF row[u] = s THEN {} ELSE {s, row[u]} \cap Orgs)
      <4>1. row'[u] # t
        BY <3>1, NobodyAssumption DEF TenantsTypeOK
      <4>2. (row[u] = t) <=> (s = t)
        BY <3>1, <2>1
      <4>3. QED
        BY <2>5, <4>1, <4>2 DEF One
    <3>2. CASE row' = row /\ drift' = drift \cup {s}
      BY <2>5, <3>2 DEF One
    <3>3. QED
      BY <2>1, <3>1, <3>2
  <2>7. count'[t] + One(row[u] = t) + One(g \in Decrementing(t)) + One(g \in Counted(t))
          = count[t] + One(row'[u] = t) + One(g \in Decrementing(t)') + One(g \in Counted(t)')
    <3>1. count'[t] + i + 0 + 0 = count[t] + j + k + 0
      BY <2>3, <2>6
    <3>2. One(g \in Decrementing(t)') = k
      BY <2>4, <2>5
    <3>3. QED
      BY <2>4, <2>5, <3>1, <3>2
  <2>8. One(row'[u] = t) + One(g \in LetThrough(t)') <= One(row[u] = t) + One(g \in LetThrough(t))
    BY <2>4, <2>5, <2>6, SMTT(30)
  <2>9. QED
    BY <1>1, <1>2, <2>2, <2>3, <2>7, <2>8, ExactStep, BoundedStep
<1>5. CASE Decrement(g)
  <2>1. PICK u \in Owners, s \in Orgs :
          /\ u = work[g].user /\ s = work[g].org /\ step[g] = "decrement" /\ step'[g] = "idle"
          /\ \/ count' = [count EXCEPT ![s] = OneLess(count[s])]
             \/ count' = count /\ drift' = drift \cup {s}
          /\ UNCHANGED <<row, peak>>
    BY <1>5 DEF Decrement, TInv, Employed, RequestsTypeOK, Blame, Finish
  <2>2. CASE s # t
    <3>1. count'[t] = count[t]
      BY <2>1, <2>2, <1>2 DEF TenantsTypeOK
    <3>2. /\ g \in Decrementing(t)' <=> g \in Decrementing(t)
          /\ g \in Counted(t)' <=> g \in Counted(t)
          /\ g \in LetThrough(t)' => g \in LetThrough(t)
      BY <2>1, <2>2 DEF Decrementing, Counted, LetThrough, Passed
    <3>3. QED
      BY <1>1, <1>2, <2>1, <3>1, <3>2, BalanceFrame
  <2>3. CASE s = t
    <3>1. /\ One(g \in Decrementing(t)) = 1 /\ One(g \in Decrementing(t)') = 0
          /\ One(g \in Counted(t)) = 0 /\ One(g \in Counted(t)') = 0
          /\ One(g \in LetThrough(t)) = 0 /\ One(g \in LetThrough(t)') = 0
      BY <2>1, <2>3 DEF Decrementing, Counted, LetThrough, Passed, One
    <3>2. Cardinality(Decrementing(t)) # 0
      <4>1. PICK d : d = Decrementing(t)
        OBVIOUS
      <4>2. g \in d
        BY <2>1, <2>3, <4>1 DEF Decrementing
      <4>3. IsFiniteSet(d)
        BY <4>1, SetsFinite
      <4>4. QED
        BY <4>1, <4>2, <4>3, FS_EmptySet
    <3>3. count[t] \in Nat /\ count[t] > 0
      <4>1. /\ Cardinality(Rows(t)) \in Nat /\ Cardinality(Decrementing(t)) \in Nat
            /\ Cardinality(Counted(t)) \in Nat
        BY SetsFinite
      <4>2. QED
        BY <1>2, <3>2, <4>1 DEF Exact
    <3>4. count'[t] = count[t] - 1 /\ count'[t] \in Nat
      BY <2>1, <2>3, <3>3 DEF OneLess, TenantsTypeOK
    <3>5. row'[u] = row[u] /\ peak'[t] = peak[t] /\ \A v \in Owners \ {u} : row'[v] = row[v]
      BY <2>1
    <3>6. PICK i \in {0, 1} : i = One(row[u] = t) /\ i = One(row'[u] = t)
      BY <3>5 DEF One
    <3>7. count'[t] + One(row[u] = t) + One(g \in Decrementing(t)) + One(g \in Counted(t))
            = count[t] + One(row'[u] = t) + One(g \in Decrementing(t)') + One(g \in Counted(t)')
      BY <3>1, <3>3, <3>4, <3>6
    <3>8. One(row'[u] = t) + One(g \in LetThrough(t)') <= One(row[u] = t) + One(g \in LetThrough(t))
      BY <3>1, <3>6
    <3>9. QED
      BY <1>1, <1>2, <3>4, <3>5, <3>7, <3>8, ExactStep, BoundedStep
  <2>4. QED
    BY <2>2, <2>3
<1>6. QED
  BY <1>3, <1>4, <1>5 DEF Disconnect, TenantsTypeOK

LEMMA ScanBalance ==
  ASSUME TInv, TInv', Balance, NEW g \in Goroutines, Scan(g)
  PROVE  Balance'
<1> RequestsTypeOK /\ TenantsTypeOK /\ MailboxesTypeOK
  BY TypeParts DEF TInv
<1>1. UNCHANGED <<allowed, peak, count>> /\ drift \subseteq drift'
      /\ \A h \in Goroutines \ {g} : step'[h] = step[h] /\ work'[h] = work[h]
  BY DEF Scan, StartScan, EndScan, Take, Finish, Blame, RequestsTypeOK, causeVars, worldVars
<1> SUFFICES ASSUME NEW t \in Orgs \ drift'
             PROVE  Exact(t)' /\ Bounded(t)'
  BY <1>1 DEF Balance
<1>2. Exact(t) /\ Bounded(t) /\ t \in Orgs
  BY <1>1 DEF Balance
<1>3. ASSUME NEW u \in Owners, StartScan(g, u)
      PROVE  Exact(t)' /\ Bounded(t)'
  <2>1. row' = row /\ step[g] = "idle" /\ step'[g] = "scan"
    BY <1>3 DEF StartScan, Take, RequestsTypeOK
  <2>2. QED
    BY <1>1, <1>2, <2>1, BalanceFrame DEF Decrementing, Counted, LetThrough, Passed
<1>4. CASE EndScan(g)
  <2>1. PICK u \in Owners, s \in Orgs :
          /\ u = work[g].user /\ s = work[g].org /\ step[g] = "scan" /\ step'[g] = "idle"
          /\ \/ row' = row
             \/ /\ row' = [row EXCEPT ![u] = IF row[u] # NoOrg THEN row[u] ELSE s]
                /\ drift' = drift \cup (IF row[u] # NoOrg THEN {} ELSE {s})
    BY <1>4 DEF EndScan, TInv, Employed, RequestsTypeOK, UpsertOAuthToken, Connected, Blame, Finish
  <2>2. \A v \in Owners \ {u} : row'[v] = row[v]
    BY <2>1 DEF TenantsTypeOK
  <2>3. (row'[u] = t) <=> (row[u] = t)
    BY <2>1, NobodyAssumption DEF TenantsTypeOK
  <2>4. /\ One(g \in Decrementing(t)) = 0 /\ One(g \in Decrementing(t)') = 0
        /\ One(g \in Counted(t)) = 0 /\ One(g \in Counted(t)') = 0
        /\ One(g \in LetThrough(t)) = 0 /\ One(g \in LetThrough(t)') = 0
    BY <2>1 DEF Decrementing, Counted, LetThrough, Passed, One
  <2>5. count'[t] = count[t] /\ count[t] \in Nat /\ count'[t] \in Nat /\ peak'[t] = peak[t]
    BY <1>1, <1>2 DEF TenantsTypeOK
  <2>6. PICK i \in {0, 1} : i = One(row[u] = t) /\ i = One(row'[u] = t)
    BY <2>3 DEF One
  <2>7. count'[t] + One(row[u] = t) + One(g \in Decrementing(t)) + One(g \in Counted(t))
          = count[t] + One(row'[u] = t) + One(g \in Decrementing(t)') + One(g \in Counted(t)')
    BY <2>4, <2>5, <2>6
  <2>8. One(row'[u] = t) + One(g \in LetThrough(t)') <= One(row[u] = t) + One(g \in LetThrough(t))
    BY <2>4, <2>6
  <2>9. QED
    BY <1>1, <1>2, <2>2, <2>5, <2>7, <2>8, ExactStep, BoundedStep
<1>5. QED
  BY <1>3, <1>4 DEF Scan

\* A step of no request that leaves a tenant's rows and counter alone.
LEMMA WorldFrame ==
  ASSUME TInv, TInv', NEW t \in Orgs, Exact(t), Bounded(t),
         UNCHANGED <<count, step, work>>, Rows(t)' = Rows(t), peak[t] <= peak'[t]
  PROVE  Exact(t)' /\ Bounded(t)'
<1>1. Decrementing(t)' = Decrementing(t) /\ Counted(t)' = Counted(t) /\ LetThrough(t)' = LetThrough(t)
  BY DEF Decrementing, Counted, LetThrough, Passed
<1>2. Exact(t)'
  BY <1>1 DEF Exact
<1>3. /\ Cardinality(Rows(t)) \in Nat /\ Cardinality(LetThrough(t)) \in Nat
      /\ peak[t] \in Nat /\ peak'[t] \in Nat /\ Cardinality(Goroutines) \in Nat
  BY SetsFinite, ConnectionFinite, FS_CardinalityType, AllowanceAssumption DEF TInv, GmailTypeOK
<1>4. Cardinality(Rows(t)) + Cardinality(LetThrough(t)) < peak'[t] + Cardinality(Goroutines)
  BY <1>3 DEF Bounded
<1>5. QED
  BY <1>1, <1>2, <1>4 DEF Bounded

LEMMA WorldBalance ==
  ASSUME TInv, TInv', Balance, World
  PROVE  Balance'
<1> RequestsTypeOK /\ TenantsTypeOK /\ MailboxesTypeOK
  BY TypeParts DEF TInv
<1>1. \A t \in Orgs : allowed[t] \in Nat /\ peak[t] \in Nat /\ allowed[t] <= peak[t]
  BY AllowanceAssumption DEF TenantsTypeOK, Balance
<1>2. ASSUME NEW u \in Owners, StopWatch(u)
      PROVE  Balance'
  <2>1. UNCHANGED <<row, count, step, work, drift, peak, allowed>>
    BY <1>2 DEF StopWatch
  <2>2. \A t \in Orgs : Rows(t)' = Rows(t) /\ peak[t] <= peak'[t] /\ allowed'[t] <= peak'[t]
    BY <1>1, <2>1 DEF Rows
  <2>3. QED
    BY <2>1, <2>2, WorldFrame DEF Balance
<1>3. ASSUME NEW u \in Owners, NEW s \in Orgs, ChangeOrg(u, s)
      PROVE  Balance'
  <2>1. UNCHANGED <<row, count, step, work, drift, peak, allowed>>
    BY <1>3 DEF ChangeOrg
  <2>2. \A t \in Orgs : Rows(t)' = Rows(t) /\ peak[t] <= peak'[t] /\ allowed'[t] <= peak'[t]
    BY <1>1, <2>1 DEF Rows
  <2>3. QED
    BY <2>1, <2>2, WorldFrame DEF Balance
<1>4. ASSUME NEW u \in Owners, NEW s \in Orgs, DeleteTenant(u, s)
      PROVE  Balance'
  <2>1. UNCHANGED <<count, step, work, peak, allowed>> /\ drift' = drift \cup {member[u]}
        /\ row' = [v \in Owners |-> IF row[v] = member[u] THEN NoOrg ELSE row[v]]
    BY <1>4 DEF DeleteTenant, Blame
  <2>2. \A t \in Orgs : peak[t] <= peak'[t] /\ allowed'[t] <= peak'[t]
    BY <1>1, <2>1
  <2>3. \A t \in Orgs \ drift' : t \in Orgs \ drift /\ Rows(t)' = Rows(t)
    BY <2>1, NobodyAssumption DEF Rows, TenantsTypeOK
  <2>4. \A t \in Orgs \ drift' : Exact(t)' /\ Bounded(t)'
    BY <2>1, <2>2, <2>3, WorldFrame DEF Balance
  <2>5. QED
    BY <2>2, <2>4 DEF Balance
<1>5. ASSUME NEW s \in Orgs, NEW a \in Allowance, ChangeAllowance(s, a)
      PROVE  Balance'
  <2>1. UNCHANGED <<row, count, step, work, drift>> /\ a \in Nat
        /\ allowed' = [allowed EXCEPT ![s] = a]
        /\ peak' = [peak EXCEPT ![s] = IF a > peak[s] THEN a ELSE peak[s]]
    BY <1>5, AllowanceAssumption DEF ChangeAllowance
  <2>2. \A t \in Orgs : peak[t] <= peak'[t] /\ allowed'[t] <= peak'[t]
    <3> SUFFICES ASSUME NEW t \in Orgs
                 PROVE  peak[t] <= peak'[t] /\ allowed'[t] <= peak'[t]
      OBVIOUS
    <3>1. CASE t = s
      BY <1>1, <2>1, <3>1 DEF TenantsTypeOK
    <3>2. CASE t # s
      BY <1>1, <2>1, <3>2 DEF TenantsTypeOK
    <3>3. QED
      BY <3>1, <3>2
  <2>3. \A t \in Orgs : Rows(t)' = Rows(t)
    BY <2>1 DEF Rows
  <2>4. QED
    BY <2>1, <2>2, <2>3, WorldFrame DEF Balance
<1>6. QED
  BY <1>2, <1>3, <1>4, <1>5 DEF World

LEMMA BalanceInit == GmailInit => Balance
<1> SUFFICES ASSUME GmailInit, NEW t \in Orgs
             PROVE  Exact(t) /\ Bounded(t) /\ allowed[t] <= peak[t]
  BY DEF Balance
<1>1. Rows(t) = {} /\ Decrementing(t) = {} /\ Counted(t) = {} /\ LetThrough(t) = {}
  BY NobodyAssumption DEF GmailInit, Rows, Decrementing, Counted, LetThrough, Passed
<1>2. Exact(t)
  BY <1>1, FS_EmptySet DEF Exact, GmailInit
<1>3. peak[t] \in Nat /\ allowed[t] = peak[t]
  BY AllowanceAssumption DEF GmailInit
<1>4. Cardinality(Goroutines) \in Nat /\ Cardinality(Goroutines) # 0
  BY ConnectionFinite, FS_CardinalityType, FS_EmptySet
<1>5. Bounded(t)
  BY <1>1, <1>3, <1>4, FS_EmptySet DEF Bounded
<1>6. QED
  BY <1>2, <1>3, <1>5

LEMMA BalanceNext == TInv /\ TInv' /\ Balance /\ [GmailNext]_gmailVars => Balance'
<1> SUFFICES ASSUME TInv, TInv', Balance, [GmailNext]_gmailVars PROVE Balance'
  OBVIOUS
<1>1. CASE UNCHANGED gmailVars
  BY <1>1 DEF gmailVars, Balance, Exact, Bounded, Rows, Decrementing, Counted, LetThrough, Passed
<1>2. CASE World
  BY <1>2, WorldBalance
<1>3. ASSUME NEW g \in Goroutines, Connect(g) \/ Disconnect(g) \/ Scan(g)
      PROVE  Balance'
  BY <1>3, ConnectBalance, DisconnectBalance, ScanBalance
<1>4. QED
  BY <1>1, <1>2, <1>3 DEF GmailNext

\* mailbox_count is the number of a tenant's rows, corrected by the requests between two of
\* their statements, unless one of the named causes made it wrong (data/plans.go:
\* CheckAndIncrementMailbox, DecrementMailboxCount; data/oauth.go: UpsertOAuthToken,
\* DeleteOAuthToken).
THEOREM CounterExact == GmailSpec => []CountExact
<1>1. TInv /\ Balance => CountExact
  BY DEF Balance, Exact, CountExact, At, Decrementing, Counted
<1>2. QED
  BY <1>1, TInvInit, TInvNext, BalanceInit, BalanceNext, PTL DEF GmailSpec

\* The plan's limit is checked by one statement and counted by the next, so a tenant may pass
\* it, but by fewer mailboxes than there are requests at once (data/plans.go:
\* CheckAndIncrementMailbox).
THEOREM LimitNearlyKept == GmailSpec => []MailboxesBounded
<1>1. TInv /\ Balance => MailboxesBounded
  BY DEF Balance, Bounded, MailboxesBounded, LetThrough
<1>2. QED
  BY <1>1, TInvInit, TInvNext, BalanceInit, BalanceNext, PTL DEF GmailSpec
==============================================================================
