----------------------------- MODULE MembershipProofs -----------------------------
(***************************************************************************)
(* Machine-checked proofs about Membership, for every number of people,    *)
(* tenants, plans and requests served at once, and every bound.            *)
(*                                                                         *)
(* Four inductive invariants, each resting on the one before: the types,   *)
(* with where each request is aimed (TInv); that nobody touches a tenant   *)
(* whose owner is still to be inserted, and a user has one row per tenant  *)
(* (RInv); that every tenant has its owner (Held) and everyone a tenant    *)
(* (CaredFor), or a request at work on it; and the load of a team, its     *)
(* members and those who wait to join, by the plan (LoadBounded).          *)
(***************************************************************************)
EXTENDS Membership, FiniteSetTheorems, TLAPS

------------------------------------------------------------------------------
(* RemoveFirst, SubSeq and Append on the rows of members.                   *)

LEMMA ConcatLen ==
  ASSUME NEW S, NEW a \in Seq(S), NEW b \in Seq(S)
  PROVE  a \o b \in Seq(S) /\ Len(a \o b) = Len(a) + Len(b)
OBVIOUS

LEMMA LeastElement ==
  ASSUME NEW J \in SUBSET Nat, J # {}
  PROVE  \E i \in J : \A j \in J : i <= j
<1> DEFINE R == {ss \in Nat \X Nat : ss[1] < ss[2]}
<1>1. IsWellFoundedOn(R, Nat)
  BY NatLessThanWellFounded DEF OpToRel
<1>2. \A i, j \in Nat : <<j, i>> \in R <=> j < i
  OBVIOUS
<1> HIDE DEF R
<1>3. PICK m \in J : \A j \in J : ~ (<<j, m>> \in R)
  BY <1>1, WFMin
<1>4. ASSUME NEW j \in J
      PROVE  m <= j
  <2>1. m \in Nat /\ j \in Nat /\ ~(<<j, m>> \in R)
    BY <1>3
  <2>2. ~(j < m)
    BY <2>1, <1>2
  <2>3. QED
    BY <2>1, <2>2
<1>5. QED
  BY <1>4
LEMMA RemoveAtProperties ==
  ASSUME NEW S, NEW s \in Seq(S), NEW k \in 1..Len(s)
  PROVE  /\ RemoveAt(s, k) \in Seq(S) /\ Len(RemoveAt(s, k)) = Len(s) - 1
         /\ \A i \in 1..Len(RemoveAt(s, k)) : RemoveAt(s, k)[i] = IF i < k THEN s[i] ELSE s[i + 1]
<1> DEFINE a == SubSeq(s, 1, k - 1)
           b == SubSeq(s, k + 1, Len(s))
           r == a \o b
<1>1. Len(s) \in Nat /\ k \in Nat /\ 1 <= k /\ k <= Len(s)
  OBVIOUS
<1>2. a \in Seq(S) /\ Len(a) = k - 1 /\ \A i \in 1..(k - 1) : a[i] = s[i]
  OBVIOUS
<1>3. b \in Seq(S) /\ Len(b) = Len(s) - k /\ \A i \in 1..(Len(s) - k) : b[i] = s[i + k]
  OBVIOUS
<1> HIDE DEF a, b
<1>4. r \in Seq(S) /\ Len(r) = Len(a) + Len(b)
  BY <1>2, <1>3, ConcatLen
<1>5. Len(r) = Len(s) - 1
  BY <1>1, <1>2, <1>3, <1>4
<1>6. ASSUME NEW i \in 1..Len(r)
      PROVE  r[i] = IF i < k THEN s[i] ELSE s[i + 1]
  <2>1. i \in Nat /\ 1 <= i /\ i < Len(s)
    BY <1>1, <1>5
  <2>2. CASE i < k
    <3>1. i \in 1..Len(a)
      BY <1>1, <1>2, <2>1, <2>2
    <3>2. r[i] = a[i]
      BY <1>2, <1>3, <3>1
    <3>3. QED
      BY <1>2, <2>2, <3>1, <3>2
  <2>3. CASE ~(i < k)
    <3>1. i \in Len(a) + 1 .. Len(a) + Len(b)
      BY <1>1, <1>2, <1>3, <2>1, <2>3
    <3>2. r[i] = b[i - Len(a)]
      BY <1>2, <1>3, <3>1
    <3>3. i - Len(a) \in 1..(Len(s) - k) /\ i - Len(a) + k = i + 1
      BY <1>1, <1>2, <2>1, <2>3
    <3>4. QED
      BY <1>3, <2>3, <3>2, <3>3
  <2>4. QED
    BY <2>2, <2>3
<1>7. QED
  BY <1>4, <1>5, <1>6 DEF RemoveAt, a, b

LEMMA RemoveFirstProperties ==
  ASSUME NEW S, NEW s \in Seq(S), NEW u
  PROVE  /\ RemoveFirst(s, u) \in Seq(S)
         /\ ToSet(RemoveFirst(s, u)) \subseteq ToSet(s)
         /\ ToSet(s) \ {u} \subseteq ToSet(RemoveFirst(s, u))
         /\ IsInjective(s) => IsInjective(RemoveFirst(s, u)) /\ u \notin ToSet(RemoveFirst(s, u))
<1> DEFINE J == {i \in 1..Len(s) : s[i] = u}
           k == SelectInSeq(s, LAMBDA v : v = u)
<1>1. CASE J = {}
  <2>1. RemoveFirst(s, u) = s
    BY <1>1 DEF RemoveFirst
  <2>2. u \notin ToSet(s)
    BY <1>1 DEF ToSet
  <2>3. QED
    BY <2>1, <2>2
<1>2. CASE J # {}
  <2>1. \E m \in J : \A j \in J : m <= j
    <3>1. J \in SUBSET Nat
      OBVIOUS
    <3> HIDE DEF J
    <3>2. QED
      BY <3>1, <1>2, LeastElement
  <2>2. k \in J
    BY <2>1, <1>2 DEF SelectInSeq, Min
  <2>3. RemoveFirst(s, u) = RemoveAt(s, k)
    BY <1>2 DEF RemoveFirst
  <2> DEFINE r == RemoveAt(s, k)
  <2>4. k \in 1..Len(s) /\ s[k] = u
    BY <2>2
  <2> HIDE DEF k, J
  <2>5. /\ r \in Seq(S) /\ Len(r) = Len(s) - 1
        /\ \A j \in 1..Len(r) : r[j] = IF j < k THEN s[j] ELSE s[j + 1]
    BY <2>4, RemoveAtProperties
  <2> HIDE DEF r
  <2>6. ToSet(r) \subseteq ToSet(s)
    BY <2>4, <2>5 DEF ToSet
  <2>7. ASSUME NEW v \in ToSet(s), v # u
        PROVE  v \in ToSet(r)
    <3>1. PICK n \in 1..Len(s) : s[n] = v
      BY DEF ToSet
    <3>2. n # k
      BY <3>1, <2>4, <2>7
    <3>3. CASE n < k
      BY <3>1, <3>3, <2>4, <2>5 DEF ToSet
    <3>4. CASE n > k
      <4>1. n - 1 \in 1..Len(r) /\ r[n - 1] = v
        BY <3>1, <3>4, <2>4, <2>5
      <4>2. QED
        BY <4>1, <2>5 DEF ToSet
    <3>5. QED
      BY <3>2, <3>3, <3>4, <2>4
  <2>8. ASSUME IsInjective(s)
        PROVE  IsInjective(r) /\ u \notin ToSet(r)
    <3>1. Len(s) \in Nat /\ DOMAIN s = 1..Len(s) /\ DOMAIN r = 1..Len(r)
      BY <2>5
    <3>2. ASSUME NEW m \in 1..Len(r), NEW n \in 1..Len(r), r[m] = r[n]
          PROVE  m = n
      <4> DEFINE M == IF m < k THEN m ELSE m + 1
                 N == IF n < k THEN n ELSE n + 1
      <4>1. M \in 1..Len(s) /\ N \in 1..Len(s) /\ s[M] = s[N]
        BY <2>4, <2>5, <3>1, <3>2
      <4>2. M = N
        BY <4>1, <3>1, <2>8 DEF IsInjective
      <4>3. QED
        BY <4>2, <2>4
    <3>3. ASSUME NEW m \in 1..Len(r)
          PROVE  r[m] # u
      <4> DEFINE M == IF m < k THEN m ELSE m + 1
      <4>1. M \in 1..Len(s) /\ M # k /\ r[m] = s[M]
        BY <2>4, <2>5, <3>1
      <4>2. QED
        BY <4>1, <3>1, <2>4, <2>8 DEF IsInjective
    <3>4. QED
      BY <3>1, <3>2, <3>3 DEF IsInjective, ToSet
  <2>9. QED
    BY <2>3, <2>5, <2>6, <2>7, <2>8 DEF r
<1>3. QED
  BY <1>1, <1>2

LEMMA PrefixProperties ==
  ASSUME NEW S, NEW s \in Seq(S), NEW n \in 0..Len(s)
  PROVE  /\ SubSeq(s, 1, n) \in Seq(S)
         /\ Len(SubSeq(s, 1, n)) = n
         /\ ToSet(SubSeq(s, 1, n)) \subseteq ToSet(s)
         /\ IsInjective(s) => IsInjective(SubSeq(s, 1, n))
<1> DEFINE r == SubSeq(s, 1, n)
<1>1. r \in Seq(S) /\ Len(r) = n /\ \A i \in 1..n : r[i] = s[i]
  OBVIOUS
<1> HIDE DEF r
<1>2. ToSet(r) \subseteq ToSet(s) /\ (IsInjective(s) => IsInjective(r))
  BY <1>1 DEF ToSet, IsInjective
<1>3. QED
  BY <1>1, <1>2 DEF r

LEMMA AppendedProperties ==
  ASSUME NEW S, NEW s \in Seq(S), NEW u \in S
  PROVE  /\ Append(s, u) \in Seq(S)
         /\ ToSet(Append(s, u)) = ToSet(s) \cup {u}
         /\ IsInjective(s) /\ u \notin ToSet(s) => IsInjective(Append(s, u))
<1> DEFINE r == Append(s, u)
<1>1. r \in Seq(S) /\ Len(r) = Len(s) + 1 /\ r[Len(s) + 1] = u /\ \A i \in 1..Len(s) : r[i] = s[i]
  OBVIOUS
<1> HIDE DEF r
<1>2. ToSet(r) = ToSet(s) \cup {u}
  BY <1>1 DEF ToSet
<1>3. IsInjective(s) /\ u \notin ToSet(s) => IsInjective(r)
  BY <1>1 DEF ToSet, IsInjective
<1>4. QED
  BY <1>1, <1>2, <1>3 DEF r

LEMMA ToSetBound ==
  ASSUME NEW S, NEW s \in Seq(S)
  PROVE  /\ IsFiniteSet(ToSet(s)) /\ Cardinality(ToSet(s)) <= Len(s)
         /\ ToSet(s) \subseteq S
<1>1. ToSet(s) \subseteq S /\ Len(s) \in Nat
  BY DEF ToSet
<1>2. s \in Surjection(1..Len(s), ToSet(s))
  BY DEF ToSet, Surjection
<1>3. IsFiniteSet(1..Len(s)) /\ Cardinality(1..Len(s)) = Len(s)
  BY <1>1, FS_Interval
<1>4. QED
  BY <1>1, <1>2, <1>3, FS_Surjection

LEMMA ToSetEmpty == ToSet(<<>>) = {} /\ IsInjective(<<>>)
BY DEF ToSet, IsInjective
------------------------------------------------------------------------------
(* Type correctness, with where each request is aimed.                      *)

Accepting == {"empty", "drop", "depart", "join"}
Quitting  == {"empty", "drop", "depart"}

\* A request past the statement that chose them has a tenant to fill, join or leave.
Aimed ==
  \A h \in Handlers :
    /\ pc[h] \in Accepting \cup {"own"} => req[h].org \in Tenants
    /\ pc[h] \in Quitting => req[h].old.tenant \in Tenants

RequestsTypeOK == pc \in [Handlers -> Labels] /\ req \in [Handlers -> Request]
RowsTypeOK ==
  /\ login \in [Users -> SUBSET {"password", "sso"}]
  /\ plan \in [Tenants -> Plans \cup {"new", "deleted"}]
  /\ owners \in [Tenants -> SUBSET Users] /\ joined \in [Tenants -> Seq(Users)]
  /\ passes \in [Tenants -> SUBSET Users]
InvitesTypeOK ==
  /\ invites \subseteq Invites /\ sent \in 0..MaxInvites
HistoryTypeOK ==
  /\ enforcing \subseteq Tenants \X Plans /\ events \in 0..MaxEvents
  /\ excused \subseteq Users /\ abandoned \subseteq Tenants
  /\ walkins \in [Tenants -> SUBSET Users] /\ downgraded \subseteq Tenants

TInv == TypeOK /\ Aimed

LEMMA TypeParts ==
  /\ TypeOK <=> RequestsTypeOK /\ RowsTypeOK /\ InvitesTypeOK /\ HistoryTypeOK
  /\ TypeOK' <=> RequestsTypeOK' /\ RowsTypeOK' /\ InvitesTypeOK' /\ HistoryTypeOK'
BY DEF TypeOK, RequestsTypeOK, RowsTypeOK, InvitesTypeOK, HistoryTypeOK

\* A statement that fails is one of the faults counted.
LEMMA SlipsType ==
  ASSUME events \in 0..MaxEvents, NEW faults \in {0, 1}, Slips(faults)
  PROVE  events' \in 0..MaxEvents
BY BoundsAssumption DEF Slips

\* A step of request h leaves the other requests alone.
Only(h) == \A g \in Handlers : g # h => pc'[g] = pc[g] /\ req'[g] = req[g]

\* Request h goes to label l with the work r.
Becomes(h, l, r) == Only(h) /\ pc'[h] = l /\ req'[h] = r

LEMMA BecomesType ==
  ASSUME RequestsTypeOK, NEW h \in Handlers, NEW l \in Labels, NEW r \in Request,
         pc' = [pc EXCEPT ![h] = l], req' = [req EXCEPT ![h] = r]
  PROVE  RequestsTypeOK' /\ Becomes(h, l, r)
BY DEF RequestsTypeOK, Only, Becomes

LEMMA NoReqType ==
  /\ NoReq \in Request
  /\ NoReq.org = NoTenant /\ NoReq.old = NoOrg /\ NoReq.invite = 0
BY UsersAssumption, BoundsAssumption DEF NoReq, Request, NoOrg, Ops, Roles

LEMMA NewReqType ==
  ASSUME NEW o \in Ops, NEW u \in Users
  PROVE  /\ NewReq(o, u) \in Request
         /\ NewReq(o, u).op = o /\ NewReq(o, u).user = u /\ NewReq(o, u).invite = 0
         /\ NewReq(o, u).org = NoTenant /\ NewReq(o, u).old = NoOrg
BY NoReqType DEF NewReq, NoReq, Request

LEMMA AnswerType ==
  ASSUME RequestsTypeOK, NEW h \in Handlers, Answer(h)
  PROVE  RequestsTypeOK' /\ Becomes(h, "idle", NoReq)
<1>1. "idle" \in Labels
  BY DEF Labels
<1>2. QED
  BY <1>1, NoReqType, BecomesType DEF Answer

LEMMA GotoType ==
  ASSUME RequestsTypeOK, NEW h \in Handlers, NEW l \in Labels, Goto(h, l)
  PROVE  RequestsTypeOK' /\ Becomes(h, l, req[h])
BY DEF Goto, RequestsTypeOK, Only, Becomes

\* What GetUserOrgInfo may return.
LEMMA OrgInfoCases ==
  ASSUME NEW u \in Users, NEW o \in OrgInfo(u)
  PROVE  /\ o \in [tenant : Tenants \cup {NoTenant}, role : Roles]
         /\ \/ o = NoOrg /\ ~Belongs(u)
            \/ o.tenant \in Tenants /\ o.role = "owner" /\ u \in owners[o.tenant]
            \/ o.tenant \in Tenants /\ o.role = "user" /\ u \in ToSet(joined[o.tenant])
<1> DEFINE owned  == {t \in Tenants : u \in owners[t]}
           others == {t \in Tenants : u \in ToSet(joined[t])}
<1>1. CASE owned # {}
  <2>1. o \in [tenant : owned, role : {"owner"}]
    BY <1>1 DEF OrgInfo
  <2>2. QED
    BY <2>1 DEF Roles
<1>2. CASE owned = {} /\ others # {}
  <2>1. o \in [tenant : others, role : {"user"}]
    BY <1>2 DEF OrgInfo
  <2>2. QED
    BY <2>1 DEF Roles
<1>3. CASE owned = {} /\ others = {}
  <2>1. o = NoOrg
    BY <1>3 DEF OrgInfo
  <2>2. QED
    BY <2>1, <1>3 DEF NoOrg, Roles, Belongs, Members
<1>4. QED
  BY <1>1, <1>2, <1>3

\* What a handler that ignores its error goes by.
LEMMA OrgReadCases ==
  ASSUME NEW u \in Users, NEW faults \in {0, 1}, NEW o \in OrgRead(u, faults)
  PROVE  /\ o \in [tenant : Tenants \cup {NoTenant}, role : Roles]
         /\ \/ o = NoOrg
            \/ o.tenant \in Tenants /\ o.role = "owner" /\ u \in owners[o.tenant]
            \/ o.tenant \in Tenants /\ o.role = "user" /\ u \in ToSet(joined[o.tenant])
<1>1. CASE o \in OrgInfo(u)
  BY <1>1, OrgInfoCases
<1>2. CASE o = NoOrg
  BY <1>2 DEF NoOrg, Roles
<1>3. QED
  BY <1>1, <1>2 DEF OrgRead

LEMMA LeavingCases ==
  ASSUME NEW u \in Users, NEW faults \in {0, 1}, NEW o \in OrgRead(u, faults)
  PROVE  /\ Leaving(o) \in Accepting \ {"drop"}
         /\ Leaving(o) = "empty" => o.tenant \in Tenants /\ u \in owners[o.tenant]
         /\ Leaving(o) = "depart" => o.tenant \in Tenants /\ u \in ToSet(joined[o.tenant])
<1>1. CASE o = NoOrg
  BY <1>1 DEF Leaving, Accepting, NoOrg
<1>2. CASE o # NoOrg
  BY <1>2, OrgReadCases DEF Leaving, Accepting
<1>3. QED
  BY <1>1, <1>2

\* A request that joins a tenant, its user's organisation looked up.
Joining(h, u, t) ==
  \E faults \in {0, 1} : \E o \in OrgRead(u, faults) : \E r \in Request :
    /\ Becomes(h, Leaving(o), r)
    /\ r.user = u /\ r.org = t /\ r.old = o

LEMMA AdmitType ==
  ASSUME RequestsTypeOK, events \in 0..MaxEvents, NEW h \in Handlers, NEW r \in Request,
         NEW i \in Invites, Admit(h, r, i)
  PROVE  /\ RequestsTypeOK' /\ Joining(h, r.user, i.tenant)
         /\ req'[h].op = r.op /\ events' \in 0..MaxEvents
<1>1. r.user \in Users /\ i.tenant \in Tenants
  BY DEF Request, Invites
<1>2. PICK faults \in {0, 1} :
        /\ Slips(faults)
        /\ \E o \in OrgRead(r.user, faults) :
             Move(h, Leaving(o), [r EXCEPT !.old = o, !.org = i.tenant])
  BY DEF Admit
<1>3. PICK o \in OrgRead(r.user, faults) :
        Move(h, Leaving(o), [r EXCEPT !.old = o, !.org = i.tenant])
  BY <1>2
<1> DEFINE n == [r EXCEPT !.old = o, !.org = i.tenant]
<1>4. n \in Request /\ n.user = r.user /\ n.org = i.tenant /\ n.old = o /\ n.op = r.op
  BY <1>1, OrgReadCases DEF Request
<1> HIDE DEF n
<1>5. Leaving(o) \in Labels
  BY <1>1, LeavingCases DEF Labels, Accepting
<1>6. pc' = [pc EXCEPT ![h] = Leaving(o)] /\ req' = [req EXCEPT ![h] = n]
  BY <1>3 DEF Move, n
<1>7. RequestsTypeOK' /\ Becomes(h, Leaving(o), n)
  BY <1>4, <1>5, <1>6, BecomesType
<1>8. events' \in 0..MaxEvents
  BY <1>2, SlipsType
<1>9. QED
  BY <1>4, <1>7, <1>8 DEF Joining, Becomes

\* Each action of a request: the types, and where the request goes.
LEMMA AimedStep ==
  ASSUME Aimed, NEW h \in Handlers, Only(h),
         pc'[h] \in Accepting \cup {"own"} => req'[h].org \in Tenants,
         pc'[h] \in Quitting => req'[h].old.tenant \in Tenants
  PROVE  Aimed'
BY DEF Aimed, Only

LEMMA CreatingStep ==
  ASSUME TInv, NEW h \in Handlers, NEW o \in Ops, NEW u \in Users,
         NEW r \in Request, r.user = u,
         Begin(h, "create", r)
  PROVE  RequestsTypeOK' /\ Aimed' /\ Becomes(h, "create", r) /\ pc[h] = "idle"
<1>1. RequestsTypeOK /\ Aimed
  BY TypeParts DEF TInv
<1>2. "create" \in Labels /\ "create" \notin Accepting \cup {"own"}
  BY DEF Labels, Accepting
<1>3. RequestsTypeOK' /\ Becomes(h, "create", r) /\ pc[h] = "idle"
  BY <1>1, <1>2, BecomesType DEF Begin
<1>4. Aimed'
  BY <1>1, <1>2, <1>3, AimedStep DEF Becomes, Quitting, Accepting
<1>5. QED
  BY <1>3, <1>4

LEMMA JoiningStep ==
  ASSUME TInv, NEW h \in Handlers, NEW u \in Users, NEW t \in Tenants,
         Joining(h, u, t)
  PROVE  Aimed' /\ pc'[h] \in Accepting \ {"drop"} /\ req'[h].user = u /\ req'[h].org = t
<1> PICK faults \in {0, 1} : \E o \in OrgRead(u, faults) : \E r \in Request :
      Becomes(h, Leaving(o), r) /\ r.user = u /\ r.org = t /\ r.old = o
  BY DEF Joining
<1>1. PICK o \in OrgRead(u, faults), r \in Request :
        Becomes(h, Leaving(o), r) /\ r.user = u /\ r.org = t /\ r.old = o
  OBVIOUS
<1>2. Leaving(o) \in Accepting \ {"drop"} /\ (Leaving(o) \in Quitting => o.tenant \in Tenants)
  BY LeavingCases DEF Accepting, Quitting
<1>3. Aimed'
  BY <1>1, <1>2, AimedStep DEF Becomes, TInv
<1>4. QED
  BY <1>1, <1>2, <1>3 DEF Becomes

LEMMA RegisterType ==
  ASSUME TInv, NEW h \in Handlers, NEW u \in Users, Register(h, u)
  PROVE  TInv' /\ Becomes(h, "create", NewReq("register", u))
<1>1. RequestsTypeOK' /\ Aimed' /\ Becomes(h, "create", NewReq("register", u))
  BY NewReqType, CreatingStep DEF Register, Ops
<1>2. RowsTypeOK' /\ InvitesTypeOK' /\ HistoryTypeOK'
  BY TypeParts DEF TInv, Register, RowsTypeOK, InvitesTypeOK, HistoryTypeOK,
                   teamVars, inviteVars, planVars, historyVars
<1>3. QED
  BY <1>1, <1>2, TypeParts DEF TInv

LEMMA SetupOrgType ==
  ASSUME TInv, NEW h \in Handlers, NEW u \in Users, SetupOrg(h, u)
  PROVE  TInv' /\ Becomes(h, "create", NewReq("setup", u))
<1>1. RequestsTypeOK' /\ Aimed' /\ Becomes(h, "create", NewReq("setup", u))
  BY NewReqType, CreatingStep DEF SetupOrg, Ops
<1>2. RowsTypeOK' /\ InvitesTypeOK' /\ HistoryTypeOK'
  BY TypeParts DEF TInv, SetupOrg, RowsTypeOK, InvitesTypeOK, HistoryTypeOK,
                   teamVars, inviteVars, planVars, historyVars
<1>3. QED
  BY <1>1, <1>2, TypeParts DEF TInv

\* What RemoveUserFromOrg does to the rows.
LEMMA RemoveEffect ==
  ASSUME RowsTypeOK, NEW u \in Users, NEW t \in Tenants, RemoveUserFromOrg(u, t)
  PROVE  /\ owners' \in [Tenants -> SUBSET Users] /\ joined' \in [Tenants -> Seq(Users)]
         /\ passes' = passes
         /\ \A x \in Tenants \ {t} : owners'[x] = owners[x] /\ joined'[x] = joined[x]
         /\ owners'[t] = owners[t] \ {u} /\ joined'[t] = RemoveFirst(joined[t], u)
<1>1. RemoveFirst(joined[t], u) \in Seq(Users)
  BY RemoveFirstProperties DEF RowsTypeOK
<1>2. QED
  BY <1>1 DEF RemoveUserFromOrg, RowsTypeOK

LEMMA RemoveMemberType ==
  ASSUME TInv, NEW h \in Handlers, NEW t \in Tenants, NEW u \in Users, RemoveMember(h, t, u)
  PROVE  TInv' /\ Becomes(h, "create", NewReq("leave", u))
<1>1. RequestsTypeOK' /\ Aimed' /\ Becomes(h, "create", NewReq("leave", u))
  BY NewReqType, CreatingStep DEF RemoveMember, Ops
<1>2. RowsTypeOK' /\ InvitesTypeOK' /\ HistoryTypeOK'
  BY TypeParts, RemoveEffect DEF TInv, RemoveMember, RowsTypeOK, InvitesTypeOK, HistoryTypeOK,
                   inviteVars, planVars, historyVars
<1>3. QED
  BY <1>1, <1>2, TypeParts DEF TInv

LEMMA LeaveOrganizationType ==
  ASSUME TInv, NEW h \in Handlers, NEW t \in Tenants, NEW u \in Users, LeaveOrganization(h, t, u)
  PROVE  TInv' /\ Becomes(h, "create", NewReq("leave", u))
<1>1. RequestsTypeOK' /\ Aimed' /\ Becomes(h, "create", NewReq("leave", u))
  BY NewReqType, CreatingStep DEF LeaveOrganization, Ops
<1>2. RowsTypeOK' /\ InvitesTypeOK' /\ HistoryTypeOK'
  BY TypeParts, RemoveEffect DEF TInv, LeaveOrganization, RowsTypeOK, InvitesTypeOK,
                   HistoryTypeOK, inviteVars, planVars, historyVars
<1>3. QED
  BY <1>1, <1>2, TypeParts DEF TInv

LEMMA AcceptInviteType ==
  ASSUME TInv, NEW h \in Handlers, NEW i \in invites, AcceptInvite(h, i)
  PROVE  /\ TInv' /\ i \in Invites /\ i.user \in Users /\ i.tenant \in Tenants
         /\ req'[h].op \in Checked => ~Full(i.tenant)
         /\ \/ /\ login[i.user] = {} /\ login' = [login EXCEPT ![i.user] = {"password"}]
               /\ Only(h) /\ pc'[h] = "join" /\ req'[h].user = i.user /\ req'[h].org = i.tenant
               /\ req'[h].op \in Signup
            \/ /\ UNCHANGED login /\ Joining(h, i.user, i.tenant)
               /\ req'[h].op \in {"accept", "walkin"}
<1> DEFINE op == IF Full(i.tenant) THEN "walkin" ELSE "accept"
           r == [NewReq(op, i.user) EXCEPT !.org = i.tenant, !.invite = i.id]
<1>1. i \in Invites /\ i.user \in Users /\ i.tenant \in Tenants /\ i.id \in 0..MaxInvites
  BY TypeParts, BoundsAssumption DEF TInv, InvitesTypeOK, Invites
<1>2. RequestsTypeOK /\ RowsTypeOK /\ InvitesTypeOK /\ HistoryTypeOK /\ Aimed
  BY TypeParts DEF TInv
<1>3. op \in {"accept", "walkin"} /\ (op = "accept" => ~Full(i.tenant))
  OBVIOUS
<1> HIDE DEF op
<1>4. r \in Request /\ r.user = i.user /\ r.org = i.tenant /\ r.op = op
  <2> DEFINE q == NewReq(op, i.user)
  <2>1. q \in Request /\ q.user = i.user /\ q.op = op
    BY <1>1, <1>3, NewReqType DEF Ops, Checked, Walkin
  <2> HIDE DEF q
  <2>2. r = [q EXCEPT !.org = i.tenant, !.invite = i.id]
    BY DEF q
  <2> HIDE DEF r
  <2>3. QED
    BY <1>1, <2>1, <2>2 DEF Request
<1> HIDE DEF r
<1>5. PICK faults \in {0, 1} :
        /\ Slips(faults)
        /\ \/ /\ login[i.user] = {} /\ login' = [login EXCEPT ![i.user] = {"password"}]
              /\ Move(h, "join", [r EXCEPT !.op = IF @ = "accept" THEN "signup" ELSE "walkin signup"])
           \/ /\ UNCHANGED login
              /\ \E o \in OrgRead(i.user, faults) : Move(h, Leaving(o), [r EXCEPT !.old = o])
  BY DEF AcceptInvite, r, op
<1>6. InvitesTypeOK' /\ HistoryTypeOK'
  <2>1. events' \in 0..MaxEvents
    BY <1>2, <1>5, SlipsType DEF HistoryTypeOK
  <2>2. QED
    BY <1>2, <2>1 DEF AcceptInvite, InvitesTypeOK, HistoryTypeOK, inviteVars, planVars, historyVars
<1>7. CASE /\ login[i.user] = {} /\ login' = [login EXCEPT ![i.user] = {"password"}]
           /\ Move(h, "join", [r EXCEPT !.op = IF @ = "accept" THEN "signup" ELSE "walkin signup"])
  <2> DEFINE n == [r EXCEPT !.op = IF @ = "accept" THEN "signup" ELSE "walkin signup"]
  <2>1. n \in Request /\ n.user = i.user /\ n.org = i.tenant /\ n.op \in Signup
        /\ (n.op = "signup" => op = "accept")
    BY <1>3, <1>4 DEF Request, Ops, Checked, Walkin, Signup
  <2> HIDE DEF n
  <2>2. pc' = [pc EXCEPT ![h] = "join"] /\ req' = [req EXCEPT ![h] = n] /\ "join" \in Labels
    BY <1>7 DEF Move, n, Labels
  <2>3. RequestsTypeOK' /\ Becomes(h, "join", n)
    BY <1>2, <2>1, <2>2, BecomesType
  <2>4. Aimed'
    BY <1>1, <1>2, <2>1, <2>3, AimedStep DEF Becomes, Quitting
  <2>5. RowsTypeOK'
    BY <1>2, <1>7 DEF AcceptInvite, RowsTypeOK, teamVars, planVars
  <2>6. req'[h].op \in Checked => ~Full(i.tenant)
    BY <1>3, <2>1, <2>3 DEF Becomes, Checked, Signup
  <2>7. QED
    BY <1>1, <1>6, <1>7, <2>1, <2>3, <2>4, <2>5, <2>6, TypeParts DEF TInv, Becomes
<1>8. CASE /\ UNCHANGED login
           /\ \E o \in OrgRead(i.user, faults) : Move(h, Leaving(o), [r EXCEPT !.old = o])
  <2>1. PICK o \in OrgRead(i.user, faults) : Move(h, Leaving(o), [r EXCEPT !.old = o])
    BY <1>8
  <2> DEFINE n == [r EXCEPT !.old = o]
  <2>2. n \in Request /\ n.user = i.user /\ n.org = i.tenant /\ n.old = o /\ n.op = op
    BY <1>1, <1>4, OrgReadCases DEF Request
  <2> HIDE DEF n
  <2>3. Leaving(o) \in Labels
    BY <1>1, LeavingCases DEF Labels, Accepting
  <2>4. pc' = [pc EXCEPT ![h] = Leaving(o)] /\ req' = [req EXCEPT ![h] = n]
    BY <2>1 DEF Move, n
  <2>5. RequestsTypeOK' /\ Becomes(h, Leaving(o), n)
    BY <1>2, <2>2, <2>3, <2>4, BecomesType
  <2>6. Joining(h, i.user, i.tenant) /\ req'[h].op = op
    BY <2>2, <2>5 DEF Joining, Becomes
  <2>7. Aimed'
    BY <1>1, <2>6, JoiningStep
  <2>8. RowsTypeOK'
    BY <1>2, <1>8 DEF AcceptInvite, RowsTypeOK, teamVars, planVars
  <2>9. req'[h].op \in Checked => ~Full(i.tenant)
    BY <1>3, <2>6 DEF Checked
  <2>10. QED
    BY <1>1, <1>3, <1>6, <1>8, <2>5, <2>6, <2>7, <2>8, <2>9, TypeParts DEF TInv
<1>9. QED
  BY <1>5, <1>7, <1>8

LEMMA AcceptInviteJWTType ==
  ASSUME TInv, NEW h \in Handlers, NEW u \in Users, NEW i \in invites, AcceptInviteJWT(h, u, i)
  PROVE  /\ TInv' /\ i \in Invites /\ i.tenant \in Tenants
         /\ Joining(h, u, i.tenant) /\ req'[h].op = "walkin"
<1> DEFINE q == NewReq("walkin", u)
           r == [q EXCEPT !.invite = i.id]
<1>1. i \in Invites /\ i.tenant \in Tenants /\ i.id \in 0..MaxInvites
  BY TypeParts, BoundsAssumption DEF TInv, InvitesTypeOK, Invites
<1>2. RequestsTypeOK /\ RowsTypeOK /\ InvitesTypeOK /\ HistoryTypeOK /\ Aimed
      /\ events \in 0..MaxEvents
  BY TypeParts DEF TInv, HistoryTypeOK
<1>3. q \in Request /\ q.user = u /\ q.op = "walkin"
  BY NewReqType DEF Ops, Walkin
<1> HIDE DEF q
<1>4. r \in Request /\ r.user = u /\ r.op = "walkin"
  BY <1>1, <1>3 DEF Request
<1> HIDE DEF r
<1>5. Admit(h, r, i)
  BY DEF AcceptInviteJWT, r, q
<1>6. RequestsTypeOK' /\ Joining(h, u, i.tenant) /\ req'[h].op = "walkin"
      /\ events' \in 0..MaxEvents
  BY <1>1, <1>2, <1>4, <1>5, AdmitType
<1>7. Aimed'
  BY <1>1, <1>6, JoiningStep
<1>8. RowsTypeOK' /\ InvitesTypeOK' /\ HistoryTypeOK'
  BY <1>2, <1>6 DEF AcceptInviteJWT, RowsTypeOK, InvitesTypeOK, HistoryTypeOK, teamVars,
              inviteVars, planVars, historyVars
<1>9. QED
  BY <1>1, <1>6, <1>7, <1>8, TypeParts DEF TInv

LEMMA HandleInviteType ==
  ASSUME TInv, NEW h \in Handlers, HandleInvite(h)
  PROVE  /\ TInv' /\ req[h].user \in Users
         /\ \/ Becomes(h, "idle", NoReq)
            \/ /\ req'[h].op = req[h].op
               /\ \E i \in invites : i.tenant \in Tenants /\ Joining(h, req[h].user, i.tenant)
<1>1. RequestsTypeOK /\ RowsTypeOK /\ InvitesTypeOK /\ HistoryTypeOK /\ Aimed
  BY TypeParts DEF TInv
<1>2. req[h] \in Request /\ req[h].user \in Users
  BY <1>1 DEF RequestsTypeOK, Request
<1>3. RowsTypeOK' /\ InvitesTypeOK' /\ (events' \in 0..MaxEvents => HistoryTypeOK')
  BY <1>1 DEF HandleInvite, RowsTypeOK, InvitesTypeOK, HistoryTypeOK, teamVars, inviteVars,
              planVars, historyVars
<1>4. CASE Answer(h) /\ UNCHANGED events
  <2>1. RequestsTypeOK' /\ Becomes(h, "idle", NoReq)
    BY <1>1, <1>4, AnswerType
  <2>2. Aimed'
    BY <1>1, <2>1, AimedStep DEF Becomes, Accepting, Quitting
  <2>3. QED
    BY <1>1, <1>2, <1>3, <1>4, <2>1, <2>2, TypeParts DEF TInv, HistoryTypeOK
<1>5. ASSUME NEW i \in invites, Admit(h, req[h], i)
      PROVE  /\ TInv' /\ req[h].user \in Users /\ req'[h].op = req[h].op
             /\ i.tenant \in Tenants /\ Joining(h, req[h].user, i.tenant)
  <2>1. i \in Invites /\ i.tenant \in Tenants
    BY <1>1 DEF InvitesTypeOK, Invites
  <2>2. RequestsTypeOK' /\ Joining(h, req[h].user, i.tenant) /\ req'[h].op = req[h].op
        /\ events' \in 0..MaxEvents
    BY <1>1, <1>2, <1>5, <2>1, AdmitType DEF HistoryTypeOK
  <2>3. Aimed'
    BY <1>2, <2>1, <2>2, JoiningStep
  <2>4. QED
    BY <1>2, <1>3, <2>1, <2>2, <2>3, TypeParts DEF TInv
<1>6. (Answer(h) /\ UNCHANGED events) \/ \E i \in invites : Admit(h, req[h], i)
  BY DEF HandleInvite
<1>7. QED
  BY <1>4, <1>5, <1>6

LEMMA SSOLoginType ==
  ASSUME TInv, NEW h \in Handlers, NEW u \in Users, SSOLogin(h, u)
  PROVE  /\ TInv' /\ login' = [login EXCEPT ![u] = @ \cup {"sso"}]
         /\ \/ Belongs(u) /\ UNCHANGED <<pc, req>>
            \/ Becomes(h, "create", NewReq("setup", u)) /\ pc[h] = "idle"
<1>1. RequestsTypeOK /\ RowsTypeOK /\ InvitesTypeOK /\ HistoryTypeOK /\ Aimed
  BY TypeParts DEF TInv
<1>2. RowsTypeOK' /\ InvitesTypeOK' /\ HistoryTypeOK'
  BY <1>1 DEF SSOLogin, RowsTypeOK, InvitesTypeOK, HistoryTypeOK, teamVars, inviteVars,
              planVars, historyVars
<1>3. CASE Belongs(u)
  <2>1. RequestsTypeOK' /\ Aimed' /\ UNCHANGED <<pc, req>>
    BY <1>1, <1>3 DEF SSOLogin, RequestsTypeOK, Aimed
  <2>2. QED
    BY <1>2, <1>3, <2>1, TypeParts DEF TInv, SSOLogin
<1>4. CASE ~Belongs(u)
  <2>1. RequestsTypeOK' /\ Aimed' /\ Becomes(h, "create", NewReq("setup", u)) /\ pc[h] = "idle"
    BY <1>4, NewReqType, CreatingStep DEF SSOLogin, Ops
  <2>2. QED
    BY <1>2, <2>1, TypeParts DEF TInv, SSOLogin
<1>5. QED
  BY <1>3, <1>4

LEMMA SSOInvitedType ==
  ASSUME TInv, NEW h \in Handlers, NEW u \in Users, NEW i \in invites, SSOInvited(h, u, i)
  PROVE  /\ TInv' /\ i \in Invites /\ i.tenant \in Tenants
         /\ login' = [login EXCEPT ![u] = @ \cup {"sso"}]
         /\ \/ Belongs(u) /\ Joining(h, u, i.tenant) /\ req'[h].op = "walkin"
            \/ /\ Only(h) /\ pc'[h] = "create" /\ req'[h].user = u /\ req'[h].op = "walkin"
<1> DEFINE q == NewReq("walkin", u)
           r == [q EXCEPT !.invite = i.id]
<1>1. i \in Invites /\ i.tenant \in Tenants /\ i.id \in 0..MaxInvites
  BY TypeParts, BoundsAssumption DEF TInv, InvitesTypeOK, Invites
<1>2. RequestsTypeOK /\ RowsTypeOK /\ InvitesTypeOK /\ HistoryTypeOK /\ Aimed
      /\ events \in 0..MaxEvents
  BY TypeParts DEF TInv, HistoryTypeOK
<1>3. q \in Request /\ q.user = u /\ q.op = "walkin"
  BY NewReqType DEF Ops, Walkin
<1> HIDE DEF q
<1>4. r \in Request /\ r.user = u /\ r.op = "walkin"
  BY <1>1, <1>3 DEF Request
<1> HIDE DEF r
<1>5. IF Belongs(u) THEN Admit(h, r, i) ELSE Begin(h, "create", r) /\ UNCHANGED events
  BY DEF SSOInvited, r, q
<1>6. RowsTypeOK' /\ InvitesTypeOK' /\ (events' \in 0..MaxEvents => HistoryTypeOK')
  BY <1>1, <1>2 DEF SSOInvited, RowsTypeOK, InvitesTypeOK, HistoryTypeOK, teamVars, inviteVars,
              planVars, historyVars
<1>7. login' = [login EXCEPT ![u] = @ \cup {"sso"}]
  BY DEF SSOInvited
<1>8. CASE Belongs(u)
  <2>1. RequestsTypeOK' /\ Joining(h, u, i.tenant) /\ req'[h].op = "walkin"
        /\ events' \in 0..MaxEvents
    BY <1>1, <1>2, <1>4, <1>5, <1>8, AdmitType
  <2>2. Aimed'
    BY <1>1, <2>1, JoiningStep
  <2>3. QED
    BY <1>1, <1>6, <1>7, <1>8, <2>1, <2>2, TypeParts DEF TInv
<1>9. CASE ~Belongs(u)
  <2>1. RequestsTypeOK' /\ Aimed' /\ Becomes(h, "create", r)
    BY <1>4, <1>5, <1>9, CreatingStep DEF Ops, Walkin
  <2>2. QED
    BY <1>1, <1>2, <1>4, <1>5, <1>6, <1>7, <1>9, <2>1, TypeParts DEF TInv, Becomes
<1>10. QED
  BY <1>8, <1>9

\* The tenant that CreateTenant inserts.
LEMMA CreateTenantType ==
  ASSUME TInv, NEW h \in Handlers, CreateTenant(h)
  PROVE  /\ TInv'
         /\ \E t \in Tenants :
              /\ plan[t] = "new" /\ plan' = [plan EXCEPT ![t] = "free"]
              /\ Only(h) /\ pc'[h] = "own" /\ req'[h].org = t /\ req'[h].user = req[h].user
              /\ req'[h].op = req[h].op /\ req'[h].invite = req[h].invite
<1>1. RequestsTypeOK /\ RowsTypeOK /\ InvitesTypeOK /\ HistoryTypeOK /\ Aimed
  BY TypeParts DEF TInv
<1>2. PICK t \in Tenants : /\ plan[t] = "new" /\ plan' = [plan EXCEPT ![t] = "free"]
                           /\ Move(h, "own", [req[h] EXCEPT !.org = t])
  BY DEF CreateTenant
<1> DEFINE r == [req[h] EXCEPT !.org = t]
<1>3. r \in Request /\ r.org = t /\ r.user = req[h].user /\ r.op = req[h].op
      /\ r.invite = req[h].invite /\ "own" \in Labels
  BY <1>1 DEF RequestsTypeOK, Request, Labels
<1> HIDE DEF r
<1>4. RequestsTypeOK' /\ Becomes(h, "own", r)
  BY <1>1, <1>2, <1>3, BecomesType DEF Move, r
<1>5. Aimed'
  BY <1>1, <1>3, <1>4, AimedStep DEF Becomes, Quitting
<1>6. RowsTypeOK' /\ InvitesTypeOK' /\ HistoryTypeOK'
  BY <1>1, <1>2, LimitAssumption DEF CreateTenant, RowsTypeOK, InvitesTypeOK, HistoryTypeOK,
              teamVars, inviteVars, historyVars
<1>7. QED
  BY <1>2, <1>3, <1>4, <1>5, <1>6, TypeParts DEF TInv, Becomes

\* What DeleteUser does to the rows.
LEMMA DeleteUserEffect ==
  ASSUME RowsTypeOK, InvitesTypeOK, NEW u \in Users, DeleteUser(u)
  PROVE  /\ login' = [login EXCEPT ![u] = {}] /\ invites' \subseteq invites
         /\ owners' \in [Tenants -> SUBSET Users] /\ joined' \in [Tenants -> Seq(Users)]
         /\ passes' = passes
         /\ \A t \in Tenants : owners'[t] = owners[t] \ {u} /\ joined'[t] = RemoveFirst(joined[t], u)
<1>1. \A t \in Tenants : RemoveFirst(joined[t], u) \in Seq(Users)
  BY RemoveFirstProperties DEF RowsTypeOK
<1>2. QED
  BY <1>1 DEF DeleteUser, RowsTypeOK

LEMMA CreateTenantFailsType ==
  ASSUME TInv, NEW h \in Handlers, CreateTenantFails(h)
  PROVE  TInv' /\ Becomes(h, "idle", NoReq) /\ req[h].user \in Users
<1>1. RequestsTypeOK /\ RowsTypeOK /\ InvitesTypeOK /\ HistoryTypeOK /\ Aimed
  BY TypeParts DEF TInv
<1>2. req[h].user \in Users
  BY <1>1 DEF RequestsTypeOK, Request
<1>3. RequestsTypeOK' /\ Becomes(h, "idle", NoReq)
  BY <1>1, AnswerType DEF CreateTenantFails
<1>4. Aimed'
  BY <1>1, <1>3, AimedStep DEF Becomes, Accepting, Quitting
<1>5. RowsTypeOK' /\ InvitesTypeOK'
  BY <1>1, <1>2, DeleteUserEffect DEF CreateTenantFails, planVars, RowsTypeOK, InvitesTypeOK
<1>6. HistoryTypeOK'
  BY <1>1, BoundsAssumption DEF CreateTenantFails, DeleteUser, HistoryTypeOK, planVars
<1>7. QED
  BY <1>2, <1>3, <1>4, <1>5, <1>6, TypeParts DEF TInv

LEMMA OwnType ==
  ASSUME TInv, NEW h \in Handlers, Own(h)
  PROVE  /\ TInv' /\ req[h].user \in Users /\ req[h].org \in Tenants
         /\ \/ Becomes(h, "idle", NoReq)
            \/ login[req[h].user] # {} /\ req[h].invite # 0 /\ Becomes(h, "invite", req[h])
<1>1. RequestsTypeOK /\ RowsTypeOK /\ InvitesTypeOK /\ HistoryTypeOK /\ Aimed
  BY TypeParts DEF TInv
<1>2. req[h].user \in Users /\ req[h].org \in Tenants
  BY <1>1 DEF RequestsTypeOK, Request, Own, Aimed
<1>3. InvitesTypeOK' /\ RowsTypeOK' /\ HistoryTypeOK'
  <2>1. owners' = owners \/ owners' = [owners EXCEPT ![req[h].org] = @ \cup {req[h].user}]
    BY DEF Own
  <2>2. owners' \in [Tenants -> SUBSET Users]
    <3> DEFINE t == req[h].org
               s == owners[t] \cup {req[h].user}
    <3>1. t \in Tenants /\ s \in SUBSET Users /\ owners \in [Tenants -> SUBSET Users]
      BY <1>1, <1>2 DEF RowsTypeOK
    <3>2. owners' = owners \/ owners' = [owners EXCEPT ![t] = s]
      BY <2>1
    <3> HIDE DEF s, t
    <3>3. QED
      BY <3>1, <3>2
  <2>3. RowsTypeOK' /\ InvitesTypeOK'
    BY <1>1, <2>2 DEF Own, RowsTypeOK, InvitesTypeOK, inviteVars, planVars
  <2>4. excused' \subseteq Users /\ abandoned' \subseteq Tenants
    BY <1>1, <1>2 DEF Own, Settle, HistoryTypeOK
  <2>5. QED
    BY <1>1, <2>3, <2>4 DEF Own, HistoryTypeOK, planVars
<1>4. CASE Answer(h)
  <2>1. RequestsTypeOK' /\ Becomes(h, "idle", NoReq)
    BY <1>1, <1>4, AnswerType
  <2>2. Aimed'
    BY <1>1, <2>1, AimedStep DEF Becomes, Accepting, Quitting
  <2>3. QED
    BY <1>2, <1>3, <2>1, <2>2, TypeParts DEF TInv
<1>5. CASE login[req[h].user] # {} /\ req[h].invite # 0 /\ Goto(h, "invite")
  <2>1. RequestsTypeOK' /\ Becomes(h, "invite", req[h])
    BY <1>1, <1>5, GotoType DEF Labels
  <2>2. Aimed'
    BY <1>1, <2>1, AimedStep DEF Becomes, Accepting, Quitting
  <2>3. QED
    BY <1>2, <1>3, <1>5, <2>1, <2>2, TypeParts DEF TInv
<1>6. QED
  BY <1>4, <1>5 DEF Own

\* What the end of tenant t does to the rows.
LEMMA ClearedEffect ==
  ASSUME RowsTypeOK, InvitesTypeOK, NEW t \in Tenants, Cleared(t)
  PROVE  /\ owners' \in [Tenants -> SUBSET Users] /\ joined' \in [Tenants -> Seq(Users)]
         /\ passes' = passes
         /\ \A x \in Tenants \ {t} : owners'[x] = owners[x] /\ joined'[x] = joined[x]
         /\ owners'[t] = {} /\ joined'[t] = <<>>
         /\ invites' \subseteq invites
<1>1. <<>> \in Seq(Users)
  OBVIOUS
<1>2. QED
  BY <1>1 DEF Cleared, RowsTypeOK

LEMMA MembersType ==
  ASSUME RowsTypeOK, NEW t \in Tenants
  PROVE  Members(t) \subseteq Users
BY ToSetBound DEF RowsTypeOK, Members

LEMMA EmptyTenantType ==
  ASSUME TInv, NEW h \in Handlers, EmptyTenant(h)
  PROVE  /\ TInv' /\ req[h].user \in Users /\ req[h].old.tenant \in Tenants
         /\ Becomes(h, "drop", req[h])
<1>1. RequestsTypeOK /\ RowsTypeOK /\ InvitesTypeOK /\ HistoryTypeOK /\ Aimed
  BY TypeParts DEF TInv
<1>2. req[h].user \in Users /\ req[h].old.tenant \in Tenants /\ req[h].org \in Tenants
  BY <1>1 DEF RequestsTypeOK, Request, EmptyTenant, Aimed, Quitting, Accepting
<1>3. RequestsTypeOK' /\ Becomes(h, "drop", req[h])
  BY <1>1, GotoType DEF EmptyTenant, Labels
<1>4. Aimed'
  BY <1>1, <1>2, <1>3, AimedStep DEF Becomes
<1>5. RowsTypeOK' /\ InvitesTypeOK'
  <2>1. CASE Cleared(req[h].old.tenant)
    BY <1>1, <1>2, <2>1, ClearedEffect DEF EmptyTenant, RowsTypeOK, InvitesTypeOK, planVars
  <2>2. CASE UNCHANGED <<teamVars, invites>>
    BY <1>1, <2>2 DEF EmptyTenant, RowsTypeOK, InvitesTypeOK, planVars, teamVars
  <2>3. QED
    BY <2>1, <2>2 DEF EmptyTenant
<1>6. HistoryTypeOK'
  <2>1. events' \in 0..MaxEvents
    BY <1>1, SlipsType DEF EmptyTenant, HistoryTypeOK
  <2>2. QED
    BY <1>1, <1>2, <2>1, MembersType DEF EmptyTenant, Strand, LeftBy, HistoryTypeOK, planVars
<1>7. QED
  BY <1>2, <1>3, <1>4, <1>5, <1>6, TypeParts DEF TInv

LEMMA DropTenantType ==
  ASSUME TInv, NEW h \in Handlers, DropTenant(h)
  PROVE  /\ TInv' /\ req[h].user \in Users /\ req[h].old.tenant \in Tenants
         /\ Only(h) /\ pc'[h] = "join" /\ req'[h] = [req[h] EXCEPT !.old = NoOrg]
         /\ req'[h].user = req[h].user /\ req'[h].org = req[h].org /\ req'[h].op = req[h].op
<1> DEFINE t == req[h].old.tenant
           r == [req[h] EXCEPT !.old = NoOrg]
<1>1. RequestsTypeOK /\ RowsTypeOK /\ InvitesTypeOK /\ HistoryTypeOK /\ Aimed
  BY TypeParts DEF TInv
<1>2. req[h] \in Request /\ req[h].user \in Users /\ t \in Tenants /\ req[h].org \in Tenants
  BY <1>1 DEF RequestsTypeOK, Request, DropTenant, Aimed, Quitting, Accepting
<1>3. r \in Request /\ r.user = req[h].user /\ r.org = req[h].org /\ r.op = req[h].op
  BY <1>2 DEF Request, NoOrg, Roles
<1> HIDE DEF r, t
<1>4. RequestsTypeOK' /\ Becomes(h, "join", r)
  BY <1>1, <1>3, BecomesType DEF DropTenant, Move, Labels, r
<1>5. Aimed'
  BY <1>1, <1>2, <1>3, <1>4, AimedStep DEF Becomes, Quitting
<1>6. \/ /\ plan' = [plan EXCEPT ![t] = "deleted"] /\ Cleared(t)
         /\ Strand(LeftBy(t, req[h].user)) /\ UNCHANGED <<abandoned, events>>
      \/ /\ UNCHANGED <<plan, teamVars, invites, excused>>
         /\ UNCHANGED abandoned \/ abandoned' = abandoned \cup {t}
         /\ UNCHANGED events \/ Slips(1)
  <2>1. CASE /\ Deletable(t) /\ plan' = [plan EXCEPT ![t] = "deleted"]
             /\ Cleared(t) /\ Strand(LeftBy(t, req[h].user)) /\ UNCHANGED <<abandoned, events>>
    BY <2>1
  <2>2. CASE /\ ~Deletable(t)
             /\ abandoned' = IF Exists(t) THEN abandoned \cup {t} ELSE abandoned
             /\ UNCHANGED <<plan, teamVars, invites, events, excused>>
    BY <2>2
  <2>3. CASE /\ Deletable(t) /\ Slips(1)
             /\ abandoned' = abandoned \cup {t}
             /\ UNCHANGED <<plan, teamVars, invites, excused>>
    <3>1. Slips(1) /\ abandoned' = abandoned \cup {t}
      BY <2>3
    <3>2. UNCHANGED <<plan, teamVars, invites, excused>>
      BY <2>3
    <3>3. QED
      BY <3>1, <3>2
  <2>4. QED
    BY <2>1, <2>2, <2>3 DEF DropTenant, t
<1>7. RowsTypeOK' /\ InvitesTypeOK'
  BY <1>1, <1>2, <1>6, ClearedEffect DEF DropTenant, RowsTypeOK, InvitesTypeOK, teamVars
<1>8. HistoryTypeOK'
  <2>1. events' \in 0..MaxEvents
    BY <1>1, <1>6, SlipsType DEF HistoryTypeOK
  <2>2. QED
    BY <1>1, <1>2, <1>6, <2>1, MembersType DEF DropTenant, Strand, LeftBy, HistoryTypeOK
<1>9. QED
  BY <1>2, <1>3, <1>4, <1>5, <1>7, <1>8, TypeParts DEF TInv, Becomes, t, r

LEMMA DepartType ==
  ASSUME TInv, NEW h \in Handlers, Depart(h)
  PROVE  /\ TInv' /\ req[h].user \in Users /\ req[h].old.tenant \in Tenants
         /\ Only(h) /\ pc'[h] = "join"
         /\ req'[h].user = req[h].user /\ req'[h].org = req[h].org /\ req'[h].op = req[h].op
<1> DEFINE r == [req[h] EXCEPT !.old = NoOrg]
<1>1. RequestsTypeOK /\ RowsTypeOK /\ InvitesTypeOK /\ HistoryTypeOK /\ Aimed
  BY TypeParts DEF TInv
<1>2. req[h] \in Request /\ req[h].user \in Users /\ req[h].old.tenant \in Tenants
      /\ req[h].org \in Tenants
  BY <1>1 DEF RequestsTypeOK, Request, Depart, Aimed, Quitting, Accepting
<1>3. r \in Request /\ r.user = req[h].user /\ r.org = req[h].org /\ r.op = req[h].op
  BY <1>2 DEF Request, NoOrg, Roles
<1> HIDE DEF r
<1>4. RequestsTypeOK' /\ Becomes(h, "join", r)
  BY <1>1, <1>3, BecomesType DEF Depart, Move, Labels, r
<1>5. Aimed'
  BY <1>1, <1>2, <1>3, <1>4, AimedStep DEF Becomes, Quitting
<1>6. RowsTypeOK' /\ InvitesTypeOK'
  <2>1. CASE RemoveUserFromOrg(req[h].user, req[h].old.tenant)
    BY <1>1, <1>2, <2>1, RemoveEffect DEF Depart, RowsTypeOK, InvitesTypeOK, inviteVars, planVars
  <2>2. CASE UNCHANGED teamVars
    BY <1>1, <2>2 DEF Depart, RowsTypeOK, InvitesTypeOK, inviteVars, planVars, teamVars
  <2>3. QED
    BY <2>1, <2>2 DEF Depart
<1>7. HistoryTypeOK'
  <2>1. events' \in 0..MaxEvents
    BY <1>1, SlipsType DEF Depart, HistoryTypeOK
  <2>2. QED
    BY <1>1, <2>1 DEF Depart, HistoryTypeOK, planVars, historyVars
<1>8. QED
  BY <1>2, <1>3, <1>4, <1>5, <1>6, <1>7, TypeParts DEF TInv, Becomes

LEMMA JoinType ==
  ASSUME TInv, NEW h \in Handlers, Join(h)
  PROVE  /\ TInv' /\ req[h].user \in Users /\ req[h].org \in Tenants
         /\ Only(h) /\ pc'[h] = "consume" /\ req'[h].user = req[h].user
         /\ \A x \in Tenants \ {req[h].org} : joined'[x] = joined[x]
         /\ joined'[req[h].org] = Append(joined[req[h].org], req[h].user)
<1> DEFINE r == [req[h] EXCEPT !.org = NoTenant, !.old = NoOrg]
<1>1. RequestsTypeOK /\ RowsTypeOK /\ InvitesTypeOK /\ HistoryTypeOK /\ Aimed
  BY TypeParts DEF TInv
<1>2. req[h] \in Request /\ req[h].user \in Users /\ req[h].org \in Tenants
  BY <1>1 DEF RequestsTypeOK, Request, Join, Aimed, Accepting
<1>3. r \in Request /\ r.user = req[h].user
  BY <1>2 DEF Request, NoOrg, Roles
<1> HIDE DEF r
<1>4. RequestsTypeOK' /\ Becomes(h, "consume", r)
  BY <1>1, <1>3, BecomesType DEF Join, Move, Labels, r
<1>5. Aimed'
  BY <1>1, <1>4, AimedStep DEF Becomes, Quitting, Accepting
<1>6. Append(joined[req[h].org], req[h].user) \in Seq(Users)
  BY <1>1, <1>2 DEF RowsTypeOK
<1>7. RowsTypeOK' /\ InvitesTypeOK'
  <2>1. passes' \in [Tenants -> SUBSET Users]
    <3>1. passes' = passes \/ passes' = [passes EXCEPT ![req[h].org] = @ \cup {req[h].user}]
      BY DEF Join
    <3>2. QED
      BY <1>1, <1>2, <3>1 DEF RowsTypeOK
  <2>2. QED
    BY <1>1, <1>2, <1>6, <2>1 DEF Join, RowsTypeOK, InvitesTypeOK, inviteVars, planVars
<1>8. HistoryTypeOK'
  BY <1>1, <1>2 DEF Join, Settle, HistoryTypeOK, planVars
<1>9. QED
  BY <1>1, <1>2, <1>3, <1>4, <1>5, <1>7, <1>8, TypeParts DEF TInv, Becomes, Join, RowsTypeOK

LEMMA JoinFailsType ==
  ASSUME TInv, NEW h \in Handlers, JoinFails(h)
  PROVE  TInv' /\ Becomes(h, "idle", NoReq) /\ req[h].user \in Users
<1>1. RequestsTypeOK /\ RowsTypeOK /\ InvitesTypeOK /\ HistoryTypeOK /\ Aimed
  BY TypeParts DEF TInv
<1>2. req[h].user \in Users
  BY <1>1 DEF RequestsTypeOK, Request
<1>3. RequestsTypeOK' /\ Becomes(h, "idle", NoReq)
  BY <1>1, AnswerType DEF JoinFails
<1>4. Aimed'
  BY <1>1, <1>3, AimedStep DEF Becomes, Accepting, Quitting
<1>5. CASE DeleteUser(req[h].user) /\ UNCHANGED excused
  <2>1. RowsTypeOK' /\ InvitesTypeOK'
    BY <1>1, <1>2, <1>5, DeleteUserEffect DEF JoinFails, planVars, RowsTypeOK, InvitesTypeOK
  <2>2. HistoryTypeOK'
    BY <1>1, <1>5 DEF JoinFails, DeleteUser, HistoryTypeOK, planVars
  <2>3. QED
    BY <1>2, <1>3, <1>4, <2>1, <2>2, TypeParts DEF TInv
<1>6. CASE /\ Strand({req[h].user} \ {v \in Users : Belongs(v)})
           /\ UNCHANGED <<login, teamVars, invites, abandoned>>
  <2>1. RowsTypeOK' /\ InvitesTypeOK' /\ HistoryTypeOK'
    BY <1>1, <1>2, <1>6 DEF JoinFails, Strand, RowsTypeOK, InvitesTypeOK, HistoryTypeOK, planVars,
                            teamVars
  <2>2. QED
    BY <1>2, <1>3, <1>4, <2>1, TypeParts DEF TInv
<1>7. QED
  BY <1>5, <1>6 DEF JoinFails

LEMMA ConsumeType ==
  ASSUME TInv, NEW h \in Handlers, Consume(h)
  PROVE  TInv' /\ Becomes(h, "idle", NoReq)
<1>1. RequestsTypeOK /\ RowsTypeOK /\ InvitesTypeOK /\ HistoryTypeOK /\ Aimed
  BY TypeParts DEF TInv
<1>2. RequestsTypeOK' /\ Becomes(h, "idle", NoReq)
  BY <1>1, AnswerType DEF Consume
<1>3. Aimed'
  BY <1>1, <1>2, AimedStep DEF Becomes, Accepting, Quitting
<1>4. RowsTypeOK' /\ InvitesTypeOK' /\ HistoryTypeOK'
  BY <1>1 DEF Consume, RowsTypeOK, InvitesTypeOK, HistoryTypeOK, teamVars, planVars, historyVars
<1>5. QED
  BY <1>2, <1>3, <1>4, TypeParts DEF TInv

LEMMA CutType ==
  ASSUME TInv, NEW h \in Handlers, Cut(h)
  PROVE  TInv' /\ Becomes(h, "idle", NoReq) /\ req[h].user \in Users
<1>1. RequestsTypeOK /\ RowsTypeOK /\ InvitesTypeOK /\ HistoryTypeOK /\ Aimed
  BY TypeParts DEF TInv
<1>2. req[h].user \in Users
  BY <1>1 DEF RequestsTypeOK, Request
<1>3. RequestsTypeOK' /\ Becomes(h, "idle", NoReq)
  BY <1>1, AnswerType DEF Cut
<1>4. Aimed'
  BY <1>1, <1>3, AimedStep DEF Becomes, Accepting, Quitting
<1>5. RowsTypeOK' /\ InvitesTypeOK'
  BY <1>1 DEF Cut, RowsTypeOK, InvitesTypeOK, teamVars, inviteVars, planVars
<1>6. abandoned' \subseteq Tenants
  <2>1. pc[h] = "own" => req[h].org \in Tenants
    BY <1>1 DEF Aimed
  <2>2. pc[h] = "drop" => req[h].old.tenant \in Tenants
    BY <1>1 DEF Aimed, Quitting
  <2>3. QED
    BY <1>1, <2>1, <2>2 DEF Cut, HistoryTypeOK
<1>7. HistoryTypeOK'
  BY <1>1, <1>2, <1>6, BoundsAssumption DEF Cut, Strand, HistoryTypeOK, planVars
<1>8. QED
  BY <1>2, <1>3, <1>4, <1>5, <1>7, TypeParts DEF TInv

\* The steps of owners and of those who fetch a token, which leave the requests alone.
LEMMA OwnerStepType ==
  ASSUME TInv, OwnerStep
  PROVE  TInv' /\ UNCHANGED <<login, plan, owners, joined, pc, req, excused, abandoned,
                              walkins, downgraded, enforcing>>
<1>1. RequestsTypeOK /\ RowsTypeOK /\ InvitesTypeOK /\ HistoryTypeOK /\ Aimed
  BY TypeParts DEF TInv
<1>2. UNCHANGED <<login, plan, owners, joined, pc, req, excused, abandoned,
                  walkins, downgraded, enforcing>>
  BY DEF OwnerStep, InviteMember, CancelInvite, InviteEnds, IssueAccessToken, teamVars, planVars,
         historyVars
<1>3. ASSUME NEW t \in Tenants, NEW u \in Users, InviteMember(t, u)
      PROVE  InvitesTypeOK' /\ events' \in 0..MaxEvents /\ passes' = passes
  <2>1. [id |-> sent + 1, tenant |-> t, user |-> u] \in Invites /\ sent + 1 \in 0..MaxInvites
    BY <1>1, <1>3, BoundsAssumption DEF InviteMember, Invites, InvitesTypeOK
  <2>2. InvitesTypeOK'
    BY <1>1, <1>3, <2>1 DEF InviteMember, InvitesTypeOK
  <2>3. events' \in 0..MaxEvents /\ passes' = passes
    BY <1>1, <1>3, SlipsType DEF InviteMember, HistoryTypeOK, teamVars
  <2>4. QED
    BY <2>2, <2>3
<1>4. ASSUME NEW t \in Tenants, NEW u \in Users, IssueAccessToken(t, u)
      PROVE  UNCHANGED <<invites, sent, events>> /\ passes' \in [Tenants -> SUBSET Users]
  BY <1>1, <1>4 DEF IssueAccessToken, RowsTypeOK, inviteVars
<1>5. ASSUME invites' \subseteq invites, UNCHANGED <<sent, events, passes>>
      PROVE  InvitesTypeOK' /\ events' \in 0..MaxEvents /\ passes' = passes
  BY <1>1, <1>5 DEF InvitesTypeOK, HistoryTypeOK
<1>6. InvitesTypeOK' /\ events' \in 0..MaxEvents /\ passes' \in [Tenants -> SUBSET Users]
  <2>1. Guests \subseteq Users /\ passes \in [Tenants -> SUBSET Users]
    BY <1>1, UsersAssumption DEF RowsTypeOK
  <2>2. CASE \E t \in Tenants, u \in Guests : InviteMember(t, u)
    BY <1>3, <2>1, <2>2
  <2>3. CASE \/ \E t \in Tenants, u \in Guests : CancelInvite(t, u)
             \/ \E i \in invites : InviteEnds(i)
    BY <1>5, <2>1, <2>3 DEF CancelInvite, InviteEnds, teamVars
  <2>4. CASE \E t \in Tenants, u \in Users : IssueAccessToken(t, u)
    BY <1>1, <1>4, <2>4 DEF InvitesTypeOK, HistoryTypeOK
  <2>5. QED
    BY <2>2, <2>3, <2>4 DEF OwnerStep
<1>7. QED
  BY <1>1, <1>2, <1>6, TypeParts
  DEF TInv, RequestsTypeOK, RowsTypeOK, HistoryTypeOK, Aimed

LEMMA ChangePlanType ==
  ASSUME TInv, NEW t \in Tenants, NEW p \in Plans, ChangePlan(t, p)
  PROVE  TInv'
<1>1. RequestsTypeOK /\ RowsTypeOK /\ InvitesTypeOK /\ HistoryTypeOK /\ Aimed
  BY TypeParts DEF TInv
<1>2. RequestsTypeOK' /\ RowsTypeOK' /\ InvitesTypeOK' /\ Aimed'
  BY <1>1 DEF ChangePlan, RequestsTypeOK, RowsTypeOK, InvitesTypeOK, Aimed, teamVars, inviteVars
<1>3. HistoryTypeOK'
  BY <1>1, BoundsAssumption DEF ChangePlan, HistoryTypeOK
<1>4. QED
  BY <1>2, <1>3, TypeParts DEF TInv

\* EnforceTeamLimit keeps a prefix, one shorter than the plan allows if it is longer.
LEMMA EnforceEffect ==
  ASSUME RowsTypeOK, NEW t \in Tenants, NEW p \in Plans, EnforceTeamLimit(t, p)
  PROVE  \E n \in 0..Len(joined[t]) :
           /\ Limit[p] # Unlimited => n <= Limit[p] - 1
           /\ joined' = [joined EXCEPT ![t] = SubSeq(joined[t], 1, n)]
           /\ excused' = excused \cup (ToSet(joined[t]) \ ToSet(SubSeq(joined[t], 1, n)))
<1> DEFINE m == IF Kept(p) < Len(joined[t]) THEN Kept(p) ELSE Len(joined[t])
           n == IF m < 0 THEN 0 ELSE m
<1>1. joined[t] \in Seq(Users) /\ Len(joined[t]) \in Nat
  BY DEF RowsTypeOK
<1>2. Limit[p] \in {-1} \cup (Nat \ {0})
  BY LimitAssumption DEF Unlimited
<1>3. m \in Int /\ m <= Len(joined[t]) /\ (Limit[p] # Unlimited => m <= Limit[p] - 1 /\ m >= 0)
  BY <1>1, <1>2 DEF Kept, Unlimited
<1>4. joined' = [joined EXCEPT ![t] = SubSeq(joined[t], 1, m)]
      /\ excused' = excused \cup (ToSet(joined[t]) \ ToSet(SubSeq(joined[t], 1, m)))
  BY DEF EnforceTeamLimit, Strand
<1> HIDE DEF m
<1>5. n \in 0..Len(joined[t]) /\ (Limit[p] # Unlimited => n <= Limit[p] - 1)
  BY <1>1, <1>3
<1>6. SubSeq(joined[t], 1, m) = SubSeq(joined[t], 1, n)
  <2>1. CASE m >= 0
    BY <1>3, <2>1
  <2>2. CASE m < 0
    <3>1. SubSeq(joined[t], 1, m) = <<>> /\ SubSeq(joined[t], 1, 0) = <<>>
      BY <1>1, <1>3, <2>2
    <3>2. QED
      BY <2>2, <3>1
  <2>3. QED
    BY <1>3, <2>1, <2>2
<1> HIDE DEF n
<1>7. QED
  BY <1>4, <1>5, <1>6

LEMMA EnforceType ==
  ASSUME TInv, NEW t \in Tenants, NEW p \in Plans, EnforceTeamLimit(t, p)
  PROVE  TInv'
<1>1. RequestsTypeOK /\ RowsTypeOK /\ InvitesTypeOK /\ HistoryTypeOK /\ Aimed
  BY TypeParts DEF TInv
<1>2. PICK n \in 0..Len(joined[t]) :
        /\ joined' = [joined EXCEPT ![t] = SubSeq(joined[t], 1, n)]
        /\ excused' = excused \cup (ToSet(joined[t]) \ ToSet(SubSeq(joined[t], 1, n)))
  BY <1>1, EnforceEffect
<1>3. SubSeq(joined[t], 1, n) \in Seq(Users) /\ ToSet(joined[t]) \subseteq Users
  BY <1>1, PrefixProperties, ToSetBound DEF RowsTypeOK
<1>4. RequestsTypeOK' /\ RowsTypeOK' /\ InvitesTypeOK' /\ Aimed'
  <2> DEFINE s == SubSeq(joined[t], 1, n)
  <2>1. s \in Seq(Users) /\ joined' = [joined EXCEPT ![t] = s]
    BY <1>2, <1>3
  <2> HIDE DEF s
  <2>2. joined' \in [Tenants -> Seq(Users)]
    BY <1>1, <2>1 DEF RowsTypeOK
  <2>3. UNCHANGED <<login, plan, owners, passes, invites, sent, pc, req>>
    BY DEF EnforceTeamLimit, inviteVars
  <2>4. QED
    BY <1>1, <2>2, <2>3 DEF RequestsTypeOK, RowsTypeOK, InvitesTypeOK, Aimed
<1>5. HistoryTypeOK'
  BY <1>1, <1>2, <1>3 DEF EnforceTeamLimit, HistoryTypeOK
<1>6. QED
  BY <1>4, <1>5, TypeParts DEF TInv

LEMMA TInvInit == Init => TInv
<1> SUFFICES ASSUME Init PROVE TInv
  OBVIOUS
<1>1. <<>> \in Seq(Users) /\ "idle" \in Labels /\ "idle" \notin Accepting \cup {"own"}
  BY DEF Labels, Accepting
<1>2. RequestsTypeOK /\ Aimed
  BY <1>1, NoReqType DEF Init, RequestsTypeOK, Aimed, Accepting, Quitting
<1>3. RowsTypeOK
  BY <1>1, UsersAssumption, TenantsAssumption, LimitAssumption DEF Init, RowsTypeOK
<1>4. InvitesTypeOK /\ HistoryTypeOK
  BY BoundsAssumption DEF Init, InvitesTypeOK, HistoryTypeOK
<1>5. QED
  BY <1>2, <1>3, <1>4, TypeParts DEF TInv

LEMMA StartType ==
  ASSUME TInv, NEW h \in Handlers, Start(h)
  PROVE  TInv'
<1>1. SSOUsers \subseteq Users /\ Finders \subseteq Users
  BY UsersAssumption
<1>2. \A i \in invites : i.user \in Users
  BY TypeParts DEF TInv, InvitesTypeOK, Invites
<1>3. QED
  BY <1>1, <1>2, RegisterType, SetupOrgType, SSOLoginType, RemoveMemberType, LeaveOrganizationType,
     AcceptInviteType, AcceptInviteJWTType, SSOInvitedType DEF Start

LEMMA ContinueType ==
  ASSUME TInv, NEW h \in Handlers, Continue(h)
  PROVE  TInv'
BY CreateTenantType, CreateTenantFailsType, OwnType, HandleInviteType, EmptyTenantType,
   DropTenantType, DepartType, JoinType, JoinFailsType, ConsumeType, CutType DEF Continue

LEMMA PlanStepType ==
  ASSUME TInv, PlanStep
  PROVE  TInv'
<1>1. \A e \in enforcing : e[1] \in Tenants /\ e[2] \in Plans
  BY TypeParts DEF TInv, HistoryTypeOK
<1>2. QED
  BY <1>1, ChangePlanType, EnforceType DEF PlanStep

LEMMA TInvNext ==
  ASSUME TInv, [Next]_vars
  PROVE  TInv'
<1>1. CASE Next
  BY <1>1, StartType, ContinueType, PlanStepType, OwnerStepType DEF Next
<1>2. CASE UNCHANGED vars
  BY <1>2 DEF vars, teamVars, inviteVars, planVars, historyVars, TInv, TypeOK, Aimed
<1>3. QED
  BY <1>1, <1>2

\* Every variable keeps its type, and a request past the statement that chose its tenants has
\* one to fill, join or leave.
THEOREM TypeCorrect == Spec => [](TypeOK /\ Aimed)
<1>1. TInv /\ [Next]_vars => TInv'
  BY TInvNext
<1>2. QED
  BY TInvInit, <1>1, PTL DEF Spec, TInv

------------------------------------------------------------------------------
(* A tenant that was paid for is never deleted.                             *)

LEMMA PlanKept ==
  ASSUME TInv, [Next]_vars, NEW t \in Tenants, plan[t] \in Paid
  PROVE  plan'[t] \in Plans
<1>1. RowsTypeOK /\ RowsTypeOK' /\ "free" \in Plans /\ plan[t] \in Plans /\ plan[t] # "free"
      /\ plan[t] # "new"
  BY TInvNext, TypeParts, LimitAssumption DEF TInv, Paid
<1>2. ASSUME NEW h \in Handlers, CreateTenant(h)
      PROVE  plan'[t] \in Plans
  BY <1>1, <1>2, CreateTenantType, ZenonT(60) DEF RowsTypeOK
<1>3. ASSUME NEW h \in Handlers, DropTenant(h)
      PROVE  plan'[t] \in Plans
  BY <1>1, <1>3, DropTenantType, ZenonT(60) DEF DropTenant, Deletable, RowsTypeOK
<1>4. ASSUME NEW x \in Tenants, NEW p \in Plans, ChangePlan(x, p)
      PROVE  plan'[t] \in Plans
  BY <1>1, <1>4 DEF ChangePlan, RowsTypeOK
<1>5. CASE UNCHANGED plan
  BY <1>1, <1>5
<1>6. ASSUME NEW h \in Handlers, Start(h)
      PROVE  UNCHANGED plan
  BY <1>6 DEF Start, Register, SetupOrg, SSOLogin, RemoveMember, LeaveOrganization, AcceptInvite,
              AcceptInviteJWT, SSOInvited, planVars
<1>7. ASSUME NEW h \in Handlers, Continue(h)
      PROVE  CreateTenant(h) \/ DropTenant(h) \/ UNCHANGED plan
  BY <1>7 DEF Continue, CreateTenantFails, Own, HandleInvite, EmptyTenant, Depart, Join, JoinFails,
              Consume, Cut, planVars
<1>8. PlanStep => UNCHANGED plan \/ \E x \in Tenants, p \in Plans : ChangePlan(x, p)
  BY DEF PlanStep, EnforceTeamLimit
<1>9. OwnerStep => UNCHANGED plan
  BY OwnerStepType
<1>10. QED
  BY <1>2, <1>3, <1>4, <1>5, <1>6, <1>7, <1>8, <1>9 DEF Next, vars, planVars

\* PaidRowsStay: whatever is bought between the check of DeleteTenant's caller and the DELETE,
\* the row of a tenant on a paid plan stays.
THEOREM PaidTenantsStay == Spec => PaidRowsStay
<1>1. TInv /\ [Next]_vars => TInv'
  BY TInvNext
<1>2. TInv /\ [Next]_vars => [\A t \in Tenants : plan[t] \in Paid => plan'[t] \in Plans]_vars
  BY PlanKept
<1>3. QED
  BY TInvInit, <1>1, <1>2, PTL DEF Spec, PaidRowsStay

------------------------------------------------------------------------------
(* Who owns what.  A tenant is fresh until its first owner is in: nobody    *)
(* else can have come near it.                                              *)

Fresh(t) == plan[t] = "new" \/ \E h \in Handlers : pc[h] = "own" /\ req[h].org = t

\* Nobody belongs to a fresh tenant, is invited to it, or is about to join or leave it.
FreshUntouched ==
  \A t \in Tenants : Fresh(t) =>
    /\ owners[t] = {} /\ joined[t] = <<>>
    /\ \A i \in invites : i.tenant # t
    /\ \A h \in Handlers : /\ pc[h] \in Accepting => req[h].org # t
                           /\ pc[h] \in Quitting => req[h].old.tenant # t

\* A fresh tenant whose row is there has one request that will insert its owner.
OneCreator ==
  \A h \in Handlers : pc[h] = "own" =>
    /\ plan[req[h].org] # "new"
    /\ \A g \in Handlers : pc[g] = "own" /\ req[g].org = req[h].org => g = h

\* A user has one row per tenant, and a tenant at most one owner.
OneRow ==
  \A t \in Tenants :
    /\ owners[t] \cap ToSet(joined[t]) = {} /\ IsInjective(joined[t])
    /\ \A u, v \in owners[t] : u = v

\* The membership that a request is about to take is not an owner's.
NoOwnerDeparts ==
  \A h \in Handlers : pc[h] = "depart" => req[h].user \notin owners[req[h].old.tenant]

RInv == FreshUntouched /\ OneCreator /\ OneRow /\ NoOwnerDeparts

\* Rows of members and invitations only go, and none of those gone comes back.
Shrinks ==
  /\ \A t \in Tenants : /\ owners'[t] \subseteq owners[t]
                        /\ ToSet(joined'[t]) \subseteq ToSet(joined[t])
                        /\ IsInjective(joined[t]) => IsInjective(joined'[t])
  /\ invites' \subseteq invites

LEMMA EmptyRows ==
  ASSUME NEW S, NEW s \in Seq(S)
  PROVE  ToSet(s) = {} <=> s = <<>>
BY DEF ToSet

\* Where request h may go when no tenant is created and nobody is added to one.
WellAimed(h) ==
  /\ pc'[h] # "own"
  /\ pc'[h] \in Accepting => req'[h].org \in Tenants /\ ~Fresh(req'[h].org)
  /\ pc'[h] \in Quitting => req'[h].old.tenant \in Tenants /\ ~Fresh(req'[h].old.tenant)
  /\ pc'[h] = "depart" => req'[h].user \notin owners[req'[h].old.tenant]

LEMMA ShrinkingStep ==
  ASSUME TInv, TInv', RInv, Shrinks, NEW h \in Handlers, Only(h), WellAimed(h),
         \A t \in Tenants : plan'[t] = "new" => plan[t] = "new"
  PROVE  RInv'
<1>1. RowsTypeOK /\ RowsTypeOK' /\ Aimed /\ Aimed'
  BY TypeParts DEF TInv
<1>2. \A t \in Tenants : Fresh(t)' => Fresh(t)
  BY <1>1 DEF Fresh, Only, WellAimed
<1>3. \A t \in Tenants : joined[t] = <<>> => joined'[t] = <<>>
  BY <1>1, EmptyRows DEF Shrinks, RowsTypeOK
<1>4. FreshUntouched'
  <2> SUFFICES ASSUME NEW t \in Tenants, Fresh(t)'
               PROVE  /\ owners'[t] = {} /\ joined'[t] = <<>>
                      /\ \A i \in invites' : i.tenant # t
                      /\ \A g \in Handlers : /\ pc'[g] \in Accepting => req'[g].org # t
                                             /\ pc'[g] \in Quitting => req'[g].old.tenant # t
    BY DEF FreshUntouched
  <2>1. Fresh(t)
    BY <1>2
  <2>2. owners'[t] = {} /\ joined'[t] = <<>> /\ \A i \in invites' : i.tenant # t
    BY <2>1, <1>3 DEF RInv, FreshUntouched, Shrinks
  <2>3. ASSUME NEW g \in Handlers
        PROVE  /\ pc'[g] \in Accepting => req'[g].org # t
               /\ pc'[g] \in Quitting => req'[g].old.tenant # t
    BY <2>1 DEF RInv, FreshUntouched, Only, WellAimed
  <2>4. QED
    BY <2>2, <2>3
<1>5. OneCreator'
  <2> SUFFICES ASSUME NEW g \in Handlers, pc'[g] = "own"
               PROVE  /\ plan'[req'[g].org] # "new"
                      /\ \A f \in Handlers : pc'[f] = "own" /\ req'[f].org = req'[g].org => f = g
    BY DEF OneCreator
  <2>1. g # h /\ pc[g] = "own" /\ req'[g] = req[g] /\ req[g].org \in Tenants
    BY <1>1 DEF Only, WellAimed, Aimed
  <2>2. QED
    BY <2>1 DEF RInv, OneCreator, Only, WellAimed
<1>6. OneRow'
  BY DEF RInv, OneRow, Shrinks
<1>7. NoOwnerDeparts'
  <2> SUFFICES ASSUME NEW g \in Handlers, pc'[g] = "depart"
               PROVE  req'[g].user \notin owners'[req'[g].old.tenant]
    BY DEF NoOwnerDeparts
  <2>1. req'[g].old.tenant \in Tenants
    BY <1>1 DEF Aimed, Quitting
  <2>2. req'[g].user \notin owners[req'[g].old.tenant]
    BY DEF RInv, NoOwnerDeparts, Only, WellAimed
  <2>3. QED
    BY <2>1, <2>2 DEF Shrinks
<1>8. QED
  BY <1>4, <1>5, <1>6, <1>7 DEF RInv

\* A request that is about to join a tenant it is invited to keeps away from fresh ones.
LEMMA JoiningAimed ==
  ASSUME TInv, RInv, NEW h \in Handlers, NEW u \in Users, NEW i \in invites,
         i.tenant \in Tenants, Joining(h, u, i.tenant)
  PROVE  WellAimed(h) /\ Only(h)
<1> PICK faults \in {0, 1} : \E o \in OrgRead(u, faults) : \E r \in Request :
      Becomes(h, Leaving(o), r) /\ r.user = u /\ r.org = i.tenant /\ r.old = o
  BY DEF Joining
<1>1. PICK o \in OrgRead(u, faults), r \in Request :
        Becomes(h, Leaving(o), r) /\ r.user = u /\ r.org = i.tenant /\ r.old = o
  OBVIOUS
<1>2. Leaving(o) \in Accepting \ {"drop"} /\ Leaving(o) # "own"
  BY LeavingCases DEF Accepting
<1>3. ~Fresh(i.tenant)
  BY DEF RInv, FreshUntouched
<1>4. Leaving(o) \in Quitting => o.tenant \in Tenants /\ ~Fresh(o.tenant)
  <2>1. CASE Leaving(o) = "empty"
    BY <2>1, LeavingCases DEF RInv, FreshUntouched
  <2>2. CASE Leaving(o) = "depart"
    BY <2>2, LeavingCases, ToSetEmpty DEF RInv, FreshUntouched
  <2>3. QED
    BY <1>2, <2>1, <2>2 DEF Quitting
<1>5. Leaving(o) = "depart" => u \notin owners[o.tenant]
  BY LeavingCases DEF RInv, OneRow
<1>6. QED
  BY <1>1, <1>2, <1>3, <1>4, <1>5 DEF WellAimed, Becomes

LEMMA RemoveShrinks ==
  ASSUME RowsTypeOK, NEW u \in Users, NEW t \in Tenants, RemoveUserFromOrg(u, t),
         UNCHANGED invites
  PROVE  Shrinks
<1>1. joined[t] \in Seq(Users)
  BY DEF RowsTypeOK
<1>2. /\ ToSet(RemoveFirst(joined[t], u)) \subseteq ToSet(joined[t])
      /\ IsInjective(joined[t]) => IsInjective(RemoveFirst(joined[t], u))
  BY <1>1, RemoveFirstProperties
<1>3. QED
  BY <1>2, RemoveEffect DEF Shrinks

LEMMA DeleteShrinks ==
  ASSUME RowsTypeOK, InvitesTypeOK, NEW u \in Users, DeleteUser(u)
  PROVE  Shrinks
<1>1. \A t \in Tenants :
        /\ ToSet(RemoveFirst(joined[t], u)) \subseteq ToSet(joined[t])
        /\ IsInjective(joined[t]) => IsInjective(RemoveFirst(joined[t], u))
  BY RemoveFirstProperties DEF RowsTypeOK
<1>2. QED
  BY <1>1, DeleteUserEffect DEF Shrinks

LEMMA ClearedShrinks ==
  ASSUME RowsTypeOK, InvitesTypeOK, NEW t \in Tenants, Cleared(t)
  PROVE  Shrinks
<1>1. ToSet(<<>>) = {} /\ IsInjective(<<>>)
  BY ToSetEmpty
<1>2. QED
  BY <1>1, ClearedEffect DEF Shrinks

LEMMA StaysShrinks ==
  ASSUME UNCHANGED <<owners, joined>>, invites' \subseteq invites
  PROVE  Shrinks
BY DEF Shrinks

\* Requests that begin.
LEMMA StartRows ==
  ASSUME TInv, RInv, NEW h \in Handlers, Start(h)
  PROVE  RInv'
<1>1. TInv' /\ RowsTypeOK
  BY StartType, TypeParts DEF TInv
<1>2. \A t \in Tenants : plan'[t] = "new" => plan[t] = "new"
  BY DEF Start, Register, SetupOrg, SSOLogin, RemoveMember, LeaveOrganization, AcceptInvite,
         AcceptInviteJWT, SSOInvited, planVars
<1>3. "create" \notin Accepting \cup Quitting \cup {"own", "depart"}
  BY DEF Accepting, Quitting
<1>4. ASSUME NEW u \in Users, Register(h, u) \/ SetupOrg(h, u)
      PROVE  RInv'
  <2>1. Shrinks
    BY <1>4, StaysShrinks DEF Register, SetupOrg, teamVars, inviteVars
  <2>2. Only(h) /\ WellAimed(h)
    BY <1>3, <1>4, RegisterType, SetupOrgType DEF Becomes, WellAimed
  <2>3. QED
    BY <1>1, <1>2, <2>1, <2>2, ShrinkingStep
<1>5. ASSUME NEW u \in Users, SSOLogin(h, u)
      PROVE  RInv'
  <2>1. UNCHANGED <<owners, joined, invites, plan>>
    BY <1>5 DEF SSOLogin, teamVars, inviteVars, planVars
  <2>2. CASE UNCHANGED <<pc, req>>
    BY <2>1, <2>2 DEF RInv, FreshUntouched, Fresh, OneCreator, OneRow, NoOwnerDeparts
  <2>3. CASE Becomes(h, "create", NewReq("setup", u))
    <3>1. Only(h) /\ WellAimed(h)
      BY <1>3, <2>3 DEF Becomes, WellAimed
    <3>2. QED
      BY <1>1, <1>2, <2>1, <3>1, StaysShrinks, ShrinkingStep
  <2>4. QED
    BY <1>5, <2>2, <2>3, SSOLoginType
<1>6. ASSUME NEW t \in Tenants, NEW u \in Users, RemoveMember(h, t, u) \/ LeaveOrganization(h, t, u)
      PROVE  RInv'
  <2>1. Shrinks
    BY <1>1, <1>6, RemoveShrinks DEF RemoveMember, LeaveOrganization, inviteVars
  <2>2. Only(h) /\ WellAimed(h)
    BY <1>3, <1>6, RemoveMemberType, LeaveOrganizationType DEF Becomes, WellAimed
  <2>3. QED
    BY <1>1, <1>2, <2>1, <2>2, ShrinkingStep
<1>7. ASSUME NEW i \in invites, AcceptInvite(h, i)
      PROVE  RInv'
  <2>1. Shrinks
    BY <1>7, StaysShrinks DEF AcceptInvite, teamVars, inviteVars
  <2>2. i.user \in Users /\ i.tenant \in Tenants
    BY <1>7, AcceptInviteType
  <2>3. CASE Only(h) /\ pc'[h] = "join" /\ req'[h].org = i.tenant
    <3>1. ~Fresh(i.tenant)
      BY <2>2 DEF RInv, FreshUntouched
    <3>2. WellAimed(h)
      BY <2>2, <2>3, <3>1 DEF WellAimed, Quitting
    <3>3. QED
      BY <1>1, <1>2, <2>1, <2>3, <3>2, ShrinkingStep
  <2>4. CASE Joining(h, i.user, i.tenant)
    BY <1>1, <1>2, <2>1, <2>2, <2>4, JoiningAimed, ShrinkingStep
  <2>5. QED
    BY <1>7, <2>3, <2>4, AcceptInviteType
<1>8. ASSUME NEW u \in Users, NEW i \in invites, AcceptInviteJWT(h, u, i)
      PROVE  RInv'
  <2>1. Shrinks
    BY <1>8, StaysShrinks DEF AcceptInviteJWT, teamVars, inviteVars
  <2>2. Only(h) /\ WellAimed(h)
    BY <1>8, AcceptInviteJWTType, JoiningAimed
  <2>3. QED
    BY <1>1, <1>2, <2>1, <2>2, ShrinkingStep
<1>9. ASSUME NEW u \in Users, NEW i \in invites, SSOInvited(h, u, i)
      PROVE  RInv'
  <2>1. Shrinks
    BY <1>9, StaysShrinks DEF SSOInvited, teamVars, inviteVars
  <2>2. Only(h) /\ WellAimed(h)
    <3>1. CASE Joining(h, u, i.tenant)
      BY <1>9, <3>1, SSOInvitedType, JoiningAimed
    <3>2. CASE Only(h) /\ pc'[h] = "create"
      BY <1>3, <3>2 DEF WellAimed
    <3>3. QED
      BY <1>9, <3>1, <3>2, SSOInvitedType
  <2>3. QED
    BY <1>1, <1>2, <2>1, <2>2, ShrinkingStep
<1>10. \A i \in invites : i.user \in Users
  BY <1>1, TypeParts DEF TInv, InvitesTypeOK, Invites
<1>11. QED
  BY <1>4, <1>5, <1>6, <1>7, <1>8, <1>9, <1>10, UsersAssumption DEF Start

\* CreateTenant takes an id that nothing refers to; Own and Join add the one row that was missing.
LEMMA CreateTenantRows ==
  ASSUME TInv, RInv, NEW h \in Handlers, CreateTenant(h)
  PROVE  RInv'
<1>1. RowsTypeOK /\ Aimed /\ TInv'
  BY CreateTenantType, TypeParts DEF TInv
<1>2. PICK t \in Tenants :
        /\ plan[t] = "new" /\ plan' = [plan EXCEPT ![t] = "free"]
        /\ Only(h) /\ pc'[h] = "own" /\ req'[h].org = t
  BY CreateTenantType
<1>3. UNCHANGED <<owners, joined, invites>>
  BY DEF CreateTenant, teamVars, inviteVars
<1>4. "own" \notin Accepting \cup Quitting \cup {"depart"} /\ pc[h] # "own"
  BY DEF Accepting, Quitting, CreateTenant
<1>5. \A x \in Tenants : Fresh(x)' => Fresh(x)
  BY <1>1, <1>2 DEF Fresh, Only, RowsTypeOK
<1>6. FreshUntouched'
  BY <1>2, <1>3, <1>4, <1>5 DEF RInv, FreshUntouched, Only
<1>7. OneCreator'
  <2> SUFFICES ASSUME NEW g \in Handlers, pc'[g] = "own"
               PROVE  /\ plan'[req'[g].org] # "new"
                      /\ \A f \in Handlers : pc'[f] = "own" /\ req'[f].org = req'[g].org => f = g
    BY DEF OneCreator
  <2>1. \A f \in Handlers : f # h /\ pc[f] = "own" => req[f].org \in Tenants /\ req[f].org # t
    BY <1>1, <1>2 DEF RInv, OneCreator, Aimed
  <2>2. plan'[req'[g].org] # "new"
    BY <1>1, <1>2, <2>1 DEF RInv, OneCreator, Only, RowsTypeOK, Aimed
  <2>3. QED
    BY <1>2, <2>1, <2>2 DEF RInv, OneCreator, Only
<1>8. OneRow' /\ NoOwnerDeparts'
  BY <1>2, <1>3, <1>4 DEF RInv, OneRow, NoOwnerDeparts, Only
<1>9. QED
  BY <1>6, <1>7, <1>8 DEF RInv

LEMMA OwnRows ==
  ASSUME TInv, RInv, NEW h \in Handlers, Own(h)
  PROVE  RInv'
<1> DEFINE t == req[h].org
<1>1. RowsTypeOK /\ RowsTypeOK' /\ Aimed /\ Aimed' /\ t \in Tenants /\ Only(h)
      /\ pc'[h] \in {"idle", "invite"}
  BY OwnType, TypeParts DEF TInv, Becomes
<1>2. pc[h] = "own" /\ UNCHANGED <<joined, invites, plan>>
  BY DEF Own, inviteVars, planVars
<1>3. Fresh(t)
  BY <1>2 DEF Fresh
<1>4. owners' = owners \/ owners' = [owners EXCEPT ![t] = @ \cup {req[h].user}]
  BY DEF Own
<1>5. owners[t] = {} /\ joined[t] = <<>> /\ (\A x \in Tenants : x # t => owners'[x] = owners[x])
      /\ (owners'[t] = {} \/ owners'[t] = {req[h].user})
  BY <1>1, <1>3, <1>4 DEF RInv, FreshUntouched, RowsTypeOK
<1> HIDE DEF t
<1>6. {"idle", "invite"} \cap (Accepting \cup Quitting \cup {"own", "depart"}) = {}
  BY DEF Accepting, Quitting
<1>7. \A x \in Tenants : Fresh(x)' => Fresh(x) /\ x # t
  BY <1>1, <1>2, <1>6 DEF Fresh, Only, RInv, OneCreator, t
<1>8. FreshUntouched'
  BY <1>1, <1>2, <1>5, <1>6, <1>7 DEF RInv, FreshUntouched, Only
<1>9. OneCreator'
  BY <1>1, <1>2, <1>6 DEF RInv, OneCreator, Only
<1>10. OneRow'
  BY <1>1, <1>2, <1>5, ToSetEmpty DEF RInv, OneRow
<1>11. NoOwnerDeparts'
  <2> SUFFICES ASSUME NEW g \in Handlers, pc'[g] = "depart"
               PROVE  req'[g].user \notin owners'[req'[g].old.tenant]
    BY DEF NoOwnerDeparts
  <2>1. g # h /\ pc[g] = "depart" /\ req'[g] = req[g] /\ req[g].old.tenant \in Tenants
    BY <1>1, <1>6 DEF Only, Aimed, Quitting
  <2>2. req[g].old.tenant # t
    BY <1>1, <1>3, <2>1 DEF RInv, FreshUntouched, Quitting
  <2>3. QED
    BY <1>5, <2>1, <2>2 DEF RInv, NoOwnerDeparts
<1>12. QED
  BY <1>8, <1>9, <1>10, <1>11 DEF RInv

LEMMA JoinRows ==
  ASSUME TInv, RInv, NEW h \in Handlers, Join(h)
  PROVE  RInv'
<1> DEFINE t == req[h].org
           u == req[h].user
<1>1. RowsTypeOK /\ Aimed /\ t \in Tenants /\ u \in Users /\ Only(h) /\ pc'[h] = "consume"
      /\ (\A x \in Tenants \ {t} : joined'[x] = joined[x]) /\ joined'[t] = Append(joined[t], u)
  BY JoinType, TypeParts DEF TInv
<1>2. pc[h] = "join" /\ u \notin owners[t] /\ u \notin ToSet(joined[t])
      /\ UNCHANGED <<owners, invites, plan>>
  BY DEF Join, CanJoin, Members, inviteVars, planVars
<1>3. ~Fresh(t)
  BY <1>1, <1>2 DEF RInv, FreshUntouched, Accepting
<1>4. joined[t] \in Seq(Users)
  BY <1>1 DEF RowsTypeOK
<1> HIDE DEF t, u
<1>5. ToSet(joined'[t]) = ToSet(joined[t]) \cup {u} /\ (IsInjective(joined[t]) => IsInjective(joined'[t]))
  BY <1>1, <1>2, <1>4, AppendedProperties
<1>6. "consume" \notin Accepting \cup Quitting \cup {"own", "depart"}
  BY DEF Accepting, Quitting
<1>7. \A x \in Tenants : Fresh(x)' => Fresh(x) /\ x # t
  BY <1>1, <1>2, <1>3, <1>6 DEF Fresh, Only
<1>8. FreshUntouched'
  BY <1>1, <1>2, <1>6, <1>7 DEF RInv, FreshUntouched, Only
<1>9. OneCreator' /\ NoOwnerDeparts'
  BY <1>1, <1>2, <1>6 DEF RInv, OneCreator, NoOwnerDeparts, Only
<1>10. OneRow'
  <2> SUFFICES ASSUME NEW x \in Tenants
               PROVE  /\ owners'[x] \cap ToSet(joined'[x]) = {} /\ IsInjective(joined'[x])
                      /\ \A v, w \in owners'[x] : v = w
    BY DEF OneRow
  <2>1. owners[x] \cap ToSet(joined[x]) = {} /\ IsInjective(joined[x]) /\ \A v, w \in owners[x] : v = w
    BY DEF RInv, OneRow
  <2>2. CASE x = t
    BY <1>2, <1>5, <2>1, <2>2
  <2>3. CASE x # t
    BY <1>1, <1>2, <2>1, <2>3
  <2>4. QED
    BY <2>2, <2>3
<1>11. QED
  BY <1>8, <1>9, <1>10 DEF RInv

\* The other steps of a request.
LEMMA ContinueRows ==
  ASSUME TInv, RInv, NEW h \in Handlers, Continue(h)
  PROVE  RInv'
<1>1. TInv' /\ RowsTypeOK /\ InvitesTypeOK
  BY ContinueType, TypeParts DEF TInv
<1>2. "idle" \notin Accepting \cup Quitting \cup {"own", "depart"}
  BY DEF Accepting, Quitting
<1>3. ASSUME Becomes(h, "idle", NoReq), Shrinks, UNCHANGED plan
      PROVE  RInv'
  BY <1>1, <1>2, <1>3, ShrinkingStep DEF Becomes, WellAimed
<1>4. CASE CreateTenantFails(h)
  BY <1>1, <1>3, <1>4, CreateTenantFailsType, DeleteShrinks DEF CreateTenantFails, planVars
<1>5. CASE JoinFails(h)
  <2>1. Shrinks
    <3>1. CASE DeleteUser(req[h].user)
      BY <1>1, <1>5, <3>1, JoinFailsType, DeleteShrinks
    <3>2. CASE UNCHANGED <<login, teamVars, invites, abandoned>>
      BY <3>2, StaysShrinks DEF teamVars
    <3>3. QED
      BY <1>5, <3>1, <3>2 DEF JoinFails
  <2>2. QED
    BY <1>3, <1>5, <2>1, JoinFailsType DEF JoinFails, planVars
<1>6. CASE Consume(h) \/ Cut(h)
  BY <1>3, <1>6, ConsumeType, CutType, StaysShrinks DEF Consume, Cut, teamVars, inviteVars, planVars
<1>7. CASE HandleInvite(h)
  <2>1. Shrinks /\ UNCHANGED plan
    BY <1>7, StaysShrinks DEF HandleInvite, teamVars, inviteVars, planVars
  <2>2. ASSUME NEW i \in invites, i.tenant \in Tenants, Joining(h, req[h].user, i.tenant)
        PROVE  RInv'
    BY <1>1, <1>7, <2>1, <2>2, HandleInviteType, JoiningAimed, ShrinkingStep
  <2>3. QED
    BY <1>3, <1>7, <2>1, <2>2, HandleInviteType
<1>8. CASE EmptyTenant(h)
  <2>1. Shrinks /\ UNCHANGED plan
    BY <1>1, <1>8, EmptyTenantType, ClearedShrinks, StaysShrinks DEF EmptyTenant, planVars, teamVars
  <2>2. pc[h] = "empty" /\ Becomes(h, "drop", req[h]) /\ Aimed
    BY <1>8, EmptyTenantType DEF EmptyTenant, TInv
  <2>3. Only(h) /\ WellAimed(h)
    BY <2>2 DEF Becomes, WellAimed, RInv, FreshUntouched, Aimed, Accepting, Quitting
  <2>4. QED
    BY <1>1, <2>1, <2>3, ShrinkingStep
<1>9. CASE DropTenant(h) \/ Depart(h)
  <2>1. Shrinks
    <3>1. CASE DropTenant(h)
      BY <1>1, <3>1, DropTenantType, ClearedShrinks, StaysShrinks DEF DropTenant, teamVars
    <3>2. CASE Depart(h)
      BY <1>1, <3>2, DepartType, RemoveShrinks, StaysShrinks DEF Depart, inviteVars, teamVars
    <3>3. QED
      BY <1>9, <3>1, <3>2
  <2>2. \A t \in Tenants : plan'[t] = "new" => plan[t] = "new"
    BY <1>1, <1>9, DropTenantType DEF DropTenant, Depart, planVars, RowsTypeOK
  <2>3. Only(h) /\ pc'[h] = "join" /\ req'[h].org = req[h].org /\ pc[h] \in Quitting /\ Aimed
    BY <1>9, DropTenantType, DepartType DEF DropTenant, Depart, Quitting, TInv
  <2>4. WellAimed(h)
    BY <2>3 DEF WellAimed, RInv, FreshUntouched, Aimed, Accepting, Quitting
  <2>5. QED
    BY <1>1, <2>1, <2>2, <2>3, <2>4, ShrinkingStep
<1>10. QED
  BY <1>4, <1>5, <1>6, <1>7, <1>8, <1>9, CreateTenantRows, OwnRows, JoinRows DEF Continue

\* The steps of owners and of the billing service.
LEMMA OwnerStepRows ==
  ASSUME TInv, RInv, OwnerStep
  PROVE  RInv'
<1>1. UNCHANGED <<plan, owners, joined, pc, req>>
  BY OwnerStepType
<1>2. \A i \in invites' : i \in invites \/ (i.tenant \in Tenants /\ owners[i.tenant] # {})
  <2>1. ASSUME NEW t \in Tenants, NEW u \in Guests, InviteMember(t, u)
        PROVE  \A i \in invites' : i \in invites \/ (i.tenant \in Tenants /\ owners[i.tenant] # {})
    BY <2>1 DEF InviteMember
  <2>2. CASE invites' \subseteq invites
    BY <2>2
  <2>3. OwnerStep => \/ \E t \in Tenants, u \in Guests : InviteMember(t, u)
                     \/ invites' \subseteq invites
    BY DEF OwnerStep, CancelInvite, InviteEnds, IssueAccessToken, inviteVars
  <2>4. QED
    BY <2>1, <2>2, <2>3
<1>3. FreshUntouched'
  BY <1>1, <1>2 DEF RInv, FreshUntouched, Fresh
<1>4. QED
  BY <1>1, <1>3 DEF RInv, OneCreator, OneRow, NoOwnerDeparts

LEMMA PlanStepRows ==
  ASSUME TInv, RInv, PlanStep
  PROVE  RInv'
<1>1. RowsTypeOK /\ Aimed /\ HistoryTypeOK
  BY TypeParts DEF TInv
<1>2. ASSUME NEW t \in Tenants, NEW p \in Plans, ChangePlan(t, p)
      PROVE  RInv'
  <2>1. UNCHANGED <<owners, joined, invites, pc, req>> /\ plan' = [plan EXCEPT ![t] = p]
        /\ p # "new" /\ plan[t] # "new"
    BY <1>2, LimitAssumption DEF ChangePlan, teamVars, inviteVars, Exists
  <2>2. \A x \in Tenants : (plan'[x] = "new" <=> plan[x] = "new")
    BY <1>1, <2>1 DEF RowsTypeOK
  <2>3. \A x \in Tenants : Fresh(x)' => Fresh(x)
    BY <2>1, <2>2 DEF Fresh
  <2>4. FreshUntouched'
    BY <2>1, <2>3 DEF RInv, FreshUntouched
  <2>5. OneCreator'
    BY <1>1, <2>1, <2>2 DEF RInv, OneCreator, Aimed
  <2>6. QED
    BY <2>1, <2>4, <2>5 DEF RInv, OneRow, NoOwnerDeparts
<1>3. ASSUME NEW t \in Tenants, NEW p \in Plans, EnforceTeamLimit(t, p)
      PROVE  RInv'
  <2>1. PICK n \in 0..Len(joined[t]) : joined' = [joined EXCEPT ![t] = SubSeq(joined[t], 1, n)]
    BY <1>1, <1>3, EnforceEffect
  <2>2. UNCHANGED <<owners, invites, plan, pc, req>>
    BY <1>3 DEF EnforceTeamLimit, inviteVars
  <2>3. \A x \in Tenants : /\ ToSet(joined'[x]) \subseteq ToSet(joined[x])
                           /\ IsInjective(joined[x]) => IsInjective(joined'[x])
                           /\ joined[x] = <<>> => joined'[x] = <<>>
    <3>1. joined[t] \in Seq(Users)
      BY <1>1 DEF RowsTypeOK
    <3> DEFINE s == SubSeq(joined[t], 1, n)
    <3>2. ToSet(s) \subseteq ToSet(joined[t]) /\ (IsInjective(joined[t]) => IsInjective(s))
          /\ s \in Seq(Users)
      BY <3>1, PrefixProperties
    <3>3. joined[t] = <<>> => s = <<>>
      BY <3>1, <3>2, EmptyRows
    <3> HIDE DEF s
    <3>4. \A x \in Tenants : joined'[x] = IF x = t THEN s ELSE joined[x]
      BY <1>1, <2>1 DEF RowsTypeOK, s
    <3>5. QED
      BY <3>2, <3>3, <3>4
  <2>4. FreshUntouched' /\ OneCreator' /\ NoOwnerDeparts'
    BY <2>2, <2>3 DEF RInv, FreshUntouched, Fresh, OneCreator, NoOwnerDeparts
  <2>5. OneRow'
    BY <2>2, <2>3 DEF RInv, OneRow
  <2>6. QED
    BY <2>4, <2>5 DEF RInv
<1>4. QED
  BY <1>1, <1>2, <1>3 DEF PlanStep, HistoryTypeOK

LEMMA RInvNext ==
  ASSUME TInv, RInv, [Next]_vars
  PROVE  RInv'
<1>1. CASE Next
  BY <1>1, StartRows, ContinueRows, OwnerStepRows, PlanStepRows DEF Next
<1>2. CASE UNCHANGED vars
  BY <1>2 DEF vars, teamVars, inviteVars, planVars, RInv, FreshUntouched, Fresh, OneCreator,
              OneRow, NoOwnerDeparts
<1>3. QED
  BY <1>1, <1>2

LEMMA RInvInit == Init => RInv
<1> SUFFICES ASSUME Init PROVE RInv
  OBVIOUS
<1>1. \A t \in Tenants : Fresh(t) => t # Team /\ t # Home
  BY TenantsAssumption DEF Init, Fresh
<1>2. FreshUntouched
  BY <1>1 DEF Init, FreshUntouched, Accepting, Quitting
<1>3. OneCreator /\ NoOwnerDeparts
  BY DEF Init, OneCreator, NoOwnerDeparts
<1>4. OneRow
  BY ToSetEmpty, TenantsAssumption DEF Init, OneRow
<1>5. QED
  BY <1>2, <1>3, <1>4 DEF RInv

------------------------------------------------------------------------------
(* Every tenant has its owner.                                              *)

\* A request is between the two statements that give tenant t its owner, or take it away.
InHand(h, t) ==
  \/ pc[h] = "own"  /\ req[h].org = t
  \/ pc[h] = "drop" /\ req[h].old.tenant = t

\* The second half of EveryTenantOwned; the first is in OneRow.
Held ==
  \A t \in Tenants : Exists(t) =>
    owners[t] # {} \/ t \in abandoned \/ \E h \in Handlers : InHand(h, t)

LEMMA OwnedParts == RInv /\ Held => EveryTenantOwned
BY DEF RInv, OneRow, Held, InHand, EveryTenantOwned

\* A step of request h answers for the tenants it touches.
LEMMA HeldStep ==
  ASSUME Held, NEW h \in Handlers, Only(h), abandoned \subseteq abandoned',
         \A t \in Tenants : Exists(t)' =>
           \/ owners'[t] # {} \/ t \in abandoned' \/ InHand(h, t)'
           \/ Exists(t) /\ owners[t] = {} /\ ~InHand(h, t)
  PROVE  Held'
<1> SUFFICES ASSUME NEW t \in Tenants, Exists(t)'
             PROVE  owners'[t] # {} \/ t \in abandoned' \/ \E g \in Handlers : InHand(g, t)'
  BY DEF Held
<1>1. CASE Exists(t) /\ owners[t] = {} /\ ~InHand(h, t)
  BY <1>1 DEF Held, InHand, Only
<1>2. CASE owners'[t] # {} \/ t \in abandoned' \/ InHand(h, t)'
  BY <1>2
<1>3. QED
  BY <1>1, <1>2

\* A request that touches neither the tenants nor their owners.
LEMMA HeldStays ==
  ASSUME Held, NEW h \in Handlers, Only(h), UNCHANGED <<plan, owners>>, abandoned \subseteq abandoned',
         \A t \in Tenants : InHand(h, t) => t \in abandoned'
  PROVE  Held'
BY HeldStep DEF Exists

LEMMA StartHeld ==
  ASSUME TInv, RInv, Held, NEW h \in Handlers, Start(h)
  PROVE  Held'
<1>1. RowsTypeOK
  BY TypeParts DEF TInv
<1>2. UNCHANGED <<plan, abandoned>>
  BY DEF Start, Register, SetupOrg, SSOLogin, RemoveMember, LeaveOrganization, AcceptInvite,
         AcceptInviteJWT, SSOInvited, planVars, historyVars
<1>3. \A t \in Tenants : owners'[t] = owners[t]
  <2>1. ASSUME NEW x \in Tenants, NEW u \in Users,
               RemoveMember(h, x, u) \/ LeaveOrganization(h, x, u)
        PROVE  \A t \in Tenants : owners'[t] = owners[t]
    <3>1. RemoveUserFromOrg(u, x) /\ u \notin owners[x]
      BY <2>1 DEF RemoveMember, LeaveOrganization, RInv, OneRow
    <3>2. owners[x] \ {u} = owners[x]
      BY <3>1
    <3>3. QED
      BY <1>1, <3>1, <3>2, RemoveEffect
  <2>2. QED
    BY <2>1 DEF Start, Register, SetupOrg, SSOLogin, AcceptInvite, AcceptInviteJWT, SSOInvited,
                teamVars
<1>4. CASE UNCHANGED <<pc, req>>
  BY <1>2, <1>3, <1>4 DEF Held, Exists, InHand
<1>5. CASE pc[h] = "idle" /\ Only(h)
  BY <1>2, <1>3, <1>5, HeldStep DEF Exists, InHand
<1>6. (Only(h) /\ pc[h] = "idle") \/ UNCHANGED <<pc, req>>
  <2>1. ASSUME NEW u \in Users, Register(h, u) \/ SetupOrg(h, u)
        PROVE  Only(h) /\ pc[h] = "idle"
    BY <2>1, RegisterType, SetupOrgType DEF Register, SetupOrg, Begin, Becomes
  <2>2. ASSUME NEW u \in Users, NEW t \in Tenants, RemoveMember(h, t, u) \/ LeaveOrganization(h, t, u)
        PROVE  Only(h) /\ pc[h] = "idle"
    BY <2>2, RemoveMemberType, LeaveOrganizationType
    DEF RemoveMember, LeaveOrganization, Begin, Becomes
  <2>3. ASSUME NEW u \in Users, NEW i \in invites,
               AcceptInvite(h, i) \/ AcceptInviteJWT(h, u, i) \/ SSOInvited(h, u, i)
        PROVE  Only(h) /\ pc[h] = "idle"
    BY <2>3, AcceptInviteType, AcceptInviteJWTType, SSOInvitedType, ZenonT(60)
    DEF AcceptInvite, AcceptInviteJWT, SSOInvited, Joining, Becomes
  <2>4. ASSUME NEW u \in Users, SSOLogin(h, u)
        PROVE  (Only(h) /\ pc[h] = "idle") \/ UNCHANGED <<pc, req>>
    BY <2>4, SSOLoginType DEF Becomes
  <2>5. \A i \in invites : i.user \in Users
    BY TypeParts DEF TInv, InvitesTypeOK, Invites
  <2>6. QED
    BY <2>1, <2>2, <2>3, <2>4, <2>5, UsersAssumption DEF Start
<1>7. QED
  BY <1>4, <1>5, <1>6

LEMMA ContinueHeld ==
  ASSUME TInv, RInv, Held, NEW h \in Handlers, Continue(h)
  PROVE  Held'
<1>1. RowsTypeOK /\ InvitesTypeOK /\ Aimed
  BY TypeParts DEF TInv
<1>2. CASE CreateTenant(h)
  <2>1. PICK t \in Tenants :
          /\ plan[t] = "new" /\ plan' = [plan EXCEPT ![t] = "free"]
          /\ Only(h) /\ pc'[h] = "own" /\ req'[h].org = t
    BY <1>2, CreateTenantType
  <2>2. pc[h] = "create" /\ UNCHANGED <<owners, abandoned>>
    BY <1>2 DEF CreateTenant, teamVars, historyVars
  <2>3. \A x \in Tenants : Exists(x)' => InHand(h, x)' \/ (Exists(x) /\ ~InHand(h, x))
    BY <1>1, <2>1, <2>2 DEF Exists, InHand, RowsTypeOK
  <2>4. QED
    BY <2>1, <2>2, <2>3, HeldStep
<1>3. CASE CreateTenantFails(h)
  <2>1. Only(h) /\ pc[h] = "create" /\ UNCHANGED plan
    BY <1>3, CreateTenantFailsType DEF CreateTenantFails, Becomes, planVars
  <2>2. abandoned' = abandoned \cup {t \in Tenants : req[h].user \in owners[t]}
        /\ \A t \in Tenants : owners'[t] = owners[t] \ {req[h].user}
    BY <1>1, <1>3, CreateTenantFailsType, DeleteUserEffect DEF CreateTenantFails, DeleteUser
  <2>3. QED
    BY <2>1, <2>2, HeldStep DEF Exists, InHand
<1>4. CASE Own(h)
  <2>1. Only(h) /\ pc[h] = "own" /\ UNCHANGED plan /\ req[h].org \in Tenants
    BY <1>4, OwnType DEF Own, Becomes, planVars
  <2>2. \/ owners' = owners /\ abandoned' = abandoned \cup {req[h].org}
        \/ owners' = [owners EXCEPT ![req[h].org] = @ \cup {req[h].user}] /\ UNCHANGED abandoned
    BY <1>4 DEF Own
  <2>3. QED
    BY <1>1, <2>1, <2>2, HeldStep, ZenonT(60) DEF Exists, InHand, RowsTypeOK
<1>5. CASE HandleInvite(h)
  <2>1. Only(h) /\ pc[h] = "invite" /\ UNCHANGED <<plan, owners, abandoned>>
    BY <1>5, HandleInviteType DEF HandleInvite, Becomes, Joining, teamVars, planVars, historyVars
  <2>2. QED
    BY <2>1, HeldStays DEF InHand
<1>6. CASE EmptyTenant(h)
  <2>1. Only(h) /\ pc[h] = "empty" /\ pc'[h] = "drop" /\ req'[h] = req[h]
        /\ UNCHANGED <<plan, abandoned>>
    BY <1>6, EmptyTenantType DEF EmptyTenant, Becomes, planVars
  <2>2. \A x \in Tenants \ {req[h].old.tenant} : owners'[x] = owners[x]
    BY <1>1, <1>6, EmptyTenantType, ClearedEffect DEF EmptyTenant, teamVars
  <2>3. QED
    BY <2>1, <2>2, HeldStep DEF Exists, InHand
<1>7. CASE DropTenant(h)
  <2> DEFINE t == req[h].old.tenant
  <2>1. Only(h) /\ pc[h] = "drop" /\ pc'[h] = "join" /\ t \in Tenants
    BY <1>7, DropTenantType DEF DropTenant
  <2>2. CASE plan' = [plan EXCEPT ![t] = "deleted"] /\ Cleared(t) /\ UNCHANGED abandoned
    <3>1. plan'[t] = "deleted" /\ "deleted" \notin Plans /\ \A x \in Tenants \ {t} : plan'[x] = plan[x]
      BY <1>1, <2>1, <2>2, LimitAssumption DEF RowsTypeOK
    <3>2. \A x \in Tenants \ {t} : owners'[x] = owners[x]
      BY <1>1, <2>1, <2>2, ClearedEffect
    <3>3. \A x \in Tenants : InHand(h, x) => x = t
      BY <2>1 DEF InHand
    <3> HIDE DEF t
    <3>4. \A x \in Tenants : Exists(x)' => x # t /\ Exists(x)
      BY <3>1 DEF Exists
    <3>5. QED
      BY <2>1, <2>2, <3>2, <3>3, <3>4, HeldStep
  <2>3. CASE UNCHANGED <<plan, owners>> /\ (abandoned' = abandoned \cup {t} \/ (~Exists(t) /\ UNCHANGED abandoned))
    BY <2>1, <2>3, HeldStep DEF InHand, Exists
  <2>4. QED
    BY <1>7, <2>2, <2>3 DEF DropTenant, teamVars
<1>8. CASE Depart(h)
  <2>1. Only(h) /\ pc[h] = "depart" /\ UNCHANGED <<plan, abandoned>>
    BY <1>8, DepartType DEF Depart, planVars, historyVars
  <2>2. \A x \in Tenants : owners'[x] = owners[x]
    <3> DEFINE t == req[h].old.tenant
               u == req[h].user
    <3>1. t \in Tenants /\ u \in Users /\ (RemoveUserFromOrg(u, t) \/ UNCHANGED owners)
      BY <1>8, DepartType DEF Depart, teamVars
    <3>2. owners[t] \ {u} = owners[t]
      BY <2>1 DEF RInv, NoOwnerDeparts
    <3> HIDE DEF t, u
    <3>3. QED
      BY <1>1, <3>1, <3>2, RemoveEffect
  <2>3. QED
    BY <2>1, <2>2, HeldStep DEF Exists, InHand
<1>9. CASE Join(h) \/ Consume(h)
  <2>1. Only(h) /\ pc[h] \in {"join", "consume"} /\ UNCHANGED <<plan, owners, abandoned>>
    BY <1>9, JoinType, ConsumeType DEF Join, Consume, Becomes, teamVars, planVars, historyVars
  <2>2. QED
    BY <2>1, HeldStays DEF InHand
<1>10. CASE JoinFails(h)
  <2>1. Only(h) /\ pc[h] = "join" /\ UNCHANGED plan
    BY <1>10, JoinFailsType DEF JoinFails, Becomes, planVars
  <2>2. CASE DeleteUser(req[h].user)
    <3>1. abandoned' = abandoned \cup {t \in Tenants : req[h].user \in owners[t]}
          /\ \A t \in Tenants : owners'[t] = owners[t] \ {req[h].user}
      BY <1>1, <1>10, <2>2, JoinFailsType, DeleteUserEffect DEF DeleteUser
    <3>2. QED
      BY <2>1, <3>1, HeldStep DEF Exists, InHand
  <2>3. CASE UNCHANGED <<owners, abandoned>>
    BY <2>1, <2>3, HeldStays DEF InHand
  <2>4. QED
    BY <1>10, <2>2, <2>3 DEF JoinFails, teamVars
<1>11. CASE Cut(h)
  <2>1. Only(h) /\ UNCHANGED <<plan, owners>>
    BY <1>11, CutType DEF Cut, Becomes, teamVars, planVars
  <2>2. abandoned \subseteq abandoned' /\ \A t \in Tenants : InHand(h, t) => t \in abandoned'
    BY <1>11 DEF Cut, InHand
  <2>3. QED
    BY <2>1, <2>2, HeldStays
<1>12. QED
  BY <1>2, <1>3, <1>4, <1>5, <1>6, <1>7, <1>8, <1>9, <1>10, <1>11 DEF Continue

LEMMA HeldNext ==
  ASSUME TInv, RInv, Held, [Next]_vars
  PROVE  Held'
<1>1. CASE OwnerStep
  BY <1>1, OwnerStepType DEF Held, Exists, InHand
<1>2. CASE PlanStep
  <2>1. RowsTypeOK
    BY TypeParts DEF TInv
  <2>2. UNCHANGED <<owners, pc, req, abandoned>> /\ \A t \in Tenants : Exists(t)' => Exists(t)
    BY <1>2, <2>1 DEF PlanStep, ChangePlan, EnforceTeamLimit, teamVars, Exists, RowsTypeOK
  <2>3. QED
    BY <2>2 DEF Held, InHand
<1>3. CASE UNCHANGED vars
  BY <1>3 DEF vars, teamVars, planVars, historyVars, Held, Exists, InHand
<1>4. QED
  BY <1>1, <1>2, <1>3, StartHeld, ContinueHeld DEF Next

\* EveryTenantOwned, for any number of users, tenants and requests at once: a tenant has at most
\* one owner, and none only between two statements of a request or for a cause it names.
THEOREM TenantsOwned == Spec => []EveryTenantOwned
<1>1. ASSUME Init PROVE Held
  <2>1. ASSUME NEW t \in Tenants, Exists(t)
        PROVE  owners[t] # {}
    <3>1. t = Team \/ t = Home
      BY <1>1, <2>1, LimitAssumption DEF Init, Exists
    <3>2. QED
      BY <1>1, <3>1, TenantsAssumption DEF Init
  <2>2. QED
    BY <2>1 DEF Held
<1>2. TInv /\ RInv /\ Held /\ [Next]_vars => (TInv /\ RInv /\ Held)'
  BY TInvNext, RInvNext, HeldNext
<1>3. QED
  BY TInvInit, RInvInit, <1>1, <1>2, OwnedParts, PTL DEF Spec

------------------------------------------------------------------------------
(* Nobody is stranded.  The invariant is stronger than the property: a      *)
(* request that is past the INSERT of the member no longer counts, since it *)
(* may end without another write, whatever other requests did meanwhile.    *)

Busy(h, u) == pc[h] \notin {"idle", "invite", "consume"} /\ req[h].user = u
Fine(u)    == Belongs(u) \/ u \in excused

CaredFor ==
  \A u \in Users : login[u] # {} => Fine(u) \/ \E h \in Handlers : Busy(h, u)

LEMMA CaredForParts == CaredFor => NobodyStranded
BY DEF CaredFor, Fine, Busy, NobodyStranded

\* A step of request h answers for the users it touches.
LEMMA CaredStep ==
  ASSUME CaredFor, NEW h \in Handlers, Only(h),
         \A u \in Users : login'[u] # {} =>
           \/ Fine(u)' \/ Busy(h, u)'
           \/ login[u] # {} /\ ~Fine(u) /\ ~Busy(h, u)
  PROVE  CaredFor'
<1> SUFFICES ASSUME NEW u \in Users, login'[u] # {}
             PROVE  Fine(u)' \/ \E g \in Handlers : Busy(g, u)'
  BY DEF CaredFor
<1>1. CASE login[u] # {} /\ ~Fine(u) /\ ~Busy(h, u)
  BY <1>1 DEF CaredFor, Busy, Only
<1>2. CASE Fine(u)' \/ Busy(h, u)'
  BY <1>2
<1>3. QED
  BY <1>1, <1>2

\* Who still belongs to a tenant when somebody else has gone.
LEMMA RemoveBelongs ==
  ASSUME RowsTypeOK, NEW u \in Users, NEW t \in Tenants, RemoveUserFromOrg(u, t),
         NEW v \in Users, v # u, Belongs(v)
  PROVE  Belongs(v)'
<1>1. PICK x \in Tenants : v \in Members(x)
  BY DEF Belongs
<1>2. joined[t] \in Seq(Users)
  BY DEF RowsTypeOK
<1>3. v \in ToSet(joined[t]) => v \in ToSet(RemoveFirst(joined[t], u))
  BY <1>2, RemoveFirstProperties
<1>4. CASE x = t
  BY <1>1, <1>3, <1>4, RemoveEffect DEF Belongs, Members
<1>5. CASE x # t
  BY <1>1, <1>5, RemoveEffect DEF Belongs, Members
<1>6. QED
  BY <1>4, <1>5

LEMMA DeleteBelongs ==
  ASSUME RowsTypeOK, InvitesTypeOK, NEW u \in Users, DeleteUser(u),
         NEW v \in Users, v # u, Belongs(v)
  PROVE  Belongs(v)'
<1>1. PICK x \in Tenants : v \in Members(x)
  BY DEF Belongs
<1>2. v \in ToSet(joined[x]) => v \in ToSet(RemoveFirst(joined[x], u))
  BY RemoveFirstProperties DEF RowsTypeOK
<1>3. QED
  BY <1>1, <1>2, DeleteUserEffect DEF Belongs, Members

LEMMA ClearedBelongs ==
  ASSUME RowsTypeOK, InvitesTypeOK, NEW u \in Users, NEW t \in Tenants, Cleared(t),
         Strand(LeftBy(t, u)), NEW v \in Users, v # u, Fine(v)
  PROVE  Fine(v)'
<1>1. CASE v \in excused
  BY <1>1 DEF Strand, Fine
<1>2. CASE Belongs(v) /\ \E x \in Tenants \ {t} : v \in Members(x)
  <2>1. PICK x \in Tenants \ {t} : v \in Members(x)
    BY <1>2
  <2>2. v \in Members(x)'
    BY <2>1, ClearedEffect DEF Members
  <2>3. QED
    BY <2>1, <2>2 DEF Fine, Belongs
<1>3. CASE Belongs(v) /\ ~\E x \in Tenants \ {t} : v \in Members(x)
  <2>1. v \in LeftBy(t, u)
    BY <1>3 DEF Belongs, LeftBy
  <2>2. QED
    BY <2>1 DEF Strand, Fine
<1>4. QED
  BY <1>1, <1>2, <1>3 DEF Fine

LEMMA SameBelongs ==
  ASSUME UNCHANGED <<owners, joined>>, NEW v \in Users, Belongs(v)
  PROVE  Belongs(v)'
BY DEF Belongs, Members

LEMMA StartCared ==
  ASSUME TInv, CaredFor, NEW h \in Handlers, Start(h)
  PROVE  CaredFor'
<1>1. RowsTypeOK
  BY TypeParts DEF TInv
<1>2. UNCHANGED excused
  BY DEF Start, Register, SetupOrg, SSOLogin, RemoveMember, LeaveOrganization, AcceptInvite,
         AcceptInviteJWT, SSOInvited, historyVars
<1>3. ASSUME NEW u \in Users, Only(h), Busy(h, u)', UNCHANGED <<owners, joined>>,
             \A v \in Users \ {u} : login'[v] = login[v],
             pc[h] = "idle"
      PROVE  CaredFor'
  <2>1. \A v \in Users : Fine(v) => Fine(v)'
    BY <1>2, <1>3, SameBelongs DEF Fine
  <2>2. QED
    BY <1>3, <2>1, CaredStep DEF Busy
<1>4. ASSUME NEW u \in Users, Register(h, u) \/ SetupOrg(h, u)
      PROVE  CaredFor'
  <2>1. Only(h) /\ Busy(h, u)'
    BY <1>4, RegisterType, SetupOrgType, NewReqType DEF Becomes, Busy, Ops
  <2>2. UNCHANGED <<owners, joined>> /\ pc[h] = "idle" /\ \A v \in Users \ {u} : login'[v] = login[v]
    BY <1>1, <1>4 DEF Register, SetupOrg, Begin, teamVars, RowsTypeOK
  <2>3. QED
    BY <1>3, <2>1, <2>2
<1>5. ASSUME NEW u \in Users, SSOLogin(h, u)
      PROVE  CaredFor'
  <2>1. UNCHANGED <<owners, joined>> /\ \A v \in Users \ {u} : login'[v] = login[v]
    BY <1>1, <1>5 DEF SSOLogin, teamVars, RowsTypeOK
  <2>2. CASE Belongs(u) /\ UNCHANGED <<pc, req>>
    <3>1. \A v \in Users : Fine(v) => Fine(v)'
      BY <1>2, <2>1, SameBelongs DEF Fine
    <3>2. Fine(u)'
      BY <2>2, <3>1 DEF Fine
    <3>3. QED
      BY <2>1, <2>2, <3>1, <3>2 DEF CaredFor, Busy
  <2>3. CASE Becomes(h, "create", NewReq("setup", u)) /\ pc[h] = "idle"
    <3>1. Only(h) /\ Busy(h, u)'
      BY <2>3, NewReqType DEF Becomes, Busy, Ops
    <3>2. QED
      BY <1>3, <2>1, <2>3, <3>1
  <2>4. QED
    BY <1>5, <2>2, <2>3, SSOLoginType
<1>6. ASSUME NEW t \in Tenants, NEW u \in Users, RemoveMember(h, t, u) \/ LeaveOrganization(h, t, u)
      PROVE  CaredFor'
  <2>1. Only(h) /\ Busy(h, u)'
    BY <1>6, RemoveMemberType, LeaveOrganizationType, NewReqType DEF Becomes, Busy, Ops
  <2>2. pc[h] = "idle" /\ UNCHANGED login /\ RemoveUserFromOrg(u, t)
    BY <1>6 DEF RemoveMember, LeaveOrganization, Begin
  <2>3. \A v \in Users \ {u} : Fine(v) => Fine(v)'
    BY <1>1, <1>2, <2>2, RemoveBelongs DEF Fine
  <2>4. QED
    BY <2>1, <2>2, <2>3, CaredStep DEF Busy
<1>7. \A i \in invites : i.user \in Users
  BY TypeParts DEF TInv, InvitesTypeOK, Invites
<1>8. ASSUME NEW u \in Users, NEW i \in invites,
             (u = i.user /\ AcceptInvite(h, i)) \/ AcceptInviteJWT(h, u, i) \/ SSOInvited(h, u, i)
      PROVE  CaredFor'
  <2>1. UNCHANGED <<owners, joined>>
    BY <1>8 DEF AcceptInvite, AcceptInviteJWT, SSOInvited, teamVars
  <2>2. \A v \in Users \ {u} : login'[v] = login[v]
    BY <1>1, <1>8 DEF AcceptInvite, AcceptInviteJWT, SSOInvited, RowsTypeOK
  <2>3. pc[h] = "idle"
    BY <1>8 DEF AcceptInvite, AcceptInviteJWT, SSOInvited, Begin, Admit, Move
  <2>4. \/ i.tenant \in Tenants /\ Joining(h, u, i.tenant)
        \/ Only(h) /\ pc'[h] \in {"create", "join"} /\ req'[h].user = u
    BY <1>8, AcceptInviteType, AcceptInviteJWTType, SSOInvitedType
  <2>5. Only(h) /\ Busy(h, u)'
    <3>1. CASE i.tenant \in Tenants /\ Joining(h, u, i.tenant)
      <4>1. pc'[h] \in Accepting \ {"drop"} /\ req'[h].user = u
        BY <3>1, JoiningStep
      <4>2. QED
        BY <3>1, <4>1 DEF Joining, Becomes, Busy, Accepting
    <3>2. CASE Only(h) /\ pc'[h] \in {"create", "join"} /\ req'[h].user = u
      BY <3>2 DEF Busy
    <3>3. QED
      BY <2>4, <3>1, <3>2
  <2>6. QED
    BY <1>3, <2>1, <2>2, <2>3, <2>5
<1>9. QED
  BY <1>4, <1>5, <1>6, <1>7, <1>8, UsersAssumption DEF Start

LEMMA ContinueCared ==
  ASSUME TInv, CaredFor, NEW h \in Handlers, Continue(h)
  PROVE  CaredFor'
<1>1. RowsTypeOK /\ InvitesTypeOK /\ req[h].user \in Users
  BY TypeParts DEF TInv, RequestsTypeOK, Request
<1> PICK u \in Users : u = req[h].user
  BY <1>1
\* The user goes on being taken care of, and the others keep what they have.
<1>2. ASSUME Only(h), UNCHANGED login, Busy(h, u)' \/ Fine(u)',
             \A v \in Users \ {u} : Fine(v) => Fine(v)'
      PROVE  CaredFor'
  BY <1>2, CaredStep DEF Busy
<1>3. ASSUME UNCHANGED <<owners, joined>>, excused \subseteq excused'
      PROVE  \A v \in Users : Fine(v) => Fine(v)'
  BY <1>3, SameBelongs DEF Fine
<1>4. ASSUME Only(h), DeleteUser(u), UNCHANGED excused
      PROVE  CaredFor'
  <2>1. login' = [login EXCEPT ![u] = {}]
    BY <1>1, <1>4, DeleteUserEffect
  <2>2. \A v \in Users \ {u} : Fine(v) => Fine(v)'
    BY <1>1, <1>4, DeleteBelongs DEF Fine
  <2>3. \A v \in Users : login'[v] # {} => v # u /\ login[v] # {}
    BY <1>1, <2>1 DEF RowsTypeOK
  <2>4. QED
    BY <1>4, <2>2, <2>3, CaredStep DEF Busy
<1>5. CASE CreateTenant(h)
  <2>1. Only(h) /\ Busy(h, u)' /\ UNCHANGED <<login, owners, joined, excused>>
    BY <1>5, CreateTenantType DEF CreateTenant, Busy, teamVars, historyVars
  <2>2. QED
    BY <1>2, <1>3, <2>1
<1>6. CASE CreateTenantFails(h)
  BY <1>4, <1>6, CreateTenantFailsType DEF CreateTenantFails, Becomes
<1>7. CASE Own(h)
  <2> DEFINE t == req[h].org
  <2>1. Only(h) /\ UNCHANGED <<login, joined>> /\ t \in Tenants
    BY <1>7, OwnType DEF Own, Becomes
  <2>2. CASE login[u] = {}
    <3>1. UNCHANGED <<owners, excused>>
      BY <1>7, <2>2 DEF Own
    <3>2. \A v \in Users : Fine(v) => Fine(v)'
      BY <1>3, <2>1, <3>1
    <3>3. QED
      BY <2>1, <2>2, <3>2, CaredStep DEF Busy
  <2>3. CASE login[u] # {}
    <3>1. owners' = [owners EXCEPT ![t] = @ \cup {u}] /\ excused' = excused \ {u}
      BY <1>7, <2>3 DEF Own, Settle
    <3>2. \A x \in Tenants : owners[x] \subseteq owners'[x]
      BY <1>1, <3>1 DEF RowsTypeOK
    <3>3. u \in owners'[t]
      BY <1>1, <2>1, <3>1 DEF RowsTypeOK
    <3>4. Fine(u)' /\ \A v \in Users \ {u} : Fine(v) => Fine(v)'
      BY <2>1, <3>1, <3>2, <3>3 DEF Fine, Belongs, Members
    <3>5. QED
      BY <1>2, <2>1, <3>4
  <2>4. QED
    BY <2>2, <2>3
<1>8. CASE HandleInvite(h)
  <2>1. UNCHANGED <<login, owners, joined, excused>> /\ pc[h] = "invite"
    BY <1>8 DEF HandleInvite, teamVars, historyVars
  <2>2. Only(h)
    BY <1>8, HandleInviteType DEF Becomes, Joining
  <2>3. \A v \in Users : Fine(v) => Fine(v)'
    BY <1>3, <2>1
  <2>4. QED
    BY <2>1, <2>2, <2>3, CaredStep DEF Busy
<1>9. CASE EmptyTenant(h)
  <2>1. Only(h) /\ Busy(h, u)' /\ UNCHANGED login
    BY <1>9, EmptyTenantType DEF EmptyTenant, Becomes, Busy
  <2>2. \A v \in Users \ {u} : Fine(v) => Fine(v)'
    <3>1. CASE Cleared(req[h].old.tenant) /\ Strand(LeftBy(req[h].old.tenant, u))
      BY <1>1, <1>9, <3>1, EmptyTenantType, ClearedBelongs
    <3>2. CASE UNCHANGED <<owners, joined, excused>>
      BY <1>3, <3>2
    <3>3. QED
      BY <1>9, <3>1, <3>2 DEF EmptyTenant, teamVars
  <2>3. QED
    BY <1>2, <2>1, <2>2
<1>10. CASE DropTenant(h)
  <2> DEFINE t == req[h].old.tenant
  <2>1. Only(h) /\ Busy(h, u)' /\ UNCHANGED login /\ t \in Tenants
    BY <1>10, DropTenantType DEF DropTenant, Busy
  <2>2. CASE Cleared(t) /\ Strand(LeftBy(t, u))
    <3>1. \A v \in Users \ {u} : Fine(v) => Fine(v)'
      BY <1>1, <2>1, <2>2, ClearedBelongs
    <3>2. QED
      BY <1>2, <2>1, <3>1
  <2>3. CASE UNCHANGED <<owners, joined, excused>>
    BY <1>2, <1>3, <2>1, <2>3
  <2>4. QED
    BY <1>10, <2>2, <2>3 DEF DropTenant, teamVars
<1>11. CASE Depart(h)
  <2>1. Only(h) /\ Busy(h, u)' /\ UNCHANGED <<login, excused>>
    BY <1>11, DepartType DEF Depart, Busy, historyVars
  <2>2. \A v \in Users \ {u} : Belongs(v) => Belongs(v)'
    BY <1>1, <1>11, DepartType, RemoveBelongs, SameBelongs DEF Depart, teamVars
  <2>3. QED
    BY <1>2, <2>1, <2>2 DEF Fine
<1>12. CASE Join(h)
  <2> DEFINE t == req[h].org
  <2>1. Only(h) /\ UNCHANGED <<login, owners>> /\ t \in Tenants /\ excused' = excused \ {u}
        /\ (\A x \in Tenants \ {t} : joined'[x] = joined[x]) /\ joined'[t] = Append(joined[t], u)
    BY <1>12, JoinType DEF Join, Settle
  <2>2. ToSet(joined'[t]) = ToSet(joined[t]) \cup {u}
    <3>1. joined[t] \in Seq(Users)
      BY <1>1, <2>1 DEF RowsTypeOK
    <3>2. QED
      BY <1>1, <2>1, <3>1, AppendedProperties
  <2>3. \A x \in Tenants : ToSet(joined[x]) \subseteq ToSet(joined'[x])
    BY <2>1, <2>2
  <2>4. Fine(u)' /\ \A v \in Users \ {u} : Fine(v) => Fine(v)'
    BY <2>1, <2>2, <2>3 DEF Fine, Belongs, Members
  <2>5. QED
    BY <1>2, <2>1, <2>4
<1>13. CASE JoinFails(h)
  <2>1. Only(h)
    BY <1>13, JoinFailsType DEF Becomes
  <2>2. CASE Strand({u} \ {v \in Users : Belongs(v)}) /\ UNCHANGED <<login, owners, joined>>
    <3>1. excused \subseteq excused' /\ (Belongs(u) \/ u \in excused')
      BY <1>1, <2>2 DEF Strand
    <3>2. QED
      BY <1>1, <1>2, <1>3, <2>1, <2>2, <3>1 DEF Fine
  <2>3. QED
    BY <1>4, <1>13, <2>1, <2>2 DEF JoinFails, teamVars
<1>14. CASE Consume(h)
  <2>1. Only(h) /\ UNCHANGED <<login, owners, joined, excused>> /\ pc[h] = "consume"
    BY <1>14, ConsumeType DEF Consume, Becomes, teamVars, historyVars
  <2>2. \A v \in Users : Fine(v) => Fine(v)'
    BY <1>3, <2>1
  <2>3. QED
    BY <2>1, <2>2, CaredStep DEF Busy
<1>15. CASE Cut(h)
  <2>1. Only(h) /\ UNCHANGED <<login, owners, joined>>
        /\ Strand({u} \ {v \in Users : Belongs(v)})
    BY <1>15, CutType DEF Cut, Becomes, teamVars
  <2>2. excused \subseteq excused' /\ (Belongs(u) \/ u \in excused')
    BY <1>1, <2>1 DEF Strand
  <2>3. QED
    BY <1>1, <1>2, <1>3, <2>1, <2>2 DEF Fine
<1>16. QED
  BY <1>5, <1>6, <1>7, <1>8, <1>9, <1>10, <1>11, <1>12, <1>13, <1>14, <1>15 DEF Continue

LEMMA CaredNext ==
  ASSUME TInv, CaredFor, [Next]_vars
  PROVE  CaredFor'
<1>1. CASE OwnerStep
  BY <1>1, OwnerStepType DEF CaredFor, Fine, Belongs, Members, Busy
<1>2. ASSUME NEW t \in Tenants, NEW p \in Plans, ChangePlan(t, p)
      PROVE  CaredFor'
  BY <1>2 DEF ChangePlan, teamVars, CaredFor, Fine, Belongs, Members, Busy
<1>3. ASSUME NEW t \in Tenants, NEW p \in Plans, EnforceTeamLimit(t, p)
      PROVE  CaredFor'
  <2>1. RowsTypeOK /\ UNCHANGED <<login, owners, pc, req>>
    BY <1>3, TypeParts DEF TInv, EnforceTeamLimit
  <2>2. PICK n \in 0..Len(joined[t]) :
          /\ joined' = [joined EXCEPT ![t] = SubSeq(joined[t], 1, n)]
          /\ excused' = excused \cup (ToSet(joined[t]) \ ToSet(SubSeq(joined[t], 1, n)))
    BY <1>3, <2>1, EnforceEffect
  <2> DEFINE s == ToSet(SubSeq(joined[t], 1, n))
  <2>3. \A x \in Tenants : ToSet(joined'[x]) = IF x = t THEN s ELSE ToSet(joined[x])
    BY <2>1, <2>2 DEF RowsTypeOK
  <2>4. excused' = excused \cup (ToSet(joined[t]) \ s)
    BY <2>2
  <2> HIDE DEF s
  <2>5. \A v \in Users : Fine(v) => Fine(v)'
    BY <2>1, <2>3, <2>4 DEF Fine, Belongs, Members
  <2>6. QED
    BY <2>1, <2>5 DEF CaredFor, Busy
<1>4. CASE UNCHANGED vars
  BY <1>4 DEF vars, teamVars, historyVars, CaredFor, Fine, Belongs, Members, Busy
<1>5. PlanStep => CaredFor'
  BY <1>2, <1>3, TypeParts DEF TInv, HistoryTypeOK, PlanStep
<1>6. QED
  BY <1>1, <1>4, <1>5, StartCared, ContinueCared DEF Next

\* NobodyStranded: RemoveMember and LeaveOrganization say that the user is never without a tenant;
\* for any number of requests at once, only the four causes that excused records make it untrue.
THEOREM NobodyLeftOut == Spec => []NobodyStranded
<1>1. ASSUME Init PROVE CaredFor
  <2>1. \A u \in Users : login[u] # {} => Belongs(u)
    BY <1>1, TenantsAssumption DEF Init, Belongs, Members
  <2>2. QED
    BY <2>1 DEF CaredFor, Fine
<1>2. TInv /\ CaredFor /\ [Next]_vars => (TInv /\ CaredFor)'
  BY TInvNext, CaredNext
<1>3. QED
  BY TInvInit, <1>1, <1>2, CaredForParts, PTL DEF Spec

------------------------------------------------------------------------------
(* The team limit.                                                          *)

\* Which requests can come to join: AcceptInvite, which checked the limit, and those that do not.
Errands ==
  \A h \in Handlers :
    /\ pc[h] \in Accepting => req[h].op \in Checked \cup Walkin
    /\ pc[h] \in {"create", "own"} /\ req[h].invite # 0 => req[h].op = "walkin"
    /\ pc[h] = "invite" => req[h].op = "walkin"

LEMMA ErrandsStep ==
  ASSUME Errands, NEW h \in Handlers, Only(h),
         /\ pc'[h] \in Accepting => req'[h].op \in Checked \cup Walkin
         /\ pc'[h] \in {"create", "own"} /\ req'[h].invite # 0 => req'[h].op = "walkin"
         /\ pc'[h] = "invite" => req'[h].op = "walkin"
  PROVE  Errands'
BY DEF Errands, Only

LEMMA ErrandsNext ==
  ASSUME TInv, Errands, [Next]_vars
  PROVE  Errands'
<1>1. {"create", "own", "invite", "idle", "consume"} \cap Accepting = {}
  BY DEF Accepting
<1>2. ASSUME NEW h \in Handlers, Only(h), pc'[h] = "create", req'[h].invite = 0
      PROVE  Errands'
  BY <1>1, <1>2, ErrandsStep
<1>3. ASSUME NEW h \in Handlers, Only(h), pc'[h] \in {"idle", "consume"}
      PROVE  Errands'
  BY <1>1, <1>3, ErrandsStep
<1>4. ASSUME NEW h \in Handlers, Only(h), pc'[h] \in Accepting,
             req'[h].op \in Checked \cup Walkin
      PROVE  Errands'
  BY <1>1, <1>4, ErrandsStep
<1>5. ASSUME NEW h \in Handlers, NEW u \in Users,
             Register(h, u) \/ SetupOrg(h, u) \/ SSOLogin(h, u)
      PROVE  Errands'
  <2>1. CASE UNCHANGED <<pc, req>>
    BY <2>1 DEF Errands
  <2>2. QED
    BY <1>2, <1>5, <2>1, RegisterType, SetupOrgType, SSOLoginType, NewReqType DEF Becomes, Ops
<1>6. ASSUME NEW h \in Handlers, NEW t \in Tenants, NEW u \in Users,
             RemoveMember(h, t, u) \/ LeaveOrganization(h, t, u)
      PROVE  Errands'
  BY <1>2, <1>6, RemoveMemberType, LeaveOrganizationType, NewReqType DEF Becomes, Ops
<1>7. ASSUME NEW h \in Handlers, NEW u \in Users, NEW t \in Tenants, Joining(h, u, t)
      PROVE  Only(h) /\ pc'[h] \in Accepting
  BY <1>7, JoiningStep DEF Joining, Becomes
<1>8. ASSUME NEW h \in Handlers, NEW u \in Users, NEW i \in invites,
             (u = i.user /\ AcceptInvite(h, i)) \/ AcceptInviteJWT(h, u, i) \/ SSOInvited(h, u, i)
      PROVE  Errands'
  <2>1. \/ Joining(h, u, i.tenant) /\ req'[h].op \in {"accept", "walkin"}
        \/ Only(h) /\ pc'[h] = "join" /\ req'[h].op \in Signup
        \/ Only(h) /\ pc'[h] = "create" /\ req'[h].op = "walkin"
    BY <1>8, AcceptInviteType, AcceptInviteJWTType, SSOInvitedType
  <2>2. i.tenant \in Tenants
    BY <1>8, AcceptInviteType, AcceptInviteJWTType, SSOInvitedType
  <2>3. CASE Joining(h, u, i.tenant) /\ req'[h].op \in {"accept", "walkin"}
    BY <1>4, <1>7, <2>2, <2>3 DEF Checked, Walkin
  <2>4. CASE Only(h) /\ pc'[h] = "join" /\ req'[h].op \in Signup
    BY <1>4, <2>4 DEF Accepting, Checked, Walkin, Signup
  <2>5. CASE Only(h) /\ pc'[h] = "create" /\ req'[h].op = "walkin"
    BY <1>1, <2>5, ErrandsStep
  <2>6. QED
    BY <2>1, <2>3, <2>4, <2>5
<1>9. ASSUME NEW h \in Handlers, CreateTenant(h)
      PROVE  Errands'
  <2>1. Only(h) /\ pc[h] = "create" /\ pc'[h] = "own" /\ req'[h].op = req[h].op
        /\ req'[h].invite = req[h].invite
    BY <1>9, CreateTenantType DEF CreateTenant
  <2>2. QED
    BY <1>1, <2>1, ErrandsStep DEF Errands
<1>10. ASSUME NEW h \in Handlers, Own(h)
       PROVE  Errands'
  <2>1. CASE Becomes(h, "idle", NoReq)
    BY <1>3, <2>1 DEF Becomes
  <2>2. CASE req[h].invite # 0 /\ Becomes(h, "invite", req[h])
    <3>1. req[h].op = "walkin"
      BY <1>10, <2>2 DEF Own, Errands
    <3>2. QED
      BY <1>1, <2>2, <3>1, ErrandsStep DEF Becomes
  <2>3. QED
    BY <1>10, <2>1, <2>2, OwnType
<1>11. ASSUME NEW h \in Handlers, HandleInvite(h)
       PROVE  Errands'
  <2>1. CASE Becomes(h, "idle", NoReq)
    BY <1>3, <2>1 DEF Becomes
  <2>2. ASSUME NEW i \in invites, i.tenant \in Tenants, Joining(h, req[h].user, i.tenant),
               req'[h].op = req[h].op
        PROVE  Errands'
    <3>1. req[h].op = "walkin" /\ req[h].user \in Users
      BY <1>11, HandleInviteType DEF HandleInvite, Errands
    <3>2. QED
      BY <1>4, <1>7, <2>2, <3>1 DEF Walkin
  <2>3. QED
    BY <1>11, <2>1, <2>2, HandleInviteType
<1>12. ASSUME NEW h \in Handlers, EmptyTenant(h) \/ DropTenant(h) \/ Depart(h)
       PROVE  Errands'
  <2>1. Only(h) /\ pc[h] \in Accepting /\ pc'[h] \in Accepting /\ req'[h].op = req[h].op
    BY <1>12, EmptyTenantType, DropTenantType, DepartType
    DEF EmptyTenant, DropTenant, Depart, Becomes, Accepting
  <2>2. QED
    BY <1>4, <2>1 DEF Errands
<1>13. ASSUME NEW h \in Handlers,
              Join(h) \/ CreateTenantFails(h) \/ JoinFails(h) \/ Consume(h) \/ Cut(h)
       PROVE  Errands'
  BY <1>3, <1>13, JoinType, CreateTenantFailsType, JoinFailsType, ConsumeType, CutType DEF Becomes
<1>14. CASE UNCHANGED <<pc, req>>
  BY <1>14 DEF Errands
<1>15. OwnerStep \/ PlanStep \/ UNCHANGED vars => UNCHANGED <<pc, req>>
  BY OwnerStepType DEF PlanStep, ChangePlan, EnforceTeamLimit, vars
<1>16. ASSUME NEW h \in Handlers, Start(h) PROVE Errands'
  <2>1. \A i \in invites : i.user \in Users
    BY TypeParts DEF TInv, InvitesTypeOK, Invites
  <2>2. QED
    BY <1>5, <1>6, <1>8, <1>16, <2>1, UsersAssumption DEF Start
<1>17. ASSUME NEW h \in Handlers, Continue(h) PROVE Errands'
  BY <1>9, <1>10, <1>11, <1>12, <1>13, <1>17 DEF Continue
<1>18. QED
  BY <1>14, <1>15, <1>16, <1>17 DEF Next

\* The members of t whom the limit counted, and the requests that passed the check.
Load(t) == Cardinality(Members(t) \ walkins[t]) + Cardinality(Waiting(t))

\* A tenant that never moved to a smaller plan keeps the tighter bound even while a trim is
\* pending; one that did is bounded again once the trim has come.
Bounded(t) ==
  (Exists(t) /\ Limit[plan[t]] # Unlimited) =>
    IF t \in downgraded
    THEN <<t, plan[t]>> \notin enforcing => Load(t) <= Limit[plan[t]] + Cardinality(Handlers)
    ELSE Load(t) <= Limit[plan[t]] + Cardinality(Handlers) - 1
LoadBounded == \A t \in Tenants : Bounded(t)

LEMMA LimitType ==
  /\ \A p \in Plans : Limit[p] # Unlimited => Limit[p] \in Nat /\ Limit[p] >= 1
  /\ \A p \in Plans : Limit[p] \in Int
  /\ IsFiniteSet(Handlers) /\ Cardinality(Handlers) \in Nat /\ Cardinality(Handlers) >= 1
<1>1. IsFiniteSet(Handlers) /\ Cardinality(Handlers) \in Nat /\ Cardinality(Handlers) # 0
  BY HandlersAssumption, FS_CardinalityType, FS_EmptySet
<1>2. \A p \in Plans : Limit[p] \in {-1} \cup (Nat \ {0})
  BY LimitAssumption DEF Unlimited
<1>3. QED
  BY <1>1, <1>2 DEF Unlimited

LEMMA LoadType ==
  ASSUME RowsTypeOK, NEW t \in Tenants
  PROVE  /\ IsFiniteSet(Members(t)) /\ Cardinality(Members(t)) \in Nat
         /\ IsFiniteSet(Members(t) \ walkins[t]) /\ Cardinality(Members(t) \ walkins[t]) \in Nat
         /\ IsFiniteSet(Waiting(t)) /\ Cardinality(Waiting(t)) \in Nat
         /\ Cardinality(Waiting(t)) <= Cardinality(Handlers)
         /\ Load(t) \in Nat
<1>1. Members(t) \subseteq Users /\ Waiting(t) \subseteq Handlers
  BY MembersType DEF Waiting
<1>2. IsFiniteSet(Members(t)) /\ IsFiniteSet(Waiting(t))
      /\ Cardinality(Waiting(t)) <= Cardinality(Handlers)
  BY <1>1, FiniteAssumption, HandlersAssumption, FS_Subset
<1>3. IsFiniteSet(Members(t) \ walkins[t])
  BY <1>2, FS_Subset
<1>4. QED
  BY <1>2, <1>3, FS_CardinalityType DEF Load

LEMMA WaitingBounded ==
  ASSUME NEW t \in Tenants
  PROVE  /\ Cardinality(Waiting(t)) \in Nat /\ Cardinality(Waiting(t)) <= Cardinality(Handlers)
         /\ Cardinality(Waiting(t)') \in Nat /\ Cardinality(Waiting(t)') <= Cardinality(Handlers)
<1>1. ASSUME NEW W, W \subseteq Handlers
      PROVE  Cardinality(W) \in Nat /\ Cardinality(W) <= Cardinality(Handlers)
  BY <1>1, HandlersAssumption, FS_Subset, FS_CardinalityType
<1>2. Waiting(t) \subseteq Handlers /\ Waiting(t)' \subseteq Handlers
  BY DEF Waiting
<1>3. QED
  BY <1>1, <1>2

LEMMA LoadFalls ==
  ASSUME RowsTypeOK, RowsTypeOK', NEW t \in Tenants,
         (Members(t) \ walkins[t])' \subseteq Members(t) \ walkins[t], Waiting(t)' \subseteq Waiting(t)
  PROVE  Load(t)' <= Load(t) /\ Load(t)' \in Nat /\ Load(t) \in Nat
<1> DEFINE M == Members(t) \ walkins[t]
           W == Waiting(t)
<1>1. IsFiniteSet(M) /\ IsFiniteSet(W) /\ Cardinality(M) \in Nat /\ Cardinality(W) \in Nat
  BY LoadType
<1>2. PICK N : N = M'
  OBVIOUS
<1>3. PICK V : V = W'
  OBVIOUS
<1>4. N \subseteq M /\ V \subseteq W
  BY <1>2, <1>3
<1>5. Load(t) = Cardinality(M) + Cardinality(W) /\ Load(t)' = Cardinality(N) + Cardinality(V)
  BY <1>2, <1>3 DEF Load
<1> HIDE DEF M, W
<1>6. /\ IsFiniteSet(N) /\ Cardinality(N) <= Cardinality(M)
      /\ IsFiniteSet(V) /\ Cardinality(V) <= Cardinality(W)
  BY <1>1, <1>4, FS_Subset
<1>7. Cardinality(N) \in Nat /\ Cardinality(V) \in Nat
  BY <1>6, FS_CardinalityType
<1>8. QED
  BY <1>1, <1>5, <1>6, <1>7

\* Where the plan and what the billing service did stay, so does the bound if the load falls.
LEMMA BoundedStays ==
  ASSUME TInv, NEW t \in Tenants, Bounded(t), Load(t)' <= Load(t), Load(t)' \in Nat, Load(t) \in Nat,
         Exists(t)' => plan'[t] = plan[t], UNCHANGED <<enforcing, downgraded>>
  PROVE  Bounded(t)'
<1> SUFFICES ASSUME Exists(t)', Limit[plan'[t]] # Unlimited
             PROVE  IF t \in downgraded'
                    THEN <<t, plan'[t]>> \notin enforcing' =>
                           Load(t)' <= Limit[plan'[t]] + Cardinality(Handlers)
                    ELSE Load(t)' <= Limit[plan'[t]] + Cardinality(Handlers) - 1
  BY DEF Bounded
<1>1. plan'[t] = plan[t] /\ Exists(t)
  BY DEF Exists
<1>2. Limit[plan[t]] \in Nat /\ Cardinality(Handlers) \in Nat
  BY <1>1, LimitType DEF Exists
<1>3. QED
  BY <1>1, <1>2 DEF Bounded

\* A request that adds no member and passes no check.
Light(h) == \A t \in Tenants : h \in Waiting(t)' => h \in Waiting(t)

LEMMA LightStep ==
  ASSUME TInv, TInv', LoadBounded, NEW h \in Handlers, Only(h), Light(h), Shrinks,
         \A t \in Tenants : Exists(t)' => plan'[t] = plan[t],
         UNCHANGED <<walkins, enforcing, downgraded>>
  PROVE  LoadBounded'
<1> SUFFICES ASSUME NEW t \in Tenants
             PROVE  Bounded(t)'
  BY DEF LoadBounded
<1>1. RowsTypeOK /\ RowsTypeOK' /\ Bounded(t)
  BY TypeParts DEF TInv, LoadBounded
<1>2. (Members(t) \ walkins[t])' \subseteq Members(t) \ walkins[t]
  BY DEF Members, Shrinks
<1>3. Waiting(t)' \subseteq Waiting(t)
  <2> SUFFICES ASSUME NEW g \in Handlers, g \in Waiting(t)'
               PROVE  g \in Waiting(t)
    BY DEF Waiting
  <2>1. CASE g = h
    BY <2>1 DEF Light
  <2>2. CASE g # h
    BY <2>2 DEF Waiting, Only
  <2>3. QED
    BY <2>1, <2>2
<1>4. QED
  BY <1>1, <1>2, <1>3, LoadFalls, BoundedStays

\* AcceptInvite: the team has room for one, and at most the other requests are waiting already.
LEMMA AcceptBounded ==
  ASSUME TInv, TInv', LoadBounded, NEW h \in Handlers, NEW x \in Tenants, Only(h),
         pc[h] = "idle", req'[h].op \in Checked => ~Full(x), req'[h].org = x,
         UNCHANGED <<plan, owners, joined, walkins, enforcing, downgraded>>
  PROVE  LoadBounded'
<1> SUFFICES ASSUME NEW t \in Tenants
             PROVE  Bounded(t)'
  BY DEF LoadBounded
<1>1. RowsTypeOK /\ RowsTypeOK' /\ Bounded(t)
  BY TypeParts DEF TInv, LoadBounded
<1>2. (Members(t) \ walkins[t])' = Members(t) \ walkins[t]
  BY DEF Members
<1>3. CASE t # x
  <2>1. Waiting(t)' \subseteq Waiting(t)
    BY <1>3 DEF Waiting, Only
  <2>2. QED
    BY <1>1, <1>2, <2>1, LoadFalls, BoundedStays
<1>4. CASE req'[h].op \notin Checked
  <2>1. Waiting(t)' \subseteq Waiting(t)
    BY <1>4 DEF Waiting, Only
  <2>2. QED
    BY <1>1, <1>2, <2>1, LoadFalls, BoundedStays
<1>5. CASE t = x /\ ~Full(x)
  <2> SUFFICES ASSUME Exists(t)', Limit[plan'[t]] # Unlimited
               PROVE  Load(t)' <= Limit[plan[t]] + Cardinality(Handlers) - 1
    <3>1. Load(t)' \in Nat
      <4>1. Cardinality(Members(t) \ walkins[t]) \in Nat /\ Cardinality(Waiting(t)') \in Nat
        BY <1>1, LoadType, WaitingBounded
      <4>2. Load(t)' = Cardinality(Members(t) \ walkins[t]) + Cardinality(Waiting(t)')
        BY <1>2 DEF Load
      <4>3. QED
        BY <4>1, <4>2
    <3>2. Exists(t) => Limit[plan[t]] \in Int /\ Cardinality(Handlers) \in Nat
      BY LimitType DEF Exists
    <3>3. Exists(t)' => Exists(t)
      BY DEF Exists
    <3>4. QED
      BY <3>1, <3>2, <3>3 DEF Bounded
  <2>1. Limit[plan[t]] \in Nat /\ Cardinality(Handlers) \in Nat
    BY LimitType DEF Exists
  <2> DEFINE M == Members(t)
             N == Members(t) \ walkins[t]
  <2>2. Cardinality(M) < Limit[plan[t]] /\ Cardinality(M) \in Nat /\ IsFiniteSet(M)
    <3>1. Cardinality(M) \in Nat /\ IsFiniteSet(M)
      BY <1>1, LoadType
    <3>2. ~(Cardinality(M) >= Limit[plan[t]])
      BY <1>5 DEF Full
    <3>3. QED
      BY <2>1, <3>1, <3>2
  <2>3. Cardinality(N) <= Cardinality(M) /\ Cardinality(N) \in Nat
    BY <1>1, <2>2, FS_Subset, LoadType
  <2>4. Load(t)' = Cardinality(N) + Cardinality(Waiting(t)')
    BY <1>2 DEF Load
  <2> HIDE DEF M, N
  <2>5. Cardinality(Waiting(t)') \in Nat /\ Cardinality(Waiting(t)') <= Cardinality(Handlers)
    BY WaitingBounded
  <2>6. QED
    BY <2>1, <2>2, <2>3, <2>4, <2>5
<1>6. QED
  BY <1>3, <1>4, <1>5

LEMMA StartBounded ==
  ASSUME TInv, LoadBounded, NEW h \in Handlers, Start(h)
  PROVE  LoadBounded'
<1>1. TInv' /\ RowsTypeOK /\ InvitesTypeOK
  BY StartType, TypeParts DEF TInv
<1>2. UNCHANGED <<plan, walkins, enforcing, downgraded>>
  BY DEF Start, Register, SetupOrg, SSOLogin, RemoveMember, LeaveOrganization, AcceptInvite,
         AcceptInviteJWT, SSOInvited, planVars, historyVars
<1>3. "create" \notin Accepting /\ Accepting = {"empty", "drop", "depart", "join"}
  BY DEF Accepting
<1>4. ASSUME Only(h), pc'[h] = "create" \/ req'[h].op = "walkin"
      PROVE  Light(h)
  BY <1>4 DEF Light, Waiting, Checked
<1>5. ASSUME NEW u \in Users, Register(h, u) \/ SetupOrg(h, u)
      PROVE  LoadBounded'
  <2>1. Only(h) /\ pc'[h] = "create" /\ Shrinks
    BY <1>5, RegisterType, SetupOrgType, StaysShrinks
    DEF Becomes, Register, SetupOrg, teamVars, inviteVars
  <2>2. QED
    BY <1>1, <1>2, <1>4, <2>1, LightStep
<1>6. ASSUME NEW u \in Users, SSOLogin(h, u)
      PROVE  LoadBounded'
  <2>1. UNCHANGED <<owners, joined>>
    BY <1>6 DEF SSOLogin, teamVars
  <2>2. CASE UNCHANGED <<pc, req>>
    BY <1>2, <2>1, <2>2 DEF LoadBounded, Bounded, Load, Members, Waiting, Exists
  <2>3. CASE Only(h) /\ pc'[h] = "create"
    <3>1. Shrinks
      BY <1>6, StaysShrinks DEF SSOLogin, teamVars, inviteVars
    <3>2. QED
      BY <1>1, <1>2, <1>4, <2>3, <3>1, LightStep
  <2>4. QED
    BY <1>6, <2>2, <2>3, SSOLoginType DEF Becomes
<1>7. ASSUME NEW t \in Tenants, NEW u \in Users, RemoveMember(h, t, u) \/ LeaveOrganization(h, t, u)
      PROVE  LoadBounded'
  <2>1. Only(h) /\ pc'[h] = "create"
    BY <1>7, RemoveMemberType, LeaveOrganizationType DEF Becomes
  <2>2. Shrinks
    BY <1>1, <1>7, RemoveShrinks DEF RemoveMember, LeaveOrganization, inviteVars
  <2>3. QED
    BY <1>1, <1>2, <1>4, <2>1, <2>2, LightStep
<1>8. ASSUME NEW i \in invites, AcceptInvite(h, i)
      PROVE  LoadBounded'
  <2>1. UNCHANGED <<owners, joined>> /\ pc[h] = "idle"
    BY <1>8 DEF AcceptInvite, teamVars
  <2>2. i.tenant \in Tenants /\ i.user \in Users /\ (req'[h].op \in Checked => ~Full(i.tenant))
    BY <1>8, AcceptInviteType
  <2>3. Only(h) /\ req'[h].org = i.tenant
    <3>1. Joining(h, i.user, i.tenant) => Only(h) /\ req'[h].org = i.tenant
      BY <2>2, JoiningStep DEF Joining, Becomes
    <3>2. QED
      BY <1>8, <3>1, AcceptInviteType
  <2>4. QED
    BY <1>1, <1>2, <2>1, <2>2, <2>3, AcceptBounded
<1>9. ASSUME NEW u \in Users, NEW i \in invites, AcceptInviteJWT(h, u, i) \/ SSOInvited(h, u, i)
      PROVE  LoadBounded'
  <2>1. Shrinks
    BY <1>9, StaysShrinks DEF AcceptInviteJWT, SSOInvited, teamVars, inviteVars
  <2>2. Only(h) /\ (pc'[h] = "create" \/ req'[h].op = "walkin")
    BY <1>9, AcceptInviteJWTType, SSOInvitedType DEF Joining, Becomes
  <2>3. QED
    BY <1>1, <1>2, <1>4, <2>1, <2>2, LightStep
<1>10. \A i \in invites : i.user \in Users
  BY <1>1 DEF InvitesTypeOK, Invites
<1>11. QED
  BY <1>5, <1>6, <1>7, <1>8, <1>9, <1>10, UsersAssumption DEF Start

\* A tenant that nobody joined or waits for.
LEMMA CreateTenantBounded ==
  ASSUME TInv, RInv, LoadBounded, NEW h \in Handlers, CreateTenant(h)
  PROVE  LoadBounded'
<1>1. PICK x \in Tenants :
        /\ plan[x] = "new" /\ plan' = [plan EXCEPT ![x] = "free"]
        /\ Only(h) /\ pc'[h] = "own"
  BY CreateTenantType
<1>2. TInv' /\ RowsTypeOK /\ RowsTypeOK' /\ Aimed
  BY CreateTenantType, TypeParts DEF TInv
<1>3. UNCHANGED <<owners, joined, walkins, enforcing, downgraded>> /\ "own" \notin Accepting
  BY DEF CreateTenant, teamVars, historyVars, Accepting
<1> SUFFICES ASSUME NEW t \in Tenants
             PROVE  Bounded(t)'
  BY DEF LoadBounded
<1>4. Bounded(t)
  BY DEF LoadBounded
<1>5. (Members(t) \ walkins[t])' = Members(t) \ walkins[t]
  BY <1>3 DEF Members
<1>6. Waiting(t)' \subseteq Waiting(t)
  BY <1>1, <1>3 DEF Waiting, Only, Accepting
<1>7. CASE t # x
  <2>1. plan'[t] = plan[t]
    BY <1>1, <1>2, <1>7 DEF RowsTypeOK
  <2>2. QED
    BY <1>2, <1>3, <1>4, <1>5, <1>6, <2>1, LoadFalls, BoundedStays
<1>8. CASE t = x
  <2>1. plan'[t] = "free" /\ "free" \in Plans
    BY <1>1, <1>2, <1>8, LimitAssumption DEF RowsTypeOK
  <2>2. Members(t) = {} /\ Waiting(t) = {}
    <3>1. Fresh(t)
      BY <1>1, <1>8 DEF Fresh
    <3>2. owners[t] = {} /\ joined[t] = <<>>
          /\ \A g \in Handlers : pc[g] \in Accepting => req[g].org # t
      BY <3>1 DEF RInv, FreshUntouched
    <3>3. QED
      BY <3>2, ToSetEmpty DEF Members, Waiting, Accepting
  <2>3. Load(t)' = 0
    <3>1. (Members(t) \ walkins[t])' = {} /\ Waiting(t)' = {}
      BY <1>5, <1>6, <2>2
    <3>2. QED
      BY <3>1, FS_EmptySet DEF Load
  <2>4. Cardinality(Handlers) \in Nat /\ Cardinality(Handlers) >= 1
        /\ (Limit["free"] # Unlimited => Limit["free"] \in Nat /\ Limit["free"] >= 1)
    BY <2>1, LimitType
  <2>5. QED
    BY <2>1, <2>3, <2>4 DEF Bounded
<1>9. QED
  BY <1>7, <1>8

LEMMA OwnBounded ==
  ASSUME TInv, RInv, LoadBounded, NEW h \in Handlers, Own(h)
  PROVE  LoadBounded'
<1>1. TInv' /\ RowsTypeOK /\ RowsTypeOK' /\ Only(h) /\ pc'[h] \in {"idle", "invite"}
      /\ req[h].org \in Tenants /\ req[h].user \in Users
  BY OwnType, TypeParts DEF TInv, Becomes
<1>2. pc[h] = "own" /\ UNCHANGED <<plan, joined, invites, walkins, enforcing, downgraded>>
  BY DEF Own, inviteVars, planVars
<1>3. {"idle", "invite"} \cap Accepting = {}
  BY DEF Accepting
<1>4. PICK x \in Tenants : x = req[h].org
  BY <1>1
<1>5. PICK u \in Users : u = req[h].user
  BY <1>1
<1>6. owners' = owners \/ owners' = [owners EXCEPT ![x] = @ \cup {u}]
  BY <1>4, <1>5 DEF Own
<1> SUFFICES ASSUME NEW t \in Tenants
             PROVE  Bounded(t)'
  BY DEF LoadBounded
<1>7. Bounded(t)
  BY DEF LoadBounded
<1>8. Waiting(t)' \subseteq Waiting(t)
  BY <1>1, <1>3 DEF Waiting, Only, Accepting
<1>9. CASE owners'[t] = owners[t]
  <2>1. (Members(t) \ walkins[t])' = Members(t) \ walkins[t]
    BY <1>2, <1>9 DEF Members
  <2>2. QED
    BY <1>1, <1>2, <1>7, <1>8, <2>1, LoadFalls, BoundedStays
<1>10. CASE t = x /\ owners'[t] = owners[t] \cup {u}
  <2>1. Fresh(t)
    BY <1>2, <1>4, <1>10 DEF Fresh
  <2>2. owners[t] = {} /\ joined[t] = <<>>
        /\ \A g \in Handlers : pc[g] \in Accepting => req[g].org # t
    BY <2>1 DEF RInv, FreshUntouched
  <2>3. Waiting(t)' = {}
    BY <1>8, <2>2 DEF Waiting, Accepting
  <2>4. Members(t)' = {u}
    BY <1>2, <1>10, <2>2, ToSetEmpty DEF Members
  <2>5. Load(t)' \in 0..1
    <3>1. PICK w : w = walkins'[t]
      OBVIOUS
    <3>2. {u} \ w = {} \/ {u} \ w = {u}
      OBVIOUS
    <3>3. Load(t)' = Cardinality({u} \ w) + Cardinality({})
      BY <2>3, <2>4, <3>1 DEF Load
    <3>4. Cardinality({u}) = 1 /\ Cardinality({}) = 0
      BY FS_Singleton, FS_EmptySet
    <3>5. QED
      BY <3>2, <3>3, <3>4
  <2>6. Cardinality(Handlers) \in Nat /\ Cardinality(Handlers) >= 1
    BY LimitType
  <2> SUFFICES ASSUME Exists(t)', Limit[plan'[t]] # Unlimited
               PROVE  Load(t)' <= Limit[plan'[t]] + Cardinality(Handlers) - 1
    <3>1. Exists(t)' /\ Limit[plan'[t]] # Unlimited => Limit[plan'[t]] \in Nat
      BY LimitType DEF Exists
    <3>2. QED
      BY <2>5, <2>6, <3>1 DEF Bounded
  <2>7. Limit[plan'[t]] \in Nat /\ Limit[plan'[t]] >= 1
    BY LimitType DEF Exists
  <2>8. QED
    BY <2>5, <2>6, <2>7
<1>11. QED
  BY <1>1, <1>6, <1>9, <1>10 DEF RowsTypeOK

\* CreateOrgMember: the request that waited becomes a member, or a walk-in one more.
LEMMA JoinBounded ==
  ASSUME TInv, Errands, LoadBounded, NEW h \in Handlers, Join(h)
  PROVE  LoadBounded'
<1>1. TInv' /\ RowsTypeOK /\ RowsTypeOK' /\ HistoryTypeOK /\ Only(h) /\ pc'[h] = "consume"
      /\ req[h].org \in Tenants /\ req[h].user \in Users
  BY JoinType, TypeParts DEF TInv
<1>2. PICK x \in Tenants : x = req[h].org
  BY <1>1
<1>3. PICK u \in Users : u = req[h].user
  BY <1>1
<1>4. pc[h] = "join" /\ UNCHANGED <<plan, owners, enforcing, downgraded>>
      /\ walkins' = [walkins EXCEPT ![x] = IF req[h].op \in Walkin THEN @ \cup {u} ELSE @ \ {u}]
  BY <1>2, <1>3 DEF Join, planVars
<1>5. joined'[x] = Append(joined[x], u) /\ \A y \in Tenants \ {x} : joined'[y] = joined[y]
  BY <1>2, <1>3, JoinType
<1>6. ToSet(joined'[x]) = ToSet(joined[x]) \cup {u}
  BY <1>1, <1>5, AppendedProperties DEF RowsTypeOK
<1>7. "consume" \notin Accepting /\ req[h].op \in Checked \cup Walkin
  BY <1>4 DEF Errands, Accepting
<1> SUFFICES ASSUME NEW t \in Tenants
             PROVE  Bounded(t)'
  BY DEF LoadBounded
<1>8. Bounded(t)
  BY DEF LoadBounded
<1>9. Waiting(t)' = Waiting(t) \ {h}
  BY <1>1, <1>7 DEF Waiting, Only, Accepting
<1>10. CASE t # x \/ req[h].op \in Walkin
  <2>1. (Members(t) \ walkins[t])' \subseteq Members(t) \ walkins[t]
    <3>1. CASE t # x
      BY <1>1, <1>4, <1>5, <3>1 DEF Members, HistoryTypeOK
    <3>2. CASE t = x /\ req[h].op \in Walkin
      BY <1>1, <1>4, <1>6, <3>2 DEF Members, HistoryTypeOK
    <3>3. QED
      BY <1>10, <3>1, <3>2
  <2>2. QED
    BY <1>1, <1>4, <1>8, <1>9, <2>1, LoadFalls, BoundedStays
<1>11. CASE t = x /\ req[h].op \in Checked
  <2>1. h \in Waiting(t)
    BY <1>2, <1>4, <1>11 DEF Waiting
  <2>2. (Members(t) \ walkins[t])' = (Members(t) \ walkins[t]) \cup {u}
    <3>1. req[h].op \notin Walkin
      BY <1>11 DEF Checked, Walkin
    <3>2. QED
      BY <1>1, <1>4, <1>6, <1>11, <3>1 DEF Members, HistoryTypeOK
  <2>3. Load(t)' <= Load(t) /\ Load(t)' \in Nat /\ Load(t) \in Nat
    <3> DEFINE M == Members(t) \ walkins[t]
               W == Waiting(t)
    <3>1. IsFiniteSet(M) /\ Cardinality(M) \in Nat /\ IsFiniteSet(W) /\ Cardinality(W) \in Nat
      BY <1>1, LoadType
    <3>2. Load(t) = Cardinality(M) + Cardinality(W)
          /\ Load(t)' = Cardinality(M \cup {u}) + Cardinality(W \ {h})
      BY <1>9, <2>2 DEF Load
    <3>3. h \in W
      BY <2>1
    <3> HIDE DEF M, W
    <3>4. Cardinality(M \cup {u}) \in Nat /\ Cardinality(M \cup {u}) <= Cardinality(M) + 1
      <4>1. Cardinality(M \cup {u}) = IF u \in M THEN Cardinality(M) ELSE Cardinality(M) + 1
        BY <3>1, FS_AddElement
      <4>2. QED
        BY <3>1, <4>1
    <3>5. Cardinality(W \ {h}) = Cardinality(W) - 1 /\ Cardinality(W \ {h}) \in Nat
      BY <3>1, <3>3, FS_RemoveElement, FS_CardinalityType
    <3>6. QED
      BY <3>1, <3>2, <3>4, <3>5
  <2>4. QED
    BY <1>1, <1>4, <1>8, <2>3, BoundedStays
<1>12. QED
  BY <1>7, <1>10, <1>11

LEMMA ContinueBounded ==
  ASSUME TInv, RInv, Errands, LoadBounded, NEW h \in Handlers, Continue(h)
  PROVE  LoadBounded'
<1>1. TInv' /\ RowsTypeOK /\ InvitesTypeOK
  BY ContinueType, TypeParts DEF TInv
<1>2. {"idle", "invite"} \cap Accepting = {} /\ {"empty", "drop", "depart", "join"} = Accepting
  BY DEF Accepting
<1>3. ASSUME Only(h), pc'[h] = "idle" \/ req'[h].op = "walkin"
      PROVE  Light(h)
  BY <1>2, <1>3 DEF Light, Waiting, Checked
<1>4. ASSUME Only(h), pc[h] \in Accepting, pc'[h] \in Accepting,
             req'[h].org = req[h].org, req'[h].op = req[h].op
      PROVE  Light(h)
  BY <1>2, <1>4 DEF Light, Waiting
<1>5. CASE EmptyTenant(h)
  <2>1. Light(h) /\ Only(h)
    BY <1>2, <1>4, <1>5, EmptyTenantType DEF EmptyTenant, Becomes
  <2>2. Shrinks
    BY <1>1, <1>5, EmptyTenantType, ClearedShrinks, StaysShrinks DEF EmptyTenant, teamVars
  <2>3. QED
    BY <1>1, <1>5, <2>1, <2>2, LightStep DEF EmptyTenant, planVars
<1>6. CASE DropTenant(h)
  <2>1. Light(h) /\ Only(h)
    BY <1>2, <1>4, <1>6, DropTenantType DEF DropTenant
  <2>2. Shrinks
    <3>1. req[h].old.tenant \in Tenants
      BY <1>6, DropTenantType
    <3>2. Cleared(req[h].old.tenant) \/ UNCHANGED <<owners, joined, invites>>
      BY <1>6 DEF DropTenant, teamVars
    <3>3. QED
      BY <1>1, <3>1, <3>2, ClearedShrinks, StaysShrinks
  <2>3. \A t \in Tenants : Exists(t)' => plan'[t] = plan[t]
    <3>1. PICK x \in Tenants : x = req[h].old.tenant
      BY <1>6, DropTenantType
    <3>2. plan' = plan \/ plan' = [plan EXCEPT ![x] = "deleted"]
      BY <1>6, <3>1 DEF DropTenant
    <3>3. "deleted" \notin Plans
      BY LimitAssumption
    <3>4. QED
      BY <1>1, <3>2, <3>3 DEF RowsTypeOK, Exists
  <2>4. QED
    BY <1>1, <1>6, <2>1, <2>2, <2>3, LightStep DEF DropTenant
<1>7. CASE Depart(h)
  <2>1. Light(h) /\ Only(h)
    BY <1>2, <1>4, <1>7, DepartType DEF Depart
  <2>2. Shrinks
    BY <1>1, <1>7, DepartType, RemoveShrinks, StaysShrinks DEF Depart, inviteVars, teamVars
  <2>3. QED
    BY <1>1, <1>7, <2>1, <2>2, LightStep DEF Depart, planVars, historyVars
<1>8. CASE HandleInvite(h)
  <2>1. UNCHANGED <<plan, walkins, enforcing, downgraded>>
    BY <1>8 DEF HandleInvite, planVars, historyVars
  <2>2. Shrinks
    BY <1>8, StaysShrinks DEF HandleInvite, teamVars, inviteVars
  <2>3. Only(h) /\ (pc'[h] = "idle" \/ req'[h].op = "walkin")
    <3>1. req[h].op = "walkin"
      BY <1>8 DEF HandleInvite, Errands
    <3>2. QED
      BY <1>8, <3>1, HandleInviteType DEF Joining, Becomes
  <2>4. QED
    BY <1>1, <1>3, <2>1, <2>2, <2>3, LightStep
<1>9. ASSUME CreateTenantFails(h) \/ JoinFails(h) \/ Consume(h) \/ Cut(h)
      PROVE  LoadBounded'
  <2>1. Only(h) /\ pc'[h] = "idle"
    BY <1>9, CreateTenantFailsType, JoinFailsType, ConsumeType, CutType DEF Becomes
  <2>2. UNCHANGED <<plan, walkins, enforcing, downgraded>>
    BY <1>9 DEF CreateTenantFails, JoinFails, Consume, Cut, planVars, historyVars
  <2>3. Shrinks
    <3>1. CASE CreateTenantFails(h)
      BY <1>1, <3>1, CreateTenantFailsType, DeleteShrinks DEF CreateTenantFails
    <3>2. CASE JoinFails(h)
      <4>1. DeleteUser(req[h].user) \/ UNCHANGED <<owners, joined, invites>>
        BY <3>2 DEF JoinFails, teamVars
      <4>2. QED
        BY <1>1, <3>2, <4>1, JoinFailsType, DeleteShrinks, StaysShrinks
    <3>3. CASE Consume(h) \/ Cut(h)
      BY <3>3, StaysShrinks DEF Consume, Cut, teamVars, inviteVars
    <3>4. QED
      BY <1>9, <3>1, <3>2, <3>3
  <2>4. QED
    BY <1>1, <1>3, <2>1, <2>2, <2>3, LightStep
<1>10. QED
  BY <1>5, <1>6, <1>7, <1>8, <1>9, CreateTenantBounded, OwnBounded, JoinBounded DEF Continue

\* A plan that is not smaller, or one whose trim is pending.
LEMMA ChangePlanBounded ==
  ASSUME TInv, LoadBounded, NEW x \in Tenants, NEW p \in Plans, ChangePlan(x, p)
  PROVE  LoadBounded'
<1>1. RowsTypeOK /\ RowsTypeOK'
  BY ChangePlanType, TypeParts DEF TInv
<1>2. /\ UNCHANGED <<owners, joined, walkins, pc, req>>
      /\ plan' = [plan EXCEPT ![x] = p] /\ Exists(x)
      /\ enforcing' = IF Limit[p] = Unlimited THEN enforcing ELSE enforcing \cup {<<x, p>>}
      /\ downgraded' = IF Lower(p, plan[x]) THEN downgraded \cup {x} ELSE downgraded
  BY DEF ChangePlan, teamVars
<1> SUFFICES ASSUME NEW t \in Tenants, Exists(t)', Limit[plan'[t]] # Unlimited
             PROVE  IF t \in downgraded'
                    THEN <<t, plan'[t]>> \notin enforcing' =>
                           Load(t)' <= Limit[plan'[t]] + Cardinality(Handlers)
                    ELSE Load(t)' <= Limit[plan'[t]] + Cardinality(Handlers) - 1
  BY DEF LoadBounded, Bounded
<1>3. Bounded(t)
  BY DEF LoadBounded
<1>4. Load(t)' = Load(t) /\ Load(t) \in Nat
  BY <1>1, <1>2, LoadType DEF Load, Members, Waiting
<1>5. Cardinality(Handlers) \in Nat
  BY LimitType
<1>6. CASE t # x
  <2>1. plan'[t] = plan[t] /\ Exists(t)
    BY <1>1, <1>2, <1>6 DEF RowsTypeOK, Exists
  <2>2. (t \in downgraded' <=> t \in downgraded)
        /\ (<<t, plan[t]>> \in enforcing' <=> <<t, plan[t]>> \in enforcing)
    BY <1>2, <1>6
  <2>3. QED
    BY <1>3, <1>4, <2>1, <2>2 DEF Bounded
<1>7. CASE t = x
  <2>1. plan'[t] = p /\ Exists(t) /\ Limit[p] # Unlimited /\ <<t, p>> \in enforcing'
    BY <1>1, <1>2, <1>7 DEF RowsTypeOK
  <2>2. CASE t \in downgraded'
    BY <2>1, <2>2
  <2>3. CASE t \notin downgraded'
    <3>1. t \notin downgraded /\ ~Lower(p, plan[t])
      BY <1>2, <1>7, <2>3
    <3>2. Limit[p] \in Nat /\ Limit[plan[t]] \in Int
      BY <2>1, LimitType DEF Exists
    <3>3. Limit[plan[t]] # Unlimited /\ Limit[plan[t]] <= Limit[p]
      BY <2>1, <3>1, <3>2 DEF Lower
    <3>4. Load(t) <= Limit[plan[t]] + Cardinality(Handlers) - 1
      BY <1>3, <2>1, <3>1, <3>3 DEF Bounded
    <3>5. QED
      BY <1>4, <1>5, <2>1, <2>3, <3>2, <3>3, <3>4
  <2>4. QED
    BY <2>2, <2>3
<1>8. QED
  BY <1>6, <1>7

\* EnforceTeamLimit leaves the owner and one fewer than the limit.
LEMMA EnforceBounded ==
  ASSUME TInv, RInv, LoadBounded, NEW x \in Tenants, NEW p \in Plans, EnforceTeamLimit(x, p)
  PROVE  LoadBounded'
<1>1. RowsTypeOK /\ RowsTypeOK'
  BY EnforceType, TypeParts DEF TInv
<1>2. /\ UNCHANGED <<plan, owners, walkins, pc, req, downgraded>>
      /\ enforcing' = enforcing \ {<<x, p>>}
  BY DEF EnforceTeamLimit
<1>3. PICK n \in 0..Len(joined[x]) :
        /\ Limit[p] # Unlimited => n <= Limit[p] - 1
        /\ joined' = [joined EXCEPT ![x] = SubSeq(joined[x], 1, n)]
  BY <1>1, EnforceEffect
<1> DEFINE kept == SubSeq(joined[x], 1, n)
<1>4. kept \in Seq(Users) /\ Len(kept) = n /\ ToSet(kept) \subseteq ToSet(joined[x])
  BY <1>1, PrefixProperties DEF RowsTypeOK
<1>5. joined'[x] = kept /\ \A y \in Tenants : y # x => joined'[y] = joined[y]
  BY <1>1, <1>3 DEF RowsTypeOK
<1> HIDE DEF kept
<1> SUFFICES ASSUME NEW t \in Tenants
             PROVE  Bounded(t)'
  BY DEF LoadBounded
<1>6. Bounded(t)
  BY DEF LoadBounded
<1>7. Waiting(t)' = Waiting(t)
  BY <1>2 DEF Waiting
<1>8. (Members(t) \ walkins[t])' \subseteq Members(t) \ walkins[t]
  BY <1>2, <1>4, <1>5 DEF Members
<1>9. Load(t)' <= Load(t) /\ Load(t)' \in Nat /\ Load(t) \in Nat
  BY <1>1, <1>7, <1>8, LoadFalls
<1>10. CASE ~(t = x /\ plan[t] = p)
  <2>1. <<t, plan[t]>> \in enforcing' <=> <<t, plan[t]>> \in enforcing
    BY <1>2, <1>10
  <2>2. Limit[plan[t]] \in Nat \/ Limit[plan[t]] = Unlimited \/ ~Exists(t)
    BY LimitType DEF Exists
  <2>3. Cardinality(Handlers) \in Nat
    BY LimitType
  <2>4. QED
    BY <1>2, <1>6, <1>9, <2>1, <2>2, <2>3 DEF Bounded, Exists
<1>11. CASE t = x /\ plan[t] = p
  <2> SUFFICES ASSUME Exists(t), Limit[p] # Unlimited
               PROVE  IF t \in downgraded
                      THEN Load(t)' <= Limit[p] + Cardinality(Handlers)
                      ELSE Load(t)' <= Limit[p] + Cardinality(Handlers) - 1
    BY <1>2, <1>11 DEF Bounded, Exists
  <2>1. Limit[p] \in Nat /\ Limit[p] >= 1 /\ Cardinality(Handlers) \in Nat
    BY LimitType
  <2>2. Cardinality(Waiting(t)') \in Nat /\ Cardinality(Waiting(t)') <= Cardinality(Handlers)
    BY WaitingBounded
  <2>3. IsFiniteSet(ToSet(kept)) /\ Cardinality(ToSet(kept)) <= n /\ Cardinality(ToSet(kept)) \in Nat
    BY <1>4, ToSetBound, FS_CardinalityType
  <2>4. IsFiniteSet(owners[t]) /\ Cardinality(owners[t]) \in 0..1
    <3>1. PICK O : O = owners[t]
      OBVIOUS
    <3>2. \A u, v \in O : u = v
      BY <3>1 DEF RInv, OneRow
    <3>3. CASE O = {}
      BY <3>1, <3>3, FS_EmptySet
    <3>4. ASSUME NEW u \in O
          PROVE  IsFiniteSet(O) /\ Cardinality(O) = 1
      <4>1. O = {u}
        BY <3>2, <3>4
      <4>2. QED
        BY <4>1, FS_Singleton
    <3>5. QED
      BY <3>1, <3>3, <3>4
  <2>5. PICK M : M = (Members(t) \ walkins[t])'
    OBVIOUS
  <2>6. M \subseteq owners[t] \cup ToSet(kept)
    BY <1>2, <1>5, <1>11, <2>5 DEF Members
  <2>7. Cardinality(M) \in Nat /\ Cardinality(M) <= Limit[p]
    <3>1. PICK B : B = owners[t] \cup ToSet(kept)
      OBVIOUS
    <3>2. IsFiniteSet(B) /\ Cardinality(B) =
            Cardinality(owners[t]) + Cardinality(ToSet(kept)) - Cardinality(owners[t] \cap ToSet(kept))
      BY <2>3, <2>4, <3>1, FS_Union
    <3>3. Cardinality(owners[t] \cap ToSet(kept)) \in Nat
      BY <2>4, FS_Intersection, FS_CardinalityType
    <3>4. Cardinality(B) <= 1 + n
      BY <2>3, <2>4, <3>2, <3>3
    <3>5. IsFiniteSet(M) /\ Cardinality(M) <= Cardinality(B)
      BY <2>6, <3>1, <3>2, FS_Subset
    <3>6. Cardinality(M) \in Nat /\ Cardinality(B) \in Nat /\ n <= Limit[p] - 1 /\ n \in Nat
      BY <1>1, <1>3, <3>2, <3>5, FS_CardinalityType DEF RowsTypeOK
    <3>7. QED
      BY <2>1, <3>4, <3>5, <3>6
  <2>8. Load(t)' = Cardinality(M) + Cardinality(Waiting(t)')
    BY <2>5 DEF Load
  <2>9. CASE t \in downgraded
    BY <2>1, <2>2, <2>7, <2>8, <2>9
  <2>10. CASE t \notin downgraded
    BY <1>6, <1>9, <1>11, <2>1, <2>10 DEF Bounded
  <2>11. QED
    BY <2>9, <2>10
<1>12. QED
  BY <1>10, <1>11

LEMMA BoundedNext ==
  ASSUME TInv, RInv, Errands, LoadBounded, [Next]_vars
  PROVE  LoadBounded'
<1>1. ASSUME UNCHANGED <<plan, owners, joined, walkins, enforcing, downgraded, pc, req>>
      PROVE  LoadBounded'
  BY <1>1 DEF LoadBounded, Bounded, Load, Members, Waiting, Exists
<1>2. CASE OwnerStep
  BY <1>1, <1>2, OwnerStepType
<1>3. CASE UNCHANGED vars
  BY <1>1, <1>3 DEF vars, teamVars, planVars, historyVars
<1>4. CASE PlanStep
  <2>1. enforcing \subseteq Tenants \X Plans
    BY DEF TInv, TypeOK
  <2>2. QED
    BY <1>4, <2>1, ChangePlanBounded, EnforceBounded DEF PlanStep
<1>5. QED
  BY <1>2, <1>3, <1>4, StartBounded, ContinueBounded DEF Next

LEMMA BoundedInit == Init => LoadBounded /\ Errands
<1> SUFFICES ASSUME Init
             PROVE  LoadBounded /\ Errands
  OBVIOUS
<1>1. Errands
  BY DEF Init, Errands, Accepting
<1>2. ASSUME NEW t \in Tenants
      PROVE  Bounded(t)
  <2>1. Waiting(t) = {} /\ (\A u, v \in Members(t) : u = v) /\ walkins[t] = {}
    BY ToSetEmpty, TenantsAssumption DEF Init, Waiting, Members
  <2>2. Members(t) \ walkins[t] = {} \/ \E u : Members(t) \ walkins[t] = {u}
    BY <2>1
  <2>3. Load(t) \in 0..1
    BY <2>1, <2>2, FS_EmptySet, FS_Singleton DEF Load
  <2>4. t \notin downgraded
    BY DEF Init
  <2>5. Cardinality(Handlers) \in Nat /\ Cardinality(Handlers) >= 1
        /\ (Exists(t) /\ Limit[plan[t]] # Unlimited => Limit[plan[t]] \in Nat /\ Limit[plan[t]] >= 1)
    BY LimitType DEF Exists
  <2>6. QED
    BY <2>3, <2>4, <2>5 DEF Bounded
<1>3. QED
  BY <1>1, <1>2 DEF LoadBounded

LEMMA TeamBoundedParts == LoadBounded => TeamBounded
<1> SUFFICES ASSUME LoadBounded, NEW t \in Tenants, Exists(t), Limit[plan[t]] # Unlimited,
                    <<t, plan[t]>> \notin enforcing
             PROVE  Load(t) <= Limit[plan[t]] + Cardinality(Handlers)
                                 - (IF t \in downgraded THEN 0 ELSE 1)
  BY DEF TeamBounded, Load
<1>1. Limit[plan[t]] \in Nat /\ Cardinality(Handlers) \in Nat
  BY LimitType DEF Exists
<1>2. CASE t \in downgraded
  <2>1. Load(t) <= Limit[plan[t]] + Cardinality(Handlers)
    BY <1>2 DEF LoadBounded, Bounded
  <2>2. QED
    BY <1>1, <1>2, <2>1
<1>3. CASE t \notin downgraded
  BY <1>1, <1>3 DEF LoadBounded, Bounded
<1>4. QED
  BY <1>2, <1>3

\* TeamBounded: however the acceptances interleave with each other and with changes of the
\* plan, the members who passed the check of AcceptInvite exceed the limit of the plan at most by
\* the number of requests served at once.
THEOREM TeamsStayBounded == Spec => []TeamBounded
<1>1. Init => TInv /\ RInv /\ Errands /\ LoadBounded
  BY TInvInit, RInvInit, BoundedInit
<1>2. TInv /\ RInv /\ Errands /\ LoadBounded /\ [Next]_vars
        => (TInv /\ RInv /\ Errands /\ LoadBounded)'
  BY TInvNext, RInvNext, ErrandsNext, BoundedNext
<1>3. QED
  BY <1>1, <1>2, TeamBoundedParts, PTL DEF Spec
====
