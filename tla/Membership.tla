------------------------------- MODULE Membership -------------------------------
(***************************************************************************)
(* Accounts, organisations and who belongs to which: tenant-service's      *)
(* registration, invitations, single sign-on, removal, leaving, set-up of  *)
(* an organisation, and the team limit of the plan.                        *)
(*                                                                         *)
(* No handler uses a transaction.  A request is a sequence of statements,  *)
(* each a step; between them other requests come, the plan changes, or the *)
(* request is cut (its client went away, a statement failed, the service   *)
(* was killed).  Statements that only read are merged with the one that    *)
(* follows when nothing they read can be missed by the merge.              *)
(***************************************************************************)
EXTENDS Integers, Sequences, FiniteSets, SequencesExt

CONSTANTS
  Users,          \* people, one email address each
  Guests,         \* those whom owners invite
  Finders,        \* those who come by the link of somebody else's invitation
  SSOUsers,       \* those with a Google or Microsoft account under that address
  Tenants,        \* ids of tenants rows, never used again after a DELETE
  NoTenant,       \* no tenant
  Handlers,       \* HTTP requests served at once
  Limit,          \* members a plan allows; Unlimited for none
  Founder, Team,  \* the owner of a tenant on a paid plan when the model starts
  Loner, Home,    \* the owner of a tenant on the plan "free"
  MaxInvites,     \* bound: invite tokens sent
  MaxEvents       \* bound: plan changes, requests cut, statements that fail

Unlimited == -1
Plans == DOMAIN Limit
Paid  == Plans \ {"free"}

ASSUME UsersAssumption == {Founder, Loner} \cup Guests \cup Finders \cup SSOUsers \subseteq Users /\ Founder # Loner
ASSUME TenantsAssumption == {Team, Home} \subseteq Tenants /\ Team # Home /\ NoTenant \notin Tenants
ASSUME FiniteAssumption == IsFiniteSet(Users) /\ IsFiniteSet(Tenants)
ASSUME HandlersAssumption == IsFiniteSet(Handlers) /\ Handlers # {}
ASSUME LimitAssumption ==
  /\ Limit \in [Plans -> {Unlimited} \cup (Nat \ {0})]
  /\ "free" \in Plans /\ "starter" \in Plans /\ {"new", "deleted"} \cap Plans = {}
ASSUME BoundsAssumption == MaxInvites \in Nat /\ MaxEvents \in Nat

VARIABLES
  login,      \* how a user can sign in; {} when there is no users row
  plan,       \* tenants.plan; "new" before the INSERT, "deleted" after the DELETE
  owners,     \* org_members with the role owner
  joined,     \* org_members with the role user, by created_at
  passes,     \* users with an access token for the tenant and the role user
  invites,    \* rows of invite_tokens
  sent,       \* how many were inserted
  enforcing,  \* plan changes whose EnforceTeamLimit has not run
  events,     \* how many plan changes and faults there were
  pc,         \* where each request is
  req,        \* what it works with
  excused,    \* history variable: users whom a named cause left without a tenant
  abandoned,  \* history variable: tenants that a named cause left without an owner
  walkins,    \* history variable: members who joined without a check of the limit
  downgraded  \* history variable: tenants that moved to a smaller plan

teamVars    == <<owners, joined, passes>>
inviteVars  == <<invites, sent>>
planVars    == <<plan, enforcing>>
historyVars == <<excused, abandoned, walkins, downgraded>>
vars == <<login, teamVars, inviteVars, planVars, events, pc, req, historyVars>>

NoOrg == [tenant |-> NoTenant, role |-> "none"]
NoReq == [op |-> "none", user |-> Founder, org |-> NoTenant, old |-> NoOrg, invite |-> 0]

Roles   == {"owner", "user", "none"}
\* Acceptances that checked the limit of the team, and the others; some create the account.
Checked == {"accept", "signup"}
Walkin  == {"walkin", "walkin signup"}
Signup  == {"signup", "walkin signup"}
Ops     == {"none", "register", "setup", "leave"} \cup Checked \cup Walkin
Invites == [id : 1..MaxInvites, tenant : Tenants, user : Users]
Request == [op : Ops, user : Users, org : Tenants \cup {NoTenant},
            old : [tenant : Tenants \cup {NoTenant}, role : Roles], invite : 0..MaxInvites]
Labels  == {"idle", "invite", "empty", "drop", "depart", "join", "consume",
            "create", "own"}

Exists(t)  == plan[t] \in Plans
Members(t) == owners[t] \cup ToSet(joined[t])
Belongs(u) == \E t \in Tenants : u \in Members(t)

TypeOK ==
  /\ login \in [Users -> SUBSET {"password", "sso"}]
  /\ plan \in [Tenants -> Plans \cup {"new", "deleted"}]
  /\ owners \in [Tenants -> SUBSET Users]
  /\ joined \in [Tenants -> Seq(Users)] /\ passes \in [Tenants -> SUBSET Users]
  /\ invites \subseteq Invites /\ sent \in 0..MaxInvites
  /\ enforcing \subseteq Tenants \X Plans /\ events \in 0..MaxEvents
  /\ pc \in [Handlers -> Labels] /\ req \in [Handlers -> Request]
  /\ excused \subseteq Users /\ abandoned \subseteq Tenants
  /\ walkins \in [Tenants -> SUBSET Users] /\ downgraded \subseteq Tenants

\* Founder registered, verified the address and bought a plan; Loner registered and verified.
Init ==
  /\ login = [u \in Users |-> IF u \in {Founder, Loner} THEN {"password"} ELSE {}]
  /\ plan = [t \in Tenants |-> IF t = Team THEN "starter" ELSE IF t = Home THEN "free" ELSE "new"]
  /\ owners = [t \in Tenants |-> IF t = Team THEN {Founder} ELSE IF t = Home THEN {Loner} ELSE {}]
  /\ joined = [t \in Tenants |-> <<>>] /\ passes = [t \in Tenants |-> {}]
  /\ invites = {} /\ sent = 0
  /\ enforcing = {} /\ events = 0
  /\ pc = [h \in Handlers |-> "idle"] /\ req = [h \in Handlers |-> NoReq]
  /\ excused = {} /\ abandoned = {} /\ downgraded = {}
  /\ walkins = [t \in Tenants |-> {}]

------------------------------------------------------------------------------
(* What the statements read and write.                                      *)

\* Mutant of Full: off by one.
FullAbove(t) == Limit[plan[t]] # Unlimited /\ Cardinality(Members(t)) > Limit[plan[t]]
\* The check against CountOrgMembers in InviteMember and AcceptInvite.
Full(t) == Limit[plan[t]] # Unlimited /\ Cardinality(Members(t)) >= Limit[plan[t]]

\* The rows GetUserOrgInfo and GetUserPrimaryTenant may return: an owned tenant before
\* another, otherwise any (ORDER BY the role, LIMIT 1).
OrgInfo(u) ==
  LET owned  == {t \in Tenants : u \in owners[t]}
      others == {t \in Tenants : u \in ToSet(joined[t])} IN
  IF owned # {} THEN [tenant : owned, role : {"owner"}]
  ELSE IF others # {} THEN [tenant : others, role : {"user"}]
  ELSE {NoOrg}
\* What handlers make of it: an error of GetUserOrgInfo counts as no organisation.
OrgRead(u, faults) == OrgInfo(u) \cup (IF faults = 0 THEN {} ELSE {NoOrg})

PaidOwner(o) == o.role = "owner" /\ plan[o.tenant] # "free"

Goto(h, l)     == pc' = [pc EXCEPT ![h] = l] /\ UNCHANGED req
Begin(h, l, r) == pc[h] = "idle" /\ pc' = [pc EXCEPT ![h] = l] /\ req' = [req EXCEPT ![h] = r]
Move(h, l, r)  == pc' = [pc EXCEPT ![h] = l] /\ req' = [req EXCEPT ![h] = r]
Answer(h)      == pc' = [pc EXCEPT ![h] = "idle"] /\ req' = [req EXCEPT ![h] = NoReq]

NewReq(o, u) == [NoReq EXCEPT !.op = o, !.user = u]

\* DELETE FROM org_members WHERE user_id AND tenant_id, which asks for no role; the two are
\* UNIQUE together, so there is at most one row.
RemoveUserFromOrg(u, t) ==
  /\ owners' = [owners EXCEPT ![t] = @ \ {u}]
  /\ joined' = [joined EXCEPT ![t] = RemoveFirst(@, u)]
  /\ UNCHANGED passes

\* The handler ignores the error of a statement that fails; faults is 0 or 1.
Slips(faults) == events + faults <= MaxEvents /\ events' = events + faults

\* A user who lost the last membership for a reason that NobodyStranded names.
Strand(lost)  == excused' = excused \cup lost
Settle(u)     == excused' = excused \ {u}

\* A spare id for every request that will insert a tenant, so that none is stuck for a bound.
Creating == {h \in Handlers : pc[h] = "create"}
Spare    == Cardinality({t \in Tenants : plan[t] = "new"}) > Cardinality(Creating)

------------------------------------------------------------------------------
(* Accounts and tokens.                                                     *)

\* Register: CreateUser fails when the address has an account (users.email is UNIQUE).
Register(h, u) ==
  /\ login[u] = {} /\ Spare
  /\ login' = [login EXCEPT ![u] = {"password"}]
  /\ Begin(h, "create", NewReq("register", u))
  /\ UNCHANGED <<teamVars, inviteVars, planVars, events, historyVars>>

\* The session of SetupOrg comes from a Login with a password.  ValidateSession is all that is
\* asked: not whether the user still has no organisation.
SetupOrg(h, u) ==
  /\ "password" \in login[u] /\ Spare
  /\ Begin(h, "create", NewReq("setup", u))
  /\ UNCHANGED <<login, teamVars, inviteVars, planVars, events, historyVars>>

------------------------------------------------------------------------------
(* A new tenant and its owner: the tail of five handlers.                   *)

\* Mutant of CreateTenant: the row starts with a plan that GetPlanLimits does not know.
CreateOnTrial(h) ==
  LET t == CHOOSE x \in Tenants : plan[x] = "new" IN
  /\ pc[h] = "create" /\ \E x \in Tenants : plan[x] = "new"
  /\ plan' = [plan EXCEPT ![t] = "trial"]
  /\ Move(h, "own", [req[h] EXCEPT !.org = t])
  /\ UNCHANGED <<login, teamVars, inviteVars, enforcing, events, historyVars>>
CreateTenant(h) ==
  LET t == CHOOSE x \in Tenants : plan[x] = "new" IN
  /\ pc[h] = "create" /\ \E x \in Tenants : plan[x] = "new"
  /\ plan' = [plan EXCEPT ![t] = "free"]
  /\ Move(h, "own", [req[h] EXCEPT !.org = t])
  /\ UNCHANGED <<login, teamVars, inviteVars, enforcing, events, historyVars>>

\* DELETE FROM users: memberships, sessions and the invitations the user sent go with the row.
DeleteUser(u) ==
  /\ login' = [login EXCEPT ![u] = {}]
  /\ owners' = [t \in Tenants |-> owners[t] \ {u}]
  /\ joined' = [t \in Tenants |-> RemoveFirst(joined[t], u)]
  /\ invites' = {i \in invites : u \notin owners[i.tenant]}
  /\ abandoned' = abandoned \cup {t \in Tenants : u \in owners[t]}
  /\ UNCHANGED passes

\* Register undoes CreateUser when the INSERT of the tenant fails.
CreateTenantFails(h) ==
  /\ pc[h] = "create" /\ req[h].op = "register" /\ events < MaxEvents
  /\ events' = events + 1
  /\ DeleteUser(req[h].user)
  /\ Answer(h)
  /\ UNCHANGED <<sent, planVars, excused, walkins, downgraded>>

\* CreateOrgMember with the role owner; completeSSOLogin then turns to the invitation.
Own(h) ==
  LET r == req[h] IN
  /\ pc[h] = "own"
  /\ IF login[r.user] = {}
     THEN abandoned' = abandoned \cup {r.org} /\ Answer(h) /\ UNCHANGED <<owners, excused>>
     ELSE /\ owners' = [owners EXCEPT ![r.org] = @ \cup {r.user}]
          /\ Settle(r.user) /\ UNCHANGED abandoned
          /\ IF r.invite # 0 THEN Goto(h, "invite") ELSE Answer(h)
  /\ UNCHANGED <<login, joined, passes, inviteVars, planVars, events, walkins, downgraded>>

------------------------------------------------------------------------------
(* Owners and members.                                                      *)

\* The limit is checked here for the owner's sake only; the answer goes stale at once.
InviteMember(t, u) ==
  /\ sent < MaxInvites
  /\ owners[t] # {} /\ ~Full(t)
  /\ \E faults \in {0, 1} : Slips(faults) /\ \E o \in OrgRead(u, faults) : ~PaidOwner(o)
  /\ sent' = sent + 1
  /\ invites' = invites \cup {[id |-> sent + 1, tenant |-> t, user |-> u]}
  /\ UNCHANGED <<login, teamVars, planVars, pc, req, historyVars>>

\* DeclineInvite, or 72 hours.
InviteEnds(i) ==
  /\ invites' = invites \ {i}
  /\ UNCHANGED <<login, teamVars, sent, planVars, events, pc, req, historyVars>>

CancelInvite(t, u) ==
  /\ owners[t] # {} /\ \E i \in invites : i.tenant = t /\ i.user = u
  /\ invites' = {i \in invites : ~(i.tenant = t /\ i.user = u)}
  /\ UNCHANGED <<login, teamVars, sent, planVars, events, pc, req, historyVars>>

\* Mutant of RemoveMember: no tenant is provisioned for the removed user.
RemoveOnly(h, t, u) ==
  /\ pc[h] = "idle" /\ owners[t] # {} /\ u \in ToSet(joined[t])
  /\ RemoveUserFromOrg(u, t)
  /\ UNCHANGED <<login, inviteVars, planVars, events, pc, req, historyVars>>
\* RemoveOrgMemberGetUser; CreateTenant and CreateOrgMember follow.
RemoveMember(h, t, u) ==
  /\ owners[t] # {} /\ u \in ToSet(joined[t]) /\ Spare
  /\ RemoveUserFromOrg(u, t)
  /\ Begin(h, "create", NewReq("leave", u))
  /\ UNCHANGED <<login, inviteVars, planVars, events, historyVars>>

\* A sign-in or a refresh: the access token names the primary tenant and the role there.  It
\* is valid for fifteen minutes, which are longer than the model.  Most tokens come with Join.
IssueAccessToken(t, u) ==
  /\ [tenant |-> t, role |-> "user"] \in OrgInfo(u) /\ u \notin passes[t]
  /\ passes' = [passes EXCEPT ![t] = @ \cup {u}]
  /\ UNCHANGED <<login, owners, joined, inviteVars, planVars, events, pc, req, historyVars>>

\* Tenant and role come from the JWT, and nobody looks at the row: it may be gone already, by
\* an earlier request of the user, a removal, or the team limit.
LeaveOrganization(h, t, u) ==
  /\ u \in passes[t] \ owners[t] /\ Spare
  /\ RemoveUserFromOrg(u, t)
  /\ Begin(h, "create", NewReq("leave", u))
  /\ UNCHANGED <<login, inviteVars, planVars, events, historyVars>>

------------------------------------------------------------------------------
(* Accepting an invitation.                                                 *)

\* Mutant of Leaving: an owner of a paid tenant just leaves it.
LeavingAnyPaid(o) == CASE o = NoOrg                                     -> "join"
                       [] o # NoOrg /\ o.role = "owner" /\ ~PaidOwner(o) -> "empty"
                       [] OTHER                                         -> "depart"
\* Where a user in organisation o goes first before joining another.
Leaving(o) == CASE o = NoOrg          -> "join"
                [] o.role = "user"    -> "depart"
                [] o.role = "owner"   -> IF plan[o.tenant] = "free" THEN "empty" ELSE "join"

\* AcceptInvite up to its first write.  The limit of the team is checked here, the member is
\* added several statements later; a failing GetTenantByID skips the check, a failing
\* CountOrgMembers counts nobody.  An account must be new, or have the password and own no
\* tenant on a paid plan.
AcceptInvite(h, i) ==
  LET u == i.user
      r == [NewReq(IF Full(i.tenant) THEN "walkin" ELSE "accept", u) EXCEPT
              !.org = i.tenant, !.invite = i.id] IN
  /\ pc[h] = "idle"
  /\ \E faults \in {0, 1} :
       /\ Slips(faults) /\ (Full(i.tenant) => faults = 1)
       /\ \/ /\ login[u] = {}
             /\ login' = [login EXCEPT ![u] = {"password"}]
             /\ Move(h, "join", [r EXCEPT !.op = IF @ = "accept" THEN "signup" ELSE "walkin signup"])
          \/ /\ "password" \in login[u] /\ UNCHANGED login
             /\ \E o \in OrgRead(u, faults) : ~PaidOwner(o) /\ Move(h, Leaving(o), [r EXCEPT !.old = o])
  /\ UNCHANGED <<teamVars, inviteVars, planVars, historyVars>>

\* GetInviteByToken and GetUserOrgInfo in handleInviteAcceptSSO: neither the limit nor an owned
\* paid plan stops it, and nobody compares the invitation's address with the user's.
Admit(h, r, i) ==
  \E faults \in {0, 1} :
    /\ Slips(faults)
    /\ \E o \in OrgRead(r.user, faults) : Move(h, Leaving(o), [r EXCEPT !.old = o, !.org = i.tenant])

\* Whoever is signed in.
AcceptInviteJWT(h, u, i) ==
  /\ pc[h] = "idle" /\ login[u] # {}
  /\ Admit(h, [NewReq("walkin", u) EXCEPT !.invite = i.id], i)
  /\ UNCHANGED <<login, teamVars, inviteVars, planVars, historyVars>>

\* completeSSOLogin with a tenant it just inserted turns to the invitation, if that still exists.
HandleInvite(h) ==
  LET found == {i \in invites : i.id = req[h].invite} IN
  /\ pc[h] = "invite"
  /\ IF found = {} THEN Answer(h) /\ UNCHANGED events ELSE \E i \in found : Admit(h, req[h], i)
  /\ UNCHANGED <<login, teamVars, inviteVars, planVars, historyVars>>

\* Members whom the end of tenant t leaves without any, the handler's own user aside.
LeftBy(t, u) == {v \in Members(t) \ {u} : \A x \in Tenants \ {t} : v \notin Members(x)}
Cleared(t) ==
  /\ owners' = [owners EXCEPT ![t] = {}]
  /\ joined' = [joined EXCEPT ![t] = <<>>]
  /\ invites' = {i \in invites : i.tenant # t}
  /\ UNCHANGED passes

\* DeleteTenant: members and invitations go whatever the plan, the tenant only if it is free.
\* Nobody asks whether the members went.
EmptyTenant(h) ==
  LET t == req[h].old.tenant IN
  /\ pc[h] = "empty"
  /\ \/ UNCHANGED events /\ Cleared(t) /\ Strand(LeftBy(t, req[h].user))
     \/ Slips(1) /\ UNCHANGED <<teamVars, invites, excused>>
  /\ Goto(h, "drop")
  /\ UNCHANGED <<login, sent, planVars, abandoned, walkins, downgraded>>

\* Mutant of Deletable: no guard on the plan.
AnyTenant(t) == Exists(t)
\* The WHERE clause of the DELETE.
Deletable(t) == plan[t] = "free"

\* The row goes and everything that references it; it stays when the plan was bought in
\* between, or an audit entry came that references it (ON DELETE RESTRICT).
DropTenant(h) ==
  LET t == req[h].old.tenant IN
  /\ pc[h] = "drop"
  /\ \/ /\ Deletable(t)
        /\ plan' = [plan EXCEPT ![t] = "deleted"]
        /\ Cleared(t) /\ Strand(LeftBy(t, req[h].user))
        /\ UNCHANGED <<abandoned, events>>
     \/ /\ ~Deletable(t)
        /\ abandoned' = IF Exists(t) THEN abandoned \cup {t} ELSE abandoned
        /\ UNCHANGED <<plan, teamVars, invites, events, excused>>
     \/ /\ Deletable(t) /\ Slips(1)
        /\ abandoned' = abandoned \cup {t}
        /\ UNCHANGED <<plan, teamVars, invites, excused>>
  /\ Move(h, "join", [req[h] EXCEPT !.old = NoOrg])
  /\ UNCHANGED <<login, sent, enforcing, walkins, downgraded>>

\* The error of the DELETE is ignored as well.
Depart(h) ==
  /\ pc[h] = "depart"
  /\ \/ UNCHANGED events /\ RemoveUserFromOrg(req[h].user, req[h].old.tenant)
     \/ Slips(1) /\ UNCHANGED teamVars
  /\ Move(h, "join", [req[h] EXCEPT !.old = NoOrg])
  /\ UNCHANGED <<login, inviteVars, planVars, historyVars>>

\* CreateOrgMember: the tenant must exist, the user too, and no row for both.
CanJoin(u, t) == Exists(t) /\ login[u] # {} /\ u \notin Members(t)

\* AcceptInvite issues a token for the tenant joined, the others one for the primary tenant,
\* which this one is for a user who owns none.
Join(h) ==
  LET r == req[h]  u == r.user IN
  /\ pc[h] = "join" /\ CanJoin(u, r.org)
  /\ joined' = [joined EXCEPT ![r.org] = Append(@, u)]
  /\ passes' = IF r.op \in Checked \cup Signup \/ \A t \in Tenants : u \notin owners[t]
               THEN [passes EXCEPT ![r.org] = @ \cup {u}] ELSE passes
  /\ walkins' = [walkins EXCEPT ![r.org] = IF r.op \in Walkin THEN @ \cup {u} ELSE @ \ {u}]
  /\ Settle(u)
  /\ Move(h, "consume", [r EXCEPT !.org = NoTenant, !.old = NoOrg])
  /\ UNCHANGED <<login, owners, inviteVars, planVars, events, abandoned, downgraded>>

\* An account just created is deleted again; another user has left the old organisation by now.
JoinFails(h) ==
  LET r == req[h]  u == r.user IN
  /\ pc[h] = "join" /\ ~CanJoin(u, r.org)
  /\ Answer(h)
  /\ IF r.op \in Signup
     THEN DeleteUser(u) /\ UNCHANGED excused
     ELSE /\ Strand({u} \ {v \in Users : Belongs(v)})
          /\ UNCHANGED <<login, teamVars, invites, abandoned>>
  /\ UNCHANGED <<sent, planVars, events, walkins, downgraded>>

\* ConsumeInviteToken.
Consume(h) ==
  /\ pc[h] = "consume"
  /\ invites' = {i \in invites : i.id # req[h].invite}
  /\ Answer(h)
  /\ UNCHANGED <<login, teamVars, sent, planVars, events, historyVars>>

\* FindOrCreateSSOUser: step 1 finds the identity and needs a tenant, step 2 links the account
\* of the address, step 3 inserts one; without a tenant, 2 and 3 insert it.
SSOLogin(h, u) ==
  /\ "sso" \notin login[u]
  /\ login' = [login EXCEPT ![u] = @ \cup {"sso"}]
  /\ IF Belongs(u) THEN UNCHANGED <<pc, req>> ELSE Spare /\ Begin(h, "create", NewReq("setup", u))
  /\ UNCHANGED <<teamVars, inviteVars, planVars, events, historyVars>>

\* completeSSOLogin with an invitation, whoever was invited.
SSOInvited(h, u, i) ==
  LET r == [NewReq("walkin", u) EXCEPT !.invite = i.id] IN
  /\ pc[h] = "idle"
  /\ login' = [login EXCEPT ![u] = @ \cup {"sso"}]
  /\ IF Belongs(u) THEN Admit(h, r, i)
     ELSE "sso" \notin login[u] /\ Spare /\ Begin(h, "create", r) /\ UNCHANGED events
  /\ UNCHANGED <<teamVars, inviteVars, planVars, historyVars>>

------------------------------------------------------------------------------
(* The plan, and requests that stop halfway.                                *)

Lower(p, q) == Limit[p] # Unlimited /\ (Limit[q] = Unlimited \/ Limit[p] < Limit[q])

\* A webhook or BillingSync stores the plan, often the same again; SyncPlanSettings follows in a
\* later statement.
ChangePlan(t, p) ==
  /\ Exists(t) /\ events < MaxEvents
  /\ events' = events + 1
  /\ plan' = [plan EXCEPT ![t] = p]
  /\ enforcing' = IF Limit[p] = Unlimited THEN enforcing ELSE enforcing \cup {<<t, p>>}
  /\ downgraded' = IF Lower(p, plan[t]) THEN downgraded \cup {t} ELSE downgraded
  /\ UNCHANGED <<login, teamVars, inviteVars, pc, req, excused, abandoned, walkins>>

\* EnforceTeamLimit keeps the oldest of the others, one fewer than the plan allows.
Kept(p) == Limit[p] - 1

\* The removed users keep their sessions and get no tenant of their own.
EnforceTeamLimit(t, p) ==
  LET kept == SubSeq(joined[t], 1, IF Kept(p) < Len(joined[t]) THEN Kept(p) ELSE Len(joined[t])) IN
  /\ enforcing' = enforcing \ {<<t, p>>}
  /\ joined' = [joined EXCEPT ![t] = kept]
  /\ Strand(ToSet(joined[t]) \ ToSet(kept))
  /\ UNCHANGED <<login, plan, owners, passes, inviteVars, events, pc, req,
                 abandoned, walkins, downgraded>>

\* The client goes away, a statement fails or the service is killed; nothing is undone.
Cut(h) ==
  LET r == req[h] IN
  /\ pc[h] # "idle" /\ events < MaxEvents
  /\ events' = events + 1
  /\ Strand({r.user} \ {u \in Users : Belongs(u)})
  /\ abandoned' = abandoned \cup (CASE pc[h] = "own"  -> {r.org}
                                    [] pc[h] = "drop" -> {r.old.tenant}
                                    [] OTHER          -> {})
  /\ Answer(h)
  /\ UNCHANGED <<login, teamVars, inviteVars, planVars, walkins, downgraded>>

------------------------------------------------------------------------------
OwnerStep ==
  \/ \E t \in Tenants, u \in Guests : InviteMember(t, u) \/ CancelInvite(t, u)
  \/ \E i \in invites : InviteEnds(i)
  \/ \E t \in Tenants, u \in Users : IssueAccessToken(t, u)
PlanStep ==
  \/ \E t \in Tenants, p \in Plans : ChangePlan(t, p)
  \/ \E e \in enforcing : EnforceTeamLimit(e[1], e[2])
Start(h) ==
  \/ \E u \in Users : Register(h, u) \/ SetupOrg(h, u)
  \/ \E u \in SSOUsers : SSOLogin(h, u) \/ \E i \in invites : SSOInvited(h, u, i)
  \/ \E t \in Tenants, u \in Users : RemoveMember(h, t, u) \/ LeaveOrganization(h, t, u)
  \/ \E i \in invites : AcceptInvite(h, i) \/ \E u \in {i.user} \cup Finders : AcceptInviteJWT(h, u, i)
Continue(h) ==
  \/ CreateTenant(h) \/ CreateTenantFails(h) \/ Own(h)
  \/ HandleInvite(h) \/ EmptyTenant(h) \/ DropTenant(h) \/ Depart(h)
  \/ Join(h) \/ JoinFails(h) \/ Consume(h) \/ Cut(h)

Next ==
  \/ OwnerStep \/ PlanStep
  \/ \E h \in Handlers : Start(h) \/ Continue(h)

Spec == Init /\ [][Next]_vars

------------------------------------------------------------------------------
\* Every account is a member of a tenant, or a request is about to make it one, unless one of
\* four causes left it without: a request cut halfway, the team limit enforced after a
\* downgrade, a tenant deleted by its owner who joins another, an invitation to a tenant that
\* is gone when the old one has been left.  RemoveMember and LeaveOrganization say the user is
\* "never tenant-less".
NobodyStranded ==
  \A u \in Users : login[u] # {} =>
    Belongs(u) \/ u \in excused \/ \E h \in Handlers : pc[h] # "idle" /\ req[h].user = u

\* Every tenant has exactly one owner, but for the moments between two statements and for the
\* tenants whose owner a cut request, a plan bought during the deletion or the deletion of a
\* new account has taken.
EveryTenantOwned ==
  \A t \in Tenants :
    /\ \A u, v \in owners[t] : u = v
    /\ Exists(t) => \/ owners[t] # {} \/ t \in abandoned
                    \/ \E h \in Handlers : \/ pc[h] = "own"  /\ req[h].org = t
                                           \/ pc[h] = "drop" /\ req[h].old.tenant = t

\* AcceptInvite checks the limit "at acceptance time": of the members it adds, the team holds
\* at most one fewer than the requests served at once beyond its limit, and one more when a
\* downgrade trimmed the team while they were waiting.  Nothing is said of those that it let
\* in because the statement that should have checked the limit failed.
Waiting(t) == {h \in Handlers : /\ req[h].op \in Checked /\ req[h].org = t
                                /\ pc[h] \in {"empty", "drop", "depart", "join"}}
TeamBounded ==
  \A t \in Tenants :
    (Exists(t) /\ Limit[plan[t]] # Unlimited /\ <<t, plan[t]>> \notin enforcing) =>
      Cardinality(Members(t) \ walkins[t]) + Cardinality(Waiting(t)) <=
        Limit[plan[t]] + Cardinality(Handlers) - (IF t \in downgraded THEN 0 ELSE 1)

\* A tenant row is deleted only on the plan "free": whatever was bought meanwhile, the guard
\* of the DELETE sees it, although the check that led to it is three statements old.
PaidRowsStay ==
  [][\A t \in Tenants : plan[t] \in Paid => plan'[t] \in Plans]_vars
=============================================================================
