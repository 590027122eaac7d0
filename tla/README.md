# Formal models of go-micro-mail-exchange

GoMailGuard checks mail against an organisation's policies.  Mail reaches it in two ways: an
organisation submits it through `broker-service`, or `tenant-service` scans a connected Gmail
mailbox.  A language-model agent gives a verdict, and what it does not let pass waits in a
quarantine for an owner's decision.

Around this mail path `tenant-service` keeps accounts, organisations, sessions, mailbox connections
and the plans that Stripe sells.

This directory holds TLA+ models of that system: nine components, one abstract specification,
TLC configurations that check them on small instances, and TLAPS proofs that hold for every
instance.  `PROJECT.json` maps every definition to the lines of `src/` it models.

| module | what it is |
|---|---|
| `GmailScan` | the scanner over one Gmail mailbox |
| `MailPromise` | abstract: what the mail path promises whoever submits an email |
| `CompliancePipeline` | the mail path through RabbitMQ; implements `MailPromise` |
| `QuarantineReview` | quarantine rows, release requests, and what a decision does |
| `AgentLoop` | the synchronous check: a paid scan and the agent's talk with the model |
| `GmailConnection` | connecting mailboxes: token rows, the mailbox counter, Gmail's watches |
| `Membership` | accounts, organisations, invitations, single sign-on, the team limit |
| `Sessions` | sessions, access tokens, and the browser tabs that refresh them |
| `Billing` | one tenant's plan and the subscriptions and events of Stripe |
| `RateLimit` | the sliding window in front of sign-in |
| `MCGmailScan`, `MCCompliancePipeline`, `MCQuarantineReview`, `MCMembership` | instances for TLC |
| `MCUsers` | `GmailConnection` and `Sessions` for TLC, side by side |
| `MCService` | `Billing`, `RateLimit` and `AgentLoop` for TLC, side by side |
| `GmailScanProofs`, `CompliancePipelineProofs`, `QuarantineReviewProofs`, `MembershipProofs`, `GmailConnectionProofs`, `BillingProofs` | theorems about these modules, and their proofs |
| `UsersProofs` | theorems about `Sessions`, and about `MCUsers` |
| `ServiceProofs` | theorems about `AgentLoop` and `RateLimit`, and about `MCService` |

To check a run: `tlc -workers 2 -config scan.cfg MCGmailScan`.  To check the proofs:
`tlapm GmailScanProofs.tla`, and so on.

## Inventory of the system

Paths are relative to `src/`.

### Components

**Gmail scanner** (`tenant-service/cmd/api/google_handlers.go`, `data/oauth.go`, `data/plans.go`).
State: the mailbox's row of `oauth_tokens` (`history_id`, `last_scanned_at`, tokens), the quarantine
rows, the tenant's `scans_this_period`; no state in memory but the goroutines.  Operations: the
Pub/Sub webhook (answers 200, then scans in a goroutine), `POST /v1/gmail/scan`, the hourly fallback,
the renewal of `users.watch`.  Hard: any number of scans of a mailbox overlap, each on a copy of the
row it read at its start; Pub/Sub repeats, reorders and drops notifications; a restart forgets the
goroutines.  Correct when: nothing below the stored `history_id` was skipped, nothing is archived that
a reviewer cannot find, the quota holds, every message is examined, and is not held twice.

**Mail submission** (`broker-service/cmd/api/handlers.go`, `event/email_emitter.go`).  Publishes the
email, transient, to the first queue and answers 202.  Holds one connection that is dialled once.

**Compliance pipeline** (`ai-compliance-service/cmd/api/{main,pipeline}.go`, `event/`,
`data/models.go`).  State: three RabbitMQ queues, the audit log, quarantine rows, the history of
precedents.  Operations: `processEmail` (analyse, route, audit, remember, acknowledge),
`runQuarantineWorker`, `runBlockedWorker`.  Hard: at-least-once delivery with effects before the
acknowledgement, a discard without dead-letter queue, a requeue without limit, one process whose
death or lost connection interrupts three consumers at once.  Correct when: an accepted email is
delivered, held or excused, the audit log is truthful, duplicates have a cause.

**Synchronous check** (`POST /internal/check`, and `POST /v1/check`).  The same agent without
queues; the scanner calls it.

**Agent loop and retrieval** (`ai-compliance-service/compliance/agent.go`).  At most ten turns of a
language model with tools, retries on 429, and a parser of its verdict that does not check the word.
Hard: the caller leaves while a tool, a wait or a request is under way; a turn asks for several tools,
unknown ones among them.  Correct when: every call of a turn is answered before the next request, and
one paid scan costs a bounded number of requests to the model.

**Quarantine review and release** (`tenant-service/cmd/api/{handlers,release_handlers}.go`,
`data/{models,auth}.go`).  State: `quarantine.status`, `release_requests`, the Gmail labels, what
`mail-service` has sent.  Operations: review, request, act on a request, restore the label INBOX (in
a goroutine), forward.  Hard: two owners, or an owner and an approval, at once; the scanner archives
after the row is visible; ignored errors; retention deletes undecided rows.  Correct when: the first
decision stands, nothing is mailed twice, what is released arrives, what is not stays out.

**Retention job** (`ai-compliance-service/cmd/api/retention.go`).  Deletes old rows of every status.

**Gmail connection** (`google_handlers.go`, `internal_handlers.go`, `data/{oauth,plans}.go`).  State: one
row of `oauth_tokens` per user, `tenants.mailbox_count`, Gmail's watches.  Operations: connect
(the count is read, then incremented), disconnect, renewal of watches, token refresh (upserts the row
a scan read earlier).  Hard: counter, row and watch are written by separate statements; the tenant comes
from the access token while people change organisations; a refresh brings back a row deleted meanwhile.
Correct when: the counter counts the rows, the limit holds up to the requests at once, mail is checked
for the organisation of its reader, a connected mailbox has a watch.

**Membership and invitations** (`{auth,members,sso}_handlers.go`, `data/{invites,auth,plans,models}.go`).
State: users, tenants, memberships, invitations.  Operations: registration, set-up, invite, four ways of
accepting, removal, leaving, the limit enforced after a downgrade.  Hard: no handler uses a
transaction, so every request is a series of statements that others interleave with or that is cut;
limits are checked statements before the member is added.  Correct when: nobody is left without an
organisation and no organisation without its owner, except by causes one can name; a team exceeds its limit by the
requests at once at most; a paid tenant is never deleted.

**Sign-in, sessions and SSO** (`{auth,sso}_handlers.go`, `jwt.go`, `middleware.go`, `data/auth.go`,
`front-end/src/{context/AuthContext.tsx,api}`).  State: rows of `user_sessions`, access tokens that
nobody can revoke, the browser's local storage and a copy of it per tab.  Hard: tabs refresh and sign
out side by side, late answers overwrite newer tokens, a removal races a refresh.  Correct when: access
ends one token's life after the session or the membership did, and nobody is signed out without cause.

**Billing and plans** (`billing_handlers.go`, `data/billing.go`).  State: a tenant's customer,
subscription and plan; Stripe's own.  Hard: events are neither ordered nor deduplicated and always
answered with 200; checkout makes a customer per request.  Correct when: the tenant agrees with Stripe
once everything is told, who pays is known, and no tenant gets more than was sold to it.

**Rate limiter** (`ratelimit.go`).  A sliding window per address behind a mutex, entered in
another order than that of the requests' times.  Correct when: the limit holds, and only those who exceed
it are refused.

**Policies, settings, export; mail-service; front end; database schema.**  Sequential requests, a
stateless adapter to an HTTP mail provider, presentation, and tables.  The constraints of the schema
that decide whether a statement succeeds are guards in the models.

### How they interact

`broker-service` -> RabbitMQ -> `ai-compliance-service` -> `mail-service`, or -> RabbitMQ -> its own
storage workers -> PostgreSQL.  `tenant-service` calls `ai-compliance-service` for a verdict, Gmail
for listing and labels, `mail-service` to forward, and shares PostgreSQL with
`ai-compliance-service`: the row a storage worker or the scanner inserts is the row an owner decides
on, and the retention job of the one service deletes rows the other is working on.  There is no lock
and, with few exceptions, no transaction over two statements; what is atomic is one SQL statement.

The access token ties the rest together: it names the tenant a handler of `tenant-service` works for,
outlives the membership it was issued for, and its role decides who may act.  Billing's plan limits
the mailboxes of `GmailConnection`, the team of `Membership` and the scans of `GmailScan` and
`AgentLoop`; leaving an organisation leaves one's mailbox connected for it.

### Hazards

`PROJECT.json` lists them at their lines.  Those that shaped the models: a copy of the token row used
to the end of a scan; history ids stored in any order; the webhook acknowledging before it scans; two
statements where one decision is made; an effect before an acknowledgement; ignored results of
updates; a requeue that never ends; a row visible before the message is archived; a limit checked
statements before it is used up; requests that stop halfway; events in any order; answers that come late.

## The models and the code

**Atomicity.**  An action is one database statement, one call to another service or one
RabbitMQ operation, with the code up to the next of them.  Between two actions of a handler or goroutine
anything else may happen.  A call that fails is a branch of its action, taken when the model's `Happens`
has the event (`"dberror"`, `"gmailerror"`, `"mailerror"`, `"aierror"`, ...).  A run names the events
it allows; the theorems hold for every set of them.

### GmailScan

Messages are numbered by arrival; after n arrivals the mailbox's history id is n + 1.  Workers and the
ticker are processes with the local variables of a scan (`kind`, `from`, `target`, `todo`) and a `pc`.
`GmailPubSubWebhook`, `ManualScan` and `FallbackScan` begin a scan with the copy of the row;
`FetchHistory`/`FetchList` list; `LookUp`, `CheckAndIncrementScan`, `Judge`, `Archive` are the body of
`scanMessages`; `UpdateHistoryID` and `UpdateLastScanned` end it.  `CallWatch` and `UpdateWatch` are
`registerWatch`, called by the ticker in `renewAllWatches` and by a request that connects the mailbox
again (`"reconnect"`); `Restart` kills the service, after which the ticker renews the watch.
`LoseNotice` is a notification Pub/Sub gave up, or one whose look-up of the row failed: the webhook
answers 200 to that too.  The clock is
kept only as the order of arrivals: a window "the last 24 hours" may begin at any arrival.
`examined`, `missed`, `blind` and `granted` are history variables; no guard reads them.

### CompliancePipeline and MailPromise

Each queue is a sequence whose head, while a consumer works on it, is the unacknowledged delivery:
prefetch is one and the consumer acknowledges by hand, so taking the delivery back after a crash or a
requeue leaves it where it is.  `Receive`, `RunLoop`, `SendToMailService` / `Publish` /
`RouteNowhere`, `InsertAuditLog`, `InsertEmailHistory`, `Ack` are `processEmail` and the loop in
`main` around it; an error in any of them is `Discard` (Nack without requeue).  `InsertQuarantine` and
`InsertQuarantineFails` are the two storage workers.  `Crash` kills the process; `LoseConnection`
closes its connection, on its own or because RabbitMQ restarts and forgets the transient messages;
`Exit` is the end of the loop over a closed delivery channel and the restart by docker.  The agent may
give any verdict, a different one for a redelivered email, and a word that is none of the four, which
the CHECK of `audit_log` refuses.  `Unstorable` and `Unloggable` are the emails whose columns the one or
the other table refuses: their limits differ.  Every body in the queues is what its sender marshalled
from the fields the consumer reads, so the Nack after a failing `json.Unmarshal` has no case.

`MailPromise` says what all this is for: an email is new, open or closed; an open one may be
delivered, held or hit by a failure; it may be closed only once one of these was the case.  The
refinement mapping in `CompliancePipeline` calls an email open from the 202 until it left the first
queue and the hand of `processEmail`.

### QuarantineReview

A handler is one HTTP request with the copies it made of its arguments.  `GetQuarantineByID`,
`UpdateQuarantineStatus` and `ForwardToMailService` are `ReviewQuarantine`; `CheckReleaseRequest` and
`InsertReleaseRequest` are `SubmitReleaseRequest`; `ActionReleaseRequest`, `ApproveRelease` and
`RestoreApproved` act on a request; `RestoreGmailInbox` is the goroutine of that name.
`InsertQuarantine` and `Archive` are what the scanner does to the row and the message; `DeleteRows` is
the retention job or the erasure of a tenant; `Restart` forgets handlers, goroutines and the scan.
A statement or a forward may be carried out while its answer is lost: in `UpdateQuarantineStatus` that is
a branch of its own; elsewhere the state is the same as that of a branch there is, which the comment names.
`archived`, `unsaved` and `unreached` are history variables.

### AgentLoop

`CheckEmail` pays for the scan, `Post` calls the other service, `Retrieve` gathers the context, then
`SendMistralOnce`, `RateLimited`/`Backoff`, `AsksForTools`, `ExecuteTool`, `ToolRemediateContent`/`Rewritten`
and `NextTurn` are `RunLoop`; `ParseVerdict`, `InsertCheckLog` and `Reply` end the check.  A conversation
is the sequence of its messages, each known by its role and the calls it is about.  `sends` counts every
request a scan sends to the model, those for embeddings (`Retrieve`, and the tools of `LooksUp`) and for
a rewriting included.  `CallerLeaves` and `ContextDone` are two steps, since the second context ends some
time after the first; that no request leaves after it is net/http's doing and no property here.

### GmailConnection

`GoogleCallback`, `Increment`, `StoreToken`/`StoreFails` and `RegisterWatch` connect;
`GmailDisconnect`, `Delete`, `Decrement` and the goroutine `StopWatch` disconnect; `StartScan` and
`EndScan` are what a scan does to the row; `RenewWatch` is `renewAllWatches`.  `tokens` are the
organisations that a user's access tokens name: a callback works for that of the token which went to the
consent screen as its state, where the user may have been before.  `ChangeOrg`, `DeleteTenant`
(rows go by ON DELETE CASCADE) and `ChangeAllowance` stand for the modules around.  `drift`, `movers` and
`unwatched` are history variables: they record the named causes that each property excepts.

### Membership

A request is a series of the statements it executes, with a copy (`req`) of what it read.  Five
handlers end with `CreateTenant` and `Own`; the four ways of accepting an invitation share `EmptyTenant`,
`DropTenant` (the two DELETEs of `DeleteTenant`), `Depart`, `Join` and `Consume`.  `Cut` ends a request
anywhere with nothing undone; `Slips` is a statement that fails where the handler ignores it: a look-up of
the user's organisation that then counts as none (`OrgRead`), the look-up of the tenant or of its members
that was to check the limit, the DELETEs before joining.  `passes` are the access tokens with the role
user, which `LeaveOrganization` believes as long as they are valid.  `Guests` are those whom owners
invite, `Finders` others who use an invitation's link: `AcceptInviteJWT` and `SSOInvited` compare nobody with
the address that was invited.  `ChangePlan` is billing's UPDATE, which often stores the same plan again, and
`EnforceTeamLimit` what follows it.  Tenant ids are not used again.  `walkins` are members who joined without
a check of the limit: by a way that has none, or because the statement of the check failed.

### Sessions

The browser's tabs are the processes; `call` is the refresh or login a tab waits for.  `Login`/`StoreAuth`
sign in; `ApiFetch`, `TryRefresh`, `Refresh`, `RefreshLookup`, `Answered` are a refused request and the
refresh it starts; `SignOut` forgets the keys and leaves `DeleteSession` under way.  `RemoveMember`,
`Provision` and `DeleteAllUserSessions` are the removal, which ends early with `RemovalFails`.  Time passes between requests only: a
statement has three seconds, a token fifteen minutes; answers may come any time later.

### Billing

Stripe's side (`Purchase`, `ChangePrice`, `EndSubscription`) reports by stamped events that `BillingWebhook`
takes in any order, again, or never; `Fetch` and `Write` are the statement and call that follow.
`BillingCheckout` copies the customer, `NewCustomer` makes one if there was none and stores it,
`OpenPage` opens a page for the copy, `CheckoutFails` is an error of Stripe in either;
`BillingSync` writes what Stripe says of the subscription it copied.

### RateLimit

`Arrive` reads the clock, `Serve` is everything under the mutex; `Passes` is time: a request waits
for the mutex no longer than `Slack`.  The slice of times of an address is the set of the requests
they are of, which are numbered so that two of one moment are two, and the time at its end, which is
all the clean-up looks at.

## What is checked

| run | states | properties | outcome |
|---|---|---|---|
| `scan` | 763 thousand | `TypeOK`, `WatermarkSound`, `ArchivedIsHeld`, `QuotaRespected` | hold |
| `scan_live` | 51 thousand | `DuplicatesBounded`, `EveryMessageExamined`, `HeldLeavesInbox` | hold |
| `scan_downtime` | | `EveryMessageExamined` | violated |
| `pipeline` | 445 thousand | `TypeOK`, `NothingVanishes`, `AuditTruthful`, `DuplicatesArePaid`, `KeepsPromise` | hold |
| `pipeline_live` | 29 thousand | `HeldReachesReviewers`, `KeepsPromiseFairly` | hold |
| `pipeline_poison` | | `HeldReachesReviewers` | violated |
| `review` | 472 thousand | `TypeOK`, `MailedOnce`, `OpenRequestsBounded`, `PendingStaysOut`, `DecisionsFinal`, `ReleasedReachesRecipient` | hold |
| `organisation` | 826 thousand | `TypeOK`, `NobodyStranded`, `EveryTenantOwned`, `TeamBounded`, `PaidRowsStay` | hold |
| `users` | 1.7 million | `TypeOK`, `CountExact`, `MailboxesBounded`, `ScannedForOwnOrg`, `ConnectedIsWatched`, `AccessEndsInTime`, `SignedOutForCause` | hold |
| `service` | 1.8 million | `TypeOK`, `InStep`, `PayerKnown`, `NeverAboveSold`, `Limited`, `RefusedForCause`, `ToolsAnswered`, `SpendBounded` | hold |
| `review_reject` | | `RejectedStaysOut` | violated |
| `review_release` | | `ReleasedIsRestored` | violated |

Every property of a run that holds has a mutant in `PROJECT.json`: a definition changed the way a bug
would change the code, under which TLC finds the property violated.

### Bounds, and why they are enough

* `scan`: two messages, two workers (webhooks, or the mailbox connected again) and the ticker, a page of one record, a quota of one, one
  restart, all faults but duplicated notifications.  Two overlapping scans with two notifications are
  what it takes to store ids out of order; a page of one makes a burst of two exceed it; a quota of one is exceeded by the
  second message.  Manual and fallback scans are left to `scan_live`.
* `scan_live`: no faults, no restart, no limit and pages that hold everything, since the properties do not
  survive these (see below); one worker and the ticker overlap, with repeated notifications.
* `pipeline`: two emails (one stands behind the other in a queue; one belongs to a tenant that wants LOW
  mail held), one crash, lost connection or ambiguous commit, and all kinds of errors, any number of times.
  `MaxFaults` is what bounds the duplicates, hence the state space.
* `pipeline_live`: two emails, a restart of RabbitMQ, a failing agent and a failing database.
* `review`: one entry from Gmail and one from the mail path, one user, two requests served at once, two
  release requests and one restart, with erasure and failing statements and forwards.  Two handlers are what
  every race between two decisions needs.  Events left out for the size: a failing Gmail call, whose outcome,
  a label not restored or a message not archived, a restart at the same place has too; and retention, which
  may delete one of two rows where erasure deletes what there is: entries meet only in handlers, and the
  theorems about this module hold for both.

* `organisation`: a founder with a paid team, the owner of a free tenant, and a newcomer who may sign in by SSO; two
  requests at once, two invitations, one spare tenant id for new ones, and one change of plan, cut or failed statement.
  The founder is the one who uses another's invitation (`Finders`), and is not invited: owners of a paid tenant who
  join another by somebody else's link are the case that matters.
  The newcomer is the one whom owners invite, twice, to one team or to two (`Guests`).
  Two requests of three people hold every pair of handlers.  A team of two with one place is at the bound of `TeamBounded`
  when the newcomer has joined it by one token while the other waits, and above the limit when a downgrade trimmed the
  team while an acceptance waited.  Two different invitees past the same check take the team above it without a
  downgrade: with a second guest the run is too long, and `TeamsStayBounded` is what shows the bound for any number.
* `users`: two users, tenants and requests, one fault and one change around them; and two tabs with two
  sessions, one removal, one failed request and tokens that live one unit of two.  The two modules share
  no state (the access token is where they meet, and `GmailConnection` lets it name any tenant), so the run is the
  union of the two state spaces: a behaviour belongs to one of them.
* `service`: the union, likewise, of `Billing` (two customers, two subscriptions, three changes at Stripe of which a
  fault takes one, two requests at once), `RateLimit` (two addresses, two goroutines, five requests, a wait of
  two in a window of five, and time for nearly two windows) and `AgentLoop` (three turns, two retries, two tool calls per turn, three kinds of tool, two scans).  Overtaking reports need
  two changes, a replaced customer two checkouts, and a window that forgot something one that has passed.  The wait is two because with one
  the two bounds that come to mind for `Limited` agree (see the proofs).

The systems may stop when no input comes, so deadlock is checked in the scanner only.
The scanner's ticker never stops.

### Fairness, and what justifies it

Goroutines and handlers that can run do run (weak fairness).  Pub/Sub retries a notification until the
webhook answers, so a delivery that is possible again and again takes place (strong fairness, in
`GmailScan`); the hourly ticker fires for ever.  Docker restarts a process that exits
(`restart: always`): weak fairness of `Exit`.  PostgreSQL may fail an INSERT any number of times but not
for ever: strong fairness of `InsertQuarantine`.  Nobody is obliged to submit, ask or decide, and no
fault is fair.  No fairness is assumed, and no liveness claimed, of the other modules: their requests
are started by people, may be cut anywhere, and a request to the model has no time-out.

### Where the code differs from what is said of it

* `scan_downtime`.  The comments of `startWatchRenewal` say the fallback catches messages missed while
  the service was down.  The trace: the service restarts, with no scan under way; a message arrives before
  the watch is renewed; `renewAllWatches` stores the current `history_id`, past the message; its own
  notification is delivered late and lists the history from there, finds nothing and stamps
  `last_scanned_at` with the time it ends; the fallback lists what came after that.  Neither way of listing
  returns the message again.
* `pipeline_poison`.  "GoMailGuard never discards; everything goes to a review queue."  The storage
  workers requeue whatever the INSERT says.  A row the table can never take (a subject beyond
  `VARCHAR(500)`, a deleted tenant) comes back to the head of the queue for ever, and every email behind
  it, of every tenant, waits.
* `review_reject`.  "Reject: audit only."  `ActionReleaseRequest` ignores the result of the status
  update, so approving a request for an entry that was rejected leaves it rejected and restores its message.
* `review_release`.  "Releasing an email restores it to the Gmail inbox."  The row is visible before the
  scanner has archived the message; a release in between restores first, the scanner archives afterwards.

More was met on the way that no run refutes, because the properties are stated with it:

* `RemoveMember` and `LeaveOrganization` say a user is "never tenant-less" (`members_handlers.go:158`, `:194`).
  A cut request, `EnforceTeamLimit`, a tenant its owner deletes and an invitation whose tenant is gone do leave one
  without (`NobodyStranded`); someone who signs in by SSO only cannot repair it by `SetupOrg`.
* `DeleteTenant` guards the row against a plan bought meanwhile, not the memberships it deletes
  first: the paid row stays without owner (`PaidRowsStay` holds, `EveryTenantOwned` names it).
* Accepting an invitation by SSO or while signed in checks neither the team limit nor a paid tenant that is left
  behind, nor whether it is the invited person who accepts.
* `AcceptInvite` enforces the team limit "at acceptance time" (`auth_handlers.go:163`) unless one of the two statements
  it takes fails: then the member is let in, however many there are (`TeamBounded` leaves such members out).
* A mailbox connected by a user who changed organisation during Google's consent screen belongs to the old one
  (`ScannedForOwnOrg` excepts who moved since asking to connect).
* "First-time Starter subscribers get a 14-day free trial" (`billing_handlers.go:98`): a cancelled subscription
  clears the column the code asks, so returning customers get it again.  Neither the webhook nor the sync looks at a
  subscription's status, and nothing stops a second subscription (`InStep` excepts both).
* Disconnecting "stops all email scanning" (`Privacy.tsx:165`): a scan under way that refreshes its token
  inserts the deleted row again (`ScannedForOwnOrg` and `CountExact` say what else that upsets).
* Any failed refresh, a 429 or a broken network too, signs the tab out (`SignedOutForCause`).
* A client that keeps trying is never let in, since refused requests are counted (`RefusedForCause`).
* A check whose model says nothing waits for as long as its caller does; the scan stays paid whatever fails.

A few hazards of `PROJECT.json` have no property, because the code does let them happen and says nothing
to the contrary; a note there says what becomes of them (a message whose archiving failed, a burst beyond a
page, a list given up at the quota, unreadable settings, a token row that a scan brings back, a customer made twice).

What holds is stated with the exceptions the code has, and the exceptions are part of the property:
`NothingVanishes` excuses a discard after an error and transient messages lost in a restart of RabbitMQ;
`DuplicatesArePaid` allows one more copy per delivery taken back; `PendingStaysOut` excepts an approval
whose UPDATE failed unnoticed; `ReleasedReachesRecipient` lists each way a release may be stranded.

## What is proved

For every value of the constants: any number of messages, emails, entries, users, tenants, workers, handlers, faults
and any set of events.

| theorem | of | the argument |
|---|---|---|
| `TypeCorrect` | `GmailScan` | `TypeOK` is inductive; one lemma per piece of the scan's locals |
| `QuotaNeverExceeded` | | with `granted <= used`: what was allowed was counted, and the count is compared after the increment |
| `ArchivedOnlyWhenHeld` | | a process about to archive a message has a row for it, and rows are only added |
| `WatermarkIsSound` | | a history scan starts from an id below which all was covered, and keeps in its loop every listed message not covered; so the id it stores is safe, whichever ids others stored meanwhile |
| `DuplicatesOnlyFromOverlap` | | the property is inductive, since it counts the processes past the look-up of the message: a scan passes it only while there is no row, and an INSERT turns one of them into a row |
| `TypeCorrect` | `CompliancePipeline` | needs `InHand`: while the connection is open, what a consumer holds is the head of its queue, so `Tail` takes what was worked on |
| `NothingVanishesEver` | | `Routed` and `Stored`: past the routing the email has its outcome or a verdict the audit log will refuse, and a storage worker acknowledges only what has a row; and an outcome is for good |
| `PromiseKept` | | the safety part of the refinement of `MailPromise`.  `Traceable` (what a consumer holds was submitted and is still queued, unless RabbitMQ lost it under `processEmail`) shows that an email is open whenever something happens to it; then one lemma per kind of step: publishing is `Hold`, sending is `Deliver`, giving up is `Fail`, letting go is `Close` or nothing, a restart of RabbitMQ is one `Fail` of the whole queue |
| `DuplicatesPaid` | | `PaidFor`: the `Debt` of an email, its copies anywhere and those that work under way will make or settle, less the deliveries of it taken back, is at most one; every step moves a copy from one place to another, or adds one to both sides |
| `LogTruthful` | | `Truth`, `ActionTaken` and `Precedents`: what the log says and `processEmail` is about to log is at most what was done; the action logged is the one taken; and a storage worker's message and the row made of it count as one |
| `TypeCorrect` | `QuarantineReview` | `TypeOK` is inductive; an open request is acted on once |
| `DecisionsAreFinal` | | only a pending row is updated, only deletion removes a decided one |
| `NothingMailedTwice` | | `MailInv`: an entry not released was not sent and is not about to be, at most one handler is about to send, and none is once it was sent |
| `PendingMailStaysOut` | | `InboxInv`: for an entry without a row nothing is under way, and while it is pending a restore can only stem from an approval whose UPDATE failed |
| `OpenRequestsStayFew` | | the property is inductive, since it counts the handlers between check and INSERT: the check found none open |
| `TypeCorrect` | `GmailConnection` | with `Employed`: a goroutine past its first step works on a user's mailbox for a tenant |
| `MailScannedForOwnOrg` | | `WritesOwn`: whoever may yet write the row of a user who did not move carries the user's organisation, so neither a late INSERT nor a revived row names another |
| `WatchedWhileConnected` | | the property is inductive: what inserts a row is the request that registers a watch next, or a scan, which is one of the causes |
| `CounterExact`, `LimitNearlyKept` | | `Balance`: for a tenant that no cause struck, the counter is exact, and what it counts stays below the most allowed with the requests that passed the check; one lemma per kind of statement on what it adds to or takes from three finite sets |
| `TypeCorrect` | `Billing` | with `Stocked`: live subscriptions have customers, and what asks Stripe for a price or a subscription has one |
| `NothingUnsold` | | `SoldInv`: nothing is reported, fetched or written before something was sold, and every plan under way is covered by a price sold by then, the default for an unknown price included |
| `PayerIsKnown` | | `PayInv`: a checkout that found a customer still finds it the tenant's; a new customer is stored over none, when no page and no subscription has another |
| `PlanInStep` | | `Clock` and `StepInv`: stamps order what the handlers work with.  No stamp lies ahead, and until a cause strikes whatever carries the newest stamp agrees with Stripe: reports, requests under way, the record of what was written last |
| `TypeCorrect` | `Membership` | with `Aimed`: a request past the statement that chose its tenants has one to fill, join or leave; and lemmas on the sequence of a user's rows, of which the handlers take the first or remove one |
| `PaidTenantsStay` | | an action property: each step that deletes a tenant row has the guard of the DELETE |
| `TenantsOwned` | | `RInv` (nobody touches a tenant whose owner is still to be inserted; a user has one row per tenant) and `Held`: a tenant has its owner, or a request at one of two places will give it one or take it away |
| `NobodyLeftOut` | | `CaredFor` and `Errands`: everyone has a tenant or a request at work on one, and what a request took is excused before it may fail to give it back |
| `TeamsStayBounded` | | `LoadBounded`: who passed the check and waits to join is counted with the members, so the check reads a count that misses at most the other requests; adding, removing and trimming are lemmas on finite sets; members let in by a failed check are outside the count from the start |
| `SessionsTypeCorrect` | `Sessions` | with `AtWork` and `Removal`: what the request under way of a tab, and the removal of a member, hold at each of their places |
| `TokensEndInTime` | | `InTime`: a token that is held anywhere, a late answer included, was issued before its session ended or the membership moved, a refresh past its look-up included, and time does not pass within a request |
| `NobodySignedOutWithoutCause` | | `Caused`: a session that ended, that a refresh found ended, or whose refusal is on its way to a tab, was revoked or its user removed |
| `AgentTypeCorrect` | `AgentLoop` | `AInv`, one induction with the next theorem: turns and attempts are counted within their bounds at each place of the loop |
| `ScanSpendsWithinBounds` | | with `Budget`: each place of the loop has its share of what a scan may cost, and every step that sends takes one from the share of its turn |
| `EveryCallAnswered` | | `Conversation`: while an answer is worked off, the messages after it are the results of the calls already made, in order, and the calls left are the rest of those it made |
| `LimiterTypeCorrect` | `RateLimit` | with `Arrived`, `Waits` and `Keys`: requests are finitely many and in the past, wait at most `Slack`, and enter the window of their own address |
| `LetInSeldom` | | `Kept`: what was let in stays in the window as long as it can matter to a request that is still to come, since the last to enter a window is at most `Slack` older than any other.  So a request that is let in finds all the others of its interval counted |
| `NobodyRefusedForNothing` | | what is counted was made, by that address, since a window before |
| `SideBySide` | `MCUsers`, `MCService` | each run is a behaviour of each module it puts side by side: so what is proved of the modules holds of the runs, as `UsersTypeCorrect` and `ServiceTypeCorrect` conclude for the types |

The assumptions are the named ASSUMEs of the modules (bounds are natural numbers, sets are what their
comments say, the ticker is no worker), which TLC evaluates in the runs.

Every invariant and every action property of the runs is proved.  **Only model-checked** are the
temporal properties, since fairness, liveness and ENABLED are outside what the prover handles: `EveryMessageExamined`,
`HeldLeavesInbox`, `HeldReachesReviewers`, `ReleasedReachesRecipient`, and `KeepsPromiseFairly`, which is
proved without its fairness only (`PromiseKept`).

### What proving found

* `Limited` said that the limit holds in any interval of the window less `Slack` and one.  That is false from a
  `Slack` of two on, and the run had one: a clean-up looks at the last request to enter a window, which may be
  `Slack` older than another in it, and a request reaches back by another `Slack`.  The property now says
  twice `Slack`; with an interval one unit longer TLC finds the limit passed in the run's own instance.
* `LeaveOrganization` let an owner take the branch that the code refuses to owners
  (`members_handlers.go:184`): `EveryTenantOwned` could not be proved until the guard was there.
* `MailboxesBounded` needs `Goroutines` not to be empty, and the counts over processes need them
  to be finitely many (`HandlersAssumption`, `WorkersAssumption`, `ConnectionFinite`).
* `OpenRequestsBounded`, `DuplicatesBounded` and `ConnectedIsWatched` are inductive as they stand, on top of the
  types; most other invariants needed the strengthening named in the table.

## What is not modelled, and why

* Contents: bodies, headers, policies, prompts and embeddings.  A verdict is any verdict.
* The delay of calls and of the ticker; a time-out is a call that fails.
* RabbitMQ losing a message it was sent without confirms; `broker-service` losing its connection
  (then `Submit` just does not happen).
* The branch of `tenant-service` for asynchronous Gmail results: no publisher sets a `gmail_message_id`, so
  no email of the mail path takes it.
* Policies, settings, export, the front end and `mail-service`'s own HTTP call: sequential, or presentation.
* The archive callback of the Gmail connection, for the same reason.
* Verification of e-mail addresses: `Membership` and `Sessions` speak of verified accounts, and an account
  that accepts an invitation before it verified its address is left out.
* An owner's access token that outlives the ownership: `InviteMember`, `CancelInvite` and `RemoveMember` need an owner
  of the tenant as it is.  The access tokens of `Membership` and `GmailConnection` do not expire: fifteen minutes
  are longer than these models, which have no clock.
* The seven days of a session, which outlast the model, and the cookies' attributes.

## Plan

1. Proofs: shorter forms of the longest ones (`MembershipProofs`, `CompliancePipelineProofs`), and action
   properties that the invariants imply, such as that a queue loses nothing but its head.
2. Publisher confirms and `broker-service`'s lost connection in `CompliancePipeline`; the
   verification of e-mail addresses in `Membership`.
