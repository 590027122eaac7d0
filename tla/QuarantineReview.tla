--------------------------- MODULE QuarantineReview ---------------------------
(***************************************************************************)
(* The review queue of tenant-service: quarantine rows, the release        *)
(* requests of users, the handlers in which owners decide on both, and     *)
(* what a decision does: a Gmail message gets its label INBOX back, any    *)
(* other email is sent again by mail-service.                              *)
(*                                                                         *)
(* A handler is one HTTP request.  Each of its database statements and     *)
(* calls is a step; between them other requests, the scanner that archives *)
(* what it stored, the retention job and a crash may come.                 *)
(***************************************************************************)
EXTENDS Naturals, FiniteSets

CONSTANTS
  Entries,      \* quarantined emails
  GmailEntries, \* those stored by the Gmail scanner, with a gmail_message_id
  Users,        \* users who may ask for a release
  Handlers,     \* HTTP requests served at once
  MaxRequests,  \* bound: release requests
  MaxCrashes,   \* bound: how often tenant-service is killed
  Happens       \* which of Events the environment may produce

Events == {"retention", "erasure", "mailerror", "gmailerror", "dberror"}

ASSUME EntriesAssumption == GmailEntries \subseteq Entries /\ Entries # {} /\ Users # {}
ASSUME HandlersAssumption == IsFiniteSet(Handlers)
ASSUME BoundsAssumption == MaxRequests \in Nat /\ MaxCrashes \in Nat
ASSUME EventsAssumption == Happens \subseteq Events

VARIABLES
  row,        \* quarantine.status; "none" before the INSERT, "deleted" after a DELETE
  open,       \* pending release_requests of each entry and user
  requests,   \* how many requests were inserted
  inbox,      \* the Gmail entries that carry the label INBOX
  archiving,  \* stored by a scan that has not called messages.modify yet
  restoring,  \* goroutines of restoreGmailInbox not yet done, per entry
  mailed,     \* how often mail-service sent an entry
  crashes,    \* how often tenant-service was killed
  pc,         \* where each handler is
  entry,      \* the entry it deals with
  user,       \* the user whose request it inserts
  choice,     \* the status it will set
  archived,   \* history variable: entries a scan took out of the inbox
  unsaved,    \* history variable: Gmail entries approved although their UPDATE failed
  unreached   \* history variable: entries released in a way that may not reach anyone

handVars    == <<pc, entry, user, choice>>
gmailVars   == <<inbox, archiving, restoring>>
requestVars == <<open, requests>>
historyVars == <<archived, unsaved, unreached>>
vars == <<row, requestVars, gmailVars, mailed, crashes, handVars, historyVars>>

Decided == {"released", "rejected"}
Rows    == {"pending"} \cup Decided
Exists(e) == row[e] \in Rows

TypeOK ==
  /\ row \in [Entries -> Rows \cup {"none", "deleted"}]
  /\ open \in [Entries -> [Users -> Nat]]
  /\ requests \in 0..MaxRequests
  /\ inbox \subseteq GmailEntries
  /\ archiving \subseteq GmailEntries
  /\ restoring \in [Entries -> Nat]
  /\ mailed \in [Entries -> Nat]
  /\ crashes \in 0..MaxCrashes
  /\ pc \in [Handlers -> {"idle", "update", "forward", "insert", "approve", "inform"}]
  /\ entry \in [Handlers -> Entries]
  /\ user \in [Handlers -> Users]
  /\ choice \in [Handlers -> Decided]
  /\ archived \subseteq GmailEntries
  /\ unsaved \subseteq GmailEntries
  /\ unreached \subseteq Entries

\* The value of a copy that no handler reads.
AnyEntry == CHOOSE e \in Entries : TRUE
AnyUser  == CHOOSE u \in Users : TRUE

Init ==
  /\ row = [e \in Entries |-> "none"]
  /\ open = [e \in Entries |-> [u \in Users |-> 0]]
  /\ requests = 0
  /\ inbox = GmailEntries
  /\ archiving = {}
  /\ restoring = [e \in Entries |-> 0]
  /\ mailed = [e \in Entries |-> 0]
  /\ crashes = 0
  /\ pc = [h \in Handlers |-> "idle"]
  /\ entry = [h \in Handlers |-> AnyEntry]
  /\ user = [h \in Handlers |-> AnyUser]
  /\ choice = [h \in Handlers |-> "released"]
  /\ archived = {} /\ unsaved = {} /\ unreached = {}

------------------------------------------------------------------------------
(* Where the rows come from: the scanner and the storage workers.           *)

InsertQuarantine(e) ==
  /\ row[e] = "none"
  /\ row' = [row EXCEPT ![e] = "pending"]
  /\ archiving' = archiving \cup (GmailEntries \cap {e})
  /\ UNCHANGED <<requestVars, inbox, restoring, mailed, crashes, handVars, historyVars>>

\* scanMessages takes the message out of the inbox after the INSERT; by then the row
\* is visible to reviewers.
Archive(e) ==
  /\ e \in archiving
  /\ archiving' = archiving \ {e}
  /\ \/ inbox' = inbox \ {e} /\ archived' = archived \cup {e}
     \/ "gmailerror" \in Happens /\ UNCHANGED <<inbox, archived>>
  /\ UNCHANGED <<row, requestVars, restoring, mailed, crashes, handVars, unsaved, unreached>>

------------------------------------------------------------------------------
(* ReviewQuarantine.                                                        *)

Goto(h, l) == pc' = [pc EXCEPT ![h] = l]

\* The handler answers; its copies are not read again: reset them.
Answer(h) ==
  /\ Goto(h, "idle")
  /\ entry' = [entry EXCEPT ![h] = AnyEntry]
  /\ user' = [user EXCEPT ![h] = AnyUser]
  /\ choice' = [choice EXCEPT ![h] = "released"]
Advance(h, l) == Goto(h, l) /\ UNCHANGED <<entry, user, choice>>

GetQuarantineByID(h, e, s) ==
  /\ pc[h] = "idle" /\ Exists(e)
  /\ Goto(h, "update")
  /\ entry' = [entry EXCEPT ![h] = e]
  /\ choice' = [choice EXCEPT ![h] = s]
  /\ UNCHANGED <<row, requestVars, gmailVars, mailed, crashes, user, historyVars>>

\* Mutant of StartRestore: the goroutine is not started.
NoRestore(e) == UNCHANGED restoring
\* go restoreGmailInbox(...), which returns at once for an entry not from Gmail.
StartRestore(e) ==
  restoring' = IF e \in GmailEntries THEN [restoring EXCEPT ![e] = @ + 1] ELSE restoring

\* Mutant of Undecided: the UPDATE has no status = 'pending'.
AnyRow(e) == Exists(e)
\* The WHERE clause of UpdateQuarantineStatus.
Undecided(e) == row[e] = "pending"

\* A release that cannot count on reaching the recipient.
Strand(e, really) == unreached' = IF really THEN unreached \cup {e} ELSE unreached

UpdateQuarantineStatus(h) ==
  LET e == entry[h] IN
  /\ pc[h] = "update"
  /\ \/ /\ Undecided(e)
        /\ row' = [row EXCEPT ![e] = choice[h]]
        /\ IF choice[h] = "rejected"
           THEN Answer(h) /\ UNCHANGED <<restoring, unreached>>
           ELSE /\ IF e \in GmailEntries THEN Answer(h) ELSE Advance(h, "forward")
                /\ StartRestore(e)
                /\ Strand(e, e \in archiving)
     \/ \* the UPDATE commits and its answer is lost: 500, and nothing is sent or restored
        /\ Undecided(e) /\ "dberror" \in Happens
        /\ row' = [row EXCEPT ![e] = choice[h]]
        /\ Answer(h)
        /\ Strand(e, choice[h] = "released")
        /\ UNCHANGED restoring
     \/ /\ ~Undecided(e) \/ "dberror" \in Happens
        /\ Answer(h)
        /\ UNCHANGED <<row, restoring, unreached>>
  /\ UNCHANGED <<requestVars, inbox, archiving, mailed, crashes, archived, unsaved>>

\* A failure answers 500; the row stays released, so a retry gets 404.  A request that
\* mail-service carries out and does not report is the first disjunct: the handler ends
\* either way, and keeps nothing that tells 500 from 200.
ForwardToMailService(h) ==
  LET e == entry[h] IN
  /\ pc[h] = "forward"
  /\ \/ mailed' = [mailed EXCEPT ![e] = @ + 1] /\ UNCHANGED unreached
     \/ "mailerror" \in Happens /\ UNCHANGED mailed /\ Strand(e, TRUE)
  /\ Answer(h)
  /\ UNCHANGED <<row, requestVars, gmailVars, crashes, archived, unsaved>>

------------------------------------------------------------------------------
(* SubmitReleaseRequest and ActionReleaseRequest.                           *)

\* Mutant of NoneOpen: the SELECT is missing.
NotChecked(e, u) == TRUE
NoneOpen(e, u) == open[e][u] = 0

\* CreateReleaseRequest looks for a pending request of the same user ...
CheckReleaseRequest(h, e, u) ==
  /\ pc[h] = "idle" /\ Exists(e)
  /\ NoneOpen(e, u)
  /\ Goto(h, "insert")
  /\ entry' = [entry EXCEPT ![h] = e]
  /\ user' = [user EXCEPT ![h] = u]
  /\ UNCHANGED <<row, requestVars, gmailVars, mailed, crashes, choice, historyVars>>

\* ... and inserts one; the foreign key refuses it when the entry is gone.  The status
\* of the entry is not looked at.
InsertReleaseRequest(h) ==
  /\ pc[h] = "insert"
  /\ \/ /\ Exists(entry[h]) /\ requests < MaxRequests
        /\ open' = [open EXCEPT ![entry[h]][user[h]] = @ + 1]
        /\ requests' = requests + 1
     \/ /\ ~Exists(entry[h]) \/ requests = MaxRequests \/ "dberror" \in Happens
        /\ UNCHANGED requestVars
  /\ Answer(h)
  /\ UNCHANGED <<row, gmailVars, mailed, crashes, historyVars>>

\* Mutant of ActionReleaseRequest: the UPDATE has no status = 'pending'.
ActionUnguarded(h, e, u, s) ==
  /\ pc[h] = "idle" /\ Exists(e)
  /\ open' = [open EXCEPT ![e][u] = @ - 1]
  /\ IF s = "approved"
     THEN Goto(h, "approve") /\ entry' = [entry EXCEPT ![h] = e]
     ELSE UNCHANGED <<pc, entry>>
  /\ UNCHANGED <<row, requests, gmailVars, mailed, crashes, user, choice, historyVars>>
\* Mutant of ActionReleaseRequest: the restore is not under the `approved' of the UPDATE.
ActionRestoringDenied(h, e, u, s) ==
  /\ pc[h] = "idle" /\ open[e][u] > 0
  /\ open' = [open EXCEPT ![e][u] = @ - 1]
  /\ Goto(h, IF s = "approved" THEN "approve" ELSE "inform")
  /\ entry' = [entry EXCEPT ![h] = e]
  /\ UNCHANGED <<row, requests, gmailVars, mailed, crashes, user, choice, historyVars>>
\* The owner acts on a pending request; one UPDATE ... RETURNING decides who does.  An
\* approval that commits and loses its answer does what a denial does.
ActionReleaseRequest(h, e, u, s) ==
  /\ pc[h] = "idle" /\ open[e][u] > 0
  /\ open' = [open EXCEPT ![e][u] = @ - 1]
  /\ IF s = "approved"
     THEN Goto(h, "approve") /\ entry' = [entry EXCEPT ![h] = e]
     ELSE UNCHANGED <<pc, entry>>
  /\ UNCHANGED <<row, requests, gmailVars, mailed, crashes, user, choice, historyVars>>

\* _ = UpdateQuarantineStatus(...): neither "already reviewed" nor an error stops it.
ApproveRelease(h) ==
  LET e == entry[h] IN
  /\ pc[h] = "approve"
  /\ \/ /\ Undecided(e)
        /\ row' = [row EXCEPT ![e] = "released"]
        /\ Strand(e, e \in archiving \/ e \notin GmailEntries)
        /\ UNCHANGED unsaved
     \/ ~Undecided(e) /\ UNCHANGED <<row, unreached, unsaved>>
     \/ /\ "dberror" \in Happens
        /\ unsaved' = unsaved \cup ({e} \cap GmailEntries)
        /\ UNCHANGED <<row, unreached>>
  /\ Advance(h, "inform")
  /\ UNCHANGED <<requestVars, gmailVars, mailed, crashes, archived>>

\* GetQuarantineGmailInfo, then the goroutine.  Nothing sends an entry not from Gmail.
RestoreApproved(h) ==
  LET e == entry[h] IN
  /\ pc[h] = "inform"
  /\ \/ Exists(e) /\ StartRestore(e) /\ UNCHANGED unreached
     \/ /\ ~Exists(e) \/ "dberror" \in Happens
        /\ Strand(e, TRUE)
        /\ UNCHANGED restoring
  /\ Answer(h)
  /\ UNCHANGED <<row, requestVars, inbox, archiving, mailed, crashes, archived, unsaved>>

RestoreGmailInbox(e) ==
  /\ restoring[e] > 0
  /\ restoring' = [restoring EXCEPT ![e] = @ - 1]
  /\ \/ inbox' = inbox \cup {e} /\ UNCHANGED unreached
     \/ "gmailerror" \in Happens /\ UNCHANGED inbox /\ Strand(e, TRUE)
  /\ UNCHANGED <<row, requestVars, archiving, mailed, crashes, handVars, archived, unsaved>>

------------------------------------------------------------------------------
(* Deletions and crashes.                                                   *)

\* The retention job deletes whatever row is old enough, decided or not, and
\* DeleteTenantData every row; release_requests go with them (ON DELETE CASCADE).
DeleteRows(es) ==
  /\ es # {} /\ \A e \in es : Exists(e)
  /\ \/ "retention" \in Happens
     \/ "erasure" \in Happens /\ es = {e \in Entries : Exists(e)}
  /\ row' = [e \in Entries |-> IF e \in es THEN "deleted" ELSE row[e]]
  /\ open' = [e \in Entries |-> IF e \in es THEN [u \in Users |-> 0] ELSE open[e]]
  /\ UNCHANGED <<requests, gmailVars, mailed, crashes, handVars, historyVars>>

\* The process dies: handlers, goroutines and the scan are forgotten.
Restart ==
  /\ crashes < MaxCrashes
  /\ crashes' = crashes + 1
  /\ unreached' = unreached \cup {e \in Entries : restoring[e] > 0}
                            \cup {entry[h] : h \in {g \in Handlers : pc[g] \in {"forward", "inform"}}}
  /\ pc' = [h \in Handlers |-> "idle"]
  /\ entry' = [h \in Handlers |-> AnyEntry]
  /\ user' = [h \in Handlers |-> AnyUser]
  /\ choice' = [h \in Handlers |-> "released"]
  /\ restoring' = [e \in Entries |-> 0]
  /\ archiving' = {}
  /\ UNCHANGED <<row, requestVars, inbox, mailed, archived, unsaved>>

------------------------------------------------------------------------------
\* The steps of a handler that is under way.
HandlerStep(h) ==
  \/ UpdateQuarantineStatus(h)
  \/ ForwardToMailService(h)
  \/ InsertReleaseRequest(h)
  \/ ApproveRelease(h)
  \/ RestoreApproved(h)

Next ==
  \/ \E e \in Entries : InsertQuarantine(e)
  \/ \E e \in GmailEntries : Archive(e) \/ RestoreGmailInbox(e)
  \/ \E h \in Handlers, e \in Entries :
       \/ \E s \in Decided : GetQuarantineByID(h, e, s)
       \/ \E u \in Users : \/ CheckReleaseRequest(h, e, u)
                           \/ \E s \in {"approved", "denied"} : ActionReleaseRequest(h, e, u, s)
  \/ \E h \in Handlers : HandlerStep(h)
  \/ \E es \in SUBSET Entries : DeleteRows(es)
  \/ Restart

Spec == Init /\ [][Next]_vars

(* Handlers and goroutines run; nobody is obliged to ask or to decide.      *)
Fairness ==
  /\ \A h \in Handlers : WF_vars(HandlerStep(h))
  /\ \A e \in GmailEntries : WF_vars(Archive(e)) /\ WF_vars(RestoreGmailInbox(e))

FairSpec == Spec /\ Fairness

------------------------------------------------------------------------------
(* What the review queue promises.                                          *)

\* A decision is final: however many owners review an entry and approve requests for
\* it at once, the first one stands.  Only a deletion ends it.
DecisionsFinal ==
  [][\A e \in Entries : row[e] \in Decided => row'[e] \in {row[e], "deleted"}]_vars

\* mail-service gets an entry at most once, and only one that was released: of two
\* handlers that read the same pending entry only one goes on to send it.
MailedOnce ==
  \A e \in Entries :
    LET sending == {h \in Handlers : pc[h] = "forward" /\ entry[h] = e} IN
    /\ mailed[e] + Cardinality(sending) <= 1
    /\ mailed[e] > 0 => row[e] \in {"released", "deleted"}

\* A user has no more pending requests for an entry than there are requests to the
\* service at once: CreateReleaseRequest checks before it inserts, without a lock or
\* a unique index.
OpenRequestsBounded ==
  \A e \in Entries, u \in Users :
    open[e][u] + Cardinality({h \in Handlers : pc[h] = "insert" /\ entry[h] = e /\ user[h] = u})
      <= Cardinality(Handlers)

\* A message that a scan took out of the inbox stays out while its entry is pending,
\* except when the UPDATE of an approval failed unnoticed.
PendingStaysOut ==
  \A e \in GmailEntries :
    row[e] = "pending" /\ e \in archived /\ e \notin unsaved => e \notin inbox

\* What is released reaches its recipient, by its label or by mail-service, unless the
\* scan was still to archive it, a call or a statement failed or its answer was lost, a
\* crash came, its entry was deleted meanwhile, or it is an email not from Gmail that was
\* released on request.
ReleasedReachesRecipient ==
  \A e \in Entries :
    row[e] = "released" ~> mailed[e] > 0 \/ e \in inbox \cup unreached \/ row[e] = "deleted"

\* What the owner rejected stays out of the inbox ("reject (-> audit only)").
RejectedStaysOut ==
  \A e \in GmailEntries : row[e] = "rejected" /\ e \in archived => e \notin inbox

\* README: releasing an email restores it to the Gmail inbox.
ReleasedIsRestored ==
  \A e \in GmailEntries : row[e] = "released" ~> [](e \in inbox)
==============================================================================
