-------------------------- MODULE CompliancePipeline --------------------------
(***************************************************************************)
(* The mail path: broker-service accepts an email and publishes it,        *)
(* ai-compliance-service judges it (processEmail) and delivers or          *)
(* publishes it again, and its two storage workers write the quarantine    *)
(* rows.  RabbitMQ lies between them.                                      *)
(*                                                                         *)
(* Each queue has one consumer with prefetch 1 and manual acknowledgement, *)
(* so the delivery a consumer works on stays at the head of its queue      *)
(* until it is settled, and is there again after a crash, a lost           *)
(* connection or a Nack with requeue.  The three consumers are goroutines  *)
(* of one process and share one connection: they die together.             *)
(***************************************************************************)
EXTENDS Naturals, Sequences, FiniteSets

CONSTANTS
  Emails,       \* what the tenants submit, once each
  ManualLow,    \* the emails of tenants whose auto_deliver_low is false
  Unstorable,   \* emails the table quarantine refuses, e.g. a recipient beyond VARCHAR(255)
  Unloggable,   \* emails audit_log refuses; a subject beyond VARCHAR(500) is one for both
  NoMail,       \* in the hand of a consumer that has none
  MaxFaults,    \* bound: crashes, lost connections and ambiguous commits
  Happens       \* which of Events the environment may produce

Events == {"crash", "disconnect", "brokerrestart", "aierror", "mailerror", "dberror", "otherverdict"}

ASSUME EmailsAssumption == NoMail \notin Emails /\ ManualLow \cup Unstorable \cup Unloggable \subseteq Emails
ASSUME FaultsAssumption == MaxFaults \in Nat
ASSUME EventsAssumption == Happens \subseteq Events

VARIABLES
  queue,       \* per queue, the emails in it, the unacknowledged one first
  connected,   \* is the AMQP connection of ai-compliance-service open?
  pc,          \* where each consumer is
  work,        \* the email in its hand
  verdict,     \* processEmail: the agent's verdict
  action,      \* processEmail: the action it will log
  submitted,   \* emails broker-service answered 202 for
  delivered,   \* how often each email was handed to mail-service
  rows,        \* quarantine rows of each email, by the worker that inserts them
  audit,       \* audit_log rows of each email, by action_taken
  precedents,  \* emails stored in email_history_embeddings
  faults,      \* how much of MaxFaults was used
  failed,      \* history variable: emails discarded after an error
  lost,        \* history variable: emails RabbitMQ forgot when it restarted
  repeats      \* history variable: how often a delivery of an email was taken back

brokerVars  == <<queue, connected>>
handVars    == <<pc, work>>
chosenVars  == <<verdict, action>>
outcomeVars == <<delivered, rows, audit, precedents>>
faultVars   == <<faults, failed, lost, repeats>>
vars == <<brokerVars, handVars, chosenVars, submitted, outcomeVars, faultVars>>

Stores    == {"quarantine", "blocked"}
Consumers == {"ingest"} \cup Stores
Verdicts  == {"CLEAN", "LOW", "MEDIUM", "HIGH", "OTHER"}
Actions   == {"delivered", "remediated_and_delivered", "quarantined", "blocked"}

TypeOK ==
  /\ queue \in [Consumers -> Seq(Emails)]
  /\ connected \in BOOLEAN
  /\ pc \in [Consumers -> {"idle", "analyse", "route", "audit", "history", "insert", "ack"}]
  /\ work \in [Consumers -> Emails \cup {NoMail}]
  /\ verdict \in Verdicts
  /\ action \in Actions \cup {"unknown"}
  /\ submitted \subseteq Emails
  /\ delivered \in [Emails -> Nat]
  /\ rows \in [Stores -> [Emails -> Nat]]
  /\ audit \in [Emails -> [Actions -> Nat]]
  /\ precedents \subseteq Emails
  /\ faults \in 0..MaxFaults
  /\ failed \subseteq Emails
  /\ lost \subseteq Emails
  /\ repeats \in [Emails -> Nat]

Init ==
  /\ queue = [c \in Consumers |-> <<>>]
  /\ connected = TRUE
  /\ pc = [c \in Consumers |-> "idle"]
  /\ work = [c \in Consumers |-> NoMail]
  /\ verdict = "CLEAN" /\ action = "delivered"
  /\ submitted = {}
  /\ delivered = [e \in Emails |-> 0]
  /\ rows = [q \in Stores |-> [e \in Emails |-> 0]]
  /\ audit = [e \in Emails |-> [a \in Actions |-> 0]]
  /\ precedents = {}
  /\ faults = 0 /\ failed = {} /\ lost = {}
  /\ repeats = [e \in Emails |-> 0]

------------------------------------------------------------------------------
(* Receiving and settling a delivery.                                       *)

Goto(c, l) == pc' = [pc EXCEPT ![c] = l]

\* The consumer turns to its next delivery; the local variables of processEmail end.
LetGo(c) ==
  /\ Goto(c, "idle")
  /\ work' = [work EXCEPT ![c] = NoMail]
  /\ IF c = "ingest" THEN verdict' = "CLEAN" /\ action' = "delivered" ELSE UNCHANGED chosenVars

\* Ack, or Nack without requeue: the delivery is gone, unless the connection is.
Settled(c) == IF connected THEN [queue EXCEPT ![c] = Tail(@)] ELSE queue

\* Mutant of Discard: Nack(false, true).
DiscardRequeued ==
  /\ LetGo("ingest")
  /\ UNCHANGED <<queue, connected, faults, failed, lost, repeats>>
\* processEmail returned an error: Nack(false, false), and no dead-letter exchange.
Discard ==
  /\ LetGo("ingest")
  /\ queue' = Settled("ingest")
  /\ failed' = IF connected THEN failed \cup {work["ingest"]} ELSE failed
  /\ UNCHANGED <<connected, faults, lost, repeats>>

\* broker-service answers 202 once the email is published.
Submit(e) ==
  /\ e \notin submitted
  /\ submitted' = submitted \cup {e}
  /\ queue' = [queue EXCEPT !["ingest"] = Append(@, e)]
  /\ UNCHANGED <<connected, handVars, chosenVars, outcomeVars, faultVars>>

\* The body is always the JSON its sender marshalled, so the Nack of one that cannot be read
\* has no case here.
Receive(c) ==
  /\ connected /\ pc[c] = "idle" /\ queue[c] # <<>>
  /\ Goto(c, IF c = "ingest" THEN "analyse" ELSE "insert")
  /\ work' = [work EXCEPT ![c] = Head(queue[c])]
  /\ UNCHANGED <<brokerVars, chosenVars, submitted, outcomeVars, faultVars>>

Ack(c) ==
  /\ pc[c] = "ack"
  /\ queue' = Settled(c)
  /\ LetGo(c)
  /\ UNCHANGED <<connected, submitted, outcomeVars, faultVars>>

------------------------------------------------------------------------------
(* processEmail.                                                            *)

\* Mutant of verdictAction: the default case returns the verdict itself.
verdictItself(v) ==
  CASE v = "CLEAN"  -> "delivered"
    [] v = "LOW"    -> "remediated_and_delivered"
    [] v = "MEDIUM" -> "quarantined"
    [] v = "HIGH"   -> "blocked"
    [] OTHER        -> v
verdictAction(v) ==
  CASE v = "CLEAN"  -> "delivered"
    [] v = "LOW"    -> "remediated_and_delivered"
    [] v = "MEDIUM" -> "quarantined"
    [] v = "HIGH"   -> "blocked"
    [] OTHER        -> "unknown"

\* Embedding, retrieval and the agent's loop.  The agent is a language model: it may
\* judge a redelivered email otherwise, and nothing validates the word it answers.
RunLoop ==
  /\ pc["ingest"] = "analyse"
  /\ \/ /\ \E v \in Verdicts \ (IF "otherverdict" \in Happens THEN {} ELSE {"OTHER"}) :
             verdict' = v /\ action' = verdictAction(v)
        /\ Goto("ingest", "route")
        /\ UNCHANGED <<brokerVars, work, faultVars>>
     \/ "aierror" \in Happens /\ Discard
  /\ UNCHANGED <<submitted, outcomeVars>>

\* Settings that cannot be read count as the defaults, which deliver LOW email.
AutoDeliverLow(e) ==
  IF e \notin ManualLow THEN {TRUE}
  ELSE IF "dberror" \in Happens THEN BOOLEAN ELSE {FALSE}

\* CLEAN, and LOW when it may be delivered.  An error may come after the mail went out.
SendToMailService ==
  LET e == work["ingest"] IN
  /\ pc["ingest"] = "route"
  /\ verdict = "CLEAN" \/ (verdict = "LOW" /\ TRUE \in AutoDeliverLow(e))
  /\ \/ /\ delivered' = [delivered EXCEPT ![e] = @ + 1]
        /\ Goto("ingest", "audit")
        /\ UNCHANGED <<brokerVars, work, chosenVars, faultVars>>
     \/ /\ "mailerror" \in Happens
        /\ \E n \in {0, 1} : delivered' = [delivered EXCEPT ![e] = @ + n]
        /\ Discard
  /\ UNCHANGED <<submitted, rows, audit, precedents>>

\* Mutant of StoreFor: HIGH has no case of its own and falls through the switch.
StoreForMedium(e) ==
  IF verdict = "MEDIUM" \/ (verdict = "LOW" /\ FALSE \in AutoDeliverLow(e))
  THEN {"quarantine"} ELSE {}
\* The queue the switch of processEmail publishes an email to, if any.
StoreFor(e) ==
  CASE verdict = "HIGH" -> {"blocked"}
    [] verdict = "MEDIUM" \/ (verdict = "LOW" /\ FALSE \in AutoDeliverLow(e)) -> {"quarantine"}
    [] OTHER -> {}

Publish(q) ==
  LET e == work["ingest"] IN
  /\ pc["ingest"] = "route"
  /\ q \in StoreFor(e)
  /\ IF connected
     THEN /\ queue' = [queue EXCEPT ![q] = Append(@, e)]
          /\ action' = IF q = "quarantine" THEN "quarantined" ELSE action
          /\ Goto("ingest", "audit")
          /\ UNCHANGED <<connected, work, verdict, faultVars>>
     ELSE Discard
  /\ UNCHANGED <<submitted, outcomeVars>>

\* A verdict that is none of the four falls through the switch.
RouteNowhere ==
  /\ pc["ingest"] = "route"
  /\ verdict \notin {"CLEAN", "LOW"} /\ StoreFor(work["ingest"]) = {}
  /\ Goto("ingest", "audit")
  /\ UNCHANGED <<brokerVars, work, chosenVars, submitted, outcomeVars, faultVars>>

\* Mutant of AuditAccepts: audit_log has no CHECK on verdict.
AuditAcceptsAll == TRUE
\* The CHECK constraint of audit_log, and its VARCHAR columns.
AuditAccepts == verdict # "OTHER" /\ work["ingest"] \notin Unloggable

InsertAuditLog ==
  LET e == work["ingest"]
      logged == [audit EXCEPT ![e][action] = @ + 1]
  IN
  /\ pc["ingest"] = "audit"
  /\ \/ /\ AuditAccepts
        /\ audit' = logged
        /\ Goto("ingest", IF verdict \in {"CLEAN", "LOW"} THEN "history" ELSE "ack")
        /\ UNCHANGED <<brokerVars, work, chosenVars, faultVars>>
     \/ /\ ~AuditAccepts \/ "dberror" \in Happens
        /\ \/ UNCHANGED audit
           \/ AuditAccepts /\ audit' = logged
        /\ Discard
  /\ UNCHANGED <<submitted, delivered, rows, precedents>>

\* Best effort: the email becomes a precedent for later retrievals.
InsertEmailHistory ==
  /\ pc["ingest"] = "history"
  /\ \/ precedents' = precedents \cup {work["ingest"]}
     \/ "dberror" \in Happens /\ UNCHANGED precedents
  /\ Goto("ingest", "ack")
  /\ UNCHANGED <<brokerVars, work, chosenVars, submitted, delivered, rows, audit, faultVars>>

------------------------------------------------------------------------------
(* runQuarantineWorker and runBlockedWorker.                                *)

InsertQuarantine(q) ==
  LET e == work[q] IN
  /\ pc[q] = "insert"
  /\ e \notin Unstorable
  /\ rows' = [rows EXCEPT ![q][e] = @ + 1]
  /\ Goto(q, "ack")
  /\ UNCHANGED <<brokerVars, work, chosenVars, submitted, delivered, audit, precedents, faultVars>>

\* Mutant of Requeued: Nack(false, false), as for an email processEmail fails on.
NotRequeued(q) == Settled(q)
\* Nack(false, true) puts the delivery back where it was.
Requeued(q) == queue

\* The INSERT fails, or it commits and its answer is lost.
InsertQuarantineFails(q) ==
  LET e == work[q] IN
  /\ pc[q] = "insert"
  /\ \/ /\ e \in Unstorable \/ "dberror" \in Happens
        /\ UNCHANGED <<rows, faults, repeats>>
     \/ /\ e \notin Unstorable /\ "dberror" \in Happens /\ faults < MaxFaults
        /\ rows' = [rows EXCEPT ![q][e] = @ + 1]
        /\ faults' = faults + 1
        /\ repeats' = [repeats EXCEPT ![e] = @ + 1]
  /\ queue' = Requeued(q)
  /\ LetGo(q)
  /\ UNCHANGED <<connected, submitted, delivered, audit, precedents, failed, lost>>

------------------------------------------------------------------------------
(* Crashes and lost connections.                                            *)

\* RabbitMQ takes back every delivery that is in a consumer's hand.
TakenBack == [e \in Emails |->
  repeats[e] + IF connected THEN Cardinality({c \in Consumers : work[c] = e}) ELSE 0]

AllIdle ==
  /\ pc' = [c \in Consumers |-> "idle"]
  /\ work' = [c \in Consumers |-> NoMail]
  /\ verdict' = "CLEAN" /\ action' = "delivered"

\* ai-compliance-service is killed and started again.
Crash ==
  /\ "crash" \in Happens /\ faults < MaxFaults
  /\ faults' = faults + 1
  /\ repeats' = TakenBack
  /\ connected' = TRUE
  /\ AllIdle
  /\ UNCHANGED <<queue, submitted, outcomeVars, failed, lost>>

\* The connection breaks, the process lives on.  broker-service publishes without
\* delivery mode 2: when it is RabbitMQ that restarts, the emails of the first
\* queue are gone; the second and third queue get persistent messages.
LoseConnection ==
  /\ connected /\ faults < MaxFaults
  /\ connected' = FALSE
  /\ faults' = faults + 1
  /\ repeats' = TakenBack
  /\ \/ "disconnect" \in Happens /\ UNCHANGED <<queue, lost>>
     \/ /\ "brokerrestart" \in Happens
        /\ queue' = [queue EXCEPT !["ingest"] = <<>>]
        /\ lost' = lost \cup {queue["ingest"][i] : i \in 1..Len(queue["ingest"])}
  /\ UNCHANGED <<handVars, chosenVars, submitted, outcomeVars, failed>>

\* Without a connection the delivery channel is closed: the loop of main ends when
\* processEmail returns, the process exits, and docker starts it again.
Exit ==
  /\ ~connected /\ pc["ingest"] = "idle"
  /\ connected' = TRUE
  /\ AllIdle
  /\ UNCHANGED <<queue, submitted, outcomeVars, faultVars>>

------------------------------------------------------------------------------
ProcessEmail ==
  \/ RunLoop
  \/ SendToMailService
  \/ \E q \in Stores : Publish(q)
  \/ RouteNowhere
  \/ InsertAuditLog
  \/ InsertEmailHistory

Next ==
  \/ \E e \in Emails : Submit(e)
  \/ \E c \in Consumers : Receive(c) \/ Ack(c)
  \/ ProcessEmail
  \/ \E q \in Stores : InsertQuarantine(q) \/ InsertQuarantineFails(q)
  \/ Crash
  \/ LoseConnection
  \/ Exit

Spec == Init /\ [][Next]_vars

(* The goroutines run, docker restarts the process, and PostgreSQL does not *)
(* fail every INSERT for ever (SF: it may fail any number of times).        *)
Fairness ==
  /\ \A c \in Consumers : WF_vars(Receive(c)) /\ WF_vars(Ack(c))
  /\ WF_vars(ProcessEmail)
  /\ WF_vars(Exit)
  /\ \A q \in Stores : /\ WF_vars(InsertQuarantineFails(q))
                       /\ SF_vars(InsertQuarantine(q))

FairSpec == Spec /\ Fairness

------------------------------------------------------------------------------
(* What the mail path promises.                                             *)

InQueue(c, e) == \E i \in 1..Len(queue[c]) : queue[c][i] = e
Held(q, e) == InQueue(q, e) \/ rows[q][e] > 0
Outcome(e) == delivered[e] > 0 \/ \E q \in Stores : Held(q, e)

\* Between broker-service's 202 and its outcome an email is always somewhere: in the
\* first queue, delivered, on its way to a reviewer or stored for one, unless
\* processEmail failed on it or a restart of RabbitMQ took it.
NothingVanishes ==
  \A e \in submitted : InQueue("ingest", e) \/ Outcome(e) \/ e \in failed \cup lost

\* The audit log never claims more than happened: each row that says `delivered' has
\* its delivery, each row that says `quarantined' or `blocked' its quarantine row or
\* its message; and only email the log says was delivered becomes a precedent, or was
\* held where a tenant holds what is LOW.  processEmail acts first and logs then.
Copies(q, e) == Cardinality({i \in 1..Len(queue[q]) : queue[q][i] = e}) + rows[q][e]
PrecedentActions(e) ==
  {"delivered", "remediated_and_delivered"} \cup (IF e \in ManualLow THEN {"quarantined"} ELSE {})
AuditTruthful ==
  \A e \in Emails :
    /\ audit[e]["delivered"] + audit[e]["remediated_and_delivered"] <= delivered[e]
    /\ audit[e]["quarantined"] <= Copies("quarantine", e)
    /\ audit[e]["blocked"] <= Copies("blocked", e)
    /\ e \in precedents => \E a \in PrecedentActions(e) : audit[e][a] > 0

\* Every duplicate is paid for by a delivery taken back: an email is delivered, queued
\* for review and stored once in all, and once more for each delivery of it, in any of
\* the three queues, that RabbitMQ took back unsettled or that was requeued after an
\* INSERT which did commit.  In particular it is not both delivered and held before that.
StoredUnacked(q, e) == connected /\ pc[q] = "ack" /\ work[q] = e
DuplicatesArePaid ==
  \A e \in Emails :
    LET stored == {q \in Stores : StoredUnacked(q, e)} IN
    delivered[e] + Copies("quarantine", e) + Copies("blocked", e)
      <= 1 + repeats[e] + Cardinality(stored)

\* An email on its way to a reviewer reaches the review queue: the workers requeue what
\* they could not store ("everything goes to a review queue").
HeldReachesReviewers ==
  \A q \in Stores, e \in Emails \ Unstorable : InQueue(q, e) ~> rows[q][e] > 0

\* The mail path keeps MailPromise: an email is open from the 202 until it has left
\* the first queue and the hand of processEmail.
Promise == INSTANCE MailPromise WITH
  stage     <- [e \in Emails |->
                  IF e \notin submitted THEN "new"
                  ELSE IF InQueue("ingest", e) \/ work["ingest"] = e THEN "open" ELSE "closed"],
  delivered <- {e \in Emails : delivered[e] > 0},
  held      <- {e \in Emails : \E q \in Stores : Held(q, e)},
  excused   <- failed \cup lost

KeepsPromise == Promise!Spec

\* And no email stays open: processEmail is done with it in the end, also when RabbitMQ
\* restarts and takes the connection and its deliveries away.
KeepsPromiseFairly == Promise!FairSpec
==============================================================================
