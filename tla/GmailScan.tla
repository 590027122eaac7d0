------------------------------ MODULE GmailScan ------------------------------
(***************************************************************************)
(* The Gmail scanner of tenant-service (cmd/api/google_handlers.go): one   *)
(* connected mailbox, its row of oauth_tokens, the scans that run over it  *)
(* at the same time, and the tenant's scan quota.                          *)
(*                                                                         *)
(* A message is the number of its arrival: message m is the m-th message   *)
(* that entered the inbox.  The mailbox's history id after n arrivals is   *)
(* n + 1, so "everything after history id h" is every message m >= h.      *)
(* The wall clock is kept only as the order of arrivals: last_scanned_at   *)
(* is the number of messages that had arrived when it was written, and a   *)
(* window such as "the last 24 hours" may begin at any arrival.            *)
(*                                                                         *)
(* A scan reads its row of oauth_tokens once (the Go value `stored') and   *)
(* uses that copy to the end, across calls to Gmail, to the compliance     *)
(* service and to the database.  No lock orders two scans.                 *)
(***************************************************************************)
EXTENDS Integers, FiniteSets

CONSTANTS
  Workers,      \* requests and webhook goroutines that may scan at once
  Ticker,       \* the one goroutine of startWatchRenewal
  MaxMessages,  \* bound: how many messages arrive
  HistoryPage,  \* records in the single page history.list returns
  ListMax,      \* MaxResults of messages.list (50 in the code)
  ScanLimit,    \* ScansPerMonth of the tenant's plan, Unlimited for none
  MaxRows,      \* bound: quarantine rows of one message
  MaxCrashes,   \* bound: how often the service is killed
  Happens       \* which of Events the environment may produce

Unlimited == -1

\* What may go wrong, or be asked for, beside the arrival of messages.
Events == {"lost", "dup", "expired", "manual", "fallback", "renew", "unwatched",
           "reconnect", "gmailerror", "dberror", "aierror", "newperiod"}

ASSUME TickerAssumption == Ticker \notin Workers
ASSUME WorkersAssumption == IsFiniteSet(Workers)
ASSUME BoundsAssumption == /\ MaxMessages \in Nat
                           /\ MaxCrashes \in Nat
                           /\ MaxRows \in Nat
                           /\ HistoryPage \in Nat \ {0}
                           /\ ListMax \in Nat \ {0}
ASSUME LimitAssumption == ScanLimit \in Nat \cup {Unlimited}
ASSUME EventsAssumption == Happens \subseteq Events

VARIABLES
  arrived,      \* how many messages have arrived
  inbox,        \* the messages Gmail shows with the label INBOX
  notices,      \* history ids of the Pub/Sub notifications not yet acknowledged
  historyId,    \* oauth_tokens.history_id, 0 when no watch was ever registered
  lastScan,     \* oauth_tokens.last_scanned_at, NoScan for NULL
  held,         \* how many quarantine rows each message has
  used,         \* tenants.scans_this_period, saturating at Cap
  crashes,      \* how often the service was killed
  pc,           \* where each process is
  kind,         \* does it scan a history or a list?
  from,         \* the history id, or the cutoff, it starts from
  target,       \* the history id it will store
  todo,         \* the messages its loop has still to finish
  granted,      \* history variable: scans allowed in this period
  examined,     \* history variable: messages a scan got a verdict for or found held
  missed,       \* history variable: other messages that a scan failed on, gave up at
                \* the quota, or moved history_id past without having listed them
  blind         \* history variable: messages whose look-up failed in some scan

tokenVars == <<historyId, lastScan>>
quotaVars == <<used, granted>>
procVars  == <<pc, kind, from, target, todo>>
fateVars  == <<examined, missed, blind>>
vars == <<arrived, inbox, notices, tokenVars, held, quotaVars, crashes, procVars, fateVars>>

Procs    == Workers \cup {Ticker}
Messages == 1..MaxMessages
NoScan   == -1

\* A message counts as covered once a scan dealt with it, for better or worse.
Covered(m) == m \in examined \cup missed

\* Mutant of CurrentHistoryId: the id after the next arrival.
NextHistoryId == arrived + 2
CurrentHistoryId == arrived + 1
Examine(m) == /\ examined' = examined \cup {m}
              /\ missed' = missed \ {m}
              /\ UNCHANGED blind
Miss(ms)   == missed' = missed \cup (ms \ examined) /\ UNCHANGED <<examined, blind>>
Goto(p, l)  == pc' = [pc EXCEPT ![p] = l]

Places == {"idle", "fetch", "scan", "quota", "judge", "archive", "stamp", "boot", "watch"}
HistoryIds == 0..(MaxMessages + 1)

StoreTypeOK ==
  /\ arrived \in 0..MaxMessages
  /\ inbox \subseteq Messages
  /\ notices \subseteq HistoryIds \ {0}
  /\ historyId \in HistoryIds
  /\ lastScan \in NoScan..MaxMessages
  /\ held \in [Messages -> Nat]
  /\ used \in Nat
  /\ granted \in Nat
  /\ crashes \in 0..MaxCrashes

ProcTypeOK ==
  /\ pc \in [Procs -> Places]
  /\ kind \in [Procs -> {"history", "list"}]
  /\ from \in [Procs -> HistoryIds]
  /\ target \in [Procs -> HistoryIds]
  /\ todo \in [Procs -> SUBSET Messages]

FateTypeOK ==
  /\ examined \subseteq Messages
  /\ missed \subseteq Messages
  /\ blind \subseteq Messages

TypeOK == StoreTypeOK /\ ProcTypeOK /\ FateTypeOK

------------------------------------------------------------------------------
\* A mailbox that GoogleCallback has just connected.  Registering the watch is
\* not fatal there, so history_id may still be its default 0.
Init ==
  /\ arrived = 0 /\ inbox = {} /\ notices = {}
  /\ historyId \in {1} \cup (IF "unwatched" \in Happens THEN {0} ELSE {})
  /\ lastScan = NoScan
  /\ held = [m \in Messages |-> 0]
  /\ used = 0 /\ granted = 0 /\ crashes = 0
  /\ pc = [p \in Procs |-> "idle"]
  /\ kind = [p \in Procs |-> "list"]
  /\ from = [p \in Procs |-> 0]
  /\ target = [p \in Procs |-> 0]
  /\ todo = [p \in Procs |-> {}]
  /\ examined = {} /\ missed = {} /\ blind = {}

------------------------------------------------------------------------------
(* Gmail and Pub/Sub: at least once, in any order, and not for ever.        *)

Arrive ==
  /\ arrived < MaxMessages
  /\ arrived' = arrived + 1
  /\ inbox' = inbox \cup {arrived + 1}
  /\ notices' = notices \cup {arrived + 2}
  /\ UNCHANGED <<tokenVars, held, quotaVars, crashes, procVars, fateVars>>

\* Pub/Sub gives up, or the webhook's look-up of the token row fails: it answers 200
\* and scans nothing.
LoseNotice(n) ==
  /\ {"lost", "dberror"} \cap Happens # {}
  /\ n \in notices
  /\ notices' = notices \ {n}
  /\ UNCHANGED <<arrived, inbox, tokenVars, held, quotaVars, crashes, procVars, fateVars>>

\* Mutant of HistorySince: the first message after h is left out.
HistoryAfter(h) == {m \in 1..arrived : h < m /\ m < h + HistoryPage}
\* What history.list returns: the first page of the messages added after h.
HistorySince(h) == {m \in 1..arrived : h <= m /\ m < h + HistoryPage}
\* What messages.list returns: the newest ListMax of the messages after cutoff c.
ListAfter(c) == {m \in 1..arrived : c < m /\ arrived - ListMax < m}
\* The messages below history id t that a history scan from h cannot have listed.
Unlistable(h, t) == {m \in Messages : m < t /\ (h > 0 => h + HistoryPage <= m)}

------------------------------------------------------------------------------
(* How a scan begins.                                                       *)

Begin(p, k, f, t) ==
  /\ pc[p] = "idle"
  /\ Goto(p, "fetch")
  /\ kind' = [kind EXCEPT ![p] = k]
  /\ from' = [from EXCEPT ![p] = f]
  /\ target' = [target EXCEPT ![p] = t]
  /\ UNCHANGED <<arrived, inbox, tokenVars, held, quotaVars, crashes, todo, fateVars>>

\* Mutant of GmailPubSubWebhook: list from the notification's id, not the stored one.
WebhookFromNotification(w, n) ==
  /\ n \in notices
  /\ Begin(w, "history", n, n)
  /\ notices' = notices \ {n}

\* The webhook copies the token row, starts the goroutine and answers 200 at once,
\* so nothing but that goroutine remembers the notification; Pub/Sub may still
\* deliver it again.
GmailPubSubWebhook(w, n) ==
  /\ n \in notices
  /\ Begin(w, "history", historyId, n)
  /\ \/ notices' = notices \ {n}
     \/ "dup" \in Happens /\ UNCHANGED notices

\* POST /v1/gmail/scan: the cutoff is a day ago, which may be any point of the
\* arrivals, or last_scanned_at with since=last, which is one of these points.
ManualScan(w) ==
  /\ "manual" \in Happens
  /\ \E c \in 0..arrived : Begin(w, "list", c, 0)
  /\ UNCHANGED notices

\* The hourly fallback; whether the last scan is older than 90 minutes depends on
\* the clock alone.
FallbackScan ==
  /\ "fallback" \in Happens
  /\ \E c \in 0..arrived : /\ lastScan # NoScan => c = lastScan
                           /\ Begin(Ticker, "list", c, 0)
  /\ UNCHANGED notices

------------------------------------------------------------------------------
(* runHistoryScan and runGmailScan: fetch, loop, store.                     *)

Advance(p, l) == Goto(p, l) /\ UNCHANGED <<kind, from, target, todo>>

\* The scan's copies are not read again: reset them.
Finish(p, l) ==
  /\ Goto(p, l)
  /\ kind' = [kind EXCEPT ![p] = "list"]
  /\ from' = [from EXCEPT ![p] = 0]
  /\ target' = [target EXCEPT ![p] = 0]
  /\ todo' = [todo EXCEPT ![p] = {}]

EnterLoop(p, ms) ==
  /\ Goto(p, "scan")
  /\ todo' = [todo EXCEPT ![p] = ms]
  /\ UNCHANGED <<kind, from, target>>

FetchHistory(p) ==
  /\ pc[p] = "fetch" /\ kind[p] = "history"
  /\ \/ EnterLoop(p, IF from[p] > 0 THEN HistorySince(from[p]) ELSE {})
     \/ \* any error of history.list: a list scan of the last 24 hours instead
        /\ "expired" \in Happens /\ from[p] > 0
        /\ kind' = [kind EXCEPT ![p] = "list"]
        /\ \E c \in 0..arrived : from' = [from EXCEPT ![p] = c]
        /\ target' = [target EXCEPT ![p] = 0]
        /\ UNCHANGED <<pc, todo>>
  /\ UNCHANGED <<arrived, inbox, notices, tokenVars, held, quotaVars, crashes, fateVars>>

FetchList(p) ==
  /\ pc[p] = "fetch" /\ kind[p] = "list"
  /\ \/ EnterLoop(p, ListAfter(from[p]))
     \/ /\ "gmailerror" \in Happens
        /\ Finish(p, "idle")
  /\ UNCHANGED <<arrived, inbox, notices, tokenVars, held, quotaVars, crashes, fateVars>>

\* The loop's current message: a history comes oldest first, a list newest first.
Current(p, m) ==
  /\ m \in todo[p]
  /\ \A n \in todo[p] : IF kind[p] = "history" THEN m <= n ELSE n <= m

\* `continue': the loop is done with m.
NextMessage(p, m) ==
  /\ Goto(p, "scan")
  /\ todo' = [todo EXCEPT ![p] = @ \ {m}]
  /\ UNCHANGED <<kind, from, target>>

\* `break': every message still in the loop is given up.
BreakLoop(p) ==
  /\ Goto(p, "scan")
  /\ todo' = [todo EXCEPT ![p] = {}]
  /\ Miss(todo[p])
  /\ UNCHANGED <<kind, from, target>>

\* Mutant of IsGmailMessageQuarantined: rows are never looked up.
NeverQuarantined(m) == FALSE
IsGmailMessageQuarantined(m) == held[m] > 0

\* The look-up of a row and messages.get.  A failed look-up reads as "no row".
LookUp(p, m) ==
  /\ pc[p] = "scan" /\ Current(p, m)
  /\ \/ IsGmailMessageQuarantined(m) /\ NextMessage(p, m) /\ Examine(m)
     \/ /\ ~IsGmailMessageQuarantined(m)
        /\ Advance(p, "quota") /\ UNCHANGED fateVars
     \/ /\ "dberror" \in Happens
        /\ Advance(p, "quota") /\ blind' = blind \cup {m} /\ UNCHANGED <<examined, missed>>
     \/ \* messages.get fails, or there is no sender or no text to check
        /\ ~IsGmailMessageQuarantined(m) /\ "gmailerror" \in Happens
        /\ NextMessage(p, m) /\ Miss({m})
  /\ UNCHANGED <<arrived, inbox, notices, tokenVars, held, quotaVars, crashes>>

\* scans_this_period is incremented past the limit too; every value above it is
\* refused alike, so it saturates at Cap.
Cap == IF ScanLimit = Unlimited THEN 1 ELSE ScanLimit + 1
Bump(n) == IF n < Cap THEN n + 1 ELSE n
\* Mutant of Allowed: compares the count before the increment.
AllowedBeforeIncrement(n) == ScanLimit = Unlimited \/ n - 1 <= ScanLimit
Allowed(n) == ScanLimit = Unlimited \/ n <= ScanLimit

\* One UPDATE ... RETURNING resets an expired period, increments and reads back.
CheckAndIncrementScan(p) ==
  /\ pc[p] = "quota"
  /\ \/ \E expired \in {FALSE} \cup (IF "newperiod" \in Happens THEN {TRUE} ELSE {}) :
          LET n == Bump(IF expired THEN 0 ELSE used)
              g == IF expired THEN 0 ELSE granted
          IN  /\ used' = n
              /\ \/ /\ Allowed(n)
                    /\ granted' = Bump(g)
                    /\ Advance(p, "judge") /\ UNCHANGED fateVars
                 \/ /\ ~Allowed(n)
                    /\ granted' = g
                    /\ BreakLoop(p)
     \/ "dberror" \in Happens /\ BreakLoop(p) /\ UNCHANGED quotaVars
  /\ UNCHANGED <<arrived, inbox, notices, tokenVars, held, crashes>>

\* Mutant of Judge: archives although the INSERT failed.
JudgeIgnoringInsert(p, m) ==
  /\ pc[p] = "judge" /\ Current(p, m)
  /\ \E n \in {held[m], held[m] + 1} : n <= MaxRows /\ held' = [held EXCEPT ![m] = n]
  /\ Examine(m)
  /\ Advance(p, "archive")
  /\ UNCHANGED <<arrived, inbox, notices, tokenVars, quotaVars, crashes>>

\* The compliance check of the message and, for any verdict but CLEAN and LOW, the
\* INSERT of its quarantine row.  No two other processes can tell the call from
\* the INSERT that follows it.
Judge(p, m) ==
  /\ pc[p] = "judge" /\ Current(p, m)
  /\ \/ \* CLEAN or LOW
        NextMessage(p, m) /\ Examine(m) /\ UNCHANGED held
     \/ \* MEDIUM, HIGH, or a verdict the agent did not spell as one of the four
        /\ held[m] < MaxRows
        /\ held' = [held EXCEPT ![m] = @ + 1]
        /\ Examine(m)
        /\ Advance(p, "archive")
     \/ \* the check or the INSERT fails
        /\ {"aierror", "dberror"} \cap Happens # {}
        /\ NextMessage(p, m) /\ Miss({m}) /\ UNCHANGED held
  /\ UNCHANGED <<arrived, inbox, notices, tokenVars, quotaVars, crashes>>

\* Mutant of Archive: the label INBOX stays.
ArchiveKeepingLabel(p, m) ==
  /\ pc[p] = "archive" /\ Current(p, m)
  /\ NextMessage(p, m) /\ Examine(m)
  /\ UNCHANGED <<arrived, inbox, notices, tokenVars, held, quotaVars, crashes>>

\* Take the message out of the inbox; an error of messages.modify is ignored.
Archive(p, m) ==
  /\ pc[p] = "archive" /\ Current(p, m)
  /\ \/ inbox' = inbox \ {m}
     \/ "gmailerror" \in Happens /\ UNCHANGED inbox
  /\ NextMessage(p, m) /\ Examine(m)
  /\ UNCHANGED <<arrived, notices, tokenVars, held, quotaVars, crashes>>

\* Store the notification's history id, whatever became of the messages and
\* whatever another scan has stored since.
UpdateHistoryID(p) ==
  /\ pc[p] = "scan" /\ todo[p] = {} /\ kind[p] = "history"
  /\ \/ /\ historyId' = target[p]
        /\ Miss(Unlistable(from[p], target[p]))
     \/ "dberror" \in Happens /\ UNCHANGED <<historyId, fateVars>>
  /\ Finish(p, "stamp")
  /\ UNCHANGED <<arrived, inbox, notices, lastScan, held, quotaVars, crashes>>

\* last_scanned_at = NOW(), the time the scan ends and not the time it listed.
UpdateLastScanned(p) ==
  /\ \/ pc[p] = "stamp"
     \/ pc[p] = "scan" /\ todo[p] = {} /\ kind[p] = "list"
  /\ \/ lastScan' = arrived
     \/ "dberror" \in Happens /\ UNCHANGED lastScan
  /\ Finish(p, "idle")
  /\ UNCHANGED <<arrived, inbox, notices, historyId, held, quotaVars, crashes, fateVars>>

------------------------------------------------------------------------------
(* registerWatch: users.watch answers the mailbox's current history id, and  *)
(* registerWatch stores it.                                                 *)

\* startWatchRenewal registers when it begins and every six days; GoogleCallback does
\* when the user connects the mailbox again, whose row keeps its history_id.
CallWatch(p) ==
  /\ \/ pc[p] = "boot"
     \/ pc[p] = "idle" /\ (IF p = Ticker THEN "renew" ELSE "reconnect") \in Happens
  /\ \/ Goto(p, "watch") /\ target' = [target EXCEPT ![p] = CurrentHistoryId]
     \/ "gmailerror" \in Happens /\ Goto(p, "idle") /\ UNCHANGED target
  /\ UNCHANGED <<arrived, inbox, notices, tokenVars, held, quotaVars, crashes,
                 kind, from, todo, fateVars>>

UpdateWatch(p) ==
  /\ pc[p] = "watch"
  /\ \/ /\ historyId' = target[p]
        /\ Miss({m \in Messages : historyId <= m /\ m < target[p]})
     \/ "dberror" \in Happens /\ UNCHANGED <<historyId, fateVars>>
  /\ Finish(p, "idle")
  /\ UNCHANGED <<arrived, inbox, notices, lastScan, held, quotaVars, crashes>>

\* The service is killed and restarted: every scan is forgotten, and the new
\* startWatchRenewal begins with renewAllWatches.
Restart ==
  /\ crashes < MaxCrashes
  /\ crashes' = crashes + 1
  /\ pc' = [p \in Procs |-> IF p = Ticker THEN "boot" ELSE "idle"]
  /\ kind' = [p \in Procs |-> "list"]
  /\ from' = [p \in Procs |-> 0]
  /\ target' = [p \in Procs |-> 0]
  /\ todo' = [p \in Procs |-> {}]
  /\ UNCHANGED <<arrived, inbox, notices, tokenVars, held, quotaVars, fateVars>>

------------------------------------------------------------------------------
\* The steps of a scan that runs.
ScanStep(p) ==
  \/ FetchHistory(p)
  \/ FetchList(p)
  \/ \E m \in Messages : LookUp(p, m)
  \/ CheckAndIncrementScan(p)
  \/ \E m \in Messages : Judge(p, m)
  \/ \E m \in Messages : Archive(p, m)
  \/ UpdateHistoryID(p)
  \/ UpdateLastScanned(p)

Next ==
  \/ Arrive
  \/ \E n \in notices : LoseNotice(n)
  \/ \E w \in Workers, n \in notices : GmailPubSubWebhook(w, n)
  \/ \E w \in Workers : ManualScan(w)
  \/ FallbackScan
  \/ \E p \in Procs : ScanStep(p)
  \/ \E p \in Procs : CallWatch(p) \/ UpdateWatch(p)
  \/ Restart

Spec == Init /\ [][Next]_vars

(* A goroutine that can run does run.  Pub/Sub retries a notification until  *)
(* the webhook answers it, so a delivery that is possible again and again    *)
(* takes place (SF); the hourly ticker fires for ever.                      *)
Fairness ==
  /\ \A p \in Procs : WF_vars(ScanStep(p))
  /\ WF_vars(pc[Ticker] = "boot" /\ CallWatch(Ticker))
  /\ \A p \in Procs : WF_vars(UpdateWatch(p))
  /\ WF_vars(FallbackScan)
  /\ \A n \in 1..(MaxMessages + 1) : SF_vars(\E w \in Workers : GmailPubSubWebhook(w, n))

FairSpec == Spec /\ Fairness

------------------------------------------------------------------------------
(* What the scanner promises.                                               *)

\* history_id never stands beyond a message that no scan dealt with: whatever the
\* order, duplication and loss of notifications, the interleaving of scans and the
\* restarts, a message below the stored id was examined, failed in a scan, was
\* given up at the quota, or is one of those no history scan could have listed
\* (the single page, a watch registered over it).  runHistoryScan stores the id
\* from its notification without comparing it with the row.
WatermarkSound == \A m \in Messages : m < historyId => Covered(m)

\* A message leaves the inbox only when a quarantine row already holds it, so that
\* nothing disappears from the user that a reviewer cannot find: the order of
\* InsertQuarantineFromGmail and messages.modify in scanMessages.
ArchivedIsHeld == \A m \in Messages : m <= arrived /\ m \notin inbox => held[m] > 0

\* Concurrent scans of one tenant never get more scans allowed in a period than
\* the plan has: the check and the increment are one UPDATE.
QuotaRespected == ScanLimit # Unlimited => granted <= ScanLimit

\* Duplicates come only from scans that overlap: as long as the look-ups of a
\* message did not fail, it has no more rows than there are concurrent scans, and
\* restarts, repeated notifications and later scans add none.
PastLookUp(m) == {p \in Procs : pc[p] \in {"quota", "judge"} /\ Current(p, m)}
DuplicatesBounded ==
  \A m \in Messages : m \notin blind =>
    held[m] + Cardinality(PastLookUp(m)) <= Cardinality(Procs)

\* Every message that arrives is examined in the end: its own notification, a later
\* one or the fallback reaches it.  The comments of startWatchRenewal promise it
\* also across service restarts.
EveryMessageExamined ==
  \A m \in Messages : arrived >= m ~> m \in examined

\* A message that has a quarantine row does not stay in the inbox.
HeldLeavesInbox ==
  \A m \in Messages : held[m] > 0 ~> m \notin inbox
==============================================================================
