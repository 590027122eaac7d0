------------------------- MODULE QuarantineReviewProofs -------------------------
(***************************************************************************)
(* Machine-checked proofs about QuarantineReview, for every set of         *)
(* entries, users and handlers and whatever the environment does.          *)
(***************************************************************************)
EXTENDS QuarantineReview, FiniteSetTheorems, TLAPS

------------------------------------------------------------------------------
(* Types.                                                                    *)

HandlerTypeOK ==
  /\ pc \in [Handlers -> {"idle", "update", "forward", "insert", "approve", "inform"}]
  /\ entry \in [Handlers -> Entries]
  /\ user \in [Handlers -> Users]
  /\ choice \in [Handlers -> Decided]

LEMMA AnyType == AnyEntry \in Entries /\ AnyUser \in Users
BY EntriesAssumption DEF AnyEntry, AnyUser

LEMMA AnswerType ==
  ASSUME HandlerTypeOK, NEW h \in Handlers, Answer(h)
  PROVE  HandlerTypeOK'
BY AnyType DEF HandlerTypeOK, Answer, Goto, Decided

LEMMA AdvanceType ==
  ASSUME HandlerTypeOK, NEW h \in Handlers, NEW l \in {"forward", "inform"}, Advance(h, l)
  PROVE  HandlerTypeOK'
BY DEF HandlerTypeOK, Advance, Goto

LEMMA RestoreType ==
  ASSUME restoring \in [Entries -> Nat], NEW e \in Entries, StartRestore(e)
  PROVE  restoring' \in [Entries -> Nat]
BY DEF StartRestore

\* Every step of a handler under way preserves the types.
LEMMA HandlerStepType ==
  ASSUME TypeOK, NEW h \in Handlers, HandlerStep(h)
  PROVE  TypeOK'
<1> HandlerTypeOK /\ entry[h] \in Entries /\ user[h] \in Users /\ choice[h] \in Decided
  BY DEF TypeOK, HandlerTypeOK
<1> SUFFICES HandlerTypeOK' /\ (TypeOK /\ HandlerTypeOK' => TypeOK')
  OBVIOUS
<1>1. CASE UpdateQuarantineStatus(h)
  <2>1. HandlerTypeOK'
    BY <1>1, AnswerType, AdvanceType DEF UpdateQuarantineStatus
  <2>2. row' \in [Entries -> Rows \cup {"none", "deleted"}]
    BY <1>1 DEF UpdateQuarantineStatus, TypeOK, Rows, Decided
  <2>3. restoring' \in [Entries -> Nat] /\ unreached' \subseteq Entries
    BY <1>1, RestoreType DEF UpdateQuarantineStatus, Strand, TypeOK
  <2>4. QED
    BY <1>1, <2>1, <2>2, <2>3 DEF UpdateQuarantineStatus, TypeOK, HandlerTypeOK, requestVars
<1>2. CASE ForwardToMailService(h)
  <2>1. HandlerTypeOK'
    BY <1>2, AnswerType DEF ForwardToMailService
  <2>2. mailed' \in [Entries -> Nat] /\ unreached' \subseteq Entries
    BY <1>2, EntriesAssumption DEF ForwardToMailService, Strand, TypeOK
  <2>3. QED
    BY <1>2, <2>1, <2>2 DEF ForwardToMailService, TypeOK, HandlerTypeOK, requestVars, gmailVars
<1>3. CASE InsertReleaseRequest(h)
  <2>1. HandlerTypeOK'
    BY <1>3, AnswerType DEF InsertReleaseRequest
  <2>2. open' \in [Entries -> [Users -> Nat]] /\ requests' \in 0..MaxRequests
    <3>1. CASE UNCHANGED requestVars
      BY <3>1 DEF TypeOK, requestVars
    <3>2. CASE ~UNCHANGED requestVars
      <4>1. /\ requests < MaxRequests /\ requests' = requests + 1
            /\ open' = [open EXCEPT ![entry[h]][user[h]] = @ + 1]
        BY <1>3, <3>2 DEF InsertReleaseRequest
      <4>2. open[entry[h]] \in [Users -> Nat]
        BY DEF TypeOK
      <4>3. [open[entry[h]] EXCEPT ![user[h]] = @ + 1] \in [Users -> Nat]
        BY <4>2
      <4>4. QED
        BY <4>1, <4>3, BoundsAssumption DEF TypeOK
    <3>3. QED
      BY <3>1, <3>2
  <2>3. QED
    BY <1>3, <2>1, <2>2 DEF InsertReleaseRequest, TypeOK, HandlerTypeOK, gmailVars, historyVars
<1>4. CASE ApproveRelease(h)
  <2>1. HandlerTypeOK'
    BY <1>4, AdvanceType DEF ApproveRelease
  <2>2. row' \in [Entries -> Rows \cup {"none", "deleted"}]
    BY <1>4 DEF ApproveRelease, TypeOK, Rows, Decided
  <2>3. unreached' \subseteq Entries /\ unsaved' \subseteq GmailEntries
    BY <1>4 DEF ApproveRelease, Strand, TypeOK
  <2>4. QED
    BY <1>4, <2>1, <2>2, <2>3
    DEF ApproveRelease, TypeOK, HandlerTypeOK, requestVars, gmailVars
<1>5. CASE RestoreApproved(h)
  <2>1. HandlerTypeOK'
    BY <1>5, AnswerType DEF RestoreApproved
  <2>2. restoring' \in [Entries -> Nat] /\ unreached' \subseteq Entries
    BY <1>5, RestoreType DEF RestoreApproved, Strand, TypeOK
  <2>3. QED
    BY <1>5, <2>1, <2>2 DEF RestoreApproved, TypeOK, HandlerTypeOK, requestVars
<1>6. QED
  BY <1>1, <1>2, <1>3, <1>4, <1>5 DEF HandlerStep

\* Every variable keeps its type; in particular no request is acted on twice, which
\* would take the number of a user's open requests below zero.
THEOREM TypeCorrect == Spec => []TypeOK
<1>1. Init => TypeOK
  BY AnyType, BoundsAssumption DEF Init, TypeOK, Rows, Decided
<1>2. TypeOK /\ [Next]_vars => TypeOK'
  <2> SUFFICES ASSUME TypeOK, [Next]_vars PROVE TypeOK'
    OBVIOUS
  <2>1. CASE UNCHANGED vars
    BY <2>1 DEF vars, TypeOK, requestVars, gmailVars, handVars, historyVars
  <2>2. ASSUME NEW e \in Entries, InsertQuarantine(e)
        PROVE  TypeOK'
    BY <2>2 DEF InsertQuarantine, TypeOK, Rows, Decided, requestVars, handVars, historyVars
  <2>3. ASSUME NEW e \in GmailEntries, Archive(e)
        PROVE  TypeOK'
    BY <2>3 DEF Archive, TypeOK, requestVars, handVars
  <2>4. ASSUME NEW e \in GmailEntries, RestoreGmailInbox(e)
        PROVE  TypeOK'
    <3> e \in Entries
      BY EntriesAssumption
    <3>1. restoring' \in [Entries -> Nat]
      BY <2>4 DEF RestoreGmailInbox, TypeOK
    <3>2. inbox' \subseteq GmailEntries
      BY <2>4 DEF RestoreGmailInbox, TypeOK
    <3>3. unreached' \subseteq Entries
      BY <2>4 DEF RestoreGmailInbox, Strand, TypeOK
    <3>4. QED
      BY <2>4, <3>1, <3>2, <3>3 DEF RestoreGmailInbox, TypeOK, requestVars, handVars
  <2>5. ASSUME NEW h \in Handlers, NEW e \in Entries, NEW s \in Decided, GetQuarantineByID(h, e, s)
        PROVE  TypeOK'
    BY <2>5 DEF GetQuarantineByID, Goto, TypeOK, requestVars, gmailVars, historyVars
  <2>6. ASSUME NEW h \in Handlers, NEW e \in Entries, NEW u \in Users, CheckReleaseRequest(h, e, u)
        PROVE  TypeOK'
    BY <2>6 DEF CheckReleaseRequest, Goto, TypeOK, requestVars, gmailVars, historyVars
  <2>7. ASSUME NEW h \in Handlers, NEW e \in Entries, NEW u \in Users,
               NEW s \in {"approved", "denied"}, ActionReleaseRequest(h, e, u, s)
        PROVE  TypeOK'
    <3>1. open' \in [Entries -> [Users -> Nat]]
      <4>1. open[e] \in [Users -> Nat] /\ open[e][u] > 0
        BY <2>7 DEF ActionReleaseRequest, TypeOK
      <4>2. [open[e] EXCEPT ![u] = @ - 1] \in [Users -> Nat]
        BY <4>1
      <4>3. QED
        BY <2>7, <4>2 DEF ActionReleaseRequest, TypeOK
    <3>2. QED
      BY <2>7, <3>1, ZenonT(60) DEF ActionReleaseRequest, Goto, TypeOK, gmailVars, historyVars
  <2>8. ASSUME NEW es \in SUBSET Entries, DeleteRows(es)
        PROVE  TypeOK'
    BY <2>8 DEF DeleteRows, TypeOK, Rows, Decided, gmailVars, handVars, historyVars
  <2>9. CASE Restart
    BY <2>9, AnyType, BoundsAssumption DEF Restart, TypeOK, Decided, requestVars
  <2>10. QED
    BY <2>1, <2>2, <2>3, <2>4, <2>5, <2>6, <2>7, <2>8, <2>9, HandlerStepType DEF Next
<1>3. QED
  BY <1>1, <1>2, PTL DEF Spec

------------------------------------------------------------------------------
(* Decisions.                                                                *)

\* Whatever two owners, approvals and the retention job do at once, the first
\* decision on an entry stands until its row is deleted.
THEOREM DecisionsAreFinal == Spec => DecisionsFinal
<1>1. TypeOK /\ [Next]_vars =>
        [\A e \in Entries : row[e] \in Decided => row'[e] \in {row[e], "deleted"}]_vars
  <2> SUFFICES ASSUME TypeOK, Next, NEW e \in Entries, row[e] \in Decided
               PROVE  row'[e] \in {row[e], "deleted"}
    OBVIOUS
  <2> row \in [Entries -> Rows \cup {"none", "deleted"}] /\ row[e] \notin {"none", "pending"}
    BY DEF TypeOK, Decided
  <2>1. ASSUME NEW f \in Entries, InsertQuarantine(f)
        PROVE  row'[e] = row[e]
    BY <2>1 DEF InsertQuarantine
  <2>2. ASSUME NEW h \in Handlers, HandlerStep(h)
        PROVE  row'[e] = row[e]
    BY <2>2 DEF HandlerStep, UpdateQuarantineStatus, ApproveRelease, Undecided,
                ForwardToMailService, InsertReleaseRequest, RestoreApproved
  <2>3. ASSUME NEW es \in SUBSET Entries, DeleteRows(es)
        PROVE  row'[e] \in {row[e], "deleted"}
    BY <2>3 DEF DeleteRows
  <2>4. CASE UNCHANGED row
    BY <2>4
  <2>5. QED
    BY <2>1, <2>2, <2>3, <2>4 DEF Next, Archive, RestoreGmailInbox, GetQuarantineByID,
       CheckReleaseRequest, ActionReleaseRequest, Restart
<1>2. QED
  BY <1>1, TypeCorrect, PTL DEF Spec, DecisionsFinal

------------------------------------------------------------------------------
(* Forwarding.  A handler that is about to send an entry is the one that     *)
(* released it, and nobody can release it again.                             *)

Sends(h, e) == pc[h] = "forward" /\ entry[h] = e

MailInv ==
  \A e \in Entries :
    /\ row[e] \in {"none", "pending", "rejected"} =>
         mailed[e] = 0 /\ \A h \in Handlers : ~Sends(h, e)
    /\ mailed[e] > 0 => mailed[e] = 1 /\ \A h \in Handlers : ~Sends(h, e)
    /\ \A g, h \in Handlers : Sends(g, e) /\ Sends(h, e) => g = h

\* The cardinalities of the property, from the quantifiers of the invariant.
LEMMA MailInvSuffices == TypeOK /\ MailInv => MailedOnce
<1> SUFFICES ASSUME TypeOK, MailInv, NEW e \in Entries
             PROVE  /\ mailed[e] + Cardinality({h \in Handlers : Sends(h, e)}) <= 1
                    /\ mailed[e] > 0 => row[e] \in {"released", "deleted"}
  BY DEF MailedOnce, Sends
<1> DEFINE sending == {h \in Handlers : Sends(h, e)}
<1>1. mailed[e] \in Nat /\ row[e] \in {"none", "pending", "released", "rejected", "deleted"}
  BY DEF TypeOK, Rows, Decided
<1>2. mailed[e] > 0 => row[e] \in {"released", "deleted"}
  BY <1>1 DEF MailInv
<1>3. CASE sending = {}
  <2>1. Cardinality(sending) = 0
    BY <1>3, FS_EmptySet
  <2>2. mailed[e] \in {0, 1}
    BY <1>1 DEF MailInv
  <2>3. QED
    BY <1>2, <2>1, <2>2
<1>4. CASE sending # {}
  <2>1. PICK h \in Handlers : Sends(h, e)
    BY <1>4
  <2>2. sending = {h}
    BY <2>1 DEF MailInv
  <2>3. Cardinality(sending) = 1
    BY <2>2, FS_Singleton
  <2>4. mailed[e] = 0
    BY <1>1, <2>1 DEF MailInv
  <2>5. QED
    BY <1>2, <2>3, <2>4
<1>5. QED
  BY <1>3, <1>4

\* An entry is forwarded to mail-service at most once and only after its release,
\* for any number of requests at once: the UPDATE of its status lets one pass.
THEOREM NothingMailedTwice == Spec => []MailedOnce
<1>1. Init => MailInv
  BY DEF Init, MailInv, Sends
<1>2. TypeOK /\ MailInv /\ [Next]_vars => MailInv'
  <2> SUFFICES ASSUME TypeOK, MailInv, [Next]_vars PROVE MailInv'
    OBVIOUS
  <2> USE DEF Sends
  <2>1. CASE UNCHANGED <<row, mailed, pc, entry>>
    BY <2>1 DEF MailInv
  <2>2. ASSUME NEW f \in Entries, InsertQuarantine(f)
        PROVE  MailInv'
    BY <2>2 DEF InsertQuarantine, MailInv, TypeOK, handVars
  <2>3. ASSUME NEW h \in Handlers, \/ Answer(h)
                                   \/ Advance(h, "inform")
                                   \/ \E l \in {"update", "insert", "approve"} : Goto(h, l)
                                      /\ \E f \in Entries : entry' = [entry EXCEPT ![h] = f]
        PROVE  /\ \A f \in Entries : ~Sends(h, f)'
               /\ \A g \in Handlers, f \in Entries : Sends(g, f)' => Sends(g, f)
    <3>1. pc'[h] # "forward" /\ \A g \in Handlers : g # h => pc'[g] = pc[g] /\ entry'[g] = entry[g]
      BY <2>3 DEF Answer, Advance, Goto, TypeOK
    <3>2. QED
      BY <3>1
  <2> DEFINE SentBefore == \A g \in Handlers, f \in Entries : Sends(g, f)' => Sends(g, f)
  <2>31. CASE SentBefore /\ UNCHANGED <<row, mailed>>
    BY <2>31 DEF MailInv
  <2>4. ASSUME NEW h \in Handlers, UpdateQuarantineStatus(h)
        PROVE  MailInv'
    <3> mailed' = mailed /\ entry[h] \in Entries
      BY <2>4 DEF UpdateQuarantineStatus, TypeOK
    <3>1. CASE Answer(h)
      <4>1. \A f \in Entries : row'[f] = row[f] \/ (row[f] = "pending" /\ row'[f] \in Decided)
        BY <2>4 DEF UpdateQuarantineStatus, Undecided, TypeOK
      <4>2. QED
        BY <2>3, <3>1, <4>1 DEF MailInv, Decided
    <3>2. CASE Advance(h, "forward") /\ row[entry[h]] = "pending" /\ row' = [row EXCEPT ![entry[h]] = choice[h]] /\ choice[h] # "rejected"
      <4>1. /\ pc'[h] = "forward" /\ entry' = entry
            /\ \A g \in Handlers : g # h => pc'[g] = pc[g]
        BY <3>2 DEF Advance, Goto, TypeOK
      <4>2. row'[entry[h]] = "released" /\ \A f \in Entries : f # entry[h] => row'[f] = row[f]
        BY <3>2 DEF TypeOK, Decided
      <4>3. mailed[entry[h]] = 0 /\ \A g \in Handlers : ~Sends(g, entry[h])
        BY <3>2 DEF MailInv
      <4>4. QED
        BY <4>1, <4>2, <4>3 DEF MailInv
    <3>3. QED
      BY <2>4, <3>1, <3>2 DEF UpdateQuarantineStatus, Undecided
  <2>5. ASSUME NEW h \in Handlers, ForwardToMailService(h)
        PROVE  MailInv'
    <3> entry[h] \in Entries /\ Sends(h, entry[h]) /\ row' = row
      BY <2>5 DEF ForwardToMailService, TypeOK
    <3>1. /\ \A f \in Entries : ~Sends(h, f)'
          /\ \A g \in Handlers, f \in Entries : Sends(g, f)' => Sends(g, f)
      <4>1. Answer(h)
        BY <2>5 DEF ForwardToMailService
      <4>2. QED
        BY <2>3, <4>1
    <3>2. mailed[entry[h]] = 0
      <4>1. mailed[entry[h]] \in Nat /\ ~(mailed[entry[h]] > 0)
        BY DEF MailInv, TypeOK
      <4>2. QED
        BY <4>1
    <3>3. CASE mailed' = mailed
      BY <2>31, <3>1, <3>3
    <3>4. CASE mailed' = [mailed EXCEPT ![entry[h]] = @ + 1]
      <4>1. mailed'[entry[h]] = 1 /\ \A f \in Entries : f # entry[h] => mailed'[f] = mailed[f]
        BY <3>2, <3>4 DEF TypeOK
      <4>2. \A g \in Handlers, f \in Entries : f = entry[h] => ~Sends(g, f)'
        <5>1. \A g \in Handlers : Sends(g, entry[h]) => g = h
          BY DEF MailInv
        <5>2. QED
          BY <3>1, <5>1
      <4>3. row[entry[h]] \notin {"none", "pending", "rejected"}
        BY DEF MailInv
      <4>4. QED
        BY <3>1, <4>1, <4>2, <4>3 DEF MailInv
    <3>5. QED
      BY <2>5, <3>3, <3>4 DEF ForwardToMailService
  <2>6. ASSUME NEW h \in Handlers, ApproveRelease(h)
        PROVE  MailInv'
    BY <2>6 DEF ApproveRelease, Advance, Goto, Undecided, MailInv, TypeOK
  <2>7. ASSUME NEW es \in SUBSET Entries, DeleteRows(es)
        PROVE  MailInv'
    BY <2>7 DEF DeleteRows, MailInv, TypeOK, handVars
  <2>8. CASE Restart
    BY <2>8 DEF Restart, MailInv, TypeOK
  <2>9. ASSUME NEW h \in Handlers, InsertReleaseRequest(h) \/ RestoreApproved(h)
        PROVE  MailInv'
    BY <2>3, <2>31, <2>9 DEF InsertReleaseRequest, RestoreApproved
  <2>10. ASSUME NEW h \in Handlers, NEW e \in Entries, NEW s \in Decided, GetQuarantineByID(h, e, s)
         PROVE  MailInv'
    BY <2>3, <2>31, <2>10 DEF GetQuarantineByID
  <2>11. ASSUME NEW h \in Handlers, NEW e \in Entries, NEW u \in Users, CheckReleaseRequest(h, e, u)
         PROVE  MailInv'
    BY <2>3, <2>31, <2>11 DEF CheckReleaseRequest
  <2>12. ASSUME NEW h \in Handlers, NEW e \in Entries, NEW u \in Users,
                NEW s \in {"approved", "denied"}, ActionReleaseRequest(h, e, u, s)
         PROVE  MailInv'
    BY <2>1, <2>3, <2>31, <2>12 DEF ActionReleaseRequest
  <2>13. ASSUME NEW e \in GmailEntries, Archive(e) \/ RestoreGmailInbox(e)
         PROVE  MailInv'
    BY <2>1, <2>13 DEF Archive, RestoreGmailInbox, handVars
  <2>14. QED
    BY <2>1, <2>2, <2>4, <2>5, <2>6, <2>7, <2>8, <2>9, <2>10, <2>11, <2>12, <2>13
    DEF Next, HandlerStep, vars, handVars
<1>3. QED
  BY <1>1, <1>2, MailInvSuffices, TypeCorrect, PTL DEF Spec

------------------------------------------------------------------------------
(* The inbox.  Whatever could put the label back on a pending message, a     *)
(* goroutine or a handler about to start one, comes from an approval whose   *)
(* UPDATE failed; nothing at all is under way for an entry without a row.    *)

Untouched(e) ==
  /\ e \notin archived \cup archiving
  /\ restoring[e] = 0
  /\ \A u \in Users : open[e][u] = 0
  /\ \A h \in Handlers : pc[h] # "idle" => entry[h] # e
Unrestored(e) == restoring[e] = 0 /\ \A h \in Handlers : pc[h] = "inform" => entry[h] # e

InboxInv(e) ==
  /\ row[e] = "none" => Untouched(e)
  /\ row[e] = "pending" /\ e \notin unsaved => Unrestored(e) /\ (e \in archived => e \notin inbox)

\* Every step of a handler under way preserves the invariant.
LEMMA HandlerStepInbox ==
  ASSUME TypeOK, NEW h \in Handlers, HandlerStep(h), NEW e \in GmailEntries, InboxInv(e)
  PROVE  InboxInv(e)'
<1> e \in Entries
  BY EntriesAssumption
<1> DEFINE f == entry[h]
<1>1. f \in Entries /\ pc[h] # "idle" /\ (f = e => row[e] # "none")
  BY DEF TypeOK, HandlerStep, UpdateQuarantineStatus, ForwardToMailService,
         InsertReleaseRequest, ApproveRelease, RestoreApproved, InboxInv, Untouched
<1>2. UNCHANGED <<inbox, archiving, archived>>
  BY DEF HandlerStep, UpdateQuarantineStatus, ForwardToMailService, InsertReleaseRequest,
         ApproveRelease, RestoreApproved, gmailVars, historyVars
<1>3. \A g \in Handlers : g # h => pc'[g] = pc[g] /\ entry'[g] = entry[g]
  BY DEF HandlerStep, UpdateQuarantineStatus, ForwardToMailService, InsertReleaseRequest,
         ApproveRelease, RestoreApproved, Answer, Advance, Goto, TypeOK
<1>4. pc'[h] = "idle" \/ entry'[h] = f
  BY DEF HandlerStep, UpdateQuarantineStatus, ForwardToMailService, InsertReleaseRequest,
         ApproveRelease, RestoreApproved, Answer, Advance, Goto, TypeOK
<1>5. CASE e # f
  <2>1. row'[e] = row[e] /\ restoring'[e] = restoring[e] /\ open'[e] = open[e]
    BY <1>5 DEF HandlerStep, UpdateQuarantineStatus, ForwardToMailService, InsertReleaseRequest,
       ApproveRelease, RestoreApproved, StartRestore, TypeOK, gmailVars, requestVars
  <2>2. e \in unsaved' <=> e \in unsaved
    BY <1>5 DEF HandlerStep, UpdateQuarantineStatus, ForwardToMailService, InsertReleaseRequest,
       ApproveRelease, RestoreApproved, historyVars
  <2>3. QED
    BY <1>2, <1>3, <1>4, <1>5, <2>1, <2>2 DEF InboxInv, Untouched, Unrestored
<1>6. CASE e = f
  <2>1. row'[e] # "none"
    BY <1>1, <1>6 DEF HandlerStep, UpdateQuarantineStatus, ForwardToMailService,
       InsertReleaseRequest, ApproveRelease, RestoreApproved, TypeOK, Decided
  <2>2. CASE row'[e] = "pending" /\ e \notin unsaved'
    <3>1. row[e] = "pending" /\ e \notin unsaved
      BY <1>6, <2>2 DEF HandlerStep, UpdateQuarantineStatus, ForwardToMailService,
         InsertReleaseRequest, ApproveRelease, RestoreApproved, TypeOK, Decided, historyVars
    <3>2. Unrestored(e) /\ (e \in archived => e \notin inbox)
      BY <3>1 DEF InboxInv
    <3>3. ~RestoreApproved(h)
      BY <1>6, <3>2 DEF RestoreApproved, Unrestored
    <3>4. ~ApproveRelease(h)
      BY <1>6, <2>2, <3>1 DEF ApproveRelease, Undecided, TypeOK
    <3>5. pc'[h] # "inform" /\ restoring'[e] = restoring[e]
      BY <1>6, <2>2, <3>3, <3>4 DEF HandlerStep, UpdateQuarantineStatus, ForwardToMailService,
         InsertReleaseRequest, Answer, Advance, Goto, TypeOK, Decided, gmailVars
    <3>6. QED
      BY <1>2, <1>3, <2>2, <3>2, <3>5 DEF InboxInv, Unrestored
  <2>3. QED
    BY <2>1, <2>2 DEF InboxInv
<1>7. QED
  BY <1>5, <1>6

\* A message the scanner archived does not come back into the inbox while its entry
\* is pending, unless the UPDATE of an approval failed unnoticed.
THEOREM PendingMailStaysOut == Spec => []PendingStaysOut
<1> DEFINE Inv == \A e \in GmailEntries : InboxInv(e)
<1>1. Init => Inv
  BY EntriesAssumption DEF Init, InboxInv, Untouched
<1>2. TypeOK /\ Inv /\ [Next]_vars => Inv'
  <2> SUFFICES ASSUME TypeOK, Inv, [Next]_vars, NEW e \in GmailEntries
               PROVE  InboxInv(e)'
    OBVIOUS
  <2> e \in Entries /\ InboxInv(e)
    BY EntriesAssumption
  <2> USE DEF InboxInv, Untouched, Unrestored
  <2>1. CASE UNCHANGED vars
    BY <2>1 DEF vars, requestVars, gmailVars, handVars, historyVars
  <2>2. ASSUME NEW f \in Entries, InsertQuarantine(f)
        PROVE  InboxInv(e)'
    BY <2>2 DEF InsertQuarantine, TypeOK, requestVars, handVars, historyVars
  <2>3. ASSUME NEW f \in GmailEntries, Archive(f)
        PROVE  InboxInv(e)'
    BY <2>3 DEF Archive, requestVars, handVars
  <2>4. ASSUME NEW f \in GmailEntries, RestoreGmailInbox(f)
        PROVE  InboxInv(e)'
    <3>1. /\ UNCHANGED <<row, archiving, archived, unsaved, open, pc, entry>>
          /\ restoring[f] > 0 /\ restoring' = [restoring EXCEPT ![f] = @ - 1]
          /\ inbox' \subseteq inbox \cup {f}
      BY <2>4 DEF RestoreGmailInbox, requestVars, handVars
    <3>2. CASE f = e
      <4>1. restoring[e] # 0
        BY <3>1, <3>2
      <4>2. row[e] # "none" /\ (row[e] = "pending" => e \in unsaved)
        BY <4>1
      <4>3. QED
        BY <3>1, <4>2
    <3>3. CASE f # e
      <4>1. restoring'[e] = restoring[e] /\ (e \in inbox' => e \in inbox)
        BY <3>1, <3>3 DEF TypeOK
      <4>2. QED
        BY <3>1, <4>1
    <3>4. QED
      BY <3>2, <3>3
  <2>5. ASSUME NEW h \in Handlers, NEW f \in Entries, NEW s \in Decided, GetQuarantineByID(h, f, s)
        PROVE  InboxInv(e)'
    BY <2>5 DEF GetQuarantineByID, Goto, Exists, Rows, Decided, TypeOK, requestVars, gmailVars, historyVars
  <2>6. ASSUME NEW h \in Handlers, NEW f \in Entries, NEW u \in Users, CheckReleaseRequest(h, f, u)
        PROVE  InboxInv(e)'
    BY <2>6 DEF CheckReleaseRequest, Goto, Exists, Rows, Decided, TypeOK, requestVars, gmailVars, historyVars
  <2>7. ASSUME NEW h \in Handlers, NEW f \in Entries, NEW u \in Users,
               NEW s \in {"approved", "denied"}, ActionReleaseRequest(h, f, u, s)
        PROVE  InboxInv(e)'
    <3>1. pc[h] = "idle" /\ open[f][u] > 0 /\ UNCHANGED <<row, gmailVars, historyVars>>
      BY <2>7 DEF ActionReleaseRequest
    <3>2. row[e] = "none" => f # e
      BY <3>1
    <3>3. f # e => open'[e] = open[e]
      BY <2>7 DEF ActionReleaseRequest, TypeOK
    <3>4. \A g \in Handlers : \/ pc'[g] = pc[g] /\ entry'[g] = entry[g]
                              \/ pc'[g] = "approve" /\ entry'[g] = f
      BY <2>7 DEF ActionReleaseRequest, Goto, TypeOK
    <3>5. QED
      BY <3>1, <3>2, <3>3, <3>4 DEF gmailVars, historyVars
  <2>8. ASSUME NEW es \in SUBSET Entries, DeleteRows(es)
        PROVE  InboxInv(e)'
    BY <2>8 DEF DeleteRows, Exists, Rows, Decided, gmailVars, handVars, historyVars
  <2>9. CASE Restart
    BY <2>9 DEF Restart, TypeOK, requestVars
  <2>10. QED
    BY <2>1, <2>2, <2>3, <2>4, <2>5, <2>6, <2>7, <2>8, <2>9, HandlerStepInbox DEF Next
<1>3. Inv => PendingStaysOut
  BY DEF InboxInv, PendingStaysOut
<1>4. QED
  BY <1>1, <1>2, <1>3, TypeCorrect, PTL DEF Spec

------------------------------------------------------------------------------
(* Open requests.  The bound is inductive: the SELECT lets a request past    *)
(* only while none is open, and then at most every handler is on its way to  *)
(* an INSERT; each INSERT turns one of them into an open request.            *)

Inserting(e, u) == {h \in Handlers : pc[h] = "insert" /\ entry[h] = e /\ user[h] = u}
OpenBound(e, u) == open[e][u] + Cardinality(Inserting(e, u)) <= Cardinality(Handlers)

LEMMA InsertingFinite ==
  ASSUME NEW S \in SUBSET Handlers
  PROVE  IsFiniteSet(S) /\ Cardinality(S) \in Nat /\ Cardinality(Handlers) \in Nat
         /\ Cardinality(S) <= Cardinality(Handlers)
         /\ \A T \in SUBSET S : Cardinality(T) \in Nat /\ Cardinality(T) <= Cardinality(S)
BY HandlersAssumption, FS_Subset, FS_CardinalityType

\* A step that adds neither an open request nor a handler about to insert one.
LEMMA NoneAdded ==
  ASSUME TypeOK, TypeOK', NEW e \in Entries, NEW u \in Users, OpenBound(e, u),
         open'[e][u] <= open[e][u], Inserting(e, u)' \subseteq Inserting(e, u)
  PROVE  OpenBound(e, u)'
<1>1. PICK S, T : S = Inserting(e, u) /\ T = Inserting(e, u)'
  OBVIOUS
<1>2. S \in SUBSET Handlers /\ T \in SUBSET S
  BY <1>1 DEF Inserting
<1>3. PICK a, b, c, d, n \in Nat :
        /\ a = open[e][u] /\ b = open'[e][u] /\ c = Cardinality(S) /\ d = Cardinality(T)
        /\ n = Cardinality(Handlers)
  BY <1>2, InsertingFinite DEF TypeOK
<1>4. a + c <= n /\ b <= a /\ d <= c
  BY <1>1, <1>2, <1>3, InsertingFinite DEF OpenBound
<1>5. b + d <= n
  BY <1>4
<1>6. QED
  BY <1>1, <1>3, <1>5 DEF OpenBound

\* What the steps of one handler do to the others' places.
LEMMA OneHandlerMoves ==
  ASSUME TypeOK, NEW h \in Handlers, Answer(h) \/ Advance(h, "forward") \/ Advance(h, "inform")
  PROVE  \A e \in Entries, u \in Users : Inserting(e, u)' \subseteq Inserting(e, u)
<1>1. pc'[h] # "insert" /\ \A g \in Handlers \ {h} : pc'[g] = pc[g] /\ entry'[g] = entry[g] /\ user'[g] = user[g]
  BY DEF Answer, Advance, Goto, TypeOK
<1>2. QED
  BY <1>1 DEF Inserting

LEMMA CheckKeepsBound ==
  ASSUME TypeOK, TypeOK', NEW h \in Handlers, NEW f \in Entries, NEW v \in Users,
         CheckReleaseRequest(h, f, v),
         NEW e \in Entries, NEW u \in Users, OpenBound(e, u)
  PROVE  OpenBound(e, u)'
<1>1. open' = open /\ pc[h] = "idle" /\ entry'[h] = f /\ user'[h] = v /\ open[f][v] = 0
      /\ \A g \in Handlers \ {h} : pc'[g] = pc[g] /\ entry'[g] = entry[g] /\ user'[g] = user[g]
  BY DEF CheckReleaseRequest, NoneOpen, Goto, TypeOK, requestVars
<1>2. CASE e = f /\ u = v
  <2>1. PICK T : T = Inserting(e, u)'
    OBVIOUS
  <2>2. T \in SUBSET Handlers
    BY <2>1 DEF Inserting
  <2>3. open'[e][u] = 0 /\ Cardinality(T) \in Nat /\ Cardinality(T) <= Cardinality(Handlers)
    BY <1>1, <1>2, <2>2, InsertingFinite
  <2>4. QED
    BY <2>1, <2>3 DEF OpenBound
<1>3. CASE e # f \/ u # v
  <2>1. Inserting(e, u)' \subseteq Inserting(e, u)
    BY <1>1, <1>3 DEF Inserting
  <2>2. open[e][u] \in Nat
    BY DEF TypeOK
  <2>3. QED
    BY <1>1, <2>1, <2>2, NoneAdded
<1>4. QED
  BY <1>2, <1>3

LEMMA InsertKeepsBound ==
  ASSUME TypeOK, TypeOK', NEW h \in Handlers, InsertReleaseRequest(h),
         NEW e \in Entries, NEW u \in Users, OpenBound(e, u)
  PROVE  OpenBound(e, u)'
<1>1. Answer(h) /\ pc[h] = "insert"
  BY DEF InsertReleaseRequest
<1>2. Inserting(e, u)' \subseteq Inserting(e, u)
  BY <1>1, OneHandlerMoves
<1>3. PICK a, b \in Nat : a = open[e][u] /\ b = open'[e][u]
  BY DEF TypeOK
<1>4. CASE entry[h] = e /\ user[h] = u
  <2>1. PICK S, T : S = Inserting(e, u) /\ T = Inserting(e, u)'
    OBVIOUS
  <2>2. h \in S /\ T \subseteq S \ {h} /\ S \in SUBSET Handlers
    <3>1. pc'[h] = "idle"
      BY <1>1 DEF Answer, Goto, TypeOK
    <3>2. QED
      BY <1>1, <1>2, <1>4, <2>1, <3>1 DEF Inserting
  <2>3. IsFiniteSet(S) /\ S \ {h} \in SUBSET Handlers
    BY <2>2, InsertingFinite
  <2>4. Cardinality(S \ {h}) = Cardinality(S) - 1
    BY <2>2, <2>3, FS_RemoveElement
  <2>5. PICK c, d, n \in Nat : c = Cardinality(S) /\ d = Cardinality(T) /\ n = Cardinality(Handlers)
    BY <2>2, InsertingFinite
  <2>6. d <= c - 1
    BY <2>2, <2>3, <2>4, <2>5, InsertingFinite
  <2>7. b <= a + 1
    <3>1. CASE UNCHANGED requestVars
      BY <1>3, <3>1 DEF requestVars
    <3>2. CASE open' = [open EXCEPT ![entry[h]][user[h]] = @ + 1]
      BY <1>3, <1>4, <3>2 DEF TypeOK
    <3>3. QED
      BY <3>1, <3>2 DEF InsertReleaseRequest
  <2>8. a + c <= n
    BY <1>3, <2>1, <2>5 DEF OpenBound
  <2>9. b + d <= n
    BY <2>6, <2>7, <2>8
  <2>10. QED
    BY <1>3, <2>1, <2>5, <2>9 DEF OpenBound
<1>5. CASE entry[h] # e \/ user[h] # u
  <2>1. open'[e][u] = open[e][u]
    <3>1. CASE UNCHANGED requestVars
      BY <3>1 DEF requestVars
    <3>2. CASE open' = [open EXCEPT ![entry[h]][user[h]] = @ + 1]
      BY <1>5, <3>2 DEF TypeOK
    <3>3. QED
      BY <3>1, <3>2 DEF InsertReleaseRequest
  <2>2. QED
    BY <1>2, <1>3, <2>1, NoneAdded
<1>6. QED
  BY <1>4, <1>5

LEMMA BoundNext ==
  ASSUME TypeOK, TypeOK', [Next]_vars,
         NEW e \in Entries, NEW u \in Users, OpenBound(e, u)
  PROVE  OpenBound(e, u)'
<1>1. open[e][u] \in Nat
  BY DEF TypeOK
<1>2. CASE open'[e][u] <= open[e][u] /\ Inserting(e, u)' \subseteq Inserting(e, u)
  BY <1>2, NoneAdded
<1>3. CASE UNCHANGED <<open, pc, entry, user>>
  BY <1>1, <1>2, <1>3 DEF Inserting
<1>4. ASSUME NEW h \in Handlers, HandlerStep(h)
      PROVE  OpenBound(e, u)'
  <2>1. CASE InsertReleaseRequest(h)
    BY <2>1, InsertKeepsBound
  <2>2. CASE UpdateQuarantineStatus(h) \/ ForwardToMailService(h) \/ ApproveRelease(h) \/ RestoreApproved(h)
    <3>1. open' = open /\ (Answer(h) \/ Advance(h, "forward") \/ Advance(h, "inform"))
      BY <2>2 DEF UpdateQuarantineStatus, ForwardToMailService, ApproveRelease, RestoreApproved, requestVars
    <3>2. QED
      BY <1>1, <1>2, <3>1, OneHandlerMoves
  <2>3. QED
    BY <1>4, <2>1, <2>2 DEF HandlerStep
<1>5. ASSUME NEW h \in Handlers, NEW f \in Entries, NEW s \in Decided, GetQuarantineByID(h, f, s)
      PROVE  OpenBound(e, u)'
  <2>1. open' = open /\ pc'[h] # "insert" /\ \A g \in Handlers \ {h} : pc'[g] = pc[g] /\ entry'[g] = entry[g]
        /\ user' = user
    BY <1>5 DEF GetQuarantineByID, Goto, TypeOK, requestVars
  <2>2. QED
    BY <1>1, <1>2, <2>1 DEF Inserting
<1>6. ASSUME NEW h \in Handlers, NEW f \in Entries, NEW v \in Users, CheckReleaseRequest(h, f, v)
      PROVE  OpenBound(e, u)'
  BY <1>6, CheckKeepsBound
<1>7. ASSUME NEW h \in Handlers, NEW f \in Entries, NEW v \in Users, NEW s \in {"approved", "denied"},
             ActionReleaseRequest(h, f, v, s)
      PROVE  OpenBound(e, u)'
  <2>1. open'[e][u] <= open[e][u]
    <3>1. open' = [open EXCEPT ![f][v] = @ - 1]
      BY <1>7 DEF ActionReleaseRequest
    <3>2. open'[e][u] = IF e = f /\ u = v THEN open[e][u] - 1 ELSE open[e][u]
      BY <3>1 DEF TypeOK
    <3>3. QED
      BY <1>1, <3>2
  <2>2. \A g \in Handlers : pc'[g] = "insert" => pc[g] = "insert" /\ entry'[g] = entry[g] /\ user'[g] = user[g]
    BY <1>7 DEF ActionReleaseRequest, Goto, TypeOK
  <2>3. QED
    BY <1>2, <2>1, <2>2 DEF Inserting
<1>8. ASSUME NEW es \in SUBSET Entries, DeleteRows(es)
      PROVE  OpenBound(e, u)'
  <2>1. open'[e][u] \in {0, open[e][u]} /\ UNCHANGED handVars
    BY <1>8 DEF DeleteRows, TypeOK
  <2>2. QED
    BY <1>1, <1>2, <2>1 DEF Inserting, handVars
<1>9. CASE Restart
  <2>1. open' = open /\ Inserting(e, u)' = {}
    BY <1>9 DEF Restart, Inserting, requestVars
  <2>2. QED
    BY <1>1, <1>2, <2>1
<1>10. CASE \/ \E f \in Entries : InsertQuarantine(f)
            \/ \E f \in GmailEntries : Archive(f) \/ RestoreGmailInbox(f)
  BY <1>3, <1>10 DEF InsertQuarantine, Archive, RestoreGmailInbox, handVars, requestVars
<1>11. CASE UNCHANGED vars
  BY <1>3, <1>11 DEF vars, handVars, requestVars
<1>12. QED
  BY <1>4, <1>5, <1>6, <1>7, <1>8, <1>9, <1>10, <1>11 DEF Next

\* However many requests of one user look for an open one before any of them inserts its own,
\* no more than the handlers at once ever are open (data/auth.go: CreateReleaseRequest).
THEOREM OpenRequestsStayFew == Spec => []OpenRequestsBounded
<1> DEFINE Bound == \A e \in Entries, u \in Users : OpenBound(e, u)
<1>1. Init => Bound
  <2> SUFFICES ASSUME Init, NEW e \in Entries, NEW u \in Users PROVE OpenBound(e, u)
    OBVIOUS
  <2>1. Inserting(e, u) = {} /\ open[e][u] = 0
    BY DEF Init, Inserting
  <2>2. {} \in SUBSET Handlers /\ Cardinality({}) = 0
    BY FS_EmptySet
  <2>3. QED
    BY <2>1, <2>2, InsertingFinite DEF OpenBound
<1>2. TypeOK /\ TypeOK' /\ Bound /\ [Next]_vars => Bound'
  BY BoundNext
<1>3. Bound <=> OpenRequestsBounded
  BY DEF OpenBound, OpenRequestsBounded, Inserting
<1>4. QED
  BY <1>1, <1>2, <1>3, TypeCorrect, PTL DEF Spec
==============================================================================
