--------------------------- MODULE GmailScanProofs ---------------------------
(***************************************************************************)
(* Machine-checked proofs about GmailScan, for every number of workers,    *)
(* messages, page size, scan limit and set of faults.                      *)
(***************************************************************************)
EXTENDS GmailScan, FiniteSetTheorems, TLAPS

------------------------------------------------------------------------------
(* What the shared pieces of the actions do to a process's own variables.    *)

LEMMA BeginType ==
  ASSUME ProcTypeOK, NEW p \in Procs, NEW k \in {"history", "list"},
         NEW f \in HistoryIds, NEW t \in HistoryIds, Begin(p, k, f, t)
  PROVE  ProcTypeOK'
BY DEF ProcTypeOK, Begin, Goto, Places

LEMMA EnterLoopType ==
  ASSUME ProcTypeOK, NEW p \in Procs, NEW ms \in SUBSET Messages, EnterLoop(p, ms)
  PROVE  ProcTypeOK'
BY DEF ProcTypeOK, EnterLoop, Goto, Places

LEMMA AdvanceType ==
  ASSUME ProcTypeOK, NEW p \in Procs, NEW l \in Places, Advance(p, l)
  PROVE  ProcTypeOK'
BY DEF ProcTypeOK, Advance, Goto

LEMMA FinishType ==
  ASSUME ProcTypeOK, NEW p \in Procs, NEW l \in Places, Finish(p, l)
  PROVE  ProcTypeOK'
BY BoundsAssumption DEF ProcTypeOK, Finish, Goto, HistoryIds

LEMMA NextMessageType ==
  ASSUME ProcTypeOK, NEW p \in Procs, NEW m, NextMessage(p, m)
  PROVE  ProcTypeOK'
BY DEF ProcTypeOK, NextMessage, Goto, Places

LEMMA BreakLoopType ==
  ASSUME ProcTypeOK, FateTypeOK, NEW p \in Procs, BreakLoop(p)
  PROVE  ProcTypeOK' /\ FateTypeOK'
BY DEF ProcTypeOK, FateTypeOK, BreakLoop, Miss, Goto, Places

LEMMA FateType ==
  ASSUME FateTypeOK
  PROVE  /\ \A m \in Messages : Examine(m) => FateTypeOK'
         /\ \A ms \in SUBSET Messages : Miss(ms) => FateTypeOK'
         /\ UNCHANGED fateVars => FateTypeOK'
BY DEF FateTypeOK, Examine, Miss, fateVars

\* Both listings return messages that have arrived.
LEMMA ListingType ==
  ASSUME StoreTypeOK, NEW h
  PROVE  HistorySince(h) \in SUBSET Messages /\ ListAfter(h) \in SUBSET Messages
BY BoundsAssumption DEF StoreTypeOK, HistorySince, ListAfter, Messages

LEMMA BumpType ==
  ASSUME NEW n \in Nat
  PROVE  Bump(n) \in Nat
BY LimitAssumption DEF Bump

\* Each step of a running scan preserves the types.
LEMMA ScanStepType ==
  ASSUME TypeOK, NEW p \in Procs, ScanStep(p)
  PROVE  TypeOK'
<1> StoreTypeOK /\ ProcTypeOK /\ FateTypeOK
  BY DEF TypeOK
<1> {"idle", "fetch", "scan", "quota", "judge", "archive", "stamp"} \subseteq Places
  BY DEF Places
<1>1. CASE FetchHistory(p)
  <2>1. StoreTypeOK' /\ FateTypeOK'
    BY <1>1 DEF FetchHistory, StoreTypeOK, FateTypeOK, tokenVars, quotaVars, fateVars
  <2>2. CASE EnterLoop(p, IF from[p] > 0 THEN HistorySince(from[p]) ELSE {})
    <3>1. (IF from[p] > 0 THEN HistorySince(from[p]) ELSE {}) \in SUBSET Messages
      BY ListingType
    <3>2. QED
      BY <2>1, <2>2, <3>1, EnterLoopType DEF TypeOK
  <2>3. CASE ~EnterLoop(p, IF from[p] > 0 THEN HistorySince(from[p]) ELSE {})
    <3>1. ProcTypeOK'
      BY <1>1, <2>3, BoundsAssumption
      DEF FetchHistory, ProcTypeOK, StoreTypeOK, HistoryIds
    <3>2. QED
      BY <2>1, <3>1 DEF TypeOK
  <2>4. QED
    BY <2>2, <2>3
<1>2. CASE FetchList(p)
  <2>1. StoreTypeOK' /\ FateTypeOK'
    BY <1>2 DEF FetchList, StoreTypeOK, FateTypeOK, tokenVars, quotaVars, fateVars
  <2>2. ProcTypeOK'
    BY <1>2, ListingType, EnterLoopType, FinishType DEF FetchList
  <2>3. QED
    BY <2>1, <2>2 DEF TypeOK
<1>3. ASSUME NEW m \in Messages, LookUp(p, m)
      PROVE  TypeOK'
  <2>1. StoreTypeOK'
    BY <1>3 DEF LookUp, StoreTypeOK, tokenVars, quotaVars
  <2>2. ProcTypeOK'
    BY <1>3, NextMessageType, AdvanceType DEF LookUp
  <2>3. FateTypeOK'
    <3>1. CASE blind' = blind \cup {m} /\ UNCHANGED <<examined, missed>>
      BY <3>1 DEF FateTypeOK
    <3>2. QED
      BY <1>3, <3>1, FateType DEF LookUp
  <2>4. QED
    BY <2>1, <2>2, <2>3 DEF TypeOK
<1>4. CASE CheckAndIncrementScan(p)
  <2>1. used' \in Nat /\ granted' \in Nat
    <3>1. used \in Nat /\ granted \in Nat
      BY DEF StoreTypeOK
    <3>2. CASE UNCHANGED quotaVars
      BY <3>1, <3>2 DEF quotaVars
    <3>3. CASE ~UNCHANGED quotaVars
      <4>1. PICK expired \in BOOLEAN :
              LET n == Bump(IF expired THEN 0 ELSE used)
                  g == IF expired THEN 0 ELSE granted
              IN  used' = n /\ granted' \in {g, Bump(g)}
        BY <1>4, <3>3 DEF CheckAndIncrementScan
      <4>2. CASE expired
        BY <4>1, <4>2, <3>1, BumpType
      <4>3. CASE ~expired
        BY <4>1, <4>3, <3>1, BumpType
      <4>4. QED
        BY <4>2, <4>3
    <3>4. QED
      BY <3>2, <3>3
  <2>2. StoreTypeOK'
    BY <1>4, <2>1 DEF CheckAndIncrementScan, StoreTypeOK, tokenVars
  <2>3. ProcTypeOK' /\ FateTypeOK'
    BY <1>4, BreakLoopType, AdvanceType, FateType DEF CheckAndIncrementScan
  <2>4. QED
    BY <2>2, <2>3 DEF TypeOK
<1>5. ASSUME NEW m \in Messages, Judge(p, m)
      PROVE  TypeOK'
  <2>1. StoreTypeOK'
    BY <1>5 DEF Judge, StoreTypeOK, tokenVars, quotaVars
  <2>2. ProcTypeOK'
    BY <1>5, NextMessageType, AdvanceType DEF Judge
  <2>3. FateTypeOK'
    BY <1>5, FateType DEF Judge
  <2>4. QED
    BY <2>1, <2>2, <2>3 DEF TypeOK
<1>6. ASSUME NEW m \in Messages, Archive(p, m)
      PROVE  TypeOK'
  <2>1. StoreTypeOK'
    BY <1>6 DEF Archive, StoreTypeOK, tokenVars, quotaVars
  <2>2. ProcTypeOK' /\ FateTypeOK'
    BY <1>6, NextMessageType, FateType DEF Archive
  <2>3. QED
    BY <2>1, <2>2 DEF TypeOK
<1>7. CASE UpdateHistoryID(p)
  <2>1. StoreTypeOK'
    BY <1>7 DEF UpdateHistoryID, StoreTypeOK, ProcTypeOK, quotaVars
  <2>2. ProcTypeOK'
    BY <1>7, FinishType DEF UpdateHistoryID
  <2>3. FateTypeOK'
    <3>1. Unlistable(from[p], target[p]) \in SUBSET Messages
      BY DEF Unlistable
    <3>2. QED
      BY <1>7, <3>1, FateType DEF UpdateHistoryID, FateTypeOK, fateVars
  <2>4. QED
    BY <2>1, <2>2, <2>3 DEF TypeOK
<1>8. CASE UpdateLastScanned(p)
  <2>1. StoreTypeOK'
    BY <1>8, BoundsAssumption DEF UpdateLastScanned, StoreTypeOK, quotaVars, NoScan
  <2>2. ProcTypeOK' /\ FateTypeOK'
    BY <1>8, FinishType, FateType DEF UpdateLastScanned
  <2>3. QED
    BY <2>1, <2>2 DEF TypeOK
<1>9. QED
  BY <1>1, <1>2, <1>3, <1>4, <1>5, <1>6, <1>7, <1>8 DEF ScanStep

------------------------------------------------------------------------------
\* Every variable keeps its type: the counters, the rows and the copies a scan
\* holds of oauth_tokens stay in range over every handler and goroutine.
THEOREM TypeCorrect == Spec => []TypeOK
<1>1. Init => TypeOK
  BY BoundsAssumption DEF Init, TypeOK, StoreTypeOK, ProcTypeOK, FateTypeOK,
                          Messages, NoScan, HistoryIds, Places
<1>2. TypeOK /\ [Next]_vars => TypeOK'
  <2> SUFFICES ASSUME TypeOK, [Next]_vars PROVE TypeOK'
    OBVIOUS
  <2> StoreTypeOK /\ ProcTypeOK /\ FateTypeOK
    BY DEF TypeOK
  <2> Ticker \in Procs /\ \A w \in Workers : w \in Procs
    BY DEF Procs
  <2> 0 \in HistoryIds /\ \A c \in 0..arrived : c \in HistoryIds
    BY BoundsAssumption DEF HistoryIds, StoreTypeOK
  <2>1. CASE Arrive
    <3>1. StoreTypeOK'
      BY <2>1, BoundsAssumption
      DEF Arrive, StoreTypeOK, Messages, HistoryIds, tokenVars, quotaVars
    <3>2. ProcTypeOK' /\ FateTypeOK'
      BY <2>1 DEF Arrive, ProcTypeOK, FateTypeOK, procVars, fateVars
    <3>3. QED
      BY <3>1, <3>2 DEF TypeOK
  <2>2. CASE \E n \in notices : LoseNotice(n)
    BY <2>2 DEF LoseNotice, TypeOK, StoreTypeOK, ProcTypeOK, FateTypeOK,
                tokenVars, quotaVars, procVars, fateVars
  <2>3. ASSUME NEW p \in Procs, NEW k \in {"history", "list"},
               NEW f \in HistoryIds, NEW t \in HistoryIds,
               Begin(p, k, f, t), notices' \subseteq notices
        PROVE  TypeOK'
    <3>1. StoreTypeOK' /\ FateTypeOK'
      BY <2>3 DEF Begin, StoreTypeOK, FateTypeOK, tokenVars, quotaVars, fateVars
    <3>2. ProcTypeOK'
      BY <2>3, BeginType
    <3>3. QED
      BY <3>1, <3>2 DEF TypeOK
  <2>4. ASSUME NEW w \in Workers, NEW n \in notices, GmailPubSubWebhook(w, n)
        PROVE  TypeOK'
    BY <2>3, <2>4 DEF GmailPubSubWebhook, StoreTypeOK
  <2>5. ASSUME NEW w \in Workers, ManualScan(w)
        PROVE  TypeOK'
    BY <2>3, <2>5 DEF ManualScan
  <2>6. CASE FallbackScan
    BY <2>3, <2>6 DEF FallbackScan
  <2>7. ASSUME NEW p \in Procs, CallWatch(p)
        PROVE  TypeOK'
    <3>1. CurrentHistoryId \in HistoryIds
      BY BoundsAssumption DEF CurrentHistoryId, HistoryIds, StoreTypeOK
    <3>2. ProcTypeOK'
      BY <2>7, <3>1 DEF CallWatch, ProcTypeOK, Goto, Places
    <3>3. StoreTypeOK' /\ FateTypeOK'
      BY <2>7 DEF CallWatch, StoreTypeOK, FateTypeOK, tokenVars, quotaVars, fateVars
    <3>4. QED
      BY <3>2, <3>3 DEF TypeOK
  <2>8. ASSUME NEW p \in Procs, UpdateWatch(p)
        PROVE  TypeOK'
    <3>1. StoreTypeOK'
      BY <2>8 DEF UpdateWatch, StoreTypeOK, ProcTypeOK, quotaVars
    <3>2. ProcTypeOK'
      BY <2>8, FinishType DEF UpdateWatch, Places
    <3>3. FateTypeOK'
      BY <2>8 DEF UpdateWatch, Miss, FateTypeOK, fateVars
    <3>4. QED
      BY <3>1, <3>2, <3>3 DEF TypeOK
  <2>9. CASE Restart
    <3>1. StoreTypeOK' /\ FateTypeOK'
      BY <2>9, BoundsAssumption
      DEF Restart, StoreTypeOK, FateTypeOK, tokenVars, quotaVars, fateVars
    <3>2. ProcTypeOK'
      BY <2>9 DEF Restart, ProcTypeOK, Places
    <3>3. QED
      BY <3>1, <3>2 DEF TypeOK
  <2>10. CASE UNCHANGED vars
    BY <2>10 DEF vars, TypeOK, StoreTypeOK, ProcTypeOK, FateTypeOK,
                 tokenVars, quotaVars, procVars, fateVars
  <2>11. QED
    BY <2>1, <2>2, <2>4, <2>5, <2>6, <2>7, <2>8, <2>9, <2>10, ScanStepType DEF Next
<1>3. QED
  BY <1>1, <1>2, PTL DEF Spec

------------------------------------------------------------------------------
(* The quota.  The counter in the row is at least the number of scans        *)
(* allowed since the period began, and it is compared after the increment.   *)

QuotaInv == ScanLimit # Unlimited => granted <= ScanLimit /\ granted <= used

LEMMA BumpMonotone ==
  ASSUME NEW m \in Nat, NEW n \in Nat, m <= n
  PROVE  Bump(m) <= Bump(n)
BY LimitAssumption DEF Bump, Cap, Unlimited

\* However scans of one tenant interleave, a plan's limit is never exceeded within
\* a period: CheckAndIncrementScan is one UPDATE.
THEOREM QuotaNeverExceeded == Spec => []QuotaRespected
<1>1. Init => QuotaInv
  BY LimitAssumption DEF Init, QuotaInv, Unlimited
<1>2. TypeOK /\ QuotaInv /\ [Next]_vars => QuotaInv'
  <2> SUFFICES ASSUME TypeOK, QuotaInv, [Next]_vars, ScanLimit # Unlimited
               PROVE  granted' <= ScanLimit /\ granted' <= used'
    BY DEF QuotaInv
  <2>1. used \in Nat /\ granted \in Nat /\ ScanLimit \in Nat
    BY LimitAssumption DEF TypeOK, StoreTypeOK
  <2>2. granted <= ScanLimit /\ granted <= used
    BY DEF QuotaInv
  <2>3. CASE UNCHANGED quotaVars
    BY <2>2, <2>3 DEF quotaVars
  <2>4. ASSUME NEW p \in Procs, CheckAndIncrementScan(p), ~UNCHANGED quotaVars
        PROVE  granted' <= ScanLimit /\ granted' <= used'
    <3>1. PICK u \in {0, used}, g \in {0, granted} :
            /\ u = 0 => g = 0
            /\ u = used \/ g = 0
            /\ used' = Bump(u)
            /\ \/ Allowed(Bump(u)) /\ granted' = Bump(g)
               \/ granted' = g
      <4>1. PICK expired \in BOOLEAN :
              LET n == Bump(IF expired THEN 0 ELSE used)
                  g == IF expired THEN 0 ELSE granted
              IN  /\ used' = n
                  /\ \/ Allowed(n) /\ granted' = Bump(g)
                     \/ granted' = g
        BY <2>4 DEF CheckAndIncrementScan
      <4>2. used = 0 => granted = 0
        BY <2>1, <2>2
      <4>3. CASE expired
        BY <4>1, <4>3
      <4>4. CASE ~expired
        BY <4>1, <4>2, <4>4
      <4>5. QED
        BY <4>3, <4>4
    <3>2. g \in Nat /\ u \in Nat /\ g <= u /\ g <= ScanLimit
      BY <2>1, <2>2, <3>1
    <3>3. QED
      BY <2>1, <3>1, <3>2, BumpMonotone, BumpType DEF Bump, Allowed, Cap
  <2>5. QED
    <3>1. CASE \E p \in Procs : CheckAndIncrementScan(p)
      BY <2>3, <2>4, <3>1
    <3>2. CASE ~\E p \in Procs : CheckAndIncrementScan(p)
      BY <2>3, <3>2 DEF Next, vars, Arrive, LoseNotice, GmailPubSubWebhook, ManualScan,
         FallbackScan, Begin, ScanStep, FetchHistory, FetchList, LookUp, Judge, Archive,
         UpdateHistoryID, UpdateLastScanned, CallWatch, UpdateWatch, Restart
    <3>3. QED
      BY <3>1, <3>2
<1>3. QuotaInv => QuotaRespected
  BY DEF QuotaInv, QuotaRespected
<1>4. QED
  BY <1>1, <1>2, <1>3, TypeCorrect, PTL DEF Spec

------------------------------------------------------------------------------
(* Archiving.  A process about to archive a message has inserted its row.    *)

ArchiveInv ==
  /\ ArchivedIsHeld
  /\ \A p \in Procs, m \in Messages : pc[p] = "archive" /\ Current(p, m) => held[m] > 0

\* A loop has one current message.
LEMMA CurrentUnique ==
  ASSUME NEW p, NEW m \in Messages, NEW n \in Messages, Current(p, m), Current(p, n)
  PROVE  m = n
BY BoundsAssumption DEF Current, Messages

\* Rows are only added, so what holds of the rows of a process that does not move
\* goes on to hold.
LEMMA OthersKeepArchiveInv ==
  ASSUME TypeOK, ArchiveInv, NEW p \in Procs,
         \A m \in Messages : held'[m] \in Nat /\ held'[m] >= held[m],
         \A q \in Procs \ {p} : pc'[q] = pc[q] /\ kind'[q] = kind[q] /\ todo'[q] = todo[q],
         pc'[p] # "archive",
         inbox' = inbox, arrived' = arrived
  PROVE  ArchiveInv'
<1>1. \A m \in Messages : /\ held[m] \in Nat /\ held'[m] \in Nat
                           /\ held'[m] >= held[m]
  BY DEF TypeOK, StoreTypeOK
<1>2. ArchivedIsHeld'
  BY <1>1 DEF ArchiveInv, ArchivedIsHeld
<1>3. ASSUME NEW q \in Procs, NEW m \in Messages, pc'[q] = "archive", Current(q, m)'
      PROVE  held'[m] > 0
  <2>1. pc[q] = "archive" /\ Current(q, m)
    BY <1>3 DEF Current
  <2>2. QED
    BY <1>1, <2>1 DEF ArchiveInv
<1>4. QED
  BY <1>2, <1>3 DEF ArchiveInv

\* Nothing leaves the user's inbox that is not held in quarantine, at whatever step
\* a scan is killed or overtaken: the row is inserted before the label is removed.
THEOREM ArchivedOnlyWhenHeld == Spec => []ArchivedIsHeld
<1>1. Init => ArchiveInv
  BY BoundsAssumption DEF Init, ArchiveInv, ArchivedIsHeld, Messages
<1>2. TypeOK /\ ArchiveInv /\ [Next]_vars => ArchiveInv'
  <2> SUFFICES ASSUME TypeOK, ArchiveInv, [Next]_vars PROVE ArchiveInv'
    OBVIOUS
  <2>0. /\ pc \in [Procs -> Places] /\ kind \in [Procs -> {"history", "list"}]
        /\ todo \in [Procs -> SUBSET Messages]
        /\ held \in [Messages -> Nat] /\ arrived \in Nat
        /\ Ticker \in Procs /\ Workers \subseteq Procs
    BY BoundsAssumption DEF TypeOK, ProcTypeOK, StoreTypeOK, Procs
  <2>1. CASE Arrive
    BY <2>0, <2>1, BoundsAssumption
    DEF Arrive, ArchiveInv, ArchivedIsHeld, Messages, Current, procVars
  <2>2. CASE (\E n \in notices : LoseNotice(n)) \/ UNCHANGED vars
    BY <2>2 DEF LoseNotice, vars, ArchiveInv, ArchivedIsHeld, Current, procVars
  <2>3. ASSUME NEW p \in Procs, NEW k, NEW f, NEW t, Begin(p, k, f, t)
        PROVE  ArchiveInv'
    BY <2>0, <2>3, OthersKeepArchiveInv DEF Begin, Goto
  <2>4. CASE \/ \E w \in Workers, n \in notices : GmailPubSubWebhook(w, n)
             \/ \E w \in Workers : ManualScan(w)
             \/ FallbackScan
    BY <2>0, <2>3, <2>4 DEF GmailPubSubWebhook, ManualScan, FallbackScan
  <2>5. ASSUME NEW p \in Procs, ScanStep(p) PROVE ArchiveInv'
    <3>1. CASE FetchHistory(p)
      BY <2>0, <3>1, OthersKeepArchiveInv DEF FetchHistory, EnterLoop, Goto
    <3>2. CASE FetchList(p)
      BY <2>0, <3>2, OthersKeepArchiveInv DEF FetchList, EnterLoop, Finish, Goto
    <3>3. ASSUME NEW m \in Messages, LookUp(p, m) PROVE ArchiveInv'
      BY <2>0, <3>3, OthersKeepArchiveInv DEF LookUp, NextMessage, Advance, Goto
    <3>4. CASE CheckAndIncrementScan(p)
      <4>1. Advance(p, "judge") \/ BreakLoop(p)
        BY <3>4 DEF CheckAndIncrementScan
      <4>2. held' = held /\ inbox' = inbox /\ arrived' = arrived
        BY <3>4 DEF CheckAndIncrementScan
      <4>3. QED
        BY <2>0, <4>1, <4>2, OthersKeepArchiveInv DEF BreakLoop, Advance, Goto
    <3>5. ASSUME NEW m \in Messages, Judge(p, m) PROVE ArchiveInv'
      <4>1. CASE NextMessage(p, m) /\ UNCHANGED held
        BY <2>0, <3>5, <4>1, OthersKeepArchiveInv DEF Judge, NextMessage, Goto
      <4>2. CASE held' = [held EXCEPT ![m] = @ + 1] /\ Advance(p, "archive")
        <5>1. \A n \in Messages : held'[n] >= held[n] /\ held'[m] > 0
          BY <2>0, <4>2
        <5>2. ArchivedIsHeld'
          BY <2>0, <3>5, <5>1 DEF Judge, ArchiveInv, ArchivedIsHeld
        <5>3. ASSUME NEW q \in Procs, NEW n \in Messages,
                     pc'[q] = "archive", Current(q, n)'
              PROVE  held'[n] > 0
          <6>1. Current(q, n)
            BY <4>2, <5>3 DEF Advance, Current
          <6>2. CASE q = p
            BY <3>5, <5>1, <6>1, <6>2, CurrentUnique DEF Judge
          <6>3. CASE q # p
            BY <2>0, <4>2, <5>1, <5>3, <6>1, <6>3 DEF Advance, Goto, ArchiveInv
          <6>4. QED
            BY <6>2, <6>3
        <5>4. QED
          BY <5>2, <5>3 DEF ArchiveInv
      <4>3. QED
        BY <3>5, <4>1, <4>2 DEF Judge
    <3>6. ASSUME NEW m \in Messages, Archive(p, m) PROVE ArchiveInv'
      <4>1. held[m] > 0
        BY <3>6 DEF Archive, ArchiveInv
      <4>2. ArchivedIsHeld'
        BY <3>6, <4>1 DEF Archive, ArchiveInv, ArchivedIsHeld
      <4>3. ASSUME NEW q \in Procs, NEW n \in Messages,
                   pc'[q] = "archive", Current(q, n)'
            PROVE  held'[n] > 0
        BY <2>0, <3>6, <4>3 DEF Archive, NextMessage, Goto, Current, ArchiveInv
      <4>4. QED
        BY <4>2, <4>3 DEF ArchiveInv
    <3>7. CASE UpdateHistoryID(p)
      BY <2>0, <3>7, OthersKeepArchiveInv DEF UpdateHistoryID, Finish, Goto
    <3>8. CASE UpdateLastScanned(p)
      BY <2>0, <3>8, OthersKeepArchiveInv DEF UpdateLastScanned, Finish, Goto
    <3>9. QED
      BY <2>5, <3>1, <3>2, <3>3, <3>4, <3>5, <3>6, <3>7, <3>8 DEF ScanStep
  <2>6. ASSUME NEW p \in Procs, CallWatch(p)
        PROVE  ArchiveInv'
    BY <2>0, <2>6, OthersKeepArchiveInv DEF CallWatch, Goto
  <2>7. ASSUME NEW p \in Procs, UpdateWatch(p)
        PROVE  ArchiveInv'
    BY <2>0, <2>7, OthersKeepArchiveInv DEF UpdateWatch, Finish, Goto
  <2>8. CASE Restart
    BY <2>0, <2>8 DEF Restart, ArchiveInv, ArchivedIsHeld
  <2>9. QED
    BY <2>1, <2>2, <2>4, <2>5, <2>6, <2>7, <2>8 DEF Next
<1>3. QED
  BY <1>1, <1>2, TypeCorrect, PTL DEF Spec, ArchiveInv

------------------------------------------------------------------------------
(* The watermark.  A history scan starts from an id below which everything   *)
(* was covered when it copied it, and still has in its loop every listed     *)
(* message that is not covered; so the id it stores is safe, whichever other *)
(* ids were stored meanwhile.                                                *)

Running(p) == pc[p] \in {"fetch", "scan", "quota", "judge", "archive"}
InLoop(p)  == pc[p] \in {"scan", "quota", "judge", "archive"}

WatermarkInv ==
  /\ \A n \in notices : n <= CurrentHistoryId
  /\ WatermarkSound
  /\ \A p \in Procs : kind[p] = "history" /\ Running(p) =>
       /\ target[p] <= CurrentHistoryId
       /\ \A m \in Messages : m < from[p] => Covered(m)
  /\ \A p \in Procs : kind[p] = "history" /\ InLoop(p) =>
       \A m \in Messages : /\ from[p] > 0 /\ from[p] <= m
                           /\ m < from[p] + HistoryPage /\ m < target[p]
                           => Covered(m) \/ m \in todo[p]

\* No scan ever uncovers a message.
LEMMA CoveredForGood ==
  ASSUME [Next]_vars, NEW m, Covered(m)
  PROVE  Covered(m)'
<1> USE DEF Covered, Miss, Examine
<1>1. ASSUME NEW p \in Procs, ScanStep(p) PROVE Covered(m)'
  <2>1. CASE FetchHistory(p) \/ FetchList(p) \/ UpdateLastScanned(p)
    BY <2>1 DEF FetchHistory, FetchList, UpdateLastScanned, fateVars
  <2>2. CASE \E n \in Messages : LookUp(p, n)
    BY <2>2 DEF LookUp, fateVars
  <2>3. CASE CheckAndIncrementScan(p)
    BY <2>3 DEF CheckAndIncrementScan, BreakLoop, fateVars
  <2>4. CASE \E n \in Messages : Judge(p, n) \/ Archive(p, n)
    BY <2>4 DEF Judge, Archive
  <2>5. CASE UpdateHistoryID(p)
    BY <2>5 DEF UpdateHistoryID, fateVars
  <2>6. QED
    BY <1>1, <2>1, <2>2, <2>3, <2>4, <2>5 DEF ScanStep
<1>2. QED
  BY <1>1 DEF Next, vars, Arrive, LoseNotice, GmailPubSubWebhook, ManualScan, FallbackScan,
              Begin, CallWatch, UpdateWatch, Restart, fateVars

\* A process that moves inside its loop, or out of it, keeps the invariant when it
\* covers what it takes out of the loop.
LEMMA LoopKeepsWatermark ==
  ASSUME TypeOK, WatermarkInv, [Next]_vars, NEW p \in Procs,
         \A q \in Procs \ {p} : /\ pc'[q] = pc[q] /\ kind'[q] = kind[q]
                                /\ from'[q] = from[q] /\ target'[q] = target[q]
                                /\ todo'[q] = todo[q],
         \/ kind'[p] # "history"
         \/ ~Running(p)'
         \/ /\ kind'[p] = kind[p] /\ from'[p] = from[p] /\ target'[p] = target[p]
            /\ InLoop(p)
            /\ \A m \in Messages : m \in todo[p] => m \in todo'[p] \/ Covered(m)',
         WatermarkSound',
         notices' = notices, arrived' = arrived
  PROVE  WatermarkInv'
<1>1. /\ \A q \in Procs : from[q] \in Int /\ target[q] \in Int
      /\ HistoryPage \in Nat /\ arrived \in Nat
  BY BoundsAssumption DEF TypeOK, ProcTypeOK, StoreTypeOK, HistoryIds
<1>2. \A m \in Messages : Covered(m) => Covered(m)'
  BY CoveredForGood
<1>3. \A n \in notices' : n <= CurrentHistoryId'
  BY DEF WatermarkInv, CurrentHistoryId
<1>4. ASSUME NEW q \in Procs, kind'[q] = "history", Running(q)'
      PROVE  /\ target'[q] <= CurrentHistoryId'
             /\ \A m \in Messages : m < from'[q] => Covered(m)'
  <2>1. target'[q] = target[q] /\ from'[q] = from[q] /\ kind[q] = "history" /\ Running(q)
    BY <1>4 DEF Running, InLoop
  <2>2. QED
    BY <1>2, <2>1 DEF WatermarkInv, CurrentHistoryId
<1>5. ASSUME NEW q \in Procs, kind'[q] = "history", InLoop(q)', NEW m \in Messages,
             from'[q] > 0, from'[q] <= m, m < from'[q] + HistoryPage, m < target'[q]
      PROVE  Covered(m)' \/ m \in todo'[q]
  <2>1. /\ target'[q] = target[q] /\ from'[q] = from[q] /\ kind[q] = "history" /\ InLoop(q)
        /\ m \in todo[q] => m \in todo'[q] \/ Covered(m)'
    BY <1>5 DEF Running, InLoop
  <2>2. QED
    BY <1>2, <1>5, <2>1 DEF WatermarkInv
<1>6. QED
  BY <1>3, <1>4, <1>5 DEF WatermarkInv

\* The stored history id is never moved past a message that no scan dealt with,
\* except over those that no history scan can list: for any number of concurrent
\* webhooks, in any order, with restarts and errors at every step.
THEOREM WatermarkIsSound == Spec => []WatermarkSound
<1>1. Init => WatermarkInv
  BY BoundsAssumption DEF Init, WatermarkInv, WatermarkSound, Running, InLoop, Messages
<1>2. TypeOK /\ WatermarkInv /\ [Next]_vars => WatermarkInv'
  <2> SUFFICES ASSUME TypeOK, WatermarkInv, [Next]_vars PROVE WatermarkInv'
    OBVIOUS
  <2>0. /\ pc \in [Procs -> Places] /\ kind \in [Procs -> {"history", "list"}]
        /\ from \in [Procs -> HistoryIds] /\ target \in [Procs -> HistoryIds]
        /\ todo \in [Procs -> SUBSET Messages]
        /\ \A p \in Procs : from[p] \in Nat /\ target[p] \in Nat
        /\ arrived \in Nat /\ historyId \in Nat
        /\ Ticker \in Procs /\ Workers \subseteq Procs
    BY BoundsAssumption DEF TypeOK, ProcTypeOK, StoreTypeOK, HistoryIds, Procs
  <2>c. \A m \in Messages : Covered(m) => Covered(m)'
    BY CoveredForGood
  <2>d. historyId' = historyId => WatermarkSound'
    BY <2>c DEF WatermarkInv, WatermarkSound
  <2>1. CASE Arrive
    <3>1. arrived' = arrived + 1 /\ notices' = notices \cup {arrived + 2}
      BY <2>1 DEF Arrive
    <3>2. UNCHANGED <<procVars, historyId>>
      BY <2>1 DEF Arrive, tokenVars
    <3>3. \A n \in notices' : n <= CurrentHistoryId'
      BY <2>0, <3>1 DEF WatermarkInv, CurrentHistoryId, TypeOK, StoreTypeOK
    <3>4. \A p \in Procs : target[p] <= CurrentHistoryId => target[p] <= CurrentHistoryId'
      BY <2>0, <3>1 DEF CurrentHistoryId
    <3>5. QED
      BY <2>c, <2>d, <3>2, <3>3, <3>4 DEF WatermarkInv, Running, InLoop, procVars
  <2>2. CASE (\E n \in notices : LoseNotice(n)) \/ UNCHANGED vars
    BY <2>c, <2>d, <2>2 DEF LoseNotice, vars, WatermarkInv, CurrentHistoryId,
                             Running, InLoop, procVars, tokenVars
  <2>3. ASSUME NEW p \in Procs, NEW k, NEW f, NEW t, Begin(p, k, f, t),
               notices' \subseteq notices,
               k = "list" \/ (f = historyId /\ t \in notices)
        PROVE  WatermarkInv'
    <3>1. /\ ~InLoop(p)' /\ kind'[p] = k /\ from'[p] = f /\ target'[p] = t
          /\ \A q \in Procs \ {p} : /\ pc'[q] = pc[q] /\ kind'[q] = kind[q]
                                    /\ from'[q] = from[q] /\ target'[q] = target[q]
                                    /\ todo'[q] = todo[q]
          /\ arrived' = arrived /\ historyId' = historyId
      BY <2>0, <2>3 DEF Begin, Goto, InLoop, tokenVars
    <3>2. k = "history" => t <= CurrentHistoryId /\ \A m \in Messages : m < f => Covered(m)
      BY <2>3 DEF WatermarkInv, WatermarkSound
    <3>3. QED
      BY <2>c, <2>d, <2>3, <3>1, <3>2 DEF WatermarkInv, CurrentHistoryId, Running, InLoop
  <2>4. CASE \E w \in Workers, n \in notices : GmailPubSubWebhook(w, n)
    BY <2>0, <2>3, <2>4 DEF GmailPubSubWebhook
  <2>5. CASE (\E w \in Workers : ManualScan(w)) \/ FallbackScan
    BY <2>0, <2>3, <2>5 DEF ManualScan, FallbackScan
  <2>6. ASSUME NEW p \in Procs, ScanStep(p) PROVE WatermarkInv'
    <3>1. CASE FetchHistory(p)
      <4>1. CASE EnterLoop(p, IF from[p] > 0 THEN HistorySince(from[p]) ELSE {})
        <5>1. /\ todo'[p] = IF from[p] > 0 THEN HistorySince(from[p]) ELSE {}
              /\ kind' = kind /\ from' = from /\ target' = target /\ Running(p)
              /\ \A q \in Procs \ {p} : pc'[q] = pc[q] /\ todo'[q] = todo[q]
              /\ arrived' = arrived /\ notices' = notices /\ historyId' = historyId
          BY <2>0, <3>1, <4>1 DEF FetchHistory, EnterLoop, Goto, Running, tokenVars
        <5>2. kind[p] = "history" => target[p] <= arrived + 1
          BY <5>1 DEF WatermarkInv, CurrentHistoryId
        <5>3. ASSUME NEW m \in Messages, kind[p] = "history", from[p] > 0,
                     from[p] <= m, m < from[p] + HistoryPage, m < target[p]
              PROVE  m \in todo'[p]
          BY <2>0, <5>1, <5>2, <5>3, BoundsAssumption DEF HistorySince, Messages
        <5>4. QED
          BY <2>c, <2>d, <5>1, <5>3 DEF WatermarkInv, CurrentHistoryId, Running, InLoop
      <4>2. CASE kind' = [kind EXCEPT ![p] = "list"]
        <5>1. /\ \A q \in Procs \ {p} : /\ pc'[q] = pc[q] /\ kind'[q] = kind[q]
                                        /\ from'[q] = from[q] /\ target'[q] = target[q]
                                        /\ todo'[q] = todo[q]
              /\ kind'[p] = "list"
              /\ notices' = notices /\ arrived' = arrived /\ historyId' = historyId
          BY <2>0, <3>1, <4>2 DEF FetchHistory, EnterLoop, Goto, tokenVars
        <5>2. QED
          BY <2>d, <5>1, LoopKeepsWatermark
      <4>3. QED
        BY <3>1, <4>1, <4>2 DEF FetchHistory
    <3>2. CASE FetchList(p)
      <4>1. /\ \A q \in Procs \ {p} : /\ pc'[q] = pc[q] /\ kind'[q] = kind[q]
                                      /\ from'[q] = from[q] /\ target'[q] = target[q]
                                      /\ todo'[q] = todo[q]
            /\ kind'[p] = "list"
            /\ notices' = notices /\ arrived' = arrived /\ historyId' = historyId
        BY <2>0, <3>2 DEF FetchList, EnterLoop, Finish, Goto, tokenVars
      <4>2. QED
        BY <2>d, <4>1, LoopKeepsWatermark
    <3>3. ASSUME NEW m \in Messages, InLoop(p), NextMessage(p, m), Covered(m)',
                 notices' = notices, arrived' = arrived, historyId' = historyId
          PROVE  WatermarkInv'
      BY <2>0, <2>d, <3>3, LoopKeepsWatermark DEF NextMessage, Goto
    <3>4. ASSUME InLoop(p), NEW l, Advance(p, l),
                 notices' = notices, arrived' = arrived, historyId' = historyId
          PROVE  WatermarkInv'
      BY <2>0, <2>d, <3>4, LoopKeepsWatermark DEF Advance, Goto
    <3>5. ASSUME NEW m \in Messages, LookUp(p, m) PROVE WatermarkInv'
      BY <3>3, <3>4, <3>5 DEF LookUp, InLoop, Covered, Examine, Miss, tokenVars
    <3>6. CASE CheckAndIncrementScan(p)
      <4>1. InLoop(p) /\ notices' = notices /\ arrived' = arrived /\ historyId' = historyId
        BY <3>6 DEF CheckAndIncrementScan, InLoop, tokenVars
      <4>2. CASE BreakLoop(p)
        BY <2>0, <2>d, <4>1, <4>2, LoopKeepsWatermark DEF BreakLoop, Goto, Miss, Covered
      <4>3. QED
        BY <3>4, <3>6, <4>1, <4>2 DEF CheckAndIncrementScan
    <3>7. ASSUME NEW m \in Messages, Judge(p, m) PROVE WatermarkInv'
      BY <3>3, <3>4, <3>7 DEF Judge, InLoop, Covered, Examine, Miss, tokenVars
    <3>8. ASSUME NEW m \in Messages, Archive(p, m) PROVE WatermarkInv'
      BY <3>3, <3>8 DEF Archive, InLoop, Covered, Examine, tokenVars
    <3>9. CASE UpdateHistoryID(p)
      <4>1. /\ \A q \in Procs \ {p} : /\ pc'[q] = pc[q] /\ kind'[q] = kind[q]
                                      /\ from'[q] = from[q] /\ target'[q] = target[q]
                                      /\ todo'[q] = todo[q]
            /\ kind'[p] = "list"
            /\ notices' = notices /\ arrived' = arrived
        BY <2>0, <3>9 DEF UpdateHistoryID, Finish, Goto
      <4>2. ASSUME NEW m \in Messages, m < historyId', historyId' = target[p],
                   Miss(Unlistable(from[p], target[p]))
            PROVE  Covered(m)'
        <5>1. m \in Nat /\ m >= 1 /\ HistoryPage \in Nat
          BY BoundsAssumption DEF Messages
        <5>2. CASE m < from[p]
          BY <2>c, <3>9, <5>2 DEF WatermarkInv, UpdateHistoryID, Running
        <5>3. CASE from[p] > 0 /\ from[p] <= m /\ m < from[p] + HistoryPage
          <6>1. Covered(m) \/ m \in todo[p]
            BY <3>9, <4>2, <5>3 DEF WatermarkInv, UpdateHistoryID, InLoop
          <6>2. QED
            BY <2>c, <3>9, <6>1 DEF UpdateHistoryID
        <5>4. CASE from[p] > 0 => from[p] + HistoryPage <= m
          BY <2>c, <4>2, <5>4 DEF Unlistable, Miss, Covered
        <5>5. QED
          BY <2>0, <5>1, <5>2, <5>3, <5>4
      <4>3. WatermarkSound'
        BY <2>d, <3>9, <4>2 DEF UpdateHistoryID, WatermarkSound
      <4>4. QED
        BY <4>1, <4>3, LoopKeepsWatermark
    <3>10. CASE UpdateLastScanned(p)
      <4>1. /\ \A q \in Procs \ {p} : /\ pc'[q] = pc[q] /\ kind'[q] = kind[q]
                                      /\ from'[q] = from[q] /\ target'[q] = target[q]
                                      /\ todo'[q] = todo[q]
            /\ kind'[p] = "list"
            /\ notices' = notices /\ arrived' = arrived /\ historyId' = historyId
        BY <2>0, <3>10 DEF UpdateLastScanned, Finish, Goto
      <4>2. QED
        BY <2>d, <4>1, LoopKeepsWatermark
    <3>11. QED
      BY <2>6, <3>1, <3>2, <3>5, <3>6, <3>7, <3>8, <3>9, <3>10 DEF ScanStep
  <2>7. ASSUME NEW p \in Procs, CallWatch(p)
        PROVE  WatermarkInv'
    <3>1. /\ \A q \in Procs \ {p} : /\ pc'[q] = pc[q] /\ kind'[q] = kind[q]
                                         /\ from'[q] = from[q] /\ target'[q] = target[q]
                                         /\ todo'[q] = todo[q]
          /\ ~Running(p)'
          /\ notices' = notices /\ arrived' = arrived /\ historyId' = historyId
      BY <2>0, <2>7 DEF CallWatch, Goto, Running, tokenVars
    <3>2. QED
      BY <2>0, <2>d, <3>1, LoopKeepsWatermark
  <2>8. ASSUME NEW p \in Procs, UpdateWatch(p)
        PROVE  WatermarkInv'
    <3>1. /\ \A q \in Procs \ {p} : /\ pc'[q] = pc[q] /\ kind'[q] = kind[q]
                                         /\ from'[q] = from[q] /\ target'[q] = target[q]
                                         /\ todo'[q] = todo[q]
          /\ kind'[p] = "list"
          /\ notices' = notices /\ arrived' = arrived
      BY <2>0, <2>8 DEF UpdateWatch, Finish, Goto
    <3>2. ASSUME NEW m \in Messages, m < historyId', historyId' = target[p],
                 Miss({n \in Messages : historyId <= n /\ n < target[p]})
          PROVE  Covered(m)'
      <4>1. m \in Nat
        BY <3>2, BoundsAssumption DEF Messages
      <4>2. CASE m < historyId
        BY <2>c, <4>2 DEF WatermarkInv, WatermarkSound
      <4>3. CASE historyId <= m
        BY <3>2, <4>3 DEF Miss, Covered
      <4>4. QED
        BY <2>0, <4>1, <4>2, <4>3
    <3>3. WatermarkSound'
      BY <2>d, <2>8, <3>2 DEF UpdateWatch, WatermarkSound
    <3>4. QED
      BY <2>0, <3>1, <3>3, LoopKeepsWatermark
  <2>9. CASE Restart
    <3>1. /\ \A p \in Procs : ~Running(p)' /\ ~InLoop(p)'
          /\ notices' = notices /\ arrived' = arrived /\ historyId' = historyId
      BY <2>9 DEF Restart, Running, InLoop, tokenVars
    <3>2. QED
      BY <2>d, <3>1 DEF WatermarkInv, CurrentHistoryId
  <2>10. QED
    BY <2>1, <2>2, <2>4, <2>5, <2>6, <2>7, <2>8, <2>9 DEF Next
<1>3. QED
  BY <1>1, <1>2, TypeCorrect, PTL DEF Spec, WatermarkInv

------------------------------------------------------------------------------
(* Duplicates.  The bound is inductive: a look-up that did not fail lets a   *)
(* scan past only while the message has no row, when at most every process   *)
(* is past its look-up; each INSERT turns one of them into a row.            *)

DuplicateBound(m) == m \notin blind => held[m] + Cardinality(PastLookUp(m)) <= Cardinality(Procs)

LEMMA ProcessesFinite ==
  ASSUME NEW S \in SUBSET Procs
  PROVE  IsFiniteSet(S) /\ Cardinality(S) \in Nat /\ Cardinality(Procs) \in Nat
         /\ Cardinality(S) <= Cardinality(Procs)
         /\ \A T \in SUBSET S : Cardinality(T) \in Nat /\ Cardinality(T) <= Cardinality(S)
<1>1. IsFiniteSet(Procs)
  BY WorkersAssumption, FS_AddElement DEF Procs
<1>2. QED
  BY <1>1, FS_Subset, FS_CardinalityType

\* A step that inserts no row of a message and takes no process past its look-up.
LEMMA NoneComes ==
  ASSUME TypeOK, NEW m \in Messages, DuplicateBound(m), held' = held, blind \subseteq blind',
         PastLookUp(m)' \subseteq PastLookUp(m)
  PROVE  DuplicateBound(m)'
<1>1. PICK S, T : S = PastLookUp(m) /\ T = PastLookUp(m)'
  OBVIOUS
<1>2. S \in SUBSET Procs /\ T \in SUBSET S
  BY <1>1 DEF PastLookUp
<1>3. PICK a, c, d, n \in Nat :
        /\ a = held[m] /\ c = Cardinality(S) /\ d = Cardinality(T) /\ n = Cardinality(Procs)
  BY <1>2, ProcessesFinite DEF TypeOK, StoreTypeOK
<1>4. d <= c
  BY <1>2, <1>3, ProcessesFinite
<1>5. SUFFICES ASSUME m \notin blind' PROVE a + d <= n
  BY <1>1, <1>3 DEF DuplicateBound
<1>6. a + c <= n
  BY <1>1, <1>3, <1>5 DEF DuplicateBound
<1>7. QED
  BY <1>4, <1>6

\* Where one process goes when it passes no look-up.
LEMMA OnesPlace ==
  ASSUME NEW p \in Procs,
         \A q \in Procs \ {p} : pc'[q] = pc[q] /\ kind'[q] = kind[q] /\ todo'[q] = todo[q],
         \/ pc'[p] \notin {"quota", "judge"}
         \/ pc[p] \in {"quota", "judge"} /\ kind'[p] = kind[p] /\ todo'[p] = todo[p]
  PROVE  \A m \in Messages : PastLookUp(m)' \subseteq PastLookUp(m)
<1> SUFFICES ASSUME NEW m \in Messages, NEW q \in Procs, q \in PastLookUp(m)'
             PROVE  q \in PastLookUp(m)
  BY DEF PastLookUp
<1>1. pc'[q] \in {"quota", "judge"} /\ Current(q, m)'
  BY DEF PastLookUp
<1>2. kind'[q] = kind[q] /\ todo'[q] = todo[q] /\ pc[q] \in {"quota", "judge"}
  BY <1>1
<1>3. Current(q, m)
  BY <1>1, <1>2 DEF Current
<1>4. QED
  BY <1>2, <1>3 DEF PastLookUp

LEMMA LookUpKeepsBound ==
  ASSUME TypeOK, NEW p \in Procs, NEW n \in Messages, LookUp(p, n),
         NEW m \in Messages, DuplicateBound(m)
  PROVE  DuplicateBound(m)'
<1>0. /\ pc \in [Procs -> Places] /\ kind \in [Procs -> {"history", "list"}]
      /\ todo \in [Procs -> SUBSET Messages] /\ held \in [Messages -> Nat]
  BY DEF TypeOK, ProcTypeOK, StoreTypeOK
<1>1. held' = held /\ Current(p, n) /\ pc[p] = "scan" /\ blind \subseteq blind'
  BY DEF LookUp, Examine, Miss, fateVars
<1>2. CASE NextMessage(p, n)
  <2>1. /\ pc'[p] = "scan"
        /\ \A q \in Procs \ {p} : pc'[q] = pc[q] /\ kind'[q] = kind[q] /\ todo'[q] = todo[q]
    BY <1>0, <1>2 DEF NextMessage, Goto
  <2>2. QED
    BY <1>1, <2>1, OnesPlace, NoneComes
<1>3. CASE Advance(p, "quota") /\ (~IsGmailMessageQuarantined(n) \/ n \in blind')
  <2>1. /\ kind' = kind /\ todo' = todo
        /\ \A q \in Procs \ {p} : pc'[q] = pc[q]
    BY <1>0, <1>3 DEF Advance, Goto
  <2>2. CASE m # n
    <3>1. ~Current(p, m)'
      BY <1>1, <2>1, <2>2, CurrentUnique DEF Current
    <3>2. PastLookUp(m)' \subseteq PastLookUp(m)
      BY <2>1, <3>1 DEF PastLookUp, Current
    <3>3. QED
      BY <1>1, <3>2, NoneComes
  <2>3. CASE m = n
    <3>1. SUFFICES ASSUME m \notin blind'
                   PROVE  held'[m] + Cardinality(PastLookUp(m)') <= Cardinality(Procs)
      BY DEF DuplicateBound
    <3>2. held'[m] = 0
      BY <1>0, <1>1, <1>3, <2>3, <3>1 DEF IsGmailMessageQuarantined
    <3>3. PICK T : T = PastLookUp(m)'
      OBVIOUS
    <3>4. T \in SUBSET Procs
      BY <3>3 DEF PastLookUp
    <3>5. Cardinality(T) \in Nat /\ Cardinality(T) <= Cardinality(Procs)
      BY <3>4, ProcessesFinite
    <3>6. QED
      BY <3>2, <3>3, <3>5
  <2>4. QED
    BY <2>2, <2>3
<1>4. QED
  BY <1>2, <1>3 DEF LookUp

LEMMA JudgeKeepsBound ==
  ASSUME TypeOK, NEW p \in Procs, NEW n \in Messages, Judge(p, n),
         NEW m \in Messages, DuplicateBound(m)
  PROVE  DuplicateBound(m)'
<1>0. /\ pc \in [Procs -> Places] /\ kind \in [Procs -> {"history", "list"}]
      /\ todo \in [Procs -> SUBSET Messages] /\ held \in [Messages -> Nat]
  BY DEF TypeOK, ProcTypeOK, StoreTypeOK
<1>1. Current(p, n) /\ pc[p] = "judge" /\ blind' = blind
  BY DEF Judge, Examine, Miss
<1>2. /\ pc'[p] \notin {"quota", "judge"}
      /\ \A q \in Procs \ {p} : pc'[q] = pc[q] /\ kind'[q] = kind[q] /\ todo'[q] = todo[q]
  BY <1>0 DEF Judge, NextMessage, Advance, Goto
<1>3. PastLookUp(m)' \subseteq PastLookUp(m) /\ p \notin PastLookUp(m)'
  BY <1>2, OnesPlace DEF PastLookUp
<1>4. CASE held' = held
  BY <1>1, <1>3, <1>4, NoneComes
<1>5. CASE held' = [held EXCEPT ![n] = @ + 1]
  <2>1. PICK S, T : S = PastLookUp(m) /\ T = PastLookUp(m)'
    OBVIOUS
  <2>2. S \in SUBSET Procs /\ T \in SUBSET S /\ p \notin T
    BY <1>3, <2>1 DEF PastLookUp
  <2>3. PICK a, b, c, d, k \in Nat :
          /\ a = held[m] /\ b = held'[m] /\ c = Cardinality(S) /\ d = Cardinality(T)
          /\ k = Cardinality(Procs)
    <3>1. held[m] \in Nat /\ held'[m] \in Nat
      BY <1>0, <1>5
    <3>2. Cardinality(S) \in Nat /\ Cardinality(T) \in Nat /\ Cardinality(Procs) \in Nat
      BY <2>2, ProcessesFinite
    <3>3. QED
      BY <3>1, <3>2
  <2>4. b + d <= a + c
    <3>1. CASE m = n
      <4>1. p \in S
        BY <1>1, <2>1, <3>1 DEF PastLookUp
      <4>2. T \in SUBSET (S \ {p}) /\ S \ {p} \in SUBSET Procs /\ IsFiniteSet(S)
        BY <2>2, ProcessesFinite
      <4>3. Cardinality(S \ {p}) = Cardinality(S) - 1
        BY <4>1, <4>2, FS_RemoveElement
      <4>4. d <= c - 1
        BY <2>3, <4>2, <4>3, ProcessesFinite
      <4>5. b = a + 1
        BY <1>0, <1>5, <2>3, <3>1
      <4>6. QED
        BY <4>4, <4>5
    <3>2. CASE m # n
      <4>1. b = a
        BY <1>0, <1>5, <2>3, <3>2
      <4>2. d <= c
        BY <2>2, <2>3, ProcessesFinite
      <4>3. QED
        BY <4>1, <4>2
    <3>3. QED
      BY <3>1, <3>2
  <2>5. SUFFICES ASSUME m \notin blind' PROVE b + d <= k
    BY <2>1, <2>3 DEF DuplicateBound
  <2>6. a + c <= k
    BY <1>1, <2>1, <2>3, <2>5 DEF DuplicateBound
  <2>7. QED
    BY <2>4, <2>6
<1>6. QED
  BY <1>4, <1>5 DEF Judge

LEMMA DuplicateBoundNext ==
  ASSUME TypeOK, [Next]_vars, NEW m \in Messages, DuplicateBound(m)
  PROVE  DuplicateBound(m)'
<1>0. /\ pc \in [Procs -> Places] /\ kind \in [Procs -> {"history", "list"}]
      /\ todo \in [Procs -> SUBSET Messages] /\ held \in [Messages -> Nat]
      /\ Ticker \in Procs /\ Workers \subseteq Procs
  BY DEF TypeOK, ProcTypeOK, StoreTypeOK, Procs
<1>1. ASSUME NEW p \in Procs, held' = held, blind \subseteq blind',
             \A q \in Procs \ {p} : pc'[q] = pc[q] /\ kind'[q] = kind[q] /\ todo'[q] = todo[q],
             \/ pc'[p] \notin {"quota", "judge"}
             \/ pc[p] \in {"quota", "judge"} /\ kind'[p] = kind[p] /\ todo'[p] = todo[p]
      PROVE  DuplicateBound(m)'
  BY <1>1, OnesPlace, NoneComes
<1>2. CASE UNCHANGED <<held, blind, procVars>>
  <2>1. PastLookUp(m)' = PastLookUp(m)
    BY <1>2 DEF PastLookUp, Current, procVars
  <2>2. QED
    BY <1>2, <2>1, NoneComes
<1>3. ASSUME NEW p \in Procs, NEW k, NEW f, NEW t, Begin(p, k, f, t)
      PROVE  DuplicateBound(m)'
  BY <1>0, <1>1, <1>3 DEF Begin, Goto, fateVars
<1>4. ASSUME NEW p \in Procs, ScanStep(p) PROVE DuplicateBound(m)'
  <2>1. CASE FetchHistory(p)
    BY <1>0, <1>1, <2>1 DEF FetchHistory, EnterLoop, Goto, fateVars
  <2>2. CASE FetchList(p)
    BY <1>0, <1>1, <2>2 DEF FetchList, EnterLoop, Finish, Goto, fateVars
  <2>3. ASSUME NEW n \in Messages, LookUp(p, n) PROVE DuplicateBound(m)'
    BY <2>3, LookUpKeepsBound
  <2>4. CASE CheckAndIncrementScan(p)
    <3>1. (Advance(p, "judge") \/ BreakLoop(p)) /\ held' = held /\ blind \subseteq blind' /\ pc[p] = "quota"
      BY <2>4 DEF CheckAndIncrementScan, BreakLoop, Miss, fateVars
    <3>2. QED
      BY <1>0, <1>1, <3>1 DEF BreakLoop, Advance, Goto
  <2>5. ASSUME NEW n \in Messages, Judge(p, n) PROVE DuplicateBound(m)'
    BY <2>5, JudgeKeepsBound
  <2>6. ASSUME NEW n \in Messages, Archive(p, n) PROVE DuplicateBound(m)'
    BY <1>0, <1>1, <2>6 DEF Archive, NextMessage, Goto, Examine
  <2>7. CASE UpdateHistoryID(p)
    BY <1>0, <1>1, <2>7 DEF UpdateHistoryID, Finish, Goto, Miss, fateVars
  <2>8. CASE UpdateLastScanned(p)
    BY <1>0, <1>1, <2>8 DEF UpdateLastScanned, Finish, Goto, fateVars
  <2>9. QED
    BY <1>4, <2>1, <2>2, <2>3, <2>4, <2>5, <2>6, <2>7, <2>8 DEF ScanStep
<1>5. ASSUME NEW p \in Procs, CallWatch(p)
      PROVE  DuplicateBound(m)'
  BY <1>0, <1>1, <1>5 DEF CallWatch, Goto, fateVars
<1>6. ASSUME NEW p \in Procs, UpdateWatch(p)
      PROVE  DuplicateBound(m)'
  BY <1>0, <1>1, <1>6 DEF UpdateWatch, Finish, Goto, Miss, fateVars
<1>7. CASE Restart
  <2>1. held' = held /\ blind' = blind /\ PastLookUp(m)' = {}
    BY <1>0, <1>7 DEF Restart, fateVars, PastLookUp
  <2>2. QED
    BY <2>1, NoneComes
<1>8. CASE Arrive \/ (\E n \in notices : LoseNotice(n)) \/ UNCHANGED vars
  BY <1>2, <1>8 DEF Arrive, LoseNotice, vars, fateVars
<1>9. CASE \/ \E w \in Workers, n \in notices : GmailPubSubWebhook(w, n)
           \/ \E w \in Workers : ManualScan(w)
           \/ FallbackScan
  BY <1>0, <1>3, <1>9 DEF GmailPubSubWebhook, ManualScan, FallbackScan
<1>10. QED
  BY <1>4, <1>5, <1>6, <1>7, <1>8, <1>9 DEF Next

\* A message whose look-ups did not fail has no more rows than there are processes, after any
\* number of notifications, scans and restarts (google_handlers.go: scanMessages;
\* data/oauth.go: IsGmailMessageQuarantined).
THEOREM DuplicatesOnlyFromOverlap == Spec => []DuplicatesBounded
<1> DEFINE Bound == \A m \in Messages : DuplicateBound(m)
<1>1. Init => Bound
  <2> SUFFICES ASSUME Init, NEW m \in Messages PROVE DuplicateBound(m)
    OBVIOUS
  <2>1. PastLookUp(m) = {} /\ held[m] = 0
    BY DEF Init, PastLookUp
  <2>2. {} \in SUBSET Procs /\ Cardinality({}) = 0
    BY FS_EmptySet
  <2>3. QED
    BY <2>1, <2>2, ProcessesFinite DEF DuplicateBound
<1>2. TypeOK /\ Bound /\ [Next]_vars => Bound'
  BY DuplicateBoundNext
<1>3. Bound <=> DuplicatesBounded
  BY DEF DuplicateBound, DuplicatesBounded
<1>4. QED
  BY <1>1, <1>2, <1>3, TypeCorrect, PTL DEF Spec
==============================================================================
