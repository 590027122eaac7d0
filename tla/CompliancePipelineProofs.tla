------------------------ MODULE CompliancePipelineProofs ------------------------
(***************************************************************************)
(* Machine-checked proofs about CompliancePipeline, for every set of       *)
(* emails, any number of faults and whatever fails.                        *)
(***************************************************************************)
EXTENDS CompliancePipeline, FiniteSetTheorems, SequenceTheorems, TLAPS

------------------------------------------------------------------------------
(* Queues.                                                                   *)

Within(s, e) == \E i \in 1..Len(s) : s[i] = e

\* Publishing to a queue keeps what is in it, and adds the email.
LEMMA AppendWithin ==
  ASSUME NEW s \in Seq(Emails), NEW e \in Emails
  PROVE  /\ Append(s, e) \in Seq(Emails)
         /\ Within(Append(s, e), e)
         /\ \A f : Within(Append(s, e), f) <=> Within(s, f) \/ f = e
         /\ Append(s, e) # <<>>
         /\ s # <<>> => Head(Append(s, e)) = Head(s)
<1> DEFINE t == Append(s, e)
<1>1. t \in Seq(Emails) /\ Len(t) = Len(s) + 1 /\ t[Len(t)] = e
  OBVIOUS
<1>2. \A i \in 1..Len(s) : t[i] = s[i]
  OBVIOUS
<1>3. Len(s) \in Nat
  OBVIOUS
<1>4. t # <<>>
  BY <1>1, <1>3
<1>5. ASSUME s # <<>> PROVE Head(t) = Head(s)
  <2>1. 1 \in 1..Len(s)
    BY <1>3, <1>5
  <2>2. t[1] = s[1]
    BY <1>2, <2>1
  <2>3. QED
    BY <1>1, <1>4, <1>5, <2>2
<1>6. QED
  BY <1>1, <1>2, <1>3, <1>4, <1>5 DEF Within

\* Settling a delivery takes only the head of its queue.
LEMMA TailWithin ==
  ASSUME NEW s \in Seq(Emails), s # <<>>
  PROVE  /\ Tail(s) \in Seq(Emails)
         /\ \A f : Within(s, f) /\ f # Head(s) => Within(Tail(s), f)
         /\ \A f : Within(Tail(s), f) => Within(s, f)
         /\ Within(s, Head(s))
<1>1. Tail(s) \in Seq(Emails) /\ Len(s) \in Nat /\ Len(s) > 0
  OBVIOUS
<1>2. Len(Tail(s)) = Len(s) - 1 /\ \A i \in 1..(Len(s) - 1) : Tail(s)[i] = s[i + 1]
  OBVIOUS
<1>3. ASSUME NEW i \in 1..Len(s), s[i] # Head(s)
      PROVE  Within(Tail(s), s[i])
  <2>1. i # 1
    BY <1>3
  <2>2. i - 1 \in 1..(Len(s) - 1) /\ (i - 1) + 1 = i
    BY <1>1, <2>1
  <2>3. Tail(s)[i - 1] = s[i]
    BY <1>2, <2>2
  <2>4. QED
    BY <1>2, <2>2, <2>3 DEF Within
<1>4. ASSUME NEW i \in 1..Len(Tail(s))
      PROVE  Within(s, Tail(s)[i])
  <2>1. i \in 1..(Len(s) - 1) /\ i + 1 \in 1..Len(s)
    BY <1>1, <1>2
  <2>2. QED
    BY <1>2, <2>1 DEF Within
<1>5. Within(s, Head(s))
  BY <1>1 DEF Within
<1>6. QED
  BY <1>1, <1>3, <1>4, <1>5 DEF Within

------------------------------------------------------------------------------
(* Hands.  While the connection is open, the email in a consumer's hand is   *)
(* at the head of its queue: what is settled is what was worked on.          *)

InHand ==
  \A c \in Consumers :
    /\ pc[c] # "idle" => work[c] \in Emails
    /\ pc[c] = "idle" => work[c] = NoMail
    /\ connected /\ pc[c] # "idle" => queue[c] # <<>> /\ Head(queue[c]) = work[c]

HandTypeOK ==
  /\ queue \in [Consumers -> Seq(Emails)]
  /\ connected \in BOOLEAN
  /\ pc \in [Consumers -> {"idle", "analyse", "route", "audit", "history", "insert", "ack"}]
  /\ work \in [Consumers -> Emails \cup {NoMail}]
  /\ verdict \in Verdicts
  /\ action \in Actions \cup {"unknown"}

OutcomeTypeOK ==
  /\ submitted \subseteq Emails
  /\ delivered \in [Emails -> Nat]
  /\ rows \in [Stores -> [Emails -> Nat]]
  /\ audit \in [Emails -> [Actions -> Nat]]
  /\ precedents \subseteq Emails

FaultTypeOK ==
  /\ faults \in 0..MaxFaults
  /\ failed \subseteq Emails
  /\ lost \subseteq Emails
  /\ repeats \in [Emails -> Nat]

HandInv == HandTypeOK /\ InHand

LEMMA TypeParts == TypeOK <=> HandTypeOK /\ OutcomeTypeOK /\ FaultTypeOK
BY DEF TypeOK, HandTypeOK, OutcomeTypeOK, FaultTypeOK

\* A consumer goes on with the email in its hand.
LEMMA GoesOn ==
  ASSUME HandInv, NEW c \in Consumers, pc[c] # "idle",
         NEW l \in {"route", "audit", "history", "ack"}, Goto(c, l),
         UNCHANGED <<queue, connected, work>>,
         verdict' \in Verdicts, action' \in Actions \cup {"unknown"}
  PROVE  HandInv'
BY DEF HandInv, HandTypeOK, InHand, Goto

\* What is left in the queue of a consumer that settles its delivery.
LEMMA SettledType ==
  ASSUME HandInv, NEW c \in Consumers, pc[c] # "idle"
  PROVE  /\ Settled(c) \in [Consumers -> Seq(Emails)]
         /\ \A d \in Consumers : d # c => Settled(c)[d] = queue[d]
         /\ \A e : Within(queue[c], e) /\ e # work[c] => Within(Settled(c)[c], e)
         /\ ~connected => Settled(c) = queue
<1>1. CASE ~connected
  BY <1>1 DEF Settled, HandInv, HandTypeOK
<1>2. CASE connected
  <2>1. queue[c] \in Seq(Emails) /\ queue[c] # <<>> /\ Head(queue[c]) = work[c]
    BY <1>2 DEF HandInv, HandTypeOK, InHand
  <2>2. Settled(c) = [queue EXCEPT ![c] = Tail(queue[c])]
    BY <1>2 DEF Settled
  <2>3. QED
    BY <1>2, <2>1, <2>2, TailWithin DEF HandInv, HandTypeOK
<1>3. QED
  BY <1>1, <1>2 DEF HandInv, HandTypeOK

\* A consumer settles its delivery, or has it requeued, and turns to the next one.
LEMMA LetsGo ==
  ASSUME HandInv, NEW c \in Consumers, pc[c] # "idle", LetGo(c),
         queue' = queue \/ queue' = Settled(c), connected' = connected
  PROVE  HandInv'
<1>1. /\ queue' \in [Consumers -> Seq(Emails)]
      /\ \A d \in Consumers : d # c => queue'[d] = queue[d]
  BY SettledType DEF HandInv, HandTypeOK
<1>2. /\ pc'[c] = "idle" /\ work'[c] = NoMail
      /\ \A d \in Consumers : d # c => pc'[d] = pc[d] /\ work'[d] = work[d]
  BY DEF LetGo, Goto, HandInv, HandTypeOK
<1>3. HandTypeOK'
  BY <1>1 DEF LetGo, Goto, HandInv, HandTypeOK, Verdicts, Actions, chosenVars
<1>4. InHand'
  BY <1>1, <1>2 DEF HandInv, InHand
<1>5. QED
  BY <1>3, <1>4 DEF HandInv

\* Publishing to a queue does not move its head.
LEMMA Publishes ==
  ASSUME HandInv, NEW d \in Consumers, NEW e \in Emails,
         queue' = [queue EXCEPT ![d] = Append(@, e)], UNCHANGED connected
  PROVE  /\ queue' \in [Consumers -> Seq(Emails)]
         /\ \A c \in Consumers : queue[c] # <<>> => queue'[c] # <<>> /\ Head(queue'[c]) = Head(queue[c])
<1>1. queue[d] \in Seq(Emails) /\ Append(queue[d], e) \in Seq(Emails)
  BY DEF HandInv, HandTypeOK
<1>2. Append(queue[d], e) # <<>> /\ (queue[d] # <<>> => Head(Append(queue[d], e)) = Head(queue[d]))
  BY <1>1, AppendWithin
<1>3. QED
  BY <1>1, <1>2 DEF HandInv, HandTypeOK

\* No consumer holds anything after a crash.
LEMMA IdleHands ==
  ASSUME HandInv, AllIdle, UNCHANGED queue, connected' \in BOOLEAN
  PROVE  HandInv'
BY DEF HandInv, HandTypeOK, InHand, AllIdle, Verdicts, Actions

------------------------------------------------------------------------------
(* Types.                                                                    *)

Inv == TypeOK /\ InHand

LEMMA ConsumersType == "ingest" \in Consumers /\ Stores \subseteq Consumers
BY DEF Consumers

\* processEmail gives up: in whatever step, the hand and the history variables stay sound.
LEMMA DiscardType ==
  ASSUME Inv, pc["ingest"] # "idle", Discard
  PROVE  HandInv' /\ FaultTypeOK'
<1> HandInv /\ FaultTypeOK /\ work["ingest"] \in Emails
  BY TypeParts, ConsumersType DEF Inv, HandInv, InHand
<1>1. HandInv'
  BY LetsGo, ConsumersType DEF Discard
<1>2. FaultTypeOK'
  BY DEF Discard, FaultTypeOK
<1>3. QED
  BY <1>1, <1>2

LEMMA ProcessEmailType ==
  ASSUME Inv, ProcessEmail
  PROVE  Inv'
<1> HandInv /\ HandTypeOK /\ OutcomeTypeOK /\ FaultTypeOK
  BY TypeParts DEF Inv, HandInv
<1> SUFFICES HandInv' /\ OutcomeTypeOK' /\ FaultTypeOK'
  BY DEF Inv, HandInv, TypeOK, HandTypeOK, OutcomeTypeOK, FaultTypeOK
<1> "ingest" \in Consumers
  BY ConsumersType
<1>1. pc["ingest"] # "idle" /\ work["ingest"] \in Emails
  <2>1. pc["ingest"] # "idle"
    BY DEF ProcessEmail, RunLoop, SendToMailService, Publish, RouteNowhere, InsertAuditLog,
           InsertEmailHistory
  <2>2. QED
    BY <2>1 DEF HandInv, InHand
<1>2. OutcomeTypeOK'
  <2>1. CASE SendToMailService
    BY <1>1, <2>1 DEF SendToMailService, OutcomeTypeOK
  <2>2. CASE InsertAuditLog
    <3>1. audit' \in [Emails -> [Actions -> Nat]]
      <4>1. CASE audit' = [audit EXCEPT ![work["ingest"]][action] = @ + 1]
        <5>1. CASE action \in Actions
          BY <1>1, <4>1, <5>1 DEF OutcomeTypeOK
        <5>2. CASE action \notin Actions
          BY <1>1, <4>1, <5>2 DEF OutcomeTypeOK
        <5>3. QED
          BY <5>1, <5>2
      <4>2. QED
        BY <2>2, <4>1 DEF InsertAuditLog, OutcomeTypeOK
    <3>2. QED
      BY <2>2, <3>1 DEF InsertAuditLog, OutcomeTypeOK
  <2>3. CASE InsertEmailHistory
    BY <1>1, <2>3 DEF InsertEmailHistory, OutcomeTypeOK
  <2>4. CASE UNCHANGED <<submitted, outcomeVars>>
    BY <2>4 DEF OutcomeTypeOK, outcomeVars
  <2>5. QED
    BY <2>1, <2>2, <2>3, <2>4 DEF ProcessEmail, RunLoop, Publish, RouteNowhere
<1>3. CASE Discard
  BY <1>1, <1>2, <1>3, DiscardType
<1>4. CASE \E q \in Stores : Publish(q) /\ ~Discard
  <2>1. PICK q \in Stores : Publish(q) /\ ~Discard
    BY <1>4
  <2>2. /\ queue' = [queue EXCEPT ![q] = Append(@, work["ingest"])]
        /\ action' = IF q = "quarantine" THEN "quarantined" ELSE action
        /\ Goto("ingest", "audit")
        /\ UNCHANGED <<connected, work, verdict, faultVars>>
    BY <2>1 DEF Publish
  <2>3. /\ queue' \in [Consumers -> Seq(Emails)]
        /\ \A c \in Consumers : queue[c] # <<>> => queue'[c] # <<>> /\ Head(queue'[c]) = Head(queue[c])
    BY <1>1, <2>2, Publishes, ConsumersType
  <2>4. HandTypeOK'
    BY <2>2, <2>3 DEF HandTypeOK, Goto, Actions
  <2>5. InHand'
    BY <1>1, <2>2, <2>3 DEF HandInv, HandTypeOK, InHand, Goto
  <2>6. QED
    BY <1>2, <2>2, <2>4, <2>5 DEF HandInv, FaultTypeOK, faultVars
<1>5. CASE ~Discard /\ ~\E q \in Stores : Publish(q)
  <2>1. /\ \E l \in {"route", "audit", "history", "ack"} : Goto("ingest", l)
        /\ UNCHANGED <<queue, connected, work, faultVars>>
    BY <1>5 DEF ProcessEmail, RunLoop, SendToMailService, RouteNowhere, InsertAuditLog,
                InsertEmailHistory, brokerVars
  <2>2. verdict' \in Verdicts /\ action' \in Actions \cup {"unknown"}
    BY <1>5 DEF ProcessEmail, RunLoop, SendToMailService, RouteNowhere, InsertAuditLog,
                InsertEmailHistory, chosenVars, HandTypeOK, verdictAction, Actions
  <2>3. HandInv'
    BY <1>1, <2>1, <2>2, GoesOn
  <2>4. QED
    BY <1>2, <2>1, <2>3 DEF FaultTypeOK, faultVars
<1>6. QED
  BY <1>3, <1>4, <1>5

LEMMA StorageType ==
  ASSUME Inv, NEW q \in Stores, InsertQuarantine(q) \/ InsertQuarantineFails(q)
  PROVE  Inv'
<1> HandInv /\ HandTypeOK /\ OutcomeTypeOK /\ FaultTypeOK
  BY TypeParts DEF Inv, HandInv
<1> SUFFICES HandInv' /\ OutcomeTypeOK' /\ FaultTypeOK'
  BY DEF Inv, HandInv, TypeOK, HandTypeOK, OutcomeTypeOK, FaultTypeOK
<1> q \in Consumers
  BY ConsumersType
<1>1. pc[q] # "idle" /\ work[q] \in Emails
  <2>1. pc[q] = "insert"
    BY DEF InsertQuarantine, InsertQuarantineFails
  <2>2. QED
    BY <2>1 DEF HandInv, InHand
<1>2. rows' \in [Stores -> [Emails -> Nat]]
  <2>1. CASE rows' = [rows EXCEPT ![q][work[q]] = @ + 1]
    BY <1>1, <2>1 DEF OutcomeTypeOK
  <2>2. CASE rows' = rows
    BY <2>2 DEF OutcomeTypeOK
  <2>3. QED
    BY <2>1, <2>2 DEF InsertQuarantine, InsertQuarantineFails
<1>3. OutcomeTypeOK'
  BY <1>2 DEF InsertQuarantine, InsertQuarantineFails, OutcomeTypeOK
<1>4. FaultTypeOK'
  BY <1>1, FaultsAssumption DEF InsertQuarantine, InsertQuarantineFails, FaultTypeOK, faultVars
<1>5. HandInv'
  <2>1. CASE InsertQuarantine(q)
    BY <1>1, <2>1, GoesOn DEF InsertQuarantine, brokerVars, chosenVars, HandTypeOK
  <2>2. CASE InsertQuarantineFails(q)
    BY <1>1, <2>2, LetsGo DEF InsertQuarantineFails, Requeued
  <2>3. QED
    BY <2>1, <2>2
<1>6. QED
  BY <1>3, <1>4, <1>5

LEMMA TakenBackType ==
  ASSUME repeats \in [Emails -> Nat]
  PROVE  TakenBack \in [Emails -> Nat]
<1>1. IsFiniteSet(Consumers)
  <2>1. IsFiniteSet({"ingest"}) /\ IsFiniteSet({"quarantine"})
    BY FS_Singleton
  <2>2. IsFiniteSet({"quarantine"} \cup {"blocked"})
    BY <2>1, FS_AddElement
  <2>3. {"quarantine"} \cup {"blocked"} = Stores
    BY DEF Stores
  <2>4. QED
    BY <2>1, <2>2, <2>3, FS_Union DEF Consumers
<1>2. ASSUME NEW e \in Emails
      PROVE  Cardinality({c \in Consumers : work[c] = e}) \in Nat
  BY <1>1, FS_Subset, FS_CardinalityType
<1>3. QED
  BY <1>2 DEF TakenBack

\* Every variable keeps its type, and each consumer settles the delivery it holds:
\* across publications, redeliveries, crashes and lost connections.
THEOREM TypeCorrect == Spec => [](TypeOK /\ InHand)
<1>1. Init => Inv
  BY FaultsAssumption DEF Init, Inv, TypeOK, InHand, Verdicts, Actions
<1>2. Inv /\ [Next]_vars => Inv'
  <2> SUFFICES ASSUME Inv, [Next]_vars PROVE Inv'
    OBVIOUS
  <2> HandInv /\ HandTypeOK /\ OutcomeTypeOK /\ FaultTypeOK
    BY TypeParts DEF Inv, HandInv
  <2> SUFFICES HandInv' /\ OutcomeTypeOK' /\ FaultTypeOK'
    BY DEF Inv, HandInv, TypeOK, HandTypeOK, OutcomeTypeOK, FaultTypeOK
  <2>1. CASE UNCHANGED vars
    BY <2>1 DEF vars, brokerVars, handVars, chosenVars, outcomeVars, faultVars, HandInv,
                HandTypeOK, InHand, OutcomeTypeOK, FaultTypeOK
  <2>2. ASSUME NEW e \in Emails, Submit(e)
        PROVE  HandInv' /\ OutcomeTypeOK' /\ FaultTypeOK'
    <3>1. /\ queue' \in [Consumers -> Seq(Emails)]
          /\ \A c \in Consumers : queue[c] # <<>> => queue'[c] # <<>> /\ Head(queue'[c]) = Head(queue[c])
      BY <2>2, Publishes, ConsumersType DEF Submit
    <3>2. HandTypeOK' /\ InHand'
      BY <2>2, <3>1 DEF Submit, handVars, chosenVars, HandTypeOK, HandInv, InHand
    <3>3. QED
      BY <2>2, <3>2 DEF Submit, outcomeVars, faultVars, HandInv, OutcomeTypeOK, FaultTypeOK
  <2>3. ASSUME NEW c \in Consumers, Receive(c)
        PROVE  HandInv' /\ OutcomeTypeOK' /\ FaultTypeOK'
    <3>1. Head(queue[c]) \in Emails
      BY <2>3, HeadTailProperties DEF Receive, HandTypeOK
    <3>2. HandTypeOK' /\ InHand'
      <4>1. PICK l \in {"analyse", "insert"} : pc' = [pc EXCEPT ![c] = l]
        BY <2>3 DEF Receive, Goto
      <4>2. /\ connected /\ queue[c] # <<>> /\ UNCHANGED <<queue, connected, verdict, action>>
            /\ work' = [work EXCEPT ![c] = Head(queue[c])]
        BY <2>3 DEF Receive, brokerVars, chosenVars
      <4>3. HandTypeOK'
        BY <3>1, <4>1, <4>2 DEF HandTypeOK
      <4>4. /\ pc'[c] = l /\ work'[c] = Head(queue[c])
            /\ \A d \in Consumers : d # c => pc'[d] = pc[d] /\ work'[d] = work[d]
        BY <4>1, <4>2 DEF HandTypeOK
      <4>5. InHand'
        BY <3>1, <4>2, <4>4 DEF HandInv, InHand
      <4>6. QED
        BY <4>3, <4>5
    <3>3. QED
      BY <2>3, <3>2 DEF Receive, outcomeVars, faultVars, HandInv, OutcomeTypeOK, FaultTypeOK
  <2>4. ASSUME NEW c \in Consumers, Ack(c)
        PROVE  HandInv' /\ OutcomeTypeOK' /\ FaultTypeOK'
    <3>1. pc[c] # "idle" /\ LetGo(c) /\ queue' = Settled(c) /\ connected' = connected
      BY <2>4 DEF Ack
    <3>2. HandInv'
      BY <3>1, LetsGo
    <3>3. QED
      BY <2>4, <3>2 DEF Ack, outcomeVars, faultVars, OutcomeTypeOK, FaultTypeOK
  <2>5. CASE ProcessEmail
    BY <2>5, ProcessEmailType, TypeParts DEF Inv, HandInv, TypeOK, HandTypeOK, OutcomeTypeOK, FaultTypeOK
  <2>6. ASSUME NEW q \in Stores, InsertQuarantine(q) \/ InsertQuarantineFails(q)
        PROVE  HandInv' /\ OutcomeTypeOK' /\ FaultTypeOK'
    BY <2>6, StorageType DEF Inv, HandInv, TypeOK, HandTypeOK, OutcomeTypeOK, FaultTypeOK
  <2>7. CASE Crash
    <3>1. HandInv'
      BY <2>7, IdleHands DEF Crash
    <3>2. FaultTypeOK'
      BY <2>7, TakenBackType, FaultsAssumption DEF Crash, FaultTypeOK
    <3>3. QED
      BY <2>7, <3>1, <3>2 DEF Crash, outcomeVars, OutcomeTypeOK
  <2>8. CASE LoseConnection
    <3>1. queue' \in [Consumers -> Seq(Emails)] /\ connected' = FALSE
      <4>1. <<>> \in Seq(Emails)
        BY EmptySeq
      <4>2. queue' \in {queue, [queue EXCEPT !["ingest"] = <<>>]}
        BY <2>8 DEF LoseConnection
      <4>3. QED
        BY <2>8, <4>1, <4>2 DEF LoseConnection, HandTypeOK
    <3>2. HandTypeOK' /\ InHand'
      BY <2>8, <3>1 DEF LoseConnection, handVars, chosenVars, HandTypeOK, HandInv, InHand
    <3>3. lost' \subseteq Emails
      <4>1. queue["ingest"] \in Seq(Emails)
        BY ConsumersType DEF HandTypeOK
      <4>2. \A i \in 1..Len(queue["ingest"]) : queue["ingest"][i] \in Emails
        BY <4>1, ElementOfSeq
      <4>3. QED
        BY <2>8, <4>2 DEF LoseConnection, FaultTypeOK
    <3>4. FaultTypeOK'
      BY <2>8, <3>3, TakenBackType, FaultsAssumption DEF LoseConnection, FaultTypeOK
    <3>5. QED
      BY <2>8, <3>2, <3>4 DEF LoseConnection, outcomeVars, HandInv, OutcomeTypeOK
  <2>9. CASE Exit
    <3>1. HandInv'
      BY <2>9, IdleHands DEF Exit
    <3>2. QED
      BY <2>9, <3>1 DEF Exit, outcomeVars, faultVars, OutcomeTypeOK, FaultTypeOK
  <2>10. QED
    BY <2>1, <2>2, <2>3, <2>4, <2>5, <2>6, <2>7, <2>8, <2>9 DEF Next
<1>3. QED
  BY <1>1, <1>2, PTL DEF Spec, Inv

------------------------------------------------------------------------------
(* Nothing vanishes.                                                         *)

\* An email leaves a queue when the consumer that holds it settles it, and the first
\* queue also when RabbitMQ restarts.
LEMMA LeavesQueue ==
  ASSUME Inv, Next, NEW c \in Consumers, NEW e \in Emails, InQueue(c, e)
  PROVE  \/ InQueue(c, e)'
         \/ work[c] = e /\ Ack(c)
         \/ c = "ingest" /\ work[c] = e /\ Discard /\ e \in failed'
         \/ c = "ingest" /\ e \in lost'
<1> HandInv /\ HandTypeOK /\ InHand /\ Within(queue[c], e)
  BY TypeParts DEF Inv, HandInv, InQueue, Within
<1> DEFINE Stays == Within(queue'[c], e)
<1> SUFFICES \/ Stays
             \/ work[c] = e /\ Ack(c)
             \/ c = "ingest" /\ work[c] = e /\ Discard /\ e \in failed'
             \/ c = "ingest" /\ e \in lost'
  BY DEF InQueue, Within
<1>1. ASSUME NEW d \in Consumers, NEW f \in Emails, queue' = [queue EXCEPT ![d] = Append(@, f)]
      PROVE  Stays
  BY <1>1, AppendWithin DEF HandTypeOK
<1>2. CASE UNCHANGED queue
  BY <1>2
<1>3. ASSUME NEW d \in Consumers, Ack(d)
      PROVE  Stays \/ (work[c] = e /\ Ack(c))
  <2>1. pc[d] # "idle" /\ queue' = Settled(d)
    BY <1>3 DEF Ack
  <2>2. QED
    BY <1>3, <2>1, SettledType
<1>4. ASSUME ProcessEmail, Discard
      PROVE  Stays \/ (c = "ingest" /\ work[c] = e /\ e \in failed')
  <2>1. pc["ingest"] # "idle" /\ queue' = Settled("ingest")
    BY <1>4 DEF Discard, ProcessEmail, RunLoop, SendToMailService, Publish, RouteNowhere,
       InsertAuditLog, InsertEmailHistory
  <2>2. c = "ingest" /\ e = work["ingest"] /\ connected => e \in failed'
    BY <1>4 DEF Discard
  <2>3. QED
    BY <2>1, <2>2, SettledType, ConsumersType
<1>5. ASSUME ProcessEmail, ~Discard
      PROVE  Stays
  <2>1. CASE \E q \in Stores : Publish(q)
    <3>1. work["ingest"] \in Emails
      BY <2>1, ConsumersType DEF Publish, InHand
    <3>2. PICK q \in Stores : queue' = [queue EXCEPT ![q] = Append(@, work["ingest"])]
      BY <1>5, <2>1 DEF Publish
    <3>3. QED
      BY <1>1, <3>1, <3>2, ConsumersType
  <2>2. CASE ~\E q \in Stores : Publish(q)
    BY <1>2, <1>5, <2>2 DEF ProcessEmail, RunLoop, SendToMailService, RouteNowhere,
       InsertAuditLog, InsertEmailHistory, brokerVars
  <2>3. QED
    BY <2>1, <2>2
<1>6. CASE LoseConnection
  <2>1. CASE c = "ingest" /\ ~UNCHANGED queue
    BY <1>6, <2>1 DEF LoseConnection, Within
  <2>2. CASE c # "ingest" \/ UNCHANGED queue
    BY <1>6, <2>2 DEF LoseConnection, HandTypeOK
  <2>3. QED
    BY <2>1, <2>2
<1>7. ASSUME NEW f \in Emails, Submit(f)
      PROVE  Stays
  BY <1>1, <1>7, ConsumersType DEF Submit
<1>8. QED
  BY <1>2, <1>3, <1>4, <1>5, <1>6, <1>7 DEF Next, Receive, InsertQuarantine, InsertQuarantineFails,
     Requeued, Crash, Exit, brokerVars

\* What lets a consumer acknowledge: processEmail has routed the email, or its verdict
\* is one the audit log will refuse, and a storage worker has stored it.
Routed ==
  /\ pc["ingest"] \in {"history", "ack"} => Outcome(work["ingest"])
  /\ pc["ingest"] = "audit" => Outcome(work["ingest"]) \/ verdict = "OTHER"
Stored == \A q \in Stores : pc[q] = "ack" => rows[q][work[q]] > 0

\* What is on its way to a reviewer, or stored for one, stays so.
LEMMA HeldStays ==
  ASSUME Inv, Stored, Next, NEW q \in Stores, NEW e \in Emails, Held(q, e)
  PROVE  Held(q, e)'
<1> OutcomeTypeOK
  BY TypeParts DEF Inv
<1>1. ASSUME rows[q][e] > 0
      PROVE  rows'[q][e] > 0
  <2>1. ASSUME NEW r \in Stores, NEW f, rows' = [rows EXCEPT ![r][f] = @ + 1]
        PROVE  rows'[q][e] > 0
    BY <1>1, <2>1 DEF OutcomeTypeOK
  <2>2. CASE UNCHANGED rows
    BY <1>1, <2>2
  <2>3. QED
    BY <2>1, <2>2 DEF Next, Submit, Receive, Ack, ProcessEmail, RunLoop, SendToMailService,
       Publish, RouteNowhere, InsertAuditLog, InsertEmailHistory, InsertQuarantine,
       InsertQuarantineFails, Crash, LoseConnection, Exit, outcomeVars
<1>2. ASSUME InQueue(q, e)
      PROVE  InQueue(q, e)' \/ rows'[q][e] > 0
  <2>1. q \in Consumers /\ q # "ingest"
    BY DEF Stores, Consumers
  <2>2. work[q] = e /\ Ack(q) => rows[q][e] > 0
    BY DEF Stored, Ack
  <2>3. QED
    BY <1>1, <1>2, <2>1, <2>2, LeavesQueue
<1>3. QED
  BY <1>1, <1>2 DEF Held

\* What is delivered stays so.
LEMMA DeliveredStays ==
  ASSUME Inv, Next, NEW e \in Emails, delivered[e] > 0
  PROVE  delivered'[e] > 0
<1> OutcomeTypeOK
  BY TypeParts DEF Inv
<1>1. CASE SendToMailService
  BY <1>1 DEF SendToMailService, OutcomeTypeOK
<1>2. CASE ~SendToMailService
  BY <1>2 DEF Next, Submit, Receive, Ack, ProcessEmail, RunLoop, Publish, RouteNowhere,
     InsertAuditLog, InsertEmailHistory, InsertQuarantine, InsertQuarantineFails, Crash,
     LoseConnection, Exit, outcomeVars
<1>3. QED
  BY <1>1, <1>2

\* An outcome is for good.
LEMMA OutcomeStays ==
  ASSUME Inv, Stored, Next, NEW e \in Emails, Outcome(e)
  PROVE  Outcome(e)'
BY HeldStays, DeliveredStays DEF Outcome

\* processEmail acts before it acknowledges.
LEMMA RoutedStays ==
  ASSUME Inv, Routed, Stored, Next
  PROVE  Routed'
<1> HandTypeOK /\ InHand /\ OutcomeTypeOK
  BY TypeParts DEF Inv
<1> USE ConsumersType
<1> DEFINE mail == work["ingest"]
<1>1. CASE pc'["ingest"] \notin {"history", "ack", "audit"}
  BY <1>1 DEF Routed
<1>2. CASE pc'["ingest"] = pc["ingest"] /\ pc["ingest"] \in {"history", "ack", "audit"}
           /\ work'["ingest"] = mail /\ verdict' = verdict
  <2>1. mail \in Emails
    BY <1>2 DEF InHand
  <2>2. QED
    BY <1>2, <2>1, OutcomeStays DEF Routed
<1>3. CASE ProcessEmail /\ ~Discard
  <2>1. mail \in Emails
    BY <1>3 DEF InHand, ProcessEmail, RunLoop, SendToMailService, Publish, RouteNowhere,
                InsertAuditLog, InsertEmailHistory
  <2>2. work' = work
    BY <1>3 DEF ProcessEmail, RunLoop, SendToMailService, Publish, RouteNowhere, InsertAuditLog,
                InsertEmailHistory
  <2>3. CASE RunLoop
    BY <1>1, <1>3, <2>3 DEF RunLoop, Goto, HandTypeOK
  <2>4. CASE SendToMailService
    <3>1. delivered'[mail] > 0
      BY <1>3, <2>1, <2>4 DEF SendToMailService, OutcomeTypeOK
    <3>2. pc'["ingest"] = "audit"
      BY <1>3, <2>4 DEF SendToMailService, Goto, HandTypeOK
    <3>3. QED
      BY <2>2, <3>1, <3>2 DEF Routed, Outcome
  <2>5. ASSUME NEW q \in Stores, Publish(q)
        PROVE  Routed'
    <3>1. queue' = [queue EXCEPT ![q] = Append(@, mail)] /\ pc'["ingest"] = "audit"
      BY <1>3, <2>5 DEF Publish, Goto, HandTypeOK
    <3>2. Within(queue'[q], mail)
      BY <2>1, <3>1, AppendWithin DEF HandTypeOK
    <3>3. QED
      BY <2>2, <3>1, <3>2 DEF Routed, Outcome, Held, InQueue, Within
  <2>6. CASE RouteNowhere
    <3>1. verdict = "OTHER"
      BY <2>6 DEF RouteNowhere, StoreFor, HandTypeOK, Verdicts
    <3>2. pc'["ingest"] = "audit" /\ verdict' = verdict
      BY <2>6 DEF RouteNowhere, Goto, HandTypeOK, chosenVars
    <3>3. QED
      BY <3>1, <3>2 DEF Routed
  <2>7. CASE InsertAuditLog \/ InsertEmailHistory
    <3>1. Outcome(mail) /\ pc'["ingest"] \in {"history", "ack"}
      BY <1>3, <2>7 DEF InsertAuditLog, InsertEmailHistory, AuditAccepts, Routed, Goto, HandTypeOK
    <3>2. QED
      BY <2>1, <2>2, <3>1, OutcomeStays DEF Routed
  <2>8. QED
    BY <1>3, <2>3, <2>4, <2>5, <2>6, <2>7 DEF ProcessEmail
<1>4. CASE Discard /\ pc'["ingest"] = "idle"
  BY <1>1, <1>4
<1>5. ASSUME NEW c \in Consumers, Receive(c) \/ Ack(c)
      PROVE  Routed'
  <2>1. CASE c = "ingest"
    BY <1>1, <1>5, <2>1 DEF Receive, Ack, LetGo, Goto, HandTypeOK
  <2>2. CASE c # "ingest"
    BY <1>1, <1>2, <1>5, <2>2 DEF Receive, Ack, LetGo, Goto, HandTypeOK, chosenVars
  <2>3. QED
    BY <2>1, <2>2
<1>6. ASSUME NEW q \in Stores, InsertQuarantine(q) \/ InsertQuarantineFails(q)
      PROVE  Routed'
  <2>1. q # "ingest"
    BY DEF Stores
  <2>2. QED
    BY <1>1, <1>2, <1>6, <2>1
    DEF InsertQuarantine, InsertQuarantineFails, LetGo, Goto, HandTypeOK, chosenVars
<1>7. CASE Crash \/ Exit
  BY <1>1, <1>7 DEF Crash, Exit, AllIdle
<1>8. CASE LoseConnection \/ \E e \in Emails : Submit(e)
  BY <1>1, <1>2, <1>8 DEF LoseConnection, Submit, handVars, chosenVars
<1>9. QED
  <2>1. Discard => pc'["ingest"] = "idle"
    BY DEF Discard, LetGo, Goto, HandTypeOK
  <2>2. QED
    BY <2>1, <1>3, <1>4, <1>5, <1>6, <1>7, <1>8 DEF Next

\* A storage worker stores before it acknowledges.
LEMMA StoredStays ==
  ASSUME Inv, Stored, Next
  PROVE  Stored'
<1> HandTypeOK /\ InHand /\ OutcomeTypeOK
  BY TypeParts DEF Inv
<1> USE ConsumersType
<1> SUFFICES ASSUME NEW q \in Stores, pc'[q] = "ack"
             PROVE  rows'[q][work'[q]] > 0
  BY DEF Stored
<1> q \in Consumers /\ q # "ingest"
  BY DEF Stores, Consumers
<1>1. rows' = rows \/ \E r \in Stores, f \in Emails : rows' = [rows EXCEPT ![r][f] = @ + 1]
  BY DEF Next, Submit, Receive, Ack, ProcessEmail, RunLoop, SendToMailService, Publish,
     RouteNowhere, InsertAuditLog, InsertEmailHistory, InsertQuarantine, InsertQuarantineFails,
     Crash, LoseConnection, Exit, outcomeVars, InHand
<1>2. CASE pc[q] = "ack" /\ work'[q] = work[q]
  <2>1. work[q] \in Emails /\ rows[q][work[q]] > 0 /\ rows[q][work[q]] \in Nat
    BY <1>2 DEF InHand, Stored, OutcomeTypeOK
  <2>2. ASSUME NEW r \in Stores, NEW f \in Emails, rows' = [rows EXCEPT ![r][f] = @ + 1]
        PROVE  rows'[q][work[q]] > 0
    BY <2>1, <2>2 DEF OutcomeTypeOK
  <2>3. QED
    BY <1>1, <1>2, <2>1, <2>2
<1>3. CASE InsertQuarantine(q)
  <2>1. work[q] \in Emails /\ work' = work /\ rows' = [rows EXCEPT ![q][work[q]] = @ + 1]
    BY <1>3 DEF InsertQuarantine, InHand
  <2>2. QED
    BY <2>1 DEF OutcomeTypeOK
<1>4. CASE ProcessEmail
  <2>1. pc'[q] = pc[q] /\ work'[q] = work[q]
    BY <1>4 DEF ProcessEmail, RunLoop, SendToMailService, Publish, RouteNowhere, InsertAuditLog,
                InsertEmailHistory, Discard, LetGo, Goto, HandTypeOK
  <2>2. QED
    BY <1>2, <2>1
<1>5. ASSUME NEW c \in Consumers, \/ Receive(c)
                                  \/ Ack(c)
                                  \/ c \in Stores /\ InsertQuarantineFails(c)
                                  \/ c \in Stores \ {q} /\ InsertQuarantine(c)
      PROVE  pc[q] = "ack" /\ work'[q] = work[q]
  BY <1>5 DEF Receive, Ack, InsertQuarantine, InsertQuarantineFails, LetGo, Goto, HandTypeOK
<1>6. CASE LoseConnection \/ \E e \in Emails : Submit(e)
  BY <1>2, <1>6 DEF LoseConnection, Submit, handVars
<1>7. ~(Crash \/ Exit)
  BY DEF Crash, Exit, AllIdle
<1>8. QED
  BY <1>2, <1>3, <1>4, <1>5, <1>6, <1>7 DEF Next

\* From broker-service's 202 on an email is never nowhere: it is queued, delivered or
\* held for a reviewer, unless processEmail gave it up or RabbitMQ lost it, for any
\* number of emails, crashes, lost connections and errors.
THEOREM NothingVanishesEver == Spec => []NothingVanishes
<1> DEFINE Safe == NothingVanishes /\ Routed /\ Stored
<1>1. Init => Safe
  BY ConsumersType DEF Init, NothingVanishes, Routed, Stored, Consumers
<1>2. Inv /\ Safe /\ [Next]_vars => Safe'
  <2> SUFFICES ASSUME Inv, Safe, [Next]_vars PROVE Safe'
    OBVIOUS
  <2>1. CASE UNCHANGED vars
    BY <2>1 DEF vars, brokerVars, handVars, chosenVars, outcomeVars, faultVars, NothingVanishes,
                InQueue, Routed, Stored, Outcome, Held
  <2>2. CASE Next
    <3>1. Routed' /\ Stored'
      BY <2>2, RoutedStays, StoredStays
    <3>2. failed \subseteq failed' /\ lost \subseteq lost'
      BY <2>2 DEF Next, Submit, Receive, Ack, ProcessEmail, RunLoop, SendToMailService, Publish,
         RouteNowhere, InsertAuditLog, InsertEmailHistory, InsertQuarantine, InsertQuarantineFails,
         Discard, Crash, LoseConnection, Exit, faultVars
    <3>3. ASSUME NEW e \in submitted
          PROVE  InQueue("ingest", e)' \/ Outcome(e)' \/ e \in failed' \cup lost'
      <4>1. e \in Emails
        BY DEF Inv, TypeOK
      <4>2. CASE Outcome(e)
        BY <2>2, <4>1, <4>2, OutcomeStays
      <4>3. CASE InQueue("ingest", e)
        <5>1. work["ingest"] = e /\ Ack("ingest") => Outcome(e)
          BY DEF Ack, Routed
        <5>2. QED
          BY <2>2, <4>1, <4>2, <4>3, <5>1, LeavesQueue, ConsumersType
      <4>4. QED
        BY <3>2, <4>2, <4>3 DEF NothingVanishes
    <3>4. ASSUME NEW e \in Emails, Submit(e)
          PROVE  InQueue("ingest", e)' /\ submitted' = submitted \cup {e}
      <4>1. queue["ingest"] \in Seq(Emails)
        BY ConsumersType DEF Inv, TypeOK
      <4>2. Within(queue'["ingest"], e)
        BY <3>4, <4>1, AppendWithin, ConsumersType DEF Submit, Inv, TypeOK
      <4>3. QED
        BY <3>4, <4>2 DEF Submit, InQueue, Within
    <3>5. CASE submitted' = submitted
      BY <3>1, <3>3, <3>5 DEF NothingVanishes
    <3>6. CASE \E e \in Emails : Submit(e)
      BY <3>1, <3>3, <3>4, <3>6 DEF NothingVanishes
    <3>7. QED
      BY <2>2, <3>5, <3>6 DEF Next, Receive, Ack, ProcessEmail, RunLoop, SendToMailService, Publish,
         RouteNowhere, InsertAuditLog, InsertEmailHistory, InsertQuarantine, InsertQuarantineFails,
         Crash, LoseConnection, Exit
  <2>3. QED
    BY <2>1, <2>2
<1>3. QED
  BY <1>1, <1>2, TypeCorrect, PTL DEF Inv, Spec

------------------------------------------------------------------------------
(* The promise.                                                              *)

\* An email enters the first queue by its submission, a store's by a publication.
LEMMA EntersQueue ==
  ASSUME Inv, Next, NEW c \in Consumers, NEW e \in Emails, InQueue(c, e)'
  PROVE  \/ InQueue(c, e)
         \/ c = "ingest" /\ Submit(e)
         \/ c \in Stores /\ Publish(c) /\ ~Discard /\ e = work["ingest"]
<1> HandInv /\ HandTypeOK /\ InHand /\ Within(queue'[c], e)
  BY TypeParts DEF Inv, HandInv, InQueue, Within
<1> DEFINE Was == Within(queue[c], e)
<1> SUFFICES Was \/ (c = "ingest" /\ Submit(e)) \/ (c \in Stores /\ Publish(c) /\ ~Discard /\ e = work["ingest"])
  BY DEF InQueue, Within
<1>1. CASE UNCHANGED queue
  BY <1>1
<1>2. ASSUME NEW d \in Consumers, pc[d] # "idle", queue' = Settled(d)
      PROVE  Was
  <2>1. CASE connected
    <3>1. queue[d] \in Seq(Emails) /\ queue[d] # <<>>
      BY <1>2, <2>1 DEF HandTypeOK, InHand
    <3>2. queue' = [queue EXCEPT ![d] = Tail(queue[d])]
      BY <1>2, <2>1 DEF Settled
    <3>3. QED
      BY <3>1, <3>2, TailWithin DEF HandTypeOK
  <2>2. CASE ~connected
    BY <1>2, <2>2 DEF Settled
  <2>3. QED
    BY <2>1, <2>2 DEF HandTypeOK
<1>3. ASSUME NEW d \in Consumers, NEW f \in Emails, queue' = [queue EXCEPT ![d] = Append(@, f)]
      PROVE  Was \/ (c = d /\ e = f)
  BY <1>3, AppendWithin DEF HandTypeOK
<1>4. ASSUME ProcessEmail, Discard
      PROVE  Was
  <2>1. pc["ingest"] # "idle" /\ queue' = Settled("ingest")
    BY <1>4 DEF Discard, ProcessEmail, RunLoop, SendToMailService, Publish, RouteNowhere,
       InsertAuditLog, InsertEmailHistory
  <2>2. QED
    BY <1>2, <2>1, ConsumersType
<1>5. ASSUME NEW q \in Stores, Publish(q), ~Discard
      PROVE  Was \/ (c = q /\ e = work["ingest"])
  <2>1. work["ingest"] \in Emails /\ queue' = [queue EXCEPT ![q] = Append(@, work["ingest"])]
    BY <1>5, ConsumersType DEF Publish, InHand
  <2>2. QED
    BY <1>3, <2>1, ConsumersType
<1>6. ASSUME ProcessEmail, ~Discard, ~\E q \in Stores : Publish(q)
      PROVE  Was
  BY <1>1, <1>6 DEF ProcessEmail, RunLoop, SendToMailService, RouteNowhere,
     InsertAuditLog, InsertEmailHistory, brokerVars
<1>7. ASSUME NEW d \in Consumers, Ack(d)
      PROVE  Was
  BY <1>2, <1>7 DEF Ack
<1>8. ASSUME NEW f \in Emails, Submit(f)
      PROVE  Was \/ (c = "ingest" /\ Submit(e))
  BY <1>3, <1>8, ConsumersType DEF Submit
<1>9. CASE LoseConnection
  <2>1. CASE queue' = [queue EXCEPT !["ingest"] = <<>>] /\ c = "ingest"
    <3>1. queue'[c] = <<>> /\ Len(queue'[c]) = 0
      BY <2>1, EmptySeq DEF HandTypeOK
    <3>2. QED
      BY <3>1 DEF Within
  <2>2. QED
    BY <1>1, <1>9, <2>1 DEF LoseConnection, HandTypeOK
<1>10. QED
  BY <1>1, <1>4, <1>5, <1>6, <1>7, <1>8, <1>9 DEF Next, Receive, InsertQuarantine,
     InsertQuarantineFails, Requeued, Crash, Exit, brokerVars

\* What the consumers hold was submitted and is still queued, but for an email that
\* RabbitMQ lost under processEmail's hands.
Traceable ==
  /\ \A e \in Emails : InQueue("ingest", e) => e \in submitted
  /\ pc["ingest"] # "idle" =>
       /\ work["ingest"] \in submitted
       /\ InQueue("ingest", work["ingest"]) \/ work["ingest"] \in lost
  /\ \A q \in Stores : pc[q] # "idle" => InQueue(q, work[q])

LEMMA TraceableStays ==
  ASSUME Inv, Traceable, Next
  PROVE  Traceable'
<1> HandInv /\ HandTypeOK /\ InHand
  BY TypeParts DEF Inv, HandInv
<1> USE ConsumersType
<1>1. submitted \subseteq submitted' /\ lost \subseteq lost'
  BY DEF Next, Submit, Receive, Ack, ProcessEmail, RunLoop, SendToMailService, Publish,
     RouteNowhere, InsertAuditLog, InsertEmailHistory, InsertQuarantine, InsertQuarantineFails,
     Discard, Crash, LoseConnection, Exit, faultVars
<1>2. ASSUME NEW e \in Emails, InQueue("ingest", e)'
      PROVE  e \in submitted'
  <2>1. "ingest" \notin Stores
    BY DEF Stores
  <2>2. QED
    BY <1>1, <1>2, <2>1, EntersQueue DEF Traceable, Submit
<1>3. ASSUME NEW c \in Consumers
      PROVE  \/ pc'[c] = "idle"
             \/ /\ pc[c] # "idle" /\ work'[c] = work[c] /\ work[c] \in Emails
                /\ ~Ack(c) /\ (c = "ingest" => ~Discard)
             \/ Receive(c)
  <2>1. CASE \E d \in Consumers : Receive(d)
    BY <2>1 DEF Receive, Goto, HandTypeOK, InHand, Ack, LetGo, Discard
  <2>2. ASSUME NEW d \in Consumers, Ack(d)
        PROVE  pc'[c] = "idle" \/ (pc'[c] = pc[c] /\ work'[c] = work[c] /\ c # d)
    BY <2>2 DEF Ack, LetGo, Goto, HandTypeOK
  <2>3. CASE ProcessEmail
    BY <2>3 DEF ProcessEmail, RunLoop, SendToMailService, Publish, RouteNowhere, InsertAuditLog,
                InsertEmailHistory, Discard, LetGo, Goto, HandTypeOK, InHand, Ack
  <2>4. ASSUME NEW q \in Stores, InsertQuarantine(q) \/ InsertQuarantineFails(q)
        PROVE  pc'[c] = "idle" \/ (pc[c] # "idle" /\ work'[c] = work[c])
    BY <2>4 DEF InsertQuarantine, InsertQuarantineFails, LetGo, Goto, HandTypeOK
  <2>5. CASE Crash \/ Exit
    BY <2>5 DEF Crash, Exit, AllIdle
  <2>6. ASSUME LoseConnection \/ \E e \in Emails : Submit(e)
        PROVE  pc' = pc /\ work' = work
    BY <2>6 DEF LoseConnection, Submit, handVars
  <2>7. (Ack(c) \/ (c = "ingest" /\ Discard)) => pc'[c] = "idle"
    BY DEF Ack, Discard, LetGo, Goto, HandTypeOK
  <2>8. QED
    BY <2>1, <2>2, <2>3, <2>4, <2>5, <2>6, <2>7 DEF Next, InHand
<1>4. ASSUME NEW c \in Consumers, Receive(c)
      PROVE  /\ work'[c] = Head(queue[c]) /\ Head(queue[c]) \in Emails
             /\ InQueue(c, Head(queue[c])) /\ InQueue(c, work[c])'
  <2>1. queue[c] \in Seq(Emails) /\ queue[c] # <<>> /\ work'[c] = Head(queue[c]) /\ queue' = queue
    BY <1>4 DEF Receive, HandTypeOK, brokerVars
  <2>2. Within(queue[c], Head(queue[c])) /\ Head(queue[c]) \in Emails
    BY <2>1, TailWithin, HeadTailProperties
  <2>3. QED
    BY <2>1, <2>2 DEF InQueue, Within
<1>5. ASSUME pc'["ingest"] # "idle"
      PROVE  /\ work'["ingest"] \in submitted'
             /\ InQueue("ingest", work["ingest"])' \/ work'["ingest"] \in lost'
  <2>1. CASE Receive("ingest")
    <3>1. work'["ingest"] \in submitted
      BY <1>4, <2>1 DEF Traceable
    <3>2. QED
      BY <1>1, <1>4, <2>1, <3>1
  <2>2. CASE ~Receive("ingest")
    <3>1. /\ pc["ingest"] # "idle" /\ work'["ingest"] = work["ingest"] /\ work["ingest"] \in Emails
          /\ ~Ack("ingest") /\ ~Discard
      BY <1>3, <1>5, <2>2
    <3>2. InQueue("ingest", work["ingest"]) => \/ InQueue("ingest", work["ingest"])'
                                              \/ work["ingest"] \in lost'
      <4>1. ASSUME NEW e \in Emails, e = work["ingest"], InQueue("ingest", e)
            PROVE  InQueue("ingest", e)' \/ e \in lost'
        BY <3>1, <4>1, LeavesQueue
      <4>2. ASSUME NEW e \in Emails, e = work["ingest"], InQueue("ingest", e)'
            PROVE  InQueue("ingest", work["ingest"])'
        BY <3>1, <4>2
      <4>3. QED
        BY <3>1, <4>1, <4>2
    <3>3. QED
      BY <1>1, <3>1, <3>2 DEF Traceable
  <2>3. QED
    BY <2>1, <2>2
<1>6. ASSUME NEW q \in Stores, pc'[q] # "idle"
      PROVE  InQueue(q, work[q])'
  <2>1. q \in Consumers /\ q # "ingest"
    BY DEF Stores, Consumers
  <2>2. CASE Receive(q)
    BY <1>4, <2>1, <2>2
  <2>3. CASE ~Receive(q)
    BY <1>3, <1>6, <2>1, <2>3, LeavesQueue DEF Traceable
  <2>4. QED
    BY <2>2, <2>3
<1>7. QED
  BY <1>2, <1>5, <1>6 DEF Traceable

\* The variables of MailPromise, as the mail path implements them.
PromiseStage == [e \in Emails |->
                   IF e \notin submitted THEN "new"
                   ELSE IF InQueue("ingest", e) \/ work["ingest"] = e THEN "open" ELSE "closed"]
PromiseDelivered == {e \in Emails : delivered[e] > 0}
PromiseHeld == {e \in Emails : \E q \in Stores : Held(q, e)}
PromiseExcused == failed \cup lost

LEMMA PromiseSteps ==
  /\ \A e \in Emails :
       /\ PromiseStage[e] = "new"
       /\ PromiseStage' = [PromiseStage EXCEPT ![e] = "open"]
       /\ UNCHANGED <<PromiseDelivered, PromiseHeld, PromiseExcused>>
       => Promise!Submit(e)
  /\ \A e \in Emails :
       /\ PromiseStage[e] = "open"
       /\ PromiseDelivered' = PromiseDelivered \cup {e}
       /\ UNCHANGED <<PromiseStage, PromiseHeld, PromiseExcused>>
       => Promise!Deliver(e)
  /\ \A e \in Emails :
       /\ PromiseStage[e] = "open"
       /\ PromiseHeld' = PromiseHeld \cup {e}
       /\ UNCHANGED <<PromiseStage, PromiseDelivered, PromiseExcused>>
       => Promise!Hold(e)
  /\ \A e \in Emails :
       /\ PromiseStage[e] = "open"
       /\ e \in PromiseDelivered \cup PromiseHeld \cup PromiseExcused
       /\ PromiseStage' = [PromiseStage EXCEPT ![e] = "closed"]
       /\ UNCHANGED <<PromiseDelivered, PromiseHeld, PromiseExcused>>
       => Promise!Close(e)
  /\ \A es, closed, sent \in SUBSET Emails :
       /\ \A e \in es : PromiseStage[e] = "open"
       /\ closed \subseteq es /\ sent \subseteq es
       /\ PromiseExcused' = PromiseExcused \cup es
       /\ PromiseDelivered' = PromiseDelivered \cup sent
       /\ PromiseStage' = [e \in Emails |-> IF e \in closed THEN "closed" ELSE PromiseStage[e]]
       /\ UNCHANGED PromiseHeld
       => Promise!Fail(es, closed, sent)
  /\ UNCHANGED <<PromiseStage, PromiseDelivered, PromiseHeld, PromiseExcused>> => UNCHANGED Promise!vars
BY DEF PromiseStage, PromiseDelivered, PromiseHeld, PromiseExcused, Promise!Submit, Promise!Deliver,
   Promise!Hold, Promise!Close, Promise!Fail, Promise!vars

\* Only a publication makes a reviewer's queue longer: storing an email moves it.
LEMMA HeldFrame ==
  ASSUME Inv, Traceable, Stored, Next, ~\E q \in Stores : Publish(q) /\ ~Discard
  PROVE  UNCHANGED PromiseHeld
<1> HandTypeOK /\ InHand /\ OutcomeTypeOK
  BY TypeParts DEF Inv
<1>1. ASSUME NEW q \in Stores, NEW e \in Emails, Held(q, e)'
      PROVE  Held(q, e)
  <2> q \in Consumers /\ q # "ingest"
    BY DEF Stores, Consumers
  <2>1. CASE InQueue(q, e)'
    BY <2>1, EntersQueue DEF Held
  <2>2. CASE rows'[q][e] > 0 /\ UNCHANGED rows
    BY <2>2 DEF Held
  <2>3. ASSUME NEW r \in Stores, pc[r] = "insert", rows' = [rows EXCEPT ![r][work[r]] = @ + 1],
               rows'[q][e] > 0
        PROVE  Held(q, e)
    <3>1. work[r] \in Emails /\ InQueue(r, work[r])
      BY <2>3, ConsumersType DEF InHand, Traceable
    <3>2. (q = r /\ e = work[r]) \/ rows'[q][e] = rows[q][e]
      BY <2>3, <3>1 DEF OutcomeTypeOK
    <3>3. QED
      BY <2>3, <3>1, <3>2 DEF Held
  <2>4. UNCHANGED rows \/ \E r \in Stores : pc[r] = "insert" /\ rows' = [rows EXCEPT ![r][work[r]] = @ + 1]
    BY DEF Next, Submit, Receive, Ack, ProcessEmail, RunLoop, SendToMailService, Publish,
       RouteNowhere, InsertAuditLog, InsertEmailHistory, InsertQuarantine, InsertQuarantineFails,
       Crash, LoseConnection, Exit, outcomeVars
  <2>5. Held(q, e)' <=> InQueue(q, e)' \/ rows'[q][e] > 0
    BY DEF Held
  <2>6. QED
    BY <1>1, <2>1, <2>2, <2>3, <2>4, <2>5
<1>2. ASSUME NEW e \in Emails
      PROVE  e \in PromiseHeld' <=> e \in PromiseHeld
  BY <1>1, HeldStays DEF PromiseHeld
<1>3. QED
  BY <1>2 DEF PromiseHeld

\* The stages when processEmail lets go of an email: that one is closed unless it is
\* still in the queue.
LEMMA ReleaseStage ==
  ASSUME Inv, Traceable, UNCHANGED submitted, work'["ingest"] = NoMail,
         \A e \in Emails : e # work["ingest"] => (InQueue("ingest", e)' <=> InQueue("ingest", e)),
         NEW closed, closed = {e \in Emails : e = work["ingest"] /\ ~InQueue("ingest", e)'}
  PROVE  /\ PromiseStage' = [e \in Emails |-> IF e \in closed THEN "closed" ELSE PromiseStage[e]]
         /\ \A e \in Emails : e = work["ingest"] => PromiseStage[e] = "open"
<1> HandTypeOK /\ InHand
  BY TypeParts DEF Inv
<1>1. NoMail \notin Emails
  BY EmailsAssumption
<1>2. ASSUME NEW e \in Emails, e = work["ingest"]
      PROVE  e \in submitted
  BY <1>1, <1>2, ConsumersType DEF InHand, Traceable
<1>3. ASSUME NEW e \in Emails
      PROVE  PromiseStage'[e] = IF e \in closed THEN "closed" ELSE PromiseStage[e]
  BY <1>1, <1>2 DEF PromiseStage
<1>4. QED
  BY <1>2, <1>3 DEF PromiseStage

\* In all other steps the stages stay: nothing enters or leaves the first queue or the
\* hand of processEmail.
LEMMA StageFrame ==
  ASSUME UNCHANGED submitted, queue'["ingest"] = queue["ingest"], work'["ingest"] = work["ingest"]
  PROVE  UNCHANGED PromiseStage
BY DEF PromiseStage, InQueue

\* processEmail gives an email up: its failure excuses the email.
LEMMA DiscardStep ==
  ASSUME Inv, Traceable, Stored, Next, ProcessEmail, Discard,
         NEW mail \in Emails, mail = work["ingest"]
  PROVE  Promise!Next \/ UNCHANGED Promise!vars
<1> HandTypeOK /\ InHand /\ OutcomeTypeOK
  BY TypeParts DEF Inv
<1> USE ConsumersType
<1> PICK closed \in SUBSET Emails : closed = {e \in Emails : e = mail /\ ~InQueue("ingest", e)'}
  OBVIOUS
<1> PICK sent \in SUBSET Emails : sent = PromiseDelivered' \ PromiseDelivered
  BY DEF PromiseDelivered
<1>1. pc["ingest"] # "idle" /\ UNCHANGED submitted
  BY DEF ProcessEmail, RunLoop, SendToMailService, Publish, RouteNowhere, InsertAuditLog,
     InsertEmailHistory, InHand, outcomeVars
<1>2. work'["ingest"] = NoMail
  BY DEF Discard, LetGo, HandTypeOK
<1>3. ASSUME NEW e \in Emails, e # mail
      PROVE  InQueue("ingest", e)' <=> InQueue("ingest", e)
  <2>1. queue' = queue \/ queue' = [queue EXCEPT !["ingest"] = Tail(queue["ingest"])]
    BY DEF Discard, Settled
  <2>2. CASE connected
    <3>1. queue["ingest"] \in Seq(Emails) /\ queue["ingest"] # <<>> /\ Head(queue["ingest"]) = mail
      BY <1>1, <2>2 DEF HandTypeOK, InHand
    <3>2. Within(Tail(queue["ingest"]), e) <=> Within(queue["ingest"], e)
      BY <1>3, <3>1, TailWithin
    <3>3. queue'["ingest"] = queue["ingest"] \/ queue'["ingest"] = Tail(queue["ingest"])
      BY <2>1 DEF HandTypeOK
    <3>4. QED
      BY <3>2, <3>3 DEF InQueue, Within
  <2>3. CASE ~connected
    BY <2>3 DEF Discard, Settled, InQueue
  <2>4. QED
    BY <2>2, <2>3
<1>4. /\ PromiseStage' = [e \in Emails |-> IF e \in closed THEN "closed" ELSE PromiseStage[e]]
      /\ PromiseStage[mail] = "open"
  BY <1>2, <1>3, <1>1, ReleaseStage
<1>5. UNCHANGED PromiseHeld
  <2>1. ~\E q \in Stores : Publish(q) /\ ~Discard
    OBVIOUS
  <2>2. QED
    BY <2>1, HeldFrame
<1>6. sent \subseteq {mail} /\ PromiseDelivered' = PromiseDelivered \cup sent
  <2>1. ASSUME NEW e \in Emails, e # mail
        PROVE  delivered'[e] = delivered[e]
    BY <1>1, <2>1 DEF ProcessEmail, RunLoop, SendToMailService, Publish, RouteNowhere,
       InsertAuditLog, InsertEmailHistory, outcomeVars, OutcomeTypeOK
  <2>2. ASSUME NEW e \in PromiseDelivered
        PROVE  e \in PromiseDelivered'
    BY <2>2, DeliveredStays DEF PromiseDelivered
  <2>3. QED
    BY <2>1, <2>2 DEF PromiseDelivered
<1>7. closed \subseteq {mail} /\ (InQueue("ingest", mail)' => closed = {})
  OBVIOUS
<1>8. CASE connected \/ mail \in lost
  <2>1. PromiseExcused' = PromiseExcused \cup {mail}
    BY <1>8 DEF Discard, PromiseExcused
  <2>2. closed \subseteq {mail} /\ {mail} \in SUBSET Emails /\ closed \in SUBSET Emails /\ sent \in SUBSET Emails
    BY <1>1, <1>6, <1>7
  <2>3. Promise!Fail({mail}, closed, sent)
    BY <1>4, <1>5, <1>6, <2>1, <2>2, PromiseSteps
  <2>4. QED
    BY <2>2, <2>3 DEF Promise!Next
<1>9. CASE ~connected /\ mail \notin lost
  <2>1. InQueue("ingest", mail) /\ queue' = queue
    BY <1>1, <1>9 DEF Traceable, Discard, Settled
  <2>2. closed = {} /\ UNCHANGED PromiseExcused
    BY <1>9, <1>7, <2>1 DEF InQueue, Discard, PromiseExcused
  <2>3. UNCHANGED PromiseStage
    BY <1>4, <2>2 DEF PromiseStage
  <2>4. PromiseDelivered' = PromiseDelivered \cup {mail} \/ UNCHANGED PromiseDelivered
    BY <1>6
  <2>5. Promise!Deliver(mail) \/ UNCHANGED Promise!vars
    BY <1>1, <1>4, <1>5, <2>2, <2>3, <2>4, PromiseSteps
  <2>6. QED
    BY <1>1, <2>5 DEF Promise!Next
<1>10. QED
  BY <1>8, <1>9

\* processEmail is done with an email, or the process dies with it in hand: the email is
\* still queued, or it has an outcome or an excuse.
LEMMA ReleaseStep ==
  ASSUME Inv, Traceable, Stored, Routed, Next, UNCHANGED <<submitted, delivered, failed, lost>>,
         \/ Ack("ingest")
         \/ UNCHANGED queue /\ work'["ingest"] = NoMail,
         ~\E q \in Stores : Publish(q) /\ ~Discard
  PROVE  Promise!Next \/ UNCHANGED Promise!vars
<1> HandTypeOK /\ InHand /\ OutcomeTypeOK
  BY TypeParts DEF Inv
<1> USE ConsumersType
<1> PICK closed \in SUBSET Emails : closed = {e \in Emails : e = work["ingest"] /\ ~InQueue("ingest", e)'}
  OBVIOUS
<1>1. work'["ingest"] = NoMail
  BY DEF Ack, LetGo, HandTypeOK
<1>2. ASSUME NEW e \in Emails, e # work["ingest"]
      PROVE  InQueue("ingest", e)' <=> InQueue("ingest", e)
  <2>1. CASE UNCHANGED queue
    BY <2>1 DEF InQueue
  <2>2. CASE Ack("ingest") /\ connected
    <3>1. /\ queue["ingest"] \in Seq(Emails) /\ queue["ingest"] # <<>>
          /\ Head(queue["ingest"]) = work["ingest"]
      BY <2>2 DEF Ack, HandTypeOK, InHand
    <3>2. Within(Tail(queue["ingest"]), e) <=> Within(queue["ingest"], e)
      BY <1>2, <3>1, TailWithin
    <3>3. queue'["ingest"] = Tail(queue["ingest"])
      BY <2>2 DEF Ack, Settled, HandTypeOK
    <3>4. QED
      BY <3>2, <3>3 DEF InQueue, Within
  <2>3. QED
    BY <2>1, <2>2 DEF Ack, Settled
<1>3. /\ PromiseStage' = [e \in Emails |-> IF e \in closed THEN "closed" ELSE PromiseStage[e]]
      /\ \A e \in Emails : e = work["ingest"] => PromiseStage[e] = "open"
  BY <1>1, <1>2, ReleaseStage
<1>4. UNCHANGED <<PromiseDelivered, PromiseHeld, PromiseExcused>>
  BY HeldFrame DEF PromiseDelivered, PromiseExcused
<1>5. CASE closed = {}
  <2>1. UNCHANGED PromiseStage
    BY <1>3, <1>5 DEF PromiseStage
  <2>2. QED
    BY <1>4, <2>1, PromiseSteps
<1>6. ASSUME NEW e \in Emails, e \in closed
      PROVE  Promise!Next
  <2>1. e = work["ingest"] /\ ~InQueue("ingest", e)' /\ closed = {e}
    BY <1>6
  <2>2. PromiseStage' = [PromiseStage EXCEPT ![e] = "closed"]
    BY <1>3, <2>1 DEF PromiseStage
  <2>3. pc["ingest"] # "idle"
    BY <2>1, EmailsAssumption DEF InHand
  <2>4. e \in PromiseDelivered \cup PromiseHeld \cup PromiseExcused
    <3>1. CASE Ack("ingest")
      BY <2>1, <3>1 DEF Ack, Routed, Outcome, PromiseDelivered, PromiseHeld
    <3>2. CASE UNCHANGED queue
      BY <2>1, <2>3, <3>2 DEF Traceable, InQueue, PromiseExcused
    <3>3. QED
      BY <3>1, <3>2
  <2>5. Promise!Close(e)
    BY <1>3, <1>4, <2>1, <2>2, <2>4, PromiseSteps
  <2>6. QED
    BY <2>5 DEF Promise!Next
<1>7. QED
  BY <1>5, <1>6

\* RabbitMQ restarts and the emails of the first queue are lost: they are excused, and
\* closed but for the one in processEmail's hands.
LEMMA LoseStep ==
  ASSUME Inv, Traceable, Stored, Next, LoseConnection
  PROVE  Promise!Next \/ UNCHANGED Promise!vars
<1> HandTypeOK /\ InHand /\ OutcomeTypeOK
  BY TypeParts DEF Inv
<1> USE ConsumersType
<1>1. /\ UNCHANGED <<submitted, delivered, failed>> /\ work'["ingest"] = work["ingest"]
      /\ pc' = pc /\ work' = work
  BY DEF LoseConnection, handVars, outcomeVars
<1>2. ~\E q \in Stores : Publish(q) /\ ~Discard
  BY <1>1 DEF LoseConnection, Publish, Goto, HandTypeOK
<1>3. UNCHANGED <<PromiseDelivered, PromiseHeld>>
  BY <1>1, <1>2, HeldFrame DEF PromiseDelivered
<1>4. CASE UNCHANGED <<queue, lost>>
  <2>1. UNCHANGED <<PromiseStage, PromiseExcused>>
    BY <1>1, <1>4, StageFrame DEF PromiseExcused
  <2>2. QED
    BY <1>3, <2>1, PromiseSteps
<1>5. CASE /\ queue' = [queue EXCEPT !["ingest"] = <<>>]
           /\ lost' = lost \cup {queue["ingest"][i] : i \in 1..Len(queue["ingest"])}
  <2> PICK es \in SUBSET Emails : es = {e \in Emails : InQueue("ingest", e)}
    OBVIOUS
  <2> PICK closed \in SUBSET Emails : closed = es \ {work["ingest"]}
    OBVIOUS
  <2>1. {queue["ingest"][i] : i \in 1..Len(queue["ingest"])} = es
    <3>1. queue["ingest"] \in Seq(Emails)
      BY DEF HandTypeOK
    <3>2. \A i \in 1..Len(queue["ingest"]) : queue["ingest"][i] \in Emails
      BY <3>1, ElementOfSeq
    <3>3. QED
      BY <3>2 DEF InQueue
  <2>2. ASSUME NEW e \in Emails
        PROVE  ~InQueue("ingest", e)'
    <3>1. queue'["ingest"] = <<>> /\ Len(queue'["ingest"]) = 0
      BY <1>5, EmptySeq DEF HandTypeOK
    <3>2. QED
      BY <3>1 DEF InQueue
  <2>3. \A e \in es : PromiseStage[e] = "open"
    BY DEF Traceable, PromiseStage
  <2>4. PromiseExcused' = PromiseExcused \cup es
    BY <1>1, <1>5, <2>1 DEF PromiseExcused
  <2>5. PromiseStage' = [e \in Emails |-> IF e \in closed THEN "closed" ELSE PromiseStage[e]]
    <3>1. ASSUME NEW e \in Emails
          PROVE  PromiseStage'[e] = IF e \in closed THEN "closed" ELSE PromiseStage[e]
      BY <1>1, <2>2 DEF PromiseStage, Traceable
    <3>2. QED
      BY <3>1 DEF PromiseStage
  <2>6. PromiseDelivered' = PromiseDelivered \cup {} /\ closed \subseteq es /\ {} \in SUBSET Emails
    BY <1>3
  <2>7. Promise!Fail(es, closed, {})
    BY <1>3, <2>3, <2>4, <2>5, <2>6, PromiseSteps
  <2>8. QED
    BY <2>6, <2>7 DEF Promise!Next
<1>6. QED
  BY <1>4, <1>5 DEF LoseConnection

\* Every step of the mail path is a step of MailPromise, or changes nothing there.
LEMMA PromiseStep ==
  ASSUME Inv, Traceable, Stored, Routed, Next
  PROVE  Promise!Next \/ UNCHANGED Promise!vars
<1> HandTypeOK /\ InHand /\ OutcomeTypeOK
  BY TypeParts DEF Inv
<1> USE ConsumersType
<1> DEFINE Steps == Promise!Next \/ UNCHANGED Promise!vars
<1> HIDE DEF Steps
<1> SUFFICES Steps
  BY DEF Steps
<1>1. ASSUME UNCHANGED <<PromiseStage, PromiseDelivered, PromiseExcused>>,
             ~\E q \in Stores : Publish(q) /\ ~Discard
      PROVE  Steps
  BY <1>1, HeldFrame, PromiseSteps DEF Steps
<1>2. ASSUME NEW e \in Emails, Submit(e)
      PROVE  Steps
  <2>1. /\ UNCHANGED <<PromiseDelivered, PromiseExcused>> /\ e \notin submitted
        /\ submitted' = submitted \cup {e} /\ UNCHANGED work
    BY <1>2 DEF Submit, outcomeVars, faultVars, handVars, PromiseDelivered, PromiseExcused
  <2>2. UNCHANGED PromiseHeld
    <3>1. ~\E q \in Stores : Publish(q) /\ ~Discard
      BY <2>1 DEF Publish
    <3>2. QED
      BY <3>1, HeldFrame
  <2>3. queue["ingest"] \in Seq(Emails) /\ queue'["ingest"] = Append(queue["ingest"], e)
    BY <1>2 DEF Submit, HandTypeOK
  <2>4. \A f \in Emails : InQueue("ingest", f)' <=> InQueue("ingest", f) \/ f = e
    <3>1. \A f : Within(queue'["ingest"], f) <=> Within(queue["ingest"], f) \/ f = e
      BY <2>3, AppendWithin
    <3>2. QED
      BY <3>1 DEF InQueue, Within
  <2>5. PromiseStage[e] = "new" /\ PromiseStage' = [PromiseStage EXCEPT ![e] = "open"]
    BY <2>1, <2>4 DEF PromiseStage
  <2>6. Promise!Submit(e)
    BY <2>1, <2>2, <2>5, PromiseSteps
  <2>7. QED
    BY <2>6 DEF Steps, Promise!Next
<1>3. ASSUME NEW c \in Consumers, Receive(c)
      PROVE  Steps
  <2>1. UNCHANGED <<submitted, queue, PromiseDelivered, PromiseExcused>>
    BY <1>3 DEF Receive, brokerVars, outcomeVars, faultVars, PromiseDelivered, PromiseExcused
  <2>2. UNCHANGED PromiseStage
    <3>1. CASE c # "ingest"
      BY <1>3, <2>1, <3>1, StageFrame DEF Receive, HandTypeOK
    <3>2. CASE c = "ingest"
      <4>1. Within(queue["ingest"], Head(queue["ingest"])) /\ work'["ingest"] = Head(queue["ingest"])
        BY <1>3, <3>2, TailWithin DEF Receive, HandTypeOK
      <4>2. work["ingest"] = NoMail
        BY <1>3, <3>2 DEF Receive, InHand
      <4>3. ASSUME NEW e \in Emails
            PROVE  PromiseStage'[e] = PromiseStage[e]
        <5>1. InQueue("ingest", e)' <=> InQueue("ingest", e)
          BY <2>1 DEF InQueue
        <5>2. e = work'["ingest"] => InQueue("ingest", e)
          BY <4>1 DEF InQueue, Within
        <5>3. e # work["ingest"]
          BY <4>2, EmailsAssumption
        <5>4. QED
          BY <2>1, <5>1, <5>2, <5>3 DEF PromiseStage
      <4>4. QED
        BY <4>3 DEF PromiseStage
    <3>3. QED
      BY <3>1, <3>2
  <2>3. ~\E q \in Stores : Publish(q) /\ ~Discard
    BY <1>3 DEF Receive, Publish, Goto, HandTypeOK, brokerVars
  <2>4. QED
    BY <1>1, <2>1, <2>2, <2>3
<1>4. ASSUME NEW q \in Stores, \/ Ack(q)
                               \/ InsertQuarantine(q)
                               \/ InsertQuarantineFails(q)
      PROVE  Steps
  <2>1. q # "ingest" /\ q \in Consumers
    BY DEF Stores, Consumers
  <2>2. /\ queue'["ingest"] = queue["ingest"] /\ work'["ingest"] = work["ingest"]
        /\ pc'["ingest"] = pc["ingest"]
        /\ UNCHANGED <<submitted, delivered, failed, lost>>
    BY <1>4, <2>1 DEF Ack, Settled, InsertQuarantine, InsertQuarantineFails, Requeued, LetGo, Goto,
       HandTypeOK, brokerVars, outcomeVars, faultVars
  <2>3. ~\E r \in Stores : Publish(r) /\ ~Discard
    BY <2>2 DEF Publish, Goto, HandTypeOK
  <2>4. QED
    BY <1>1, <2>2, <2>3, StageFrame DEF PromiseDelivered, PromiseExcused
<1>5. ASSUME Ack("ingest") \/ Crash \/ Exit
      PROVE  Steps
  <2>1. /\ UNCHANGED <<submitted, delivered, failed, lost>>
        /\ pc'["ingest"] = "idle" /\ (Ack("ingest") \/ (UNCHANGED queue /\ work'["ingest"] = NoMail))
    BY <1>5 DEF Ack, LetGo, Goto, Crash, Exit, AllIdle, HandTypeOK, outcomeVars, faultVars
  <2>2. ~\E q \in Stores : Publish(q) /\ ~Discard
    BY <2>1 DEF Publish, Goto, HandTypeOK
  <2>3. QED
    BY <2>1, <2>2, ReleaseStep DEF Steps
<1>6. ASSUME ProcessEmail, ~Discard
      PROVE  Steps
  <2> PICK mail \in Emails : mail = work["ingest"]
    BY <1>6 DEF InHand, ProcessEmail, RunLoop, SendToMailService, Publish, RouteNowhere,
       InsertAuditLog, InsertEmailHistory
  <2>1. UNCHANGED <<submitted, work, failed, lost>>
    BY <1>6 DEF ProcessEmail, RunLoop, SendToMailService, Publish, RouteNowhere, InsertAuditLog,
       InsertEmailHistory, outcomeVars, faultVars
  <2>2. UNCHANGED PromiseExcused
    BY <2>1 DEF PromiseExcused
  <2>3. pc["ingest"] # "idle"
    BY <1>6 DEF ProcessEmail, RunLoop, SendToMailService, Publish, RouteNowhere, InsertAuditLog,
       InsertEmailHistory
  <2>4. PromiseStage[mail] = "open"
    BY <2>3 DEF Traceable, PromiseStage
  <2>5. ASSUME NEW q \in Stores, Publish(q)
        PROVE  Steps
    <3>1. /\ queue' = [queue EXCEPT ![q] = Append(@, mail)] /\ UNCHANGED <<delivered, rows>>
          /\ q # "ingest" /\ q \in Consumers
      BY <1>6, <2>5 DEF Publish, outcomeVars, Stores, Consumers
    <3>2. UNCHANGED <<PromiseStage, PromiseDelivered>>
      BY <2>1, <3>1, StageFrame DEF PromiseDelivered, HandTypeOK
    <3>3. \A r \in Stores : queue'[r] = IF r = q THEN Append(queue[r], mail) ELSE queue[r]
      BY <3>1 DEF HandTypeOK
    <3>4. ASSUME NEW r \in Stores, NEW e \in Emails
          PROVE  Held(r, e)' <=> Held(r, e) \/ (r = q /\ e = mail)
      <4>1. queue[r] \in Seq(Emails)
        BY DEF HandTypeOK
      <4>2. Within(queue'[r], e) <=> Within(queue[r], e) \/ (r = q /\ e = mail)
        BY <3>3, <4>1, AppendWithin
      <4>3. QED
        BY <3>1, <4>2 DEF Held, InQueue, Within
    <3>5. PromiseHeld' = PromiseHeld \cup {mail}
      BY <3>4 DEF PromiseHeld
    <3>6. Promise!Hold(mail)
      BY <2>2, <2>4, <3>2, <3>5, PromiseSteps
    <3>7. QED
      BY <3>6 DEF Steps, Promise!Next
  <2>6. ASSUME ~\E q \in Stores : Publish(q)
        PROVE  Steps
    <3>1. UNCHANGED queue
      BY <1>6, <2>6 DEF ProcessEmail, RunLoop, SendToMailService, RouteNowhere, InsertAuditLog,
         InsertEmailHistory, brokerVars
    <3>2. UNCHANGED PromiseStage
      BY <2>1, <3>1, StageFrame
    <3>3. PromiseDelivered' = PromiseDelivered \cup {mail} \/ UNCHANGED PromiseDelivered
      <4>1. CASE SendToMailService
        BY <1>6, <4>1 DEF SendToMailService, OutcomeTypeOK, PromiseDelivered
      <4>2. CASE ~SendToMailService
        BY <1>6, <2>6, <4>2 DEF ProcessEmail, RunLoop, RouteNowhere, InsertAuditLog,
           InsertEmailHistory, outcomeVars, PromiseDelivered
      <4>3. QED
        BY <4>1, <4>2
    <3>4. UNCHANGED PromiseHeld
      BY <2>6, HeldFrame
    <3>5. Promise!Deliver(mail) \/ UNCHANGED Promise!vars
      BY <2>2, <2>4, <3>2, <3>3, <3>4, PromiseSteps
    <3>6. QED
      BY <3>5 DEF Steps, Promise!Next
  <2>7. QED
    BY <2>5, <2>6
<1>7. ASSUME ProcessEmail, Discard
      PROVE  Steps
  <2> PICK mail \in Emails : mail = work["ingest"]
    BY <1>7 DEF InHand, ProcessEmail, RunLoop, SendToMailService, Publish, RouteNowhere,
       InsertAuditLog, InsertEmailHistory
  <2>1. QED
    BY <1>7, DiscardStep DEF Steps
<1>8. CASE LoseConnection
  BY <1>8, LoseStep DEF Steps
<1>9. QED
  BY <1>2, <1>3, <1>4, <1>5, <1>6, <1>7, <1>8 DEF Next, Consumers

\* The mail path keeps its promise: an accepted email stays open until it was delivered,
\* is held for a reviewer or is excused by a failure, what is delivered or held stays so,
\* and no redelivery reopens a closed email; whatever is redelivered, crashes or fails.
THEOREM PromiseKept == Spec => KeepsPromise
<1> DEFINE Safe == Traceable /\ Stored /\ Routed
<1>1. Init => Safe /\ Promise!Init
  <2> SUFFICES ASSUME Init PROVE Safe /\ Promise!Init
    OBVIOUS
  <2>1. \A c \in Consumers, e \in Emails : ~InQueue(c, e)
    BY EmptySeq DEF Init, InQueue
  <2>2. Safe
    BY <2>1, ConsumersType DEF Init, Traceable, Stored, Routed
  <2>3. Promise!Init
    BY <2>1, ConsumersType DEF Init, Promise!Init, Held
  <2>4. QED
    BY <2>2, <2>3
<1>2. Inv /\ Safe /\ [Next]_vars => Safe'
  <2> SUFFICES ASSUME Inv, Safe, [Next]_vars PROVE Safe'
    OBVIOUS
  <2>1. CASE UNCHANGED vars
    BY <2>1 DEF vars, brokerVars, handVars, chosenVars, outcomeVars, faultVars, Traceable,
                InQueue, Routed, Stored, Outcome, Held
  <2>2. CASE Next
    BY <2>2, TraceableStays, StoredStays, RoutedStays
  <2>3. QED
    BY <2>1, <2>2
<1>3. Inv /\ Safe /\ [Next]_vars => [Promise!Next]_(Promise!vars)
  <2> SUFFICES ASSUME Inv, Safe, [Next]_vars PROVE [Promise!Next]_(Promise!vars)
    OBVIOUS
  <2>1. CASE UNCHANGED vars
    BY <2>1 DEF vars, brokerVars, handVars, chosenVars, outcomeVars, faultVars, Promise!vars,
                InQueue, Held
  <2>2. CASE Next
    BY <2>2, PromiseStep
  <2>3. QED
    BY <2>1, <2>2
<1>4. QED
  BY <1>1, <1>2, <1>3, TypeCorrect, PTL DEF Inv, Spec, KeepsPromise, Promise!Spec

------------------------------------------------------------------------------
(* How often an email is in a queue.                                         *)

Count(s, e) == Cardinality({i \in 1..Len(s) : s[i] = e})

LEMMA CountType ==
  ASSUME NEW s \in Seq(Emails), NEW e
  PROVE  IsFiniteSet({i \in 1..Len(s) : s[i] = e}) /\ Count(s, e) \in Nat
<1>1. IsFiniteSet(1..Len(s))
  BY FS_Interval
<1>2. {i \in 1..Len(s) : s[i] = e} \in SUBSET (1..Len(s))
  OBVIOUS
<1>3. QED
  BY <1>1, <1>2, FS_Subset, FS_CardinalityType DEF Count

LEMMA CountEmpty ==
  ASSUME NEW e
  PROVE  Count(<<>>, e) = 0
<1>1. {i \in 1..Len(<<>>) : <<>>[i] = e} = {}
  BY EmptySeq
<1>2. QED
  BY <1>1, FS_EmptySet DEF Count

\* Publishing counts the email once more.
LEMMA CountAppend ==
  ASSUME NEW s \in Seq(Emails), NEW f \in Emails, NEW e
  PROVE  Count(Append(s, f), e) = Count(s, e) + (IF e = f THEN 1 ELSE 0)
<1>a. Append(s, f) \in Seq(Emails)
  BY AppendProperties
<1> PICK t \in Seq(Emails) : t = Append(s, f)
  BY <1>a
<1> PICK n \in Nat : n = Len(s)
  OBVIOUS
<1> PICK S : S = {i \in 1..n : s[i] = e}
  OBVIOUS
<1>1. Len(t) = n + 1 /\ t[n + 1] = f /\ \A i \in 1..n : t[i] = s[i]
  OBVIOUS
<1>2. IsFiniteSet(S) /\ Count(s, e) = Cardinality(S) /\ Cardinality(S) \in Nat
  BY CountType DEF Count
<1>3. CASE e = f
  <2>1. {i \in 1..Len(t) : t[i] = e} = S \cup {n + 1} /\ n + 1 \notin S
    BY <1>1, <1>3
  <2>2. Cardinality(S \cup {n + 1}) = Cardinality(S) + 1
    BY <1>2, <2>1, FS_AddElement
  <2>3. QED
    BY <1>2, <1>3, <2>1, <2>2 DEF Count
<1>4. CASE e # f
  <2>1. {i \in 1..Len(t) : t[i] = e} = S
    BY <1>1, <1>4
  <2>2. QED
    <3>1. Count(t, e) = Cardinality(S)
      BY <2>1 DEF Count
    <3>2. QED
      BY <1>2, <1>4, <3>1
<1>5. QED
  BY <1>3, <1>4

\* Settling a delivery counts its email once less.
LEMMA CountTail ==
  ASSUME NEW s \in Seq(Emails), s # <<>>, NEW e
  PROVE  /\ Count(s, e) = Count(Tail(s), e) + (IF e = Head(s) THEN 1 ELSE 0)
         /\ e = Head(s) => Count(s, e) > 0
<1>a. Tail(s) \in Seq(Emails)
  OBVIOUS
<1> PICK t \in Seq(Emails) : t = Tail(s)
  BY <1>a
<1> PICK n \in Nat : Len(s) = n + 1 /\ Len(t) = n
  <2>1. Len(s) \in Nat /\ Len(s) > 0 /\ Len(t) = Len(s) - 1
    OBVIOUS
  <2>2. Len(s) - 1 \in Nat /\ Len(s) = Len(s) - 1 + 1
    BY <2>1
  <2>3. QED
    BY <2>1, <2>2
<1> PICK T : T = {i \in 1..n : t[i] = e}
  OBVIOUS
<1> PICK U : U = {i \in 2..n + 1 : s[i] = e}
  OBVIOUS
<1>1. \A i \in 1..n : t[i] = s[i + 1]
  OBVIOUS
<1>2. IsFiniteSet(T) /\ Count(t, e) = Cardinality(T) /\ Cardinality(T) \in Nat
  BY CountType DEF Count
<1>3. IsFiniteSet(U) /\ Cardinality(U) = Cardinality(T)
  <2> PICK g : g = [i \in T |-> i + 1]
    OBVIOUS
  <2>1. \A i \in T : g[i] \in U
    BY <1>1
  <2>2. \A i, j \in T : g[i] = g[j] => i = j
    OBVIOUS
  <2>3. ASSUME NEW j \in U
        PROVE  \E i \in T : g[i] = j
    <3>1. j - 1 \in 1..n /\ (j - 1) + 1 = j
      OBVIOUS
    <3>2. j - 1 \in T
      BY <1>1, <3>1
    <3>3. QED
      BY <3>1, <3>2
  <2>4. g \in Bijection(T, U)
    <3>1. g \in [T -> U]
      BY <2>1
    <3>2. g \in Injection(T, U)
      BY <2>2, <3>1 DEF Injection, IsInjective
    <3>3. g \in Surjection(T, U)
      BY <2>3, <3>1 DEF Surjection
    <3>4. QED
      BY <3>2, <3>3 DEF Bijection
  <2>5. ExistsBijection(T, U)
    BY <2>4 DEF ExistsBijection
  <2>6. IsFiniteSet(T)
    BY <1>2
  <2>7. QED
    BY <2>5, <2>6, FS_Bijection
<1>4. Head(s) = s[1] /\ 1 \notin U
  OBVIOUS
<1>7. PICK k \in Nat : Count(Tail(s), e) = k /\ Cardinality(U) = k
  BY <1>2, <1>3
<1>5. CASE e = Head(s)
  <2>1. {i \in 1..Len(s) : s[i] = e} = U \cup {1}
    BY <1>4, <1>5
  <2>2. Cardinality(U \cup {1}) = Cardinality(U) + 1
    BY <1>3, <1>4, FS_AddElement
  <2>3. QED
    <3>1. Count(s, e) = Cardinality(U \cup {1})
      BY <2>1 DEF Count
    <3>2. Count(s, e) = k + 1 /\ k + 1 > 0
      BY <1>7, <2>2, <3>1
    <3>3. QED
      BY <1>5, <1>7, <3>2
<1>6. CASE e # Head(s)
  <2>1. {i \in 1..Len(s) : s[i] = e} = U
    BY <1>4, <1>6
  <2>2. QED
    <3>1. Count(s, e) = Cardinality(U)
      BY <2>1 DEF Count
    <3>2. Count(s, e) = k + 0
      BY <1>7, <3>1
    <3>3. QED
      BY <1>6, <1>7, <3>2
<1>8. QED
  BY <1>5, <1>6

\* Sums over the consumers, and over the stores.
One(b) == IF b THEN 1 ELSE 0

LEMMA StoresSum ==
  ASSUME NEW X, X \subseteq Stores
  PROVE  Cardinality(X) = One("quarantine" \in X) + One("blocked" \in X) /\ IsFiniteSet(X)
<1>1. IsFiniteSet({}) /\ Cardinality({}) = 0
  BY FS_EmptySet
<1>2. IsFiniteSet({"quarantine"}) /\ Cardinality({"quarantine"}) = 1
      /\ IsFiniteSet({"blocked"}) /\ Cardinality({"blocked"}) = 1
  BY FS_Singleton
<1>3. /\ IsFiniteSet({"quarantine"} \cup {"blocked"})
      /\ Cardinality({"quarantine"} \cup {"blocked"}) =
           IF "blocked" \in {"quarantine"} THEN Cardinality({"quarantine"}) ELSE Cardinality({"quarantine"}) + 1
  BY <1>2, FS_AddElement
<1>4. Cardinality({"quarantine"} \cup {"blocked"}) = 2
  BY <1>2, <1>3
<1>5. X = {} \/ X = {"quarantine"} \/ X = {"blocked"} \/ X = {"quarantine"} \cup {"blocked"}
  BY DEF Stores
<1>6. QED
  BY <1>1, <1>2, <1>3, <1>4, <1>5 DEF One

LEMMA ConsumersSum ==
  ASSUME NEW X, X \subseteq Consumers
  PROVE  Cardinality(X) = One("ingest" \in X) + One("quarantine" \in X) + One("blocked" \in X)
<1> PICK Y : Y = X \ {"ingest"}
  OBVIOUS
<1>1. Y \subseteq Stores /\ ("quarantine" \in Y <=> "quarantine" \in X) /\ ("blocked" \in Y <=> "blocked" \in X)
  BY DEF Consumers, Stores
<1>2. Cardinality(Y) = One("quarantine" \in X) + One("blocked" \in X) /\ IsFiniteSet(Y)
  BY <1>1, StoresSum DEF One
<1>3. CASE "ingest" \in X
  <2>1. X = Y \cup {"ingest"} /\ "ingest" \notin Y
    BY <1>3
  <2>2. Cardinality(Y \cup {"ingest"}) = Cardinality(Y) + 1
    BY <1>2, <2>1, FS_AddElement
  <2>3. QED
    BY <1>2, <1>3, <2>1, <2>2 DEF One
<1>4. CASE "ingest" \notin X
  <2>1. X = Y
    BY <1>4
  <2>2. QED
    BY <1>2, <1>4, <2>1 DEF One
<1>5. QED
  BY <1>3, <1>4

------------------------------------------------------------------------------
(* What a consumer's queue and hand may still add to the outcomes of an      *)
(* email: a message each time it is queued, less the one being settled after *)
(* the consumer acted on it, and more the hand of a consumer that lost its   *)
(* message with the connection and will act nevertheless.                    *)

Begun == {"analyse", "route", "insert"}
Acted == {"audit", "history", "ack"}

Queued(c, e) == Count(queue[c], e)
Done(c, e)   == One(connected /\ work[c] = e /\ pc[c] \in Acted)
Owed(c, e)   == One(~connected /\ work[c] = e /\ pc[c] \in Begun)
Tally(c, e)  == Queued(c, e) + Owed(c, e) - Done(c, e)

LEMMA TallyType ==
  ASSUME HandInv, NEW c \in Consumers, NEW e
  PROVE  /\ Queued(c, e) \in Nat /\ Owed(c, e) \in {0, 1} /\ Done(c, e) \in {0, 1}
         /\ Tally(c, e) \in Int
<1>1. queue[c] \in Seq(Emails)
  BY DEF HandInv, HandTypeOK
<1>2. Queued(c, e) \in Nat
  BY <1>1, CountType DEF Queued
<1>3. QED
  BY <1>2 DEF Owed, Done, Tally, One

\* A consumer that acts on its email, or does not yet, keeps its queue.
LEMMA TallyActs ==
  ASSUME HandInv, NEW c \in Consumers, NEW e,
         queue'[c] = queue[c], work'[c] = work[c], connected' = connected,
         pc[c] \in Begun, pc'[c] \in Acted
  PROVE  Tally(c, e)' = Tally(c, e) - One(work[c] = e)
<1>1. Queued(c, e)' = Queued(c, e) /\ Queued(c, e) \in Nat
  BY TallyType DEF Queued
<1>2. Begun \cap Acted = {}
  BY DEF Begun, Acted
<1>3. QED
  BY <1>1, <1>2 DEF Tally, Owed, Done, One

LEMMA TallyFrame ==
  ASSUME NEW c \in Consumers, NEW e,
         queue'[c] = queue[c], work'[c] = work[c], connected' = connected,
         \/ pc'[c] = pc[c]
         \/ pc[c] \in Begun /\ pc'[c] \in Begun
         \/ pc[c] \in Acted /\ pc'[c] \in Acted
  PROVE  Tally(c, e)' = Tally(c, e)
<1>1. Begun \cap Acted = {}
  BY DEF Begun, Acted
<1>2. QED
  BY <1>1 DEF Tally, Owed, Done, Queued

\* A consumer turns to its next delivery, and takes the one it had from the queue or not.
LEMMA TallyLetsGo ==
  ASSUME HandInv, NEW c \in Consumers, NEW e \in Emails, pc[c] \in Begun \cup Acted,
         LetGo(c), connected' = connected, queue' = Settled(c) \/ (queue' = queue /\ pc[c] \in Begun)
  PROVE  /\ Tally(c, e)' <= Tally(c, e)
         /\ queue' = Settled(c) \/ ~connected => Tally(c, e)' = Tally(c, e) - One(work[c] = e /\ pc[c] \in Begun)
         /\ \A d \in Consumers \ {c} : Tally(d, e)' = Tally(d, e)
<1> HandTypeOK /\ InHand
  BY DEF HandInv
<1>1. pc'[c] = "idle" /\ "idle" \notin Begun \cup Acted /\ pc[c] # "idle" /\ Begun \cap Acted = {}
  BY DEF LetGo, Goto, HandTypeOK, Begun, Acted
<1>2. \A d \in Consumers \ {c} : pc'[d] = pc[d] /\ work'[d] = work[d]
  BY DEF LetGo, Goto, HandTypeOK
<1>3. ASSUME NEW d \in Consumers \ {c}
      PROVE  Tally(d, e)' = Tally(d, e)
  <2>1. queue'[d] = queue[d]
    BY <1>1, SettledType DEF HandTypeOK
  <2>2. QED
    BY <1>2, <2>1, TallyFrame
<1>4. Tally(c, e)' = Queued(c, e)' /\ Queued(c, e) \in Nat
  <2>1. queue'[c] \in Seq(Emails) /\ queue[c] \in Seq(Emails)
    BY <1>1, SettledType DEF HandTypeOK
  <2>2. Queued(c, e)' \in Nat /\ Queued(c, e) \in Nat
    BY <2>1, CountType DEF Queued
  <2>3. QED
    BY <1>1, <2>2 DEF Tally, Owed, Done, One
<1>5. CASE queue' = Settled(c) /\ connected
  <2>1. queue[c] \in Seq(Emails) /\ queue[c] # <<>> /\ Head(queue[c]) = work[c] /\ queue'[c] = Tail(queue[c])
    BY <1>1, <1>5 DEF HandTypeOK, InHand, Settled
  <2>2. Tail(queue[c]) \in Seq(Emails)
    BY <2>1
  <2>3. Count(queue[c], e) = Count(Tail(queue[c]), e) + (IF e = Head(queue[c]) THEN 1 ELSE 0)
    BY <2>1, CountTail
  <2>4. Queued(c, e) = Queued(c, e)' + One(e = work[c]) /\ Queued(c, e)' \in Nat
    BY <2>1, <2>2, <2>3, CountType DEF Queued, One
  <2>5. QED
    BY <1>1, <1>3, <1>4, <1>5, <2>4 DEF Tally, Owed, Done, One
<1>6. CASE queue' = queue
  <2>1. Queued(c, e)' = Queued(c, e)
    BY <1>6 DEF Queued
  <2>2. CASE connected
    <3>1. CASE pc[c] \in Begun
      <4>1. Tally(c, e)' = Tally(c, e)
        BY <1>1, <1>4, <2>1, <2>2, <3>1 DEF Tally, Owed, Done, One
      <4>2. QED
        BY <1>3, <1>4, <1>5, <2>1, <2>2, <4>1, TallyType
    <3>2. CASE queue' = Settled(c)
      BY <1>5, <2>2, <3>2
    <3>3. QED
      BY <3>1, <3>2
  <2>3. CASE ~connected
    BY <1>1, <1>3, <1>4, <2>1, <2>3 DEF Tally, Owed, Done, One
  <2>4. QED
    BY <2>2, <2>3
<1>7. QED
  BY <1>5, <1>6 DEF Settled

\* An email published to a queue.
LEMMA TallyPublishes ==
  ASSUME HandInv, NEW c \in Consumers, NEW f \in Emails, NEW e,
         queue'[c] = Append(queue[c], f), work'[c] = work[c], pc'[c] = pc[c], connected' = connected
  PROVE  Tally(c, e)' = Tally(c, e) + One(e = f) /\ Queued(c, e)' = Queued(c, e) + One(e = f)
<1>1. queue[c] \in Seq(Emails) /\ Append(queue[c], f) \in Seq(Emails)
  BY AppendProperties DEF HandInv, HandTypeOK
<1>2. Count(Append(queue[c], f), e) = Count(queue[c], e) + (IF e = f THEN 1 ELSE 0)
  BY <1>1, CountAppend
<1>3. Queued(c, e)' = Queued(c, e) + One(e = f) /\ Queued(c, e) \in Nat
  BY <1>1, <1>2, CountType DEF Queued, One
<1>4. QED
  BY <1>3 DEF Tally, Owed, Done, One

\* The connection breaks, or the process dies: what is in a hand is delivered again.
LEMMA TallyTakenBack ==
  ASSUME HandInv, NEW c \in Consumers, NEW e \in Emails,
         \/ connected' = FALSE /\ pc'[c] = pc[c] /\ work'[c] = work[c] /\ connected
         \/ pc'[c] = "idle" /\ work'[c] = NoMail,
         \/ queue'[c] = queue[c]
         \/ queue'[c] = <<>>
  PROVE  Tally(c, e)' <= Tally(c, e) + One(connected /\ work[c] = e)
<1> HandTypeOK /\ InHand
  BY DEF HandInv
<1>1. Queued(c, e)' <= Queued(c, e) /\ Queued(c, e)' \in Nat /\ Queued(c, e) \in Nat
  <2>1. Count(<<>>, e) = 0
    BY CountEmpty
  <2>2. Count(queue[c], e) \in Nat
    BY CountType DEF HandTypeOK
  <2>3. QED
    BY <2>1, <2>2 DEF Queued
<1>2. "idle" \notin Begun \cup Acted /\ Begun \cap Acted = {}
  BY DEF Begun, Acted
<1>3. work[c] = e => pc[c] \in Begun \cup Acted
  <2>1. pc[c] \in (Begun \cup Acted) \/ pc[c] = "idle"
    BY DEF HandTypeOK, Begun, Acted
  <2>2. QED
    BY <2>1, EmailsAssumption DEF InHand
<1>4. QED
  BY <1>1, <1>2, <1>3 DEF Tally, Owed, Done, One

------------------------------------------------------------------------------
(* Every duplicate is paid for.                                              *)

\* What became of an email, and what may still, against what RabbitMQ took back of it.
Stock(q, e) == rows[q][e] + Tally(q, e)
Debt(e) ==
  delivered[e] + Tally("ingest", e) + Stock("quarantine", e) + Stock("blocked", e)
    + One(e \notin submitted) - repeats[e]
PaidFor == \A e \in Emails : Debt(e) <= 1

LEMMA StoreNames == "quarantine" \in Stores /\ "blocked" \in Stores /\ Stores = {"quarantine", "blocked"}
BY DEF Stores

LEMMA DebtType ==
  ASSUME Inv, NEW e \in Emails
  PROVE  /\ delivered[e] \in Int /\ repeats[e] \in Int /\ One(e \notin submitted) \in {0, 1}
         /\ Tally("ingest", e) \in Int
         /\ \A q \in Stores : Tally(q, e) \in Int /\ rows[q][e] \in Int /\ Stock(q, e) \in Int
         /\ Debt(e) \in Int
<1> HandInv /\ OutcomeTypeOK /\ FaultTypeOK
  BY TypeParts DEF Inv, HandInv
<1>1. delivered[e] \in Int /\ repeats[e] \in Int /\ One(e \notin submitted) \in {0, 1}
      /\ \A q \in Stores : rows[q][e] \in Int
  BY DEF OutcomeTypeOK, FaultTypeOK, One
<1>2. Tally("ingest", e) \in Int /\ \A q \in Stores : Tally(q, e) \in Int
  BY TallyType, ConsumersType
<1>3. \A q \in Stores : Stock(q, e) \in Int
  BY <1>1, <1>2 DEF Stock
<1>4. QED
  BY <1>1, <1>2, <1>3, StoreNames DEF Debt

LEMMA TallyTypeNext ==
  ASSUME Inv', NEW c \in Consumers, NEW e
  PROVE  Tally(c, e)' \in Int
<1>1. queue'[c] \in Seq(Emails)
  BY DEF Inv, TypeOK
<1>2. Queued(c, e)' \in Nat
  BY <1>1, CountType DEF Queued
<1>3. QED
  BY <1>2 DEF Owed, Done, Tally, One

LEMMA DebtTypeNext ==
  ASSUME Inv', NEW e \in Emails
  PROVE  Debt(e)' \in Int
<1>1. /\ delivered'[e] \in Int /\ repeats'[e] \in Int /\ One(e \notin submitted') \in {0, 1}
      /\ \A q \in Stores : rows'[q][e] \in Int
  BY DEF Inv, TypeOK, One
<1>2. Tally("ingest", e)' \in Int /\ \A q \in Stores : Tally(q, e)' \in Int
  BY TallyTypeNext, ConsumersType
<1>3. \A q \in Stores : Stock(q, e)' \in Int
  BY <1>1, <1>2 DEF Stock
<1>4. QED
  BY <1>1, <1>2, <1>3, StoreNames DEF Debt

\* The storage workers insert and acknowledge, no more.
Workers == \A q \in Stores : pc[q] \in {"idle", "insert", "ack"}

LEMMA WorkersStay ==
  ASSUME Inv, Workers, [Next]_vars
  PROVE  Workers'
<1> HandTypeOK
  BY TypeParts DEF Inv
<1> "ingest" \notin Stores /\ "ingest" \in Consumers /\ Stores \subseteq Consumers
  BY DEF Stores, Consumers
<1>1. CASE pc' = pc \/ AllIdle \/ \E l : Goto("ingest", l)
  BY <1>1 DEF Workers, AllIdle, Goto, HandTypeOK
<1>2. ASSUME NEW c \in Consumers, \E l \in {"idle", "ack"} : Goto(c, l)
      PROVE  Workers'
  BY <1>2 DEF Workers, Goto, HandTypeOK
<1>3. ASSUME NEW c \in Consumers, Receive(c)
      PROVE  Workers'
  BY <1>3 DEF Workers, Receive, Goto, HandTypeOK
<1>4. ASSUME NEW c \in Consumers, Ack(c)
      PROVE  Workers'
  BY <1>2, <1>4 DEF Ack, LetGo
<1>5. ASSUME NEW q \in Stores, InsertQuarantine(q) \/ InsertQuarantineFails(q)
      PROVE  Workers'
  BY <1>2, <1>5 DEF InsertQuarantine, InsertQuarantineFails, LetGo
<1>6. CASE ProcessEmail
  BY <1>1, <1>6 DEF ProcessEmail, RunLoop, SendToMailService, Publish, RouteNowhere, InsertAuditLog,
     InsertEmailHistory, Discard, LetGo
<1>7. QED
  BY <1>1, <1>3, <1>4, <1>5, <1>6
  DEF Next, Submit, Crash, LoseConnection, Exit, vars, handVars

\* A step in which nothing is delivered or stored does not deepen the debt, if no tally grows.
LEMMA DebtFrame ==
  ASSUME Inv, Inv', NEW e \in Emails,
         UNCHANGED <<submitted, delivered, rows, repeats>>,
         \A c \in Consumers : Tally(c, e)' <= Tally(c, e)
  PROVE  Debt(e)' <= Debt(e)
<1>1. \A c \in Consumers : Tally(c, e)' \in Int
  BY TallyTypeNext
<1>2. \A q \in Stores : Stock(q, e)' <= Stock(q, e) /\ Stock(q, e)' \in Int
  BY <1>1, DebtType, ConsumersType DEF Stock
<1>3. QED
  BY <1>1, <1>2, DebtType, StoreNames, ConsumersType DEF Debt

LEMMA DebtProcessEmail ==
  ASSUME Inv, Inv', ProcessEmail, NEW e \in Emails
  PROVE  Debt(e)' <= Debt(e)
<1> HandInv /\ HandTypeOK /\ InHand /\ OutcomeTypeOK
  BY TypeParts DEF Inv, HandInv
<1> USE ConsumersType
<1>1. pc["ingest"] \in {"analyse", "route", "audit", "history"} /\ work["ingest"] \in Emails
  BY DEF ProcessEmail, RunLoop, SendToMailService, Publish, RouteNowhere, InsertAuditLog,
         InsertEmailHistory, InHand
<1>2. pc["ingest"] \in Begun \cup Acted
  BY <1>1 DEF Begun, Acted
<1>3. UNCHANGED <<submitted, rows>>
  BY DEF ProcessEmail, RunLoop, SendToMailService, Publish, RouteNowhere, InsertAuditLog,
         InsertEmailHistory, outcomeVars
<1>4. \A c \in Consumers : Tally(c, e) \in Int /\ Tally(c, e)' \in Int
  BY TallyTypeNext, TallyType
<1>5. One(work["ingest"] = e) \in {0, 1}
  BY DEF One
<1>6. CASE Discard
  <2>1. /\ Tally("ingest", e)' = Tally("ingest", e) - One(work["ingest"] = e /\ pc["ingest"] \in Begun)
        /\ \A d \in Consumers \ {"ingest"} : Tally(d, e)' = Tally(d, e)
    BY <1>2, <1>6, TallyLetsGo DEF Discard
  <2>2. repeats' = repeats
    BY <1>6 DEF Discard
  <2>3. CASE delivered' = delivered
    <3>1. One(work["ingest"] = e /\ pc["ingest"] \in Begun) \in {0, 1}
      BY DEF One
    <3>2. Tally("ingest", e)' <= Tally("ingest", e)
      BY <1>4, <2>1, <3>1
    <3>3. \A c \in Consumers : Tally(c, e)' <= Tally(c, e)
      BY <1>4, <2>1, <3>2
    <3>4. QED
      BY <1>3, <2>2, <2>3, <3>3, DebtFrame
  <2>4. CASE SendToMailService
    <3>1. delivered'[e] \in {delivered[e], delivered[e] + One(work["ingest"] = e)}
      BY <1>1, <2>4 DEF SendToMailService, OutcomeTypeOK, One
    <3>2. One(work["ingest"] = e /\ pc["ingest"] \in Begun) = One(work["ingest"] = e)
      BY <2>4 DEF SendToMailService, Begun
    <3>3. delivered'[e] + Tally("ingest", e)' <= delivered[e] + Tally("ingest", e) /\ delivered'[e] \in Int
      BY <1>4, <1>5, <2>1, <3>1, <3>2, DebtType
    <3>4. \A q \in Stores : Stock(q, e)' = Stock(q, e)
      BY <1>3, <2>1 DEF Stock, Stores
    <3>5. QED
      BY <1>3, <1>4, <2>2, <3>3, <3>4, DebtType, StoreNames DEF Debt
  <2>5. QED
    BY <1>6, <2>3, <2>4 DEF ProcessEmail, RunLoop, Publish, RouteNowhere, InsertAuditLog,
       InsertEmailHistory, outcomeVars
<1>7. CASE ~Discard
  <2>1. UNCHANGED <<connected, work, repeats>> /\ \A c \in Stores : pc'[c] = pc[c]
    BY <1>7 DEF ProcessEmail, RunLoop, SendToMailService, Publish, RouteNowhere, InsertAuditLog,
       InsertEmailHistory, brokerVars, faultVars, Goto, HandTypeOK, Stores
  <2>2. ASSUME queue' = queue
        PROVE  \A q \in Stores : Tally(q, e)' = Tally(q, e)
    BY <2>1, <2>2, TallyFrame
  <2>3. ASSUME queue' = queue, UNCHANGED delivered, Tally("ingest", e)' <= Tally("ingest", e)
        PROVE  Debt(e)' <= Debt(e)
    <3>1. \A c \in Consumers : Tally(c, e)' <= Tally(c, e)
      BY <1>4, <2>2, <2>3 DEF Consumers
    <3>2. QED
      BY <1>3, <2>1, <2>3, <3>1, DebtFrame
  <2>4. CASE RunLoop \/ InsertAuditLog \/ InsertEmailHistory
    <3>1. queue' = queue /\ UNCHANGED delivered
      BY <1>7, <2>4 DEF RunLoop, InsertAuditLog, InsertEmailHistory, brokerVars, outcomeVars
    <3>2. \/ pc["ingest"] \in Begun /\ pc'["ingest"] \in Begun
          \/ pc["ingest"] \in Acted /\ pc'["ingest"] \in Acted
      BY <1>7, <2>4 DEF RunLoop, InsertAuditLog, InsertEmailHistory, Goto, HandTypeOK, Begun, Acted
    <3>3. Tally("ingest", e)' = Tally("ingest", e)
      BY <2>1, <3>1, <3>2, TallyFrame
    <3>4. QED
      BY <1>4, <2>3, <3>1, <3>3
  <2>5. CASE SendToMailService \/ RouteNowhere \/ \E q \in Stores : Publish(q)
    <3>1. pc["ingest"] \in Begun /\ pc'["ingest"] \in Acted
      BY <1>7, <2>5 DEF SendToMailService, RouteNowhere, Publish, Goto, HandTypeOK, Begun, Acted
    <3>2. queue'["ingest"] = queue["ingest"]
      BY <1>7, <2>5 DEF SendToMailService, RouteNowhere, Publish, Stores, HandTypeOK, brokerVars
    <3>3. Tally("ingest", e)' = Tally("ingest", e) - One(work["ingest"] = e)
      BY <2>1, <3>1, <3>2, TallyActs
    <3>4. CASE RouteNowhere
      <4>1. queue' = queue /\ UNCHANGED delivered
        BY <3>4 DEF RouteNowhere, brokerVars, outcomeVars
      <4>2. QED
        BY <1>4, <1>5, <2>3, <3>3, <4>1
    <3>5. CASE SendToMailService
      <4>1. queue' = queue /\ delivered'[e] = delivered[e] + One(work["ingest"] = e)
        BY <1>1, <1>7, <3>5 DEF SendToMailService, OutcomeTypeOK, One, brokerVars
      <4>2. \A q \in Stores : Stock(q, e)' = Stock(q, e)
        BY <1>3, <2>2, <4>1 DEF Stock
      <4>3. delivered'[e] + Tally("ingest", e)' = delivered[e] + Tally("ingest", e) /\ delivered'[e] \in Int
        BY <1>4, <1>5, <3>3, <4>1, DebtType
      <4>4. QED
        BY <1>3, <1>4, <2>1, <4>2, <4>3, DebtType, StoreNames DEF Debt
    <3>6. ASSUME NEW q \in Stores, Publish(q)
          PROVE  Debt(e)' <= Debt(e)
      <4>1. /\ \A r \in Stores : queue'[r] = IF r = q THEN Append(queue[r], work["ingest"]) ELSE queue[r]
            /\ UNCHANGED delivered
        BY <1>7, <3>6 DEF Publish, HandTypeOK, outcomeVars
      <4>2. Tally(q, e)' = Tally(q, e) + One(e = work["ingest"])
        <5>1. /\ queue'[q] = Append(queue[q], work["ingest"]) /\ work'[q] = work[q]
              /\ pc'[q] = pc[q] /\ connected' = connected /\ q \in Consumers
          BY <2>1, <4>1
        <5>2. QED
          BY <1>1, <5>1, TallyPublishes
      <4>3. ASSUME NEW r \in Stores \ {q}
            PROVE  Tally(r, e)' = Tally(r, e)
        BY <2>1, <4>1, TallyFrame
      <4>4. Stock(q, e)' = Stock(q, e) + One(work["ingest"] = e)
        BY <1>3, <1>4, <1>5, <4>2, DebtType DEF Stock, One
      <4>5. \A r \in Stores \ {q} : Stock(r, e)' = Stock(r, e)
        BY <1>3, <4>3 DEF Stock
      <4>6. Tally("ingest", e)' + Stock("quarantine", e)' + Stock("blocked", e)'
              = Tally("ingest", e) + Stock("quarantine", e) + Stock("blocked", e)
        <5>1. CASE q = "quarantine"
          BY <1>4, <1>5, <3>3, <4>4, <4>5, <5>1, DebtType, StoreNames
        <5>2. CASE q = "blocked"
          BY <1>4, <1>5, <3>3, <4>4, <4>5, <5>2, DebtType, StoreNames
        <5>3. QED
          BY <5>1, <5>2, StoreNames
      <4>7. \A r \in Stores : Stock(r, e)' \in Int
        BY <1>5, <4>4, <4>5, DebtType
      <4>8. QED
        BY <1>3, <1>4, <2>1, <4>1, <4>6, <4>7, DebtType, StoreNames DEF Debt
    <3>7. QED
      BY <2>5, <3>4, <3>5, <3>6
  <2>6. QED
    BY <2>4, <2>5 DEF ProcessEmail
<1>8. QED
  BY <1>6, <1>7

LEMMA DebtStorage ==
  ASSUME Inv, Inv', NEW q \in Stores, InsertQuarantine(q) \/ InsertQuarantineFails(q), NEW e \in Emails
  PROVE  Debt(e)' <= Debt(e)
<1> HandInv /\ HandTypeOK /\ InHand /\ OutcomeTypeOK /\ FaultTypeOK
  BY TypeParts DEF Inv, HandInv
<1> USE ConsumersType
<1> q \in Consumers /\ q # "ingest"
  BY DEF Stores
<1>1. pc[q] \in Begun /\ pc[q] = "insert" /\ work[q] \in Emails
  <2>1. pc[q] = "insert"
    BY DEF InsertQuarantine, InsertQuarantineFails
  <2>2. QED
    BY <2>1 DEF InHand, Begun
<1>2. UNCHANGED <<submitted, delivered>>
  BY DEF InsertQuarantine, InsertQuarantineFails
<1>3. \A c \in Consumers : Tally(c, e) \in Int /\ Tally(c, e)' \in Int
  BY TallyTypeNext, TallyType
<1>4. One(work[q] = e) \in {0, 1}
  BY DEF One
\* It is enough that the debt for this queue does not grow.
<1>5. SUFFICES /\ \A c \in Consumers \ {q} : Tally(c, e)' = Tally(c, e)
               /\ \A r \in Stores \ {q} : rows'[r][e] = rows[r][e]
               /\ rows'[q][e] \in Int /\ repeats'[e] \in Int
               /\ rows'[q][e] + Tally(q, e)' - repeats'[e] <= rows[q][e] + Tally(q, e) - repeats[e]
  <2>1. ASSUME \A c \in Consumers \ {q} : Tally(c, e)' = Tally(c, e),
               \A r \in Stores \ {q} : rows'[r][e] = rows[r][e],
               rows'[q][e] \in Int, repeats'[e] \in Int,
               rows'[q][e] + Tally(q, e)' - repeats'[e] <= rows[q][e] + Tally(q, e) - repeats[e]
        PROVE  Debt(e)' <= Debt(e)
    <3>1. \A r \in Stores \ {q} : Stock(r, e)' = Stock(r, e)
      BY <2>1 DEF Stock, Stores
    <3>2. Stock(q, e)' - repeats'[e] <= Stock(q, e) - repeats[e] /\ Stock(q, e)' \in Int
      BY <1>3, <2>1, DebtType DEF Stock
    <3>3. Tally("ingest", e)' = Tally("ingest", e)
      BY <2>1
    <3>4. Stock("quarantine", e)' + Stock("blocked", e)' - repeats'[e]
            <= Stock("quarantine", e) + Stock("blocked", e) - repeats[e]
      <4>1. CASE q = "quarantine"
        BY <2>1, <3>1, <3>2, <4>1, DebtType, StoreNames
      <4>2. CASE q = "blocked"
        BY <2>1, <3>1, <3>2, <4>2, DebtType, StoreNames
      <4>3. QED
        BY <4>1, <4>2, StoreNames
    <3>5. \A r \in Stores : Stock(r, e)' \in Int
      BY <3>1, <3>2, DebtType
    <3>6. QED
      BY <1>2, <2>1, <3>3, <3>4, <3>5, DebtType, StoreNames DEF Debt
  <2>2. QED
    BY <2>1
<1>6. CASE rows' = rows
  <2>1. InsertQuarantineFails(q) /\ repeats' = repeats /\ LetGo(q) /\ queue' = queue /\ connected' = connected
    <3>1. InsertQuarantine(q) => rows' # rows
      <4>1. ASSUME rows' = [rows EXCEPT ![q][work[q]] = @ + 1]
            PROVE  rows'[q][work[q]] = rows[q][work[q]] + 1 /\ rows[q][work[q]] \in Nat
        BY <1>1, <4>1 DEF OutcomeTypeOK
      <4>2. QED
        BY <4>1 DEF InsertQuarantine
    <3>2. ASSUME rows' = [rows EXCEPT ![q][work[q]] = @ + 1]
          PROVE  FALSE
      <4>1. rows'[q][work[q]] = rows[q][work[q]] + 1 /\ rows[q][work[q]] \in Nat
        BY <1>1, <3>2 DEF OutcomeTypeOK
      <4>2. QED
        BY <1>6, <4>1
    <3>3. QED
      BY <3>1, <3>2, <1>6 DEF InsertQuarantineFails, Requeued
  <2>2. Tally(q, e)' <= Tally(q, e) /\ \A d \in Consumers \ {q} : Tally(d, e)' = Tally(d, e)
    BY <1>1, <2>1, TallyLetsGo
  <2>3. QED
    BY <1>3, <1>6, <2>1, <2>2, DebtType
<1>7. CASE rows' = [rows EXCEPT ![q][work[q]] = @ + 1]
  <2>1. /\ rows'[q][e] = rows[q][e] + One(work[q] = e) /\ rows[q][e] \in Nat
        /\ \A r \in Stores \ {q} : rows'[r][e] = rows[r][e]
    BY <1>1, <1>7 DEF OutcomeTypeOK, One
  <2>2. CASE InsertQuarantine(q)
    <3>1. /\ UNCHANGED <<queue, connected, work, repeats>>
          /\ pc'[q] \in Acted /\ \A c \in Consumers \ {q} : pc'[c] = pc[c]
      BY <2>2 DEF InsertQuarantine, brokerVars, faultVars, Goto, HandTypeOK, Acted
    <3>2. Tally(q, e)' = Tally(q, e) - One(work[q] = e)
      BY <1>1, <3>1, TallyActs
    <3>3. \A c \in Consumers \ {q} : Tally(c, e)' = Tally(c, e)
      BY <3>1, TallyFrame
    <3>4. rows'[q][e] \in Int /\ repeats'[e] \in Int /\ repeats'[e] = repeats[e]
      BY <1>4, <2>1, <3>1, DebtType
    <3>5. QED
      BY <1>3, <1>4, <2>1, <3>2, <3>3, <3>4, DebtType
  <2>3. CASE InsertQuarantineFails(q)
    <3>1. CASE UNCHANGED <<rows, faults, repeats>>
      <4>1. LetGo(q) /\ queue' = queue /\ connected' = connected
        BY <2>3 DEF InsertQuarantineFails, Requeued
      <4>2. Tally(q, e)' <= Tally(q, e) /\ \A d \in Consumers \ {q} : Tally(d, e)' = Tally(d, e)
        BY <1>1, <4>1, TallyLetsGo
      <4>3. QED
        BY <1>3, <3>1, <4>2, DebtType
    <3>2. CASE repeats' = [repeats EXCEPT ![work[q]] = @ + 1]
      <4>1. LetGo(q) /\ queue' = queue /\ connected' = connected
        BY <2>3 DEF InsertQuarantineFails, Requeued
      <4>2. Tally(q, e)' <= Tally(q, e) /\ \A d \in Consumers \ {q} : Tally(d, e)' = Tally(d, e)
        BY <1>1, <4>1, TallyLetsGo
      <4>3. repeats'[e] = repeats[e] + One(work[q] = e) /\ repeats'[e] \in Int /\ rows'[q][e] \in Int
        BY <1>1, <2>1, <3>2 DEF FaultTypeOK, One
      <4>4. QED
        BY <1>3, <1>4, <2>1, <4>2, <4>3, DebtType
    <3>3. QED
      BY <2>3, <3>1, <3>2 DEF InsertQuarantineFails
  <2>4. QED
    BY <2>2, <2>3
<1>8. QED
  BY <1>6, <1>7 DEF InsertQuarantine, InsertQuarantineFails

\* What RabbitMQ takes back is in the hands of the consumers.
LEMMA DebtTakenBack ==
  ASSUME Inv, Inv', Crash \/ LoseConnection \/ Exit, NEW e \in Emails
  PROVE  Debt(e)' <= Debt(e)
<1> HandInv /\ HandTypeOK /\ InHand /\ OutcomeTypeOK /\ FaultTypeOK
  BY TypeParts DEF Inv, HandInv
<1> USE ConsumersType, StoreNames
<1>1. UNCHANGED <<submitted, delivered, rows>>
  BY DEF Crash, LoseConnection, Exit, outcomeVars
<1>2. \A c \in Consumers : Tally(c, e) \in Int /\ Tally(c, e)' \in Int
  BY TallyTypeNext, TallyType
<1>3. ASSUME NEW c \in Consumers
      PROVE  Tally(c, e)' <= Tally(c, e) + One(connected /\ work[c] = e)
  <2>1. \/ connected' = FALSE /\ pc'[c] = pc[c] /\ work'[c] = work[c] /\ connected
        \/ pc'[c] = "idle" /\ work'[c] = NoMail
    BY DEF Crash, LoseConnection, Exit, AllIdle, handVars
  <2>2. queue'[c] = queue[c] \/ queue'[c] = <<>>
    BY DEF Crash, LoseConnection, Exit, HandTypeOK
  <2>3. QED
    BY <2>1, <2>2, TallyTakenBack
<1>4. CASE Exit \/ ~connected
  <2>1. \A c \in Consumers : One(connected /\ work[c] = e) = 0
    BY <1>4 DEF One, Exit
  <2>2. \A c \in Consumers : Tally(c, e)' <= Tally(c, e)
    BY <1>2, <1>3, <2>1
  <2>3. repeats'[e] = repeats[e]
    <3>1. ASSUME ~connected, repeats' = TakenBack
          PROVE  repeats'[e] = repeats[e]
      <4>1. repeats[e] \in Nat /\ repeats[e] + 0 = repeats[e]
        BY DEF FaultTypeOK
      <4>2. QED
        BY <3>1, <4>1 DEF TakenBack
    <3>2. QED
      BY <1>4, <3>1 DEF Exit, faultVars, Crash, LoseConnection
  <2>4. \A q \in Stores : Stock(q, e)' <= Stock(q, e) /\ Stock(q, e)' \in Int
    BY <1>1, <1>2, <2>2, DebtType, ConsumersType DEF Stock
  <2>5. QED
    BY <1>1, <1>2, <2>2, <2>3, <2>4, DebtType DEF Debt
<1>5. CASE ~Exit /\ connected
  <2>1. PICK X : X = {c \in Consumers : work[c] = e}
    OBVIOUS
  <2>2. Cardinality(X) = One("ingest" \in X) + One("quarantine" \in X) + One("blocked" \in X)
    BY <2>1, ConsumersSum
  <2>3. repeats'[e] = repeats[e] + Cardinality(X)
    BY <1>5, <2>1 DEF Crash, LoseConnection, TakenBack
  <2>4. \A c \in Consumers : One(connected /\ work[c] = e) = One(c \in X) /\ One(c \in X) \in {0, 1}
    BY <1>5, <2>1 DEF One
  <2>5. \A c \in Consumers : Tally(c, e)' <= Tally(c, e) + One(c \in X)
    BY <1>3, <2>4
  <2>6. \A q \in Stores : Stock(q, e)' <= Stock(q, e) + One(q \in X) /\ Stock(q, e)' \in Int
    BY <1>1, <1>2, <2>4, <2>5, DebtType DEF Stock
  <2>7. repeats'[e] = repeats[e] + (One("ingest" \in X) + One("quarantine" \in X) + One("blocked" \in X))
    BY <2>2, <2>3
  <2>8. /\ Tally("ingest", e)' <= Tally("ingest", e) + One("ingest" \in X)
        /\ Stock("quarantine", e)' <= Stock("quarantine", e) + One("quarantine" \in X)
        /\ Stock("blocked", e)' <= Stock("blocked", e) + One("blocked" \in X)
    BY <2>5, <2>6
  <2>9. QED
    BY <1>1, <1>2, <2>4, <2>6, <2>7, <2>8, DebtType DEF Debt
<1>6. QED
  BY <1>4, <1>5

LEMMA DebtNext ==
  ASSUME Inv, Inv', Next, NEW e \in Emails
  PROVE  Debt(e)' <= Debt(e)
<1> HandInv /\ HandTypeOK /\ InHand /\ OutcomeTypeOK /\ FaultTypeOK
  BY TypeParts DEF Inv, HandInv
<1> USE ConsumersType
<1>1. \A c \in Consumers : Tally(c, e) \in Int /\ Tally(c, e)' \in Int
  BY TallyTypeNext, TallyType
<1>2. ASSUME NEW f \in Emails, Submit(f)
      PROVE  Debt(e)' <= Debt(e)
  <2>1. /\ UNCHANGED <<connected, pc, work, delivered, rows, repeats>>
        /\ \A c \in Consumers : queue'[c] = IF c = "ingest" THEN Append(queue[c], f) ELSE queue[c]
    BY <1>2 DEF Submit, handVars, outcomeVars, faultVars, HandTypeOK
  <2>2. Tally("ingest", e)' = Tally("ingest", e) + One(e = f)
    <3>1. /\ queue'["ingest"] = Append(queue["ingest"], f) /\ work'["ingest"] = work["ingest"]
          /\ pc'["ingest"] = pc["ingest"] /\ connected' = connected
      BY <2>1
    <3>2. QED
      BY <1>2, <3>1, TallyPublishes
  <2>3. One(e \notin submitted') + One(e = f) = One(e \notin submitted) /\ One(e \notin submitted') \in Int
        /\ One(e = f) \in Int
    BY <1>2 DEF Submit, One
  <2>4. ASSUME NEW q \in Stores
        PROVE  Stock(q, e)' = Stock(q, e)
    <3>1. q \in Consumers /\ q # "ingest"
      BY DEF Stores
    <3>2. Tally(q, e)' = Tally(q, e)
      BY <2>1, <3>1, TallyFrame
    <3>3. QED
      BY <2>1, <3>2 DEF Stock
  <2>5. QED
    BY <1>1, <2>1, <2>2, <2>3, <2>4, DebtType, StoreNames DEF Debt
<1>3. ASSUME NEW c \in Consumers, Receive(c)
      PROVE  Debt(e)' <= Debt(e)
  <2>1. /\ UNCHANGED <<queue, connected, submitted, delivered, rows, repeats>> /\ connected
        /\ \A d \in Consumers \ {c} : pc'[d] = pc[d] /\ work'[d] = work[d]
        /\ pc[c] = "idle" /\ pc'[c] \in Begun
    BY <1>3 DEF Receive, brokerVars, outcomeVars, faultVars, Goto, HandTypeOK, Begun
  <2>2. \A d \in Consumers \ {c} : Tally(d, e)' = Tally(d, e)
    BY <2>1, TallyFrame
  <2>3. Tally(c, e)' = Tally(c, e)
    <3>1. pc'[c] \notin Acted /\ pc[c] \notin Acted
      BY <2>1 DEF Begun, Acted
    <3>2. QED
      BY <2>1, <3>1 DEF Tally, Queued, Owed, Done
  <2>4. \A d \in Consumers : Tally(d, e)' <= Tally(d, e)
    BY <1>1, <2>2, <2>3
  <2>5. QED
    BY <2>1, <2>4, DebtFrame
<1>4. ASSUME NEW c \in Consumers, Ack(c)
      PROVE  Debt(e)' <= Debt(e)
  <2>1. /\ pc[c] \in Begun \cup Acted /\ LetGo(c) /\ queue' = Settled(c) /\ connected' = connected
        /\ UNCHANGED <<submitted, delivered, rows, repeats>>
    BY <1>4 DEF Ack, Acted, outcomeVars, faultVars
  <2>2. Tally(c, e)' <= Tally(c, e) /\ \A d \in Consumers \ {c} : Tally(d, e)' = Tally(d, e)
    BY <2>1, TallyLetsGo
  <2>3. \A d \in Consumers : Tally(d, e)' <= Tally(d, e)
    BY <1>1, <2>2
  <2>4. QED
    BY <2>1, <2>3, DebtFrame
<1>5. QED
  BY <1>2, <1>3, <1>4, DebtProcessEmail, DebtStorage, DebtTakenBack DEF Next

\* The debt of an email pays for all that has become of it.
LEMMA PaidIsPaid ==
  ASSUME Inv, Workers, PaidFor
  PROVE  DuplicatesArePaid
<1> HandInv /\ HandTypeOK /\ InHand /\ OutcomeTypeOK
  BY TypeParts DEF Inv, HandInv
<1> USE ConsumersType, StoreNames
<1> SUFFICES ASSUME NEW e \in Emails
             PROVE  delivered[e] + Copies("quarantine", e) + Copies("blocked", e)
                      <= 1 + repeats[e] + Cardinality({q \in Stores : StoredUnacked(q, e)})
  BY DEF DuplicatesArePaid
<1>1. PICK X : X = {q \in Stores : StoredUnacked(q, e)}
  OBVIOUS
<1>2. Cardinality(X) = One("quarantine" \in X) + One("blocked" \in X)
  BY <1>1, StoresSum
<1>3. ASSUME NEW q \in Stores
      PROVE  Copies(q, e) <= Stock(q, e) + One(q \in X) /\ Copies(q, e) \in Int /\ One(q \in X) \in Int
  <2>1. Copies(q, e) = Queued(q, e) + rows[q][e]
    BY DEF Copies, Queued, Count
  <2>2. q \in Consumers
    OBVIOUS
  <2>3. Queued(q, e) \in Nat /\ Owed(q, e) \in {0, 1} /\ Done(q, e) \in {0, 1} /\ rows[q][e] \in Int
    BY <2>2, TallyType, DebtType
  <2>4. Done(q, e) <= One(q \in X) /\ One(q \in X) \in {0, 1}
    <3>1. pc[q] \in {"idle", "insert", "ack"}
      BY DEF Workers
    <3>2. QED
      BY <1>1, <3>1 DEF Done, One, StoredUnacked, Acted
  <2>5. QED
    BY <2>1, <2>3, <2>4 DEF Stock, Tally
<1>4. Tally("ingest", e) >= 0
  <2>1. /\ Queued("ingest", e) \in Nat /\ Owed("ingest", e) \in {0, 1} /\ Done("ingest", e) \in {0, 1}
    BY TallyType
  <2>2. ASSUME Done("ingest", e) = 1
        PROVE  Queued("ingest", e) > 0
    <3>1. connected /\ work["ingest"] = e /\ pc["ingest"] # "idle"
      BY <2>2 DEF Done, One, Acted
    <3>2. queue["ingest"] \in Seq(Emails) /\ queue["ingest"] # <<>> /\ Head(queue["ingest"]) = e
      BY <3>1 DEF InHand, HandTypeOK
    <3>3. QED
      BY <3>2, CountTail DEF Queued
  <2>3. QED
    BY <2>1, <2>2 DEF Tally
<1>5. /\ delivered[e] \in Int /\ repeats[e] \in Int /\ One(e \notin submitted) \in {0, 1}
      /\ Tally("ingest", e) \in Int /\ Debt(e) <= 1
      /\ Stock("quarantine", e) \in Int /\ Stock("blocked", e) \in Int
  BY DebtType DEF PaidFor
<1>6. delivered[e] + Stock("quarantine", e) + Stock("blocked", e) <= 1 + repeats[e]
  BY <1>4, <1>5 DEF Debt
<1>7. delivered[e] + Copies("quarantine", e) + Copies("blocked", e) <= 1 + repeats[e] + Cardinality(X)
  BY <1>2, <1>3, <1>5, <1>6
<1>8. QED
  BY <1>1, <1>7

\* An email is delivered, queued for review and stored once in all, and once more for each
\* delivery of it that RabbitMQ took back or a worker requeued though its INSERT committed.
THEOREM DuplicatesPaid == Spec => []DuplicatesArePaid
<1>1. Init => Workers /\ PaidFor
  <2> SUFFICES ASSUME Init PROVE Workers /\ PaidFor
    OBVIOUS
  <2> USE ConsumersType, StoreNames
  <2>1. ASSUME NEW c \in Consumers, NEW e \in Emails
        PROVE  Tally(c, e) = 0
    <3>1. queue[c] = <<>> /\ pc[c] = "idle"
      BY DEF Init
    <3>2. Queued(c, e) = 0
      BY <3>1, CountEmpty DEF Queued
    <3>3. QED
      BY <3>1, <3>2 DEF Tally, Owed, Done, One, Begun, Acted
  <2>2. ASSUME NEW e \in Emails
        PROVE  Debt(e) = 1
    <3>1. Stock("quarantine", e) = 0 /\ Stock("blocked", e) = 0 /\ Tally("ingest", e) = 0
      BY <2>1 DEF Stock, Init
    <3>2. delivered[e] = 0 /\ repeats[e] = 0 /\ One(e \notin submitted) = 1
      BY DEF Init, One
    <3>3. QED
      BY <3>1, <3>2 DEF Debt
  <2>3. Workers
    BY DEF Init, Workers
  <2>4. QED
    BY <2>2, <2>3 DEF PaidFor
<1>2. Inv /\ Inv' /\ PaidFor /\ [Next]_vars => PaidFor'
  <2> SUFFICES ASSUME Inv, Inv', PaidFor, [Next]_vars, NEW e \in Emails
               PROVE  Debt(e)' <= 1
    BY DEF PaidFor
  <2>1. Debt(e) \in Int /\ Debt(e) <= 1
    BY DebtType DEF PaidFor
  <2>2. CASE UNCHANGED vars
    <3>1. Debt(e)' = Debt(e)
      BY <2>2 DEF vars, brokerVars, handVars, outcomeVars, faultVars, Debt, Stock, Tally, Queued,
                  Owed, Done
    <3>2. QED
      BY <2>1, <3>1
  <2>3. CASE Next
    <3>1. Debt(e)' <= Debt(e) /\ Debt(e)' \in Int
      BY <2>3, DebtNext, DebtTypeNext
    <3>2. QED
      BY <2>1, <3>1
  <2>4. QED
    BY <2>2, <2>3
<1>3. Inv /\ Workers /\ [Next]_vars => Workers'
  BY WorkersStay
<1>4. Inv /\ Workers /\ PaidFor => DuplicatesArePaid
  BY PaidIsPaid
<1>5. QED
  BY <1>1, <1>2, <1>3, <1>4, TypeCorrect, PTL DEF Spec, Inv

------------------------------------------------------------------------------
(* The audit log is truthful.                                                *)

\* What a store keeps of an email: its rows, and the messages still to be stored.
Kept(q, e) == rows[q][e] + Queued(q, e) - Done(q, e)

\* What the log says of an email, and is about to say.
Pending(e, a) == One(pc["ingest"] = "audit" /\ work["ingest"] = e /\ action = a)
Said(e, a) == audit[e][a] + Pending(e, a)
Truth ==
  \A e \in Emails :
    /\ Said(e, "delivered") + Said(e, "remediated_and_delivered") <= delivered[e]
    /\ Said(e, "quarantined") <= Kept("quarantine", e)
    /\ Said(e, "blocked") <= Kept("blocked", e)

\* The action processEmail logs is the one it took.
ActionTaken ==
  /\ pc["ingest"] = "route" => action = verdictAction(verdict)
  /\ pc["ingest"] = "audit" => /\ verdict # "OTHER" => action \in Actions
                               /\ verdict \in {"CLEAN", "LOW"} => action \in PrecedentActions(work["ingest"])

\* What is a precedent, or will be, is in the log as delivered or held although LOW.
Judged(e) == \E a \in PrecedentActions(e) : audit[e][a] > 0
Precedents ==
  /\ \A e \in precedents : Judged(e)
  /\ pc["ingest"] = "history" => Judged(work["ingest"])

LEMMA KeptType ==
  ASSUME Inv, NEW q \in Stores, NEW e \in Emails
  PROVE  /\ Queued(q, e) \in Nat /\ Done(q, e) \in {0, 1} /\ rows[q][e] \in Nat /\ Kept(q, e) \in Int
         /\ delivered[e] \in Nat /\ audit[e] \in [Actions -> Nat]
<1> HandInv /\ OutcomeTypeOK
  BY TypeParts DEF Inv, HandInv
<1>1. Queued(q, e) \in Nat /\ Done(q, e) \in {0, 1}
  BY TallyType, ConsumersType
<1>2. QED
  BY <1>1 DEF Kept, OutcomeTypeOK

\* What is published to a store is kept there: it leaves the queue when its row is there.
LEMMA KeptStays ==
  ASSUME Inv, Inv', Workers, Next, NEW q \in Stores, NEW e \in Emails
  PROVE  /\ Kept(q, e)' >= Kept(q, e) /\ Kept(q, e)' \in Int
         /\ Publish(q) /\ ~Discard => Kept(q, e)' = Kept(q, e) + One(e = work["ingest"])
<1> HandInv /\ HandTypeOK /\ InHand /\ OutcomeTypeOK
  BY TypeParts DEF Inv, HandInv
<1> q \in Consumers /\ q # "ingest" /\ "ingest" \in Consumers
  BY DEF Stores, Consumers
<1> DEFINE Goal == Kept(q, e)' >= Kept(q, e) /\ (Publish(q) /\ ~Discard => Kept(q, e)' = Kept(q, e) + One(e = work["ingest"]))
<1>1. /\ Queued(q, e) \in Nat /\ Done(q, e) \in {0, 1} /\ rows[q][e] \in Nat /\ Kept(q, e) \in Int
      /\ Kept(q, e)' \in Int
  <2>1. queue'[q] \in Seq(Emails) /\ rows'[q][e] \in Nat
    BY DEF Inv, TypeOK
  <2>2. Queued(q, e)' \in Nat
    BY <2>1, CountType DEF Queued
  <2>3. QED
    BY <2>1, <2>2, KeptType DEF Kept, Done, One
<1> SUFFICES Goal
  BY <1>1
<1> HIDE DEF Goal
<1>2. ASSUME ~Publish(q) \/ Discard, Kept(q, e)' >= Kept(q, e)
      PROVE  Goal
  BY <1>2 DEF Goal
<1>3. ASSUME queue'[q] = queue[q], rows'[q][e] = rows[q][e], ~Publish(q) \/ Discard,
             \/ connected' = connected /\ pc'[q] = pc[q] /\ work'[q] = work[q]
             \/ connected' = FALSE
             \/ pc'[q] \notin Acted
      PROVE  Goal
  <2>1. Queued(q, e)' = Queued(q, e)
    BY <1>3 DEF Queued
  <2>2. Done(q, e)' = Done(q, e) \/ Done(q, e)' = 0
    BY <1>3 DEF Done, One
  <2>3. QED
    BY <1>1, <1>2, <1>3, <2>1, <2>2 DEF Kept
<1>4. CASE InsertQuarantine(q) \/ InsertQuarantineFails(q)
  <2>1. pc[q] = "insert" /\ work[q] \in Emails /\ queue' = queue /\ connected' = connected
        /\ rows'[q][e] \in {rows[q][e], rows[q][e] + 1}
    BY <1>4 DEF InsertQuarantine, InsertQuarantineFails, Requeued, brokerVars, InHand, OutcomeTypeOK
  <2>2. ~Publish(q) \/ Discard
    <3>1. pc'["ingest"] = pc["ingest"]
      BY <1>4 DEF InsertQuarantine, InsertQuarantineFails, LetGo, Goto, HandTypeOK
    <3>2. QED
      BY <2>1, <3>1 DEF Publish, Goto, HandTypeOK
  <2>3. Queued(q, e)' = Queued(q, e) /\ Done(q, e) = 0
    BY <2>1 DEF Queued, Done, One, Acted
  <2>4. CASE InsertQuarantine(q)
    <3>1. rows'[q][e] = rows[q][e] + One(work[q] = e) /\ work' = work
      BY <2>1, <2>4 DEF InsertQuarantine, OutcomeTypeOK, One
    <3>2. Done(q, e)' = 0 \/ (Done(q, e)' = 1 /\ work[q] = e)
      BY <3>1 DEF Done, One
    <3>3. QED
      BY <1>1, <1>2, <2>2, <2>3, <3>1, <3>2 DEF Kept, One
  <2>5. CASE InsertQuarantineFails(q)
    <3>1. Done(q, e)' = 0
      BY <2>5 DEF InsertQuarantineFails, LetGo, Goto, HandTypeOK, Done, One, Acted
    <3>2. QED
      BY <1>1, <1>2, <2>1, <2>2, <2>3, <3>1 DEF Kept
  <2>6. QED
    BY <1>4, <2>4, <2>5
<1>5. CASE Ack(q)
  <2>1. /\ pc[q] = "ack" /\ LetGo(q) /\ queue' = Settled(q) /\ connected' = connected /\ rows' = rows
        /\ pc'["ingest"] = pc["ingest"]
    BY <1>5 DEF Ack, LetGo, Goto, outcomeVars, HandTypeOK
  <2>2. ~Publish(q) \/ Discard
    BY <2>1 DEF Publish, Goto, HandTypeOK
  <2>3. Tally(q, e)' = Tally(q, e)
    <3>1. pc[q] \in Acted /\ pc[q] \notin Begun
      BY <2>1 DEF Acted, Begun
    <3>2. Tally(q, e)' = Tally(q, e) - One(work[q] = e /\ pc[q] \in Begun)
      BY <2>1, <3>1, TallyLetsGo
    <3>3. QED
      BY <3>1, <3>2, TallyType DEF One
  <2>4. Owed(q, e) = 0 /\ Owed(q, e)' = 0
    BY <2>1 DEF Owed, One, LetGo, Goto, HandTypeOK, Begun
  <2>5. Queued(q, e)' - Done(q, e)' = Queued(q, e) - Done(q, e)
    <3>1. Queued(q, e)' \in Nat /\ Done(q, e)' \in {0, 1}
      <4>1. queue'[q] \in Seq(Emails)
        BY DEF Inv, TypeOK
      <4>2. QED
        BY <4>1, CountType DEF Queued, Done, One
    <3>2. QED
      BY <1>1, <2>3, <2>4, <3>1 DEF Tally
  <2>6. Kept(q, e)' = Kept(q, e)
    <3>1. Queued(q, e)' \in Nat /\ Done(q, e)' \in {0, 1}
      <4>1. queue'[q] \in Seq(Emails)
        BY DEF Inv, TypeOK
      <4>2. QED
        BY <4>1, CountType DEF Queued, Done, One
    <3>2. QED
      BY <1>1, <2>1, <2>5, <3>1 DEF Kept
  <2>7. QED
    BY <1>1, <1>2, <2>2, <2>6
<1>6. ASSUME NEW c \in Consumers \ {q}, Receive(c) \/ Ack(c)
      PROVE  Goal
  <2>1. /\ queue'[q] = queue[q] /\ rows'[q][e] = rows[q][e] /\ connected' = connected /\ pc'[q] = pc[q] /\ work'[q] = work[q]
        /\ pc'["ingest"] # "audit" \/ pc'["ingest"] = pc["ingest"]
    BY <1>6 DEF Receive, Ack, Settled, LetGo, Goto, HandTypeOK, outcomeVars, brokerVars
  <2>2. ~Publish(q) \/ Discard
    BY <2>1 DEF Publish, Goto, HandTypeOK
  <2>3. QED
    BY <1>3, <2>1, <2>2
<1>7. CASE Receive(q)
  <2>1. /\ queue'[q] = queue[q] /\ rows'[q][e] = rows[q][e] /\ pc'[q] \notin Acted /\ pc'["ingest"] = pc["ingest"]
    BY <1>7 DEF Receive, Goto, HandTypeOK, outcomeVars, brokerVars, Acted
  <2>2. ~Publish(q) \/ Discard
    BY <2>1 DEF Publish, Goto, HandTypeOK
  <2>3. QED
    BY <1>3, <2>1, <2>2
<1>8. ASSUME NEW r \in Stores \ {q}, InsertQuarantine(r) \/ InsertQuarantineFails(r)
      PROVE  Goal
  <2>1. r \in Consumers /\ r # "ingest"
    BY DEF Stores, Consumers
  <2>2. /\ queue'[q] = queue[q] /\ rows'[q] = rows[q] /\ connected' = connected /\ pc'[q] = pc[q]
        /\ work'[q] = work[q] /\ pc'["ingest"] = pc["ingest"]
    BY <1>8, <2>1 DEF InsertQuarantine, InsertQuarantineFails, Requeued, LetGo, Goto, HandTypeOK,
       brokerVars, OutcomeTypeOK
  <2>3. ~Publish(q) \/ Discard
    BY <2>2 DEF Publish, Goto, HandTypeOK
  <2>4. QED
    BY <1>3, <2>2, <2>3
<1>9. CASE Crash \/ Exit \/ LoseConnection \/ \E f \in Emails : Submit(f)
  <2>1. /\ queue'[q] = queue[q] /\ rows'[q][e] = rows[q][e] /\ pc'["ingest"] \in {"idle", pc["ingest"]}
        /\ \/ connected' = connected /\ pc'[q] = pc[q] /\ work'[q] = work[q]
           \/ connected' = FALSE
           \/ pc'[q] \notin Acted
    BY <1>9 DEF Crash, Exit, LoseConnection, Submit, AllIdle, HandTypeOK, outcomeVars, handVars, Acted
  <2>2. ~Publish(q) \/ Discard
    BY <2>1 DEF Publish, Goto, HandTypeOK
  <2>3. QED
    BY <1>3, <2>1, <2>2
<1>10. CASE ProcessEmail
  <2>1. rows' = rows /\ connected' = connected /\ pc'[q] = pc[q] /\ work'[q] = work[q]
    BY <1>10 DEF ProcessEmail, RunLoop, SendToMailService, Publish, RouteNowhere, InsertAuditLog,
       InsertEmailHistory, Discard, LetGo, Goto, HandTypeOK, brokerVars, outcomeVars
  <2>2. CASE Publish(q) /\ ~Discard
    <3>1. queue'[q] = Append(queue[q], work["ingest"]) /\ work["ingest"] \in Emails
      BY <2>2 DEF Publish, HandTypeOK, InHand
    <3>2. Queued(q, e)' = Queued(q, e) + One(e = work["ingest"])
      BY <2>1, <3>1, TallyPublishes
    <3>3. Done(q, e)' = Done(q, e)
      BY <2>1 DEF Done
    <3>4. Kept(q, e)' = Kept(q, e) + One(e = work["ingest"])
      BY <1>1, <2>1, <3>2, <3>3 DEF Kept, One
    <3>5. QED
      BY <1>1, <3>4 DEF Goal, One
  <2>3. CASE ~(Publish(q) /\ ~Discard)
    <3>1. queue'[q] = queue[q]
      BY <1>10, <2>3 DEF ProcessEmail, RunLoop, SendToMailService, Publish, RouteNowhere, InsertAuditLog,
         InsertEmailHistory, Discard, Settled, HandTypeOK, brokerVars
    <3>2. rows'[q][e] = rows[q][e]
      BY <2>1
    <3>3. QED
      BY <1>3, <2>1, <2>3, <3>1, <3>2
  <2>4. QED
    BY <2>2, <2>3
<1>11. QED
  <2>1. ASSUME NEW c \in Consumers, Receive(c) \/ Ack(c)
        PROVE  Goal
    BY <1>5, <1>6, <1>7, <2>1
  <2>2. ASSUME NEW r \in Stores, InsertQuarantine(r) \/ InsertQuarantineFails(r)
        PROVE  Goal
    BY <1>4, <1>8, <2>2
  <2>3. QED
    BY <1>9, <1>10, <2>1, <2>2 DEF Next

\* processEmail takes its action: it delivers the email, publishes it or drops it.
Acting(e, a) == pc["ingest"] = "route" /\ pc'["ingest"] = "audit" /\ e = work["ingest"] /\ a = action'

LEMMA SaidNext ==
  ASSUME Inv, Inv', Next, NEW e \in Emails, NEW a \in Actions
  PROVE  /\ Said(e, a)' \in Nat /\ Said(e, a) \in Nat
         /\ Said(e, a)' <= Said(e, a) + (IF Acting(e, a) THEN 1 ELSE 0)
<1> HandInv /\ HandTypeOK /\ InHand /\ OutcomeTypeOK
  BY TypeParts DEF Inv, HandInv
<1> "ingest" \in Consumers
  BY DEF Consumers
<1>1. /\ audit[e][a] \in Nat /\ audit'[e][a] \in Nat
      /\ Pending(e, a) \in {0, 1} /\ Pending(e, a)' \in {0, 1}
  BY DEF Inv, TypeOK, Pending, One
<1>2. Said(e, a)' \in Nat /\ Said(e, a) \in Nat
  BY <1>1 DEF Said
<1>3. CASE InsertAuditLog
  <2>1. pc["ingest"] = "audit" /\ pc'["ingest"] # "audit" /\ work["ingest"] \in Emails
    BY <1>3 DEF InsertAuditLog, Discard, LetGo, Goto, HandTypeOK, InHand
  <2>2. Pending(e, a)' = 0
    BY <2>1 DEF Pending, One
  <2>3. audit'[e][a] <= audit[e][a] + Pending(e, a)
    <3>1. CASE audit' = audit
      BY <1>1, <3>1
    <3>2. CASE audit' = [audit EXCEPT ![work["ingest"]][action] = @ + 1]
      <4>1. CASE e = work["ingest"] /\ a = action
        BY <1>1, <2>1, <3>2, <4>1 DEF Pending, One, OutcomeTypeOK
      <4>2. CASE ~(e = work["ingest"] /\ a = action)
        <5>1. audit'[e][a] = audit[e][a]
          BY <2>1, <3>2, <4>2 DEF OutcomeTypeOK
        <5>2. QED
          BY <1>1, <5>1
      <4>3. QED
        BY <4>1, <4>2
    <3>3. QED
      BY <1>3, <3>1, <3>2 DEF InsertAuditLog
  <2>4. QED
    BY <1>1, <1>2, <2>2, <2>3 DEF Said
<1>4. CASE ~InsertAuditLog
  <2>1. audit' = audit
    BY <1>4 DEF Next, Submit, Receive, Ack, ProcessEmail, RunLoop, SendToMailService, Publish,
       RouteNowhere, InsertEmailHistory, InsertQuarantine, InsertQuarantineFails, Crash,
       LoseConnection, Exit, outcomeVars
  <2>2. \/ pc'["ingest"] # "audit"
        \/ pc["ingest"] = "audit" /\ work'["ingest"] = work["ingest"] /\ action' = action
        \/ pc["ingest"] = "route" /\ work' = work
    <3>1. ASSUME NEW c \in Consumers, Receive(c) \/ Ack(c)
          PROVE  \/ pc'["ingest"] # "audit"
                 \/ pc["ingest"] = "audit" /\ work'["ingest"] = work["ingest"] /\ action' = action
      <4>1. CASE c = "ingest"
        BY <3>1, <4>1 DEF Receive, Ack, LetGo, Goto, HandTypeOK
      <4>2. CASE c # "ingest"
        BY <3>1, <4>2 DEF Receive, Ack, LetGo, Goto, HandTypeOK, chosenVars
      <4>3. QED
        BY <4>1, <4>2
    <3>2. ASSUME NEW q \in Stores, InsertQuarantine(q) \/ InsertQuarantineFails(q)
          PROVE  pc'["ingest"] = pc["ingest"] /\ work'["ingest"] = work["ingest"] /\ action' = action
      BY <3>2 DEF InsertQuarantine, InsertQuarantineFails, LetGo, Goto, HandTypeOK, chosenVars, Stores
    <3>3. ASSUME Crash \/ Exit \/ LoseConnection \/ \E f \in Emails : Submit(f)
          PROVE  \/ pc'["ingest"] # "audit"
                 \/ pc["ingest"] = "audit" /\ work'["ingest"] = work["ingest"] /\ action' = action
      BY <3>3 DEF Crash, Exit, LoseConnection, Submit, AllIdle, handVars, chosenVars
    <3>4. ASSUME ProcessEmail
          PROVE  pc'["ingest"] # "audit" \/ (pc["ingest"] = "route" /\ work' = work)
      <4>1. CASE Discard
        BY <4>1 DEF Discard, LetGo, Goto, HandTypeOK
      <4>2. CASE ~Discard
        BY <1>4, <3>4, <4>2 DEF ProcessEmail, RunLoop, SendToMailService, Publish, RouteNowhere,
           InsertEmailHistory, Goto, HandTypeOK
      <4>3. QED
        BY <4>1, <4>2
    <3>5. QED
      BY <3>1, <3>2, <3>3, <3>4 DEF Next
  <2>3. Pending(e, a)' <= Pending(e, a) + (IF Acting(e, a) THEN 1 ELSE 0)
    <3>1. CASE Pending(e, a)' = 0
      BY <1>1, <3>1
    <3>2. CASE Pending(e, a)' = 1
      <4>1. pc'["ingest"] = "audit" /\ work'["ingest"] = e /\ action' = a
        BY <3>2 DEF Pending, One
      <4>2. Pending(e, a) = 1 \/ Acting(e, a)
        BY <2>2, <4>1 DEF Pending, One, Acting
      <4>3. QED
        BY <1>1, <3>2, <4>2
    <3>3. QED
      BY <1>1, <3>1, <3>2
  <2>4. QED
    BY <1>1, <1>2, <2>1, <2>3 DEF Said
<1>5. QED
  BY <1>3, <1>4

\* An action that is about to be logged was taken in the same step.
LEMMA ActingTakes ==
  ASSUME Inv, ActionTaken, Next, NEW e \in Emails, NEW a \in Actions, Acting(e, a)
  PROVE  \/ SendToMailService /\ ~Discard /\ a \in {"delivered", "remediated_and_delivered"}
         \/ Publish("quarantine") /\ ~Discard /\ a = "quarantined"
         \/ Publish("blocked") /\ ~Discard /\ a = "blocked"
<1> HandTypeOK
  BY TypeParts DEF Inv
<1> "ingest" \in Consumers
  BY DEF Consumers
<1>1. pc["ingest"] = "route" /\ pc'["ingest"] = "audit" /\ action = verdictAction(verdict)
  BY DEF Acting, ActionTaken
<1>2. ProcessEmail /\ ~Discard /\ ~RunLoop /\ ~InsertAuditLog /\ ~InsertEmailHistory
  <2>1. ~Discard /\ ~RunLoop /\ ~InsertAuditLog /\ ~InsertEmailHistory
    BY <1>1 DEF Discard, LetGo, Goto, HandTypeOK, RunLoop, InsertAuditLog, InsertEmailHistory
  <2>2. ASSUME NEW c \in Consumers, Receive(c) \/ Ack(c)
        PROVE  FALSE
    BY <1>1, <2>2 DEF Receive, Ack, LetGo, Goto, HandTypeOK
  <2>3. ASSUME NEW q \in Stores, InsertQuarantine(q) \/ InsertQuarantineFails(q)
        PROVE  FALSE
    BY <1>1, <2>3 DEF InsertQuarantine, InsertQuarantineFails, LetGo, Goto, HandTypeOK
  <2>4. ~Crash /\ ~Exit /\ ~LoseConnection /\ ~\E f \in Emails : Submit(f)
    BY <1>1 DEF Crash, Exit, LoseConnection, Submit, AllIdle, handVars
  <2>5. QED
    BY <2>1, <2>2, <2>3, <2>4 DEF Next
<1>3. CASE SendToMailService
  <2>1. verdict \in {"CLEAN", "LOW"} /\ action' = action
    BY <1>2, <1>3 DEF SendToMailService, chosenVars
  <2>2. QED
    BY <1>1, <1>2, <1>3, <2>1 DEF verdictAction, Acting
<1>4. ASSUME NEW q \in Stores, Publish(q)
      PROVE  (q = "quarantine" /\ a = "quarantined") \/ (q = "blocked" /\ a = "blocked")
  <2>1. action' = (IF q = "quarantine" THEN "quarantined" ELSE action) /\ q \in StoreFor(work["ingest"])
    BY <1>2, <1>4 DEF Publish
  <2>2. q = "blocked" => verdict = "HIGH"
    BY <2>1 DEF StoreFor
  <2>3. QED
    BY <1>1, <2>1, <2>2 DEF verdictAction, Acting, Stores
<1>5. CASE RouteNowhere
  <2>1. verdict = "OTHER" /\ action' = action
    BY <1>5 DEF RouteNowhere, StoreFor, HandTypeOK, Verdicts, chosenVars
  <2>2. QED
    BY <1>1, <2>1 DEF verdictAction, Acting, Actions
<1>6. QED
  BY <1>2, <1>3, <1>4, <1>5 DEF ProcessEmail

LEMMA ActionTakenStays ==
  ASSUME Inv, ActionTaken, [Next]_vars
  PROVE  ActionTaken'
<1> HandTypeOK
  BY TypeParts DEF Inv
<1> "ingest" \in Consumers
  BY DEF Consumers
<1>1. CASE pc'["ingest"] \notin {"route", "audit"}
  BY <1>1 DEF ActionTaken
<1>2. CASE pc'["ingest"] = pc["ingest"] /\ work'["ingest"] = work["ingest"] /\ UNCHANGED <<verdict, action>>
  BY <1>2 DEF ActionTaken, verdictAction
<1>3. CASE UNCHANGED vars \/ LoseConnection \/ \E f \in Emails : Submit(f)
  BY <1>2, <1>3 DEF vars, LoseConnection, Submit, handVars, chosenVars
<1>4. CASE Crash \/ Exit \/ Discard
  BY <1>1, <1>4 DEF Crash, Exit, AllIdle, Discard, LetGo, Goto, HandTypeOK
<1>5. ASSUME NEW c \in Consumers, Receive(c) \/ Ack(c)
      PROVE  ActionTaken'
  <2>1. CASE c = "ingest"
    BY <1>1, <1>5, <2>1 DEF Receive, Ack, LetGo, Goto, HandTypeOK
  <2>2. CASE c # "ingest"
    BY <1>2, <1>5, <2>2 DEF Receive, Ack, LetGo, Goto, HandTypeOK, chosenVars
  <2>3. QED
    BY <2>1, <2>2
<1>6. ASSUME NEW q \in Stores, InsertQuarantine(q) \/ InsertQuarantineFails(q)
      PROVE  ActionTaken'
  BY <1>2, <1>6 DEF InsertQuarantine, InsertQuarantineFails, LetGo, Goto, HandTypeOK, chosenVars, Stores
<1>7. CASE RunLoop /\ ~Discard
  BY <1>7 DEF RunLoop, Goto, HandTypeOK, ActionTaken, verdictAction
<1>8. CASE SendToMailService /\ ~Discard
  <2>1. pc["ingest"] = "route" /\ pc'["ingest"] = "audit" /\ verdict \in {"CLEAN", "LOW"} /\ UNCHANGED <<verdict, action>>
    BY <1>8 DEF SendToMailService, Goto, HandTypeOK, chosenVars
  <2>2. QED
    BY <2>1 DEF ActionTaken, verdictAction, Actions, PrecedentActions
<1>9. ASSUME NEW q \in Stores, Publish(q), ~Discard
      PROVE  ActionTaken'
  <2>1. /\ pc["ingest"] = "route" /\ pc'["ingest"] = "audit" /\ verdict' = verdict
        /\ action' = (IF q = "quarantine" THEN "quarantined" ELSE action) /\ q \in StoreFor(work["ingest"])
        /\ work'["ingest"] = work["ingest"]
    BY <1>9 DEF Publish, Goto, HandTypeOK
  <2>2. q = "blocked" => verdict = "HIGH"
    BY <2>1 DEF StoreFor
  <2>3. ASSUME verdict \in {"CLEAN", "LOW"}
        PROVE  q = "quarantine" /\ work["ingest"] \in ManualLow
    BY <2>1, <2>3 DEF StoreFor, AutoDeliverLow
  <2>4. QED
    BY <2>1, <2>2, <2>3 DEF ActionTaken, verdictAction, Actions, Stores, PrecedentActions
<1>10. CASE RouteNowhere
  <2>1. pc'["ingest"] = "audit" /\ verdict' = "OTHER"
    BY <1>10 DEF RouteNowhere, StoreFor, HandTypeOK, Verdicts, chosenVars, Goto
  <2>2. QED
    BY <2>1 DEF ActionTaken
<1>11. CASE (InsertAuditLog \/ InsertEmailHistory) /\ ~Discard
  BY <1>1, <1>11 DEF InsertAuditLog, InsertEmailHistory, Goto, HandTypeOK
<1>12. QED
  BY <1>3, <1>4, <1>5, <1>6, <1>7, <1>8, <1>9, <1>10, <1>11 DEF Next, ProcessEmail

LEMMA TruthNext ==
  ASSUME Inv, Inv', Workers, ActionTaken, Truth, Next
  PROVE  Truth'
<1> SUFFICES ASSUME NEW e \in Emails
             PROVE  /\ Said(e, "delivered")' + Said(e, "remediated_and_delivered")' <= delivered'[e]
                    /\ Said(e, "quarantined")' <= Kept("quarantine", e)'
                    /\ Said(e, "blocked")' <= Kept("blocked", e)'
  BY DEF Truth
<1> HandTypeOK /\ InHand /\ OutcomeTypeOK
  BY TypeParts DEF Inv
<1> /\ "delivered" \in Actions /\ "remediated_and_delivered" \in Actions
    /\ "quarantined" \in Actions /\ "blocked" \in Actions
  BY DEF Actions
<1> USE StoreNames
<1>1. /\ Said(e, "delivered") + Said(e, "remediated_and_delivered") <= delivered[e]
      /\ Said(e, "quarantined") <= Kept("quarantine", e)
      /\ Said(e, "blocked") <= Kept("blocked", e)
  BY DEF Truth
<1>2. delivered[e] \in Nat /\ delivered'[e] \in Nat
      /\ \A q \in Stores : Kept(q, e) \in Int /\ Kept(q, e)' \in Int /\ Kept(q, e)' >= Kept(q, e)
  <2>1. delivered'[e] \in Nat
    BY DEF Inv, TypeOK
  <2>2. QED
    BY <2>1, KeptType, KeptStays
<1>3. delivered'[e] = delivered[e]
        + (IF SendToMailService /\ ~Discard /\ e = work["ingest"] THEN 1 ELSE 0)
      \/ (Discard /\ delivered'[e] >= delivered[e])
  <2>1. CASE SendToMailService
    <3>1. work["ingest"] \in Emails
      BY <2>1, ConsumersType DEF SendToMailService, InHand
    <3>2. CASE Discard
      <4>1. PICK n \in {0, 1} : delivered' = [delivered EXCEPT ![work["ingest"]] = @ + n]
        BY <2>1 DEF SendToMailService
      <4>2. delivered'[e] = delivered[e] \/ delivered'[e] = delivered[e] + n
        BY <4>1 DEF OutcomeTypeOK
      <4>3. delivered'[e] >= delivered[e]
        BY <1>2, <4>2
      <4>4. QED
        BY <3>2, <4>3
    <3>3. CASE ~Discard
      <4>1. delivered' = [delivered EXCEPT ![work["ingest"]] = @ + 1]
        BY <2>1, <3>3 DEF SendToMailService
      <4>2. delivered'[e] = delivered[e] + (IF e = work["ingest"] THEN 1 ELSE 0)
        BY <1>2, <4>1 DEF OutcomeTypeOK
      <4>3. QED
        BY <2>1, <3>3, <4>2
    <3>4. QED
      BY <3>2, <3>3
  <2>2. CASE ~SendToMailService
    <3>1. delivered' = delivered
      BY <2>2 DEF Next, Submit, Receive, Ack, ProcessEmail, RunLoop, Publish, RouteNowhere,
         InsertAuditLog, InsertEmailHistory, InsertQuarantine, InsertQuarantineFails, Crash,
         LoseConnection, Exit, outcomeVars
    <3>2. QED
      BY <1>2, <2>2, <3>1
  <2>3. QED
    BY <2>1, <2>2
<1>4. \A a \in Actions : /\ Said(e, a)' \in Nat /\ Said(e, a) \in Nat
                         /\ Said(e, a)' <= Said(e, a) + (IF Acting(e, a) THEN 1 ELSE 0)
  BY SaidNext
<1>5. Said(e, "delivered")' + Said(e, "remediated_and_delivered")' <= delivered'[e]
  <2>1. ~(Acting(e, "delivered") /\ Acting(e, "remediated_and_delivered"))
    BY DEF Acting
  <2>2. ASSUME Acting(e, "delivered") \/ Acting(e, "remediated_and_delivered")
        PROVE  delivered'[e] = delivered[e] + 1
    <3>1. SendToMailService /\ ~Discard
      BY <2>2, ActingTakes
    <3>2. e = work["ingest"]
      BY <2>2 DEF Acting
    <3>3. QED
      BY <1>3, <3>1, <3>2
  <2>3. delivered'[e] >= delivered[e]
    BY <1>2, <1>3
  <2>4. CASE Acting(e, "delivered")
    BY <1>1, <1>2, <1>4, <2>1, <2>2, <2>4
  <2>5. CASE Acting(e, "remediated_and_delivered")
    BY <1>1, <1>2, <1>4, <2>1, <2>2, <2>5
  <2>6. CASE ~Acting(e, "delivered") /\ ~Acting(e, "remediated_and_delivered")
    BY <1>1, <1>2, <1>4, <2>3, <2>6
  <2>7. QED
    BY <2>4, <2>5, <2>6
<1>6. ASSUME NEW q \in Stores, NEW a \in Actions, Said(e, a) <= Kept(q, e),
             Acting(e, a) => Publish(q) /\ ~Discard
      PROVE  Said(e, a)' <= Kept(q, e)'
  <2>1. CASE Acting(e, a)
    <3>1. Kept(q, e)' = Kept(q, e) + One(e = work["ingest"])
      BY <1>6, <2>1, KeptStays
    <3>2. One(e = work["ingest"]) = 1
      BY <2>1 DEF Acting, One
    <3>3. QED
      BY <1>2, <1>4, <1>6, <2>1, <3>1, <3>2
  <2>2. CASE ~Acting(e, a)
    BY <1>2, <1>4, <1>6, <2>2
  <2>3. QED
    BY <2>1, <2>2
<1>7. Acting(e, "quarantined") => Publish("quarantine") /\ ~Discard
  BY ActingTakes
<1>8. Acting(e, "blocked") => Publish("blocked") /\ ~Discard
  BY ActingTakes
<1>9. QED
  BY <1>1, <1>5, <1>6, <1>7, <1>8

\* A judgement in the log stays there.
LEMMA JudgedStays ==
  ASSUME Inv, Next, NEW e \in Emails, Judged(e)
  PROVE  Judged(e)'
<1> HandTypeOK /\ OutcomeTypeOK
  BY TypeParts DEF Inv
<1>1. PICK a \in PrecedentActions(e) : audit[e][a] > 0
  BY DEF Judged
<1> a \in Actions
  BY DEF PrecedentActions, Actions
<1>2. CASE audit' = audit
  BY <1>2 DEF Judged
<1>3. ASSUME NEW f, NEW b, audit' = [audit EXCEPT ![f][b] = @ + 1]
      PROVE  Judged(e)'
  <2>1. audit[e] \in [Actions -> Nat] /\ audit[e][a] \in Nat
    BY DEF OutcomeTypeOK
  <2>2. audit'[e][a] = audit[e][a] \/ audit'[e][a] = audit[e][a] + 1
    <3>1. CASE e = f
      <4>1. audit'[e] = [audit[e] EXCEPT ![b] = @ + 1]
        BY <1>3, <3>1 DEF OutcomeTypeOK
      <4>2. QED
        BY <2>1, <4>1
    <3>2. CASE e # f
      BY <1>3, <3>2 DEF OutcomeTypeOK
    <3>3. QED
      BY <3>1, <3>2
  <2>3. audit'[e][a] > 0
    BY <1>1, <2>1, <2>2
  <2>4. QED
    BY <2>3 DEF Judged
<1>4. QED
  BY <1>2, <1>3 DEF Next, Submit, Receive, Ack, ProcessEmail, RunLoop, SendToMailService, Publish,
     RouteNowhere, InsertAuditLog, InsertEmailHistory, InsertQuarantine, InsertQuarantineFails, Crash,
     LoseConnection, Exit, outcomeVars

LEMMA PrecedentsStay ==
  ASSUME Inv, ActionTaken, Precedents, [Next]_vars
  PROVE  Precedents'
<1> HandTypeOK /\ OutcomeTypeOK /\ InHand
  BY TypeParts DEF Inv
<1> "ingest" \in Consumers
  BY DEF Consumers
<1>1. CASE UNCHANGED vars
  BY <1>1 DEF vars, handVars, outcomeVars, Precedents, Judged
<1>2. CASE Next
  <2>1. ASSUME NEW e \in precedents'
        PROVE  Judged(e)'
    <3>1. e \in precedents \/ (pc["ingest"] = "history" /\ e = work["ingest"])
      BY <1>2, <2>1 DEF Next, Submit, Receive, Ack, ProcessEmail, RunLoop, SendToMailService, Publish,
         RouteNowhere, InsertAuditLog, InsertEmailHistory, InsertQuarantine, InsertQuarantineFails,
         Crash, LoseConnection, Exit, outcomeVars
    <3>2. Judged(e) /\ e \in Emails
      BY <3>1 DEF Precedents, OutcomeTypeOK, InHand
    <3>3. QED
      BY <1>2, <3>2, JudgedStays
  <2>2. ASSUME pc'["ingest"] = "history"
        PROVE  Judged(work["ingest"])'
    <3>1. CASE InsertAuditLog
      <4>1. /\ pc["ingest"] = "audit" /\ ~Discard /\ work["ingest"] \in Emails
        BY <2>2, <3>1 DEF InsertAuditLog, Discard, LetGo, Goto, HandTypeOK, InHand
      <4>2. /\ work' = work /\ verdict \in {"CLEAN", "LOW"}
            /\ audit' = [audit EXCEPT ![work["ingest"]][action] = @ + 1]
        BY <2>2, <3>1, <4>1 DEF InsertAuditLog, Goto, HandTypeOK
      <4>3. action \in PrecedentActions(work["ingest"]) /\ action \in Actions
        BY <4>1, <4>2 DEF ActionTaken
      <4>4. audit'[work["ingest"]][action] = audit[work["ingest"]][action] + 1
            /\ audit[work["ingest"]][action] \in Nat
        BY <4>1, <4>2, <4>3 DEF OutcomeTypeOK
      <4>5. PICK e \in Emails : e = work["ingest"]
        BY <4>1
      <4>6. PICK a \in PrecedentActions(e) : a = action
        BY <4>3, <4>5
      <4>7. audit'[e][a] > 0 /\ work'["ingest"] = e
        BY <4>2, <4>4, <4>5, <4>6
      <4>8. QED
        BY <4>7 DEF Judged
    <3>2. CASE ~InsertAuditLog
      <4>1. pc["ingest"] = "history" /\ work'["ingest"] = work["ingest"]
        <5>1. ASSUME NEW c \in Consumers, Receive(c) \/ Ack(c)
              PROVE  pc["ingest"] = "history" /\ work'["ingest"] = work["ingest"]
          <6>1. c # "ingest"
            BY <2>2, <5>1 DEF Receive, Ack, LetGo, Goto, HandTypeOK
          <6>2. QED
            BY <2>2, <5>1, <6>1 DEF Receive, Ack, LetGo, Goto, HandTypeOK
        <5>2. ASSUME NEW q \in Stores, InsertQuarantine(q) \/ InsertQuarantineFails(q)
              PROVE  pc["ingest"] = "history" /\ work'["ingest"] = work["ingest"]
          BY <2>2, <5>2 DEF InsertQuarantine, InsertQuarantineFails, LetGo, Goto, HandTypeOK, Stores
        <5>3. ASSUME Crash \/ Exit \/ LoseConnection \/ \E f \in Emails : Submit(f)
              PROVE  pc["ingest"] = "history" /\ work'["ingest"] = work["ingest"]
          BY <2>2, <5>3 DEF Crash, Exit, LoseConnection, Submit, AllIdle, handVars
        <5>4. ~ProcessEmail
          BY <2>2, <3>2 DEF ProcessEmail, RunLoop, SendToMailService, Publish, RouteNowhere,
             InsertEmailHistory, Discard, LetGo, Goto, HandTypeOK
        <5>5. QED
          BY <1>2, <5>1, <5>2, <5>3, <5>4 DEF Next
      <4>2. Judged(work["ingest"]) /\ work["ingest"] \in Emails
        BY <4>1 DEF Precedents, InHand
      <4>3. PICK e \in Emails : e = work["ingest"] /\ Judged(e)
        BY <4>2
      <4>4. Judged(e)'
        BY <1>2, <4>3, JudgedStays
      <4>5. QED
        BY <4>1, <4>3, <4>4 DEF Judged
    <3>3. QED
      BY <3>1, <3>2
  <2>3. QED
    BY <2>1, <2>2 DEF Precedents
<1>3. QED
  BY <1>1, <1>2

\* The audit log never claims more than happened: each row that says delivered has its
\* delivery, each row that says quarantined or blocked its message or quarantine row, and
\* a precedent was logged as delivered, or as held although LOW; whatever is redelivered,
\* crashes or fails.
THEOREM LogTruthful == Spec => []AuditTruthful
<1> DEFINE Safe == Workers /\ ActionTaken /\ Truth /\ Precedents
<1>1. Init => Safe
  <2> SUFFICES ASSUME Init PROVE Safe
    OBVIOUS
  <2> USE ConsumersType, StoreNames
  <2>1. ASSUME NEW e \in Emails
        PROVE  /\ \A a \in Actions : Said(e, a) = 0
               /\ \A q \in Stores : Kept(q, e) = 0
               /\ delivered[e] = 0
    <3>1. \A q \in Stores : queue[q] = <<>> /\ pc[q] = "idle" /\ rows[q][e] = 0
      BY DEF Init
    <3>2. \A q \in Stores : Queued(q, e) = 0 /\ Done(q, e) = 0
      BY <3>1, CountEmpty DEF Queued, Done, One, Acted
    <3>3. \A q \in Stores : Kept(q, e) = 0
      BY <3>1, <3>2 DEF Kept
    <3>4. \A a \in Actions : audit[e][a] = 0 /\ Pending(e, a) = 0
      BY DEF Init, Pending, One
    <3>5. QED
      BY <3>3, <3>4 DEF Said, Init
  <2>2. Truth
    BY <2>1 DEF Truth, Actions
  <2>3. Workers /\ ActionTaken /\ Precedents
    BY DEF Init, Workers, ActionTaken, Precedents
  <2>4. QED
    BY <2>2, <2>3
<1>2. Inv /\ Inv' /\ Safe /\ [Next]_vars => Safe'
  <2> SUFFICES ASSUME Inv, Inv', Safe, [Next]_vars PROVE Safe'
    OBVIOUS
  <2>1. Truth'
    <3>1. CASE UNCHANGED vars
      BY <3>1 DEF vars, brokerVars, handVars, chosenVars, outcomeVars, Truth, Said, Pending, Kept,
                  Queued, Done
    <3>2. CASE Next
      BY <3>2, TruthNext
    <3>3. QED
      BY <3>1, <3>2
  <2>2. QED
    BY <2>1, WorkersStay, ActionTakenStays, PrecedentsStay
<1>3. Inv /\ Safe => AuditTruthful
  <2> SUFFICES ASSUME Inv, Safe, NEW e \in Emails
               PROVE  /\ audit[e]["delivered"] + audit[e]["remediated_and_delivered"] <= delivered[e]
                      /\ audit[e]["quarantined"] <= Copies("quarantine", e)
                      /\ audit[e]["blocked"] <= Copies("blocked", e)
                      /\ e \in precedents => \E a \in PrecedentActions(e) : audit[e][a] > 0
    BY DEF AuditTruthful
  <2> USE StoreNames
  <2>1. \A a \in Actions : audit[e][a] \in Nat /\ Pending(e, a) \in {0, 1}
    BY DEF Inv, TypeOK, Pending, One
  <2>2. \A q \in Stores : Copies(q, e) = Queued(q, e) + rows[q][e]
    BY DEF Copies, Queued, Count
  <2>3. \A q \in Stores : Queued(q, e) \in Nat /\ Done(q, e) \in {0, 1} /\ rows[q][e] \in Nat
    BY KeptType
  <2>4. \A q \in Stores : Kept(q, e) <= Copies(q, e) /\ Kept(q, e) \in Int /\ Copies(q, e) \in Int
    BY <2>2, <2>3 DEF Kept
  <2>5. delivered[e] \in Nat
    BY KeptType
  <2>6. /\ audit[e]["delivered"] + audit[e]["remediated_and_delivered"] <= delivered[e]
        /\ audit[e]["quarantined"] <= Kept("quarantine", e)
        /\ audit[e]["blocked"] <= Kept("blocked", e)
    BY <2>1, <2>4, <2>5 DEF Truth, Said, Actions
  <2>7. QED
    BY <2>1, <2>4, <2>6 DEF Precedents, Judged, Actions
<1>4. QED
  BY <1>1, <1>2, <1>3, TypeCorrect, PTL DEF Spec, Inv
==============================================================================
