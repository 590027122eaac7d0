------------------------------- MODULE ServiceProofs -------------------------------
(***************************************************************************)
(* Machine-checked proofs about AgentLoop, for every set of tools, every   *)
(* number of turns, attempts and scans, and every length of an answer;     *)
(* about RateLimit, for every window, limit and wait for the mutex; and    *)
(* that MCService, which runs them beside Billing, is each of the three.   *)
(*                                                                         *)
(* With the types of AgentLoop goes what a check may have spent on the     *)
(* model at each point of the loop (Budget).  Conversation says how the    *)
(* messages of an answer that is being worked off relate to the calls      *)
(* still to be made.                                                       *)
(***************************************************************************)
EXTENDS MCService, BillingProofs, FiniteSetTheorems, TLAPS


------------------------------------------------------------------------------
(* Type correctness, with the requests that a check may have sent.          *)

\* What a whole turn may send: each attempt once, and a rewriting for each call.
PerTurn == Attempts + 1 + MaxCalls
Before(n) == n * PerTurn

LEMMA PerTurnType == PerTurn \in Nat /\ PerTurn = Attempts + 1 + MaxCalls
BY AgentAssumption DEF PerTurn

LEMMA BeforeNext ==
  ASSUME NEW n \in Nat
  PROVE  Before(n) \in Nat /\ Before(n + 1) = Before(n) + PerTurn
<1>1. ASSUME NEW k \in Nat
      PROVE  n * k \in Nat /\ (n + 1) * k = n * k + k
  OBVIOUS
<1>2. QED
  BY <1>1, PerTurnType DEF Before

LEMMA BeforeGrows ==
  ASSUME NEW n \in Nat, NEW m \in Nat, n <= m
  PROVE  Before(n) <= Before(m)
<1>1. ASSUME NEW k \in Nat
      PROVE  n * k <= m * k
  <2>1. (m - n) \in Nat /\ m * k = n * k + (m - n) * k
    OBVIOUS
  <2>2. (m - n) * k \in Nat /\ n * k \in Nat
    BY <2>1
  <2>3. QED
    BY <2>1, <2>2
<1>2. QED
  BY <1>1, PerTurnType DEF Before

Talking == {"post", "retrieve", "send", "answer", "backoff", "tools", "rewrite"}

\* How much is spent where, with the turns and attempts that are left.
Budget ==
  /\ step \in Talking => turn < Turns
  /\ step \in {"post", "retrieve"} => sends = 0 /\ turn = 0 /\ attempt = 0
  /\ step \in Talking \cup {"audit"} => checked < scans
  /\ step = "send" => sends <= 1 + Before(turn) + attempt
  /\ step \in {"answer", "backoff"} => sends <= 1 + Before(turn) + attempt + 1
  /\ step = "backoff" => attempt < Attempts
  /\ step = "tools" => /\ Len(calls) <= MaxCalls
                       /\ sends + Len(calls) <= 1 + Before(turn) + PerTurn
  /\ step = "rewrite" => /\ calls # <<>> /\ Len(calls) <= MaxCalls
                         /\ sends + Len(calls) <= 1 + Before(turn) + PerTurn + 1

AInv == AgentTypeOK /\ sends <= 1 + Before(Turns) /\ Budget

\* What was counted for a turn that is not over fits into what all turns may send.
LEMMA Fits ==
  ASSUME NEW n \in 0..Turns, n < Turns
  PROVE  Before(n) \in Nat /\ Before(n) + PerTurn <= Before(Turns) /\ Before(Turns) \in Nat
<1>1. n \in Nat /\ n + 1 \in Nat /\ Turns \in Nat /\ n + 1 <= Turns
  BY AgentAssumption
<1>2. QED
  BY <1>1, BeforeNext, BeforeGrows

LEMMA WithinBudget == AInv => SpendBounded
BY DEF AInv, Before, PerTurn, SpendBounded

LEMMA AInvInit == AgentInit => AInv
<1> SUFFICES ASSUME AgentInit
             PROVE  AInv
  OBVIOUS
<1>1. AgentTypeOK /\ sends = 0
  BY AgentAssumption DEF AgentInit, AgentTypeOK, Steps, Verdicts
<1>2. Before(Turns) \in Nat
  BY BeforeNext, AgentAssumption
<1>3. Budget
  BY DEF AgentInit, Budget, Talking
<1>4. QED
  BY <1>1, <1>2, <1>3 DEF AInv

\* The message that the model or a tool adds.
LEMMA SaysType ==
  ASSUME messages \in Seq(Messages), NEW r \in {"system", "user", "assistant", "tool"}, NEW ids \in Seq(CallIds)
  PROVE  Says(r, ids) \in Seq(Messages)
BY DEF Says, Messages

LEMMA ResultType ==
  ASSUME AgentTypeOK, calls # <<>>
  PROVE  /\ Result(Head(calls)) \in Seq(Messages)
         /\ Tail(calls) \in Seq(CallsOf) /\ Len(Tail(calls)) = Len(calls) - 1 /\ Len(calls) \in Nat
<1>1. Head(calls) \in CallsOf /\ messages \in Seq(Messages)
      /\ Tail(calls) \in Seq(CallsOf) /\ Len(Tail(calls)) = Len(calls) - 1 /\ Len(calls) \in Nat
  BY DEF AgentTypeOK
<1>2. <<Head(calls).id>> \in Seq(CallIds)
  BY <1>1 DEF CallsOf
<1>3. QED
  BY <1>1, <1>2, SaysType DEF Result

LEMMA SequenceOf ==
  ASSUME NEW S, NEW n \in Nat, NEW f \in [1..n -> S]
  PROVE  f \in Seq(S) /\ Len(f) = n
OBVIOUS

LEMMA AsksForToolsType ==
  ASSUME AgentTypeOK, turn < Turns, NEW n \in 1..MaxCalls, NEW tools \in [1..n -> Tools],
         AsksForTools(tools)
  PROVE  /\ messages' = Says("assistant", [i \in 1..n |-> <<turn, i>>])
         /\ [i \in 1..n |-> <<turn, i>>] \in Seq(CallIds)
         /\ messages' \in Seq(Messages)
         /\ calls' = [i \in 1..n |-> [id |-> <<turn, i>>, tool |-> tools[i]]]
         /\ calls' \in Seq(CallsOf) /\ Len(calls') = n
<1>1. turn \in 0..Turns - 1 /\ n \in Nat /\ \A i \in 1..n : i \in 1..MaxCalls
  BY AgentAssumption DEF AgentTypeOK
<1>2. DOMAIN tools = 1..n
  OBVIOUS
<1>3. \A i \in 1..n : <<turn, i>> \in CallIds /\ [id |-> <<turn, i>>, tool |-> tools[i]] \in CallsOf
  BY <1>1 DEF CallIds, CallsOf
<1>4. [i \in 1..n |-> <<turn, i>>] \in Seq(CallIds)
  <2>1. [i \in 1..n |-> <<turn, i>>] \in [1..n -> CallIds]
    BY <1>3
  <2>2. QED
    BY <1>1, <2>1, SequenceOf
<1>5. messages' = Says("assistant", [i \in 1..n |-> <<turn, i>>])
      /\ calls' = [i \in 1..n |-> [id |-> <<turn, i>>, tool |-> tools[i]]]
  BY <1>2 DEF AsksForTools
<1>6. messages' \in Seq(Messages)
  BY <1>4, <1>5, SaysType DEF AgentTypeOK
<1>7. calls' \in Seq(CallsOf) /\ Len(calls') = n
  <2>1. calls' \in [1..n -> CallsOf]
    BY <1>3, <1>5
  <2>2. QED
    BY <1>1, <2>1, SequenceOf
<1>8. QED
  BY <1>4, <1>5, <1>6, <1>7

LEMMA AInvNext ==
  ASSUME AInv, [AgentNext]_agentVars
  PROVE  AInv'
<1> USE DEF AInv
<1>1. PerTurn = Attempts + 1 + MaxCalls /\ Attempts \in Nat /\ MaxCalls \in Nat /\ Turns \in Nat \ {0}
      /\ ScanLimit \in Nat /\ PerTurn \in Nat
  BY PerTurnType, AgentAssumption
<1>2. Before(Turns) \in Nat /\ Before(0) = 0
  BY <1>1, BeforeNext DEF Before
<1>3. turn < Turns => Before(turn) \in Nat /\ Before(turn) + PerTurn <= Before(Turns)
  BY Fits DEF AgentTypeOK
<1>4. CASE CheckEmail
  BY <1>1, <1>2, <1>4 DEF CheckEmail, AgentTypeOK, Budget, Talking, Steps, Verdicts
<1>5. CASE Post
  BY <1>1, <1>2, <1>5 DEF Post, Ends, talkVars, AgentTypeOK, Budget, Talking, Steps, Verdicts
<1>6. CASE Retrieve
  <2>1. step = "retrieve" /\ sends = 0 /\ turn = 0 /\ attempt = 0 /\ turn < Turns /\ checked < scans
    BY <1>6 DEF Retrieve, Budget, Talking
  <2>2. messages' \in Seq(Messages)
    <3>1. <<>> \in Seq(CallIds)
      OBVIOUS
    <3>2. [role |-> "system", about |-> <<>>] \in Messages /\ [role |-> "user", about |-> <<>>] \in Messages
      BY <3>1 DEF Messages
    <3>3. \A a, b \in Messages : <<a, b>> \in Seq(Messages)
      OBVIOUS
    <3>4. \/ messages' = <<[role |-> "system", about |-> <<>>], [role |-> "user", about |-> <<>>]>>
          \/ UNCHANGED messages
      BY <1>6 DEF Retrieve
    <3>5. QED
      BY <3>2, <3>3, <3>4 DEF AgentTypeOK
  <2>3. sends' \in {0, 1}
    BY <1>6, <2>1 DEF Retrieve, Reaches
  <2>4. UNCHANGED <<caller, ctx, scans, turn, attempt, calls, checked>>
        /\ ((step' = "send" /\ UNCHANGED verdict) \/ (step' = "reply" /\ verdict' = "error"))
    BY <1>6 DEF Retrieve, Reaches, Ends
  <2>5. AgentTypeOK'
    BY <2>2, <2>3, <2>4 DEF AgentTypeOK, Steps, Verdicts
  <2>6. Budget'
    BY <1>2, <2>1, <2>3, <2>4 DEF Budget, Talking
  <2>7. QED
    BY <1>2, <2>3, <2>5, <2>6
<1>7. CASE SendMistralOnce
  <2>1. step = "send" /\ turn < Turns /\ sends <= 1 + Before(turn) + attempt /\ attempt <= Attempts
        /\ UNCHANGED <<caller, ctx, scans, turn, attempt, messages, calls, checked>>
    BY <1>7 DEF SendMistralOnce, talkVars, AgentTypeOK, Budget, Talking
  <2>2. CASE sends' = sends + 1 /\ step' = "answer" /\ UNCHANGED verdict
    <3>1. sends' \in Nat /\ sends' <= 1 + Before(turn) + attempt + 1 /\ sends' <= 1 + Before(Turns)
      BY <1>1, <1>2, <1>3, <2>1, <2>2 DEF AgentTypeOK
    <3>2. QED
      BY <2>1, <2>2, <3>1 DEF AgentTypeOK, Budget, Talking, Steps
  <2>3. CASE step' = "reply" /\ verdict' = "error" /\ UNCHANGED sends
    BY <2>1, <2>3 DEF AgentTypeOK, Budget, Talking, Steps, Verdicts
  <2>4. QED
    BY <1>7, <2>2, <2>3 DEF SendMistralOnce, Reaches, Ends
<1>8. CASE MistralFails \/ RateLimited
  BY <1>1, <1>8
  DEF MistralFails, RateLimited, Ends, talkVars, AgentTypeOK, Budget, Talking, Steps, Verdicts
<1>9. CASE Backoff
  BY <1>1, <1>3, <1>9 DEF Backoff, Ends, AgentTypeOK, Budget, Talking, Steps, Verdicts
<1>10. ASSUME NEW n \in 1..MaxCalls, NEW tools \in [1..n -> Tools], AsksForTools(tools)
       PROVE  AInv'
  <2>1. step = "answer" /\ turn < Turns /\ step' = "tools"
        /\ UNCHANGED <<caller, ctx, scans, turn, attempt, sends, verdict, checked>>
    BY <1>10 DEF AsksForTools, Budget, Talking
  <2>2. messages' \in Seq(Messages) /\ calls' \in Seq(CallsOf) /\ Len(calls') = n
    BY <1>10, <2>1, AsksForToolsType
  <2>3. Len(calls') <= MaxCalls /\ sends + Len(calls') <= 1 + Before(turn) + PerTurn
    BY <1>1, <1>3, <2>1, <2>2 DEF Budget, AgentTypeOK
  <2>4. QED
    BY <2>1, <2>2, <2>3 DEF AgentTypeOK, Budget, Talking, Steps
<1>11. CASE ExecuteTool
  <2>1. step = "tools" /\ step' = "tools" /\ calls # <<>> /\ turn < Turns /\ checked < scans
        /\ messages' = Result(Head(calls)) /\ calls' = Tail(calls)
        /\ UNCHANGED <<caller, ctx, scans, turn, attempt, verdict, checked>>
    BY <1>11 DEF ExecuteTool, Reaches, Budget, Talking
  <2>2. messages' \in Seq(Messages) /\ calls' \in Seq(CallsOf) /\ Len(calls') = Len(calls) - 1
        /\ Len(calls) \in Nat /\ Len(calls) <= MaxCalls
        /\ sends + Len(calls) <= 1 + Before(turn) + PerTurn /\ sends \in Nat
    BY <2>1, ResultType DEF Budget, AgentTypeOK
  <2>3. sends' \in {sends, sends + 1}
    BY <1>11 DEF ExecuteTool, Reaches
  <2>4. sends' \in Nat /\ sends' + Len(calls') <= 1 + Before(turn) + PerTurn /\ Len(calls') \in Nat
        /\ Len(calls') <= MaxCalls
    <3>1. calls' \in Seq(CallsOf)
      BY <2>2
    <3>2. Len(calls') \in Nat
      BY <3>1
    <3>3. QED
      BY <1>1, <1>3, <2>1, <2>2, <2>3, <3>2
  <2>5. sends' <= 1 + Before(Turns)
    BY <1>1, <1>2, <1>3, <2>1, <2>4
  <2>6. QED
    BY <2>1, <2>2, <2>4, <2>5 DEF AgentTypeOK, Budget, Talking, Steps
<1>12. CASE ToolRemediateContent
  <2>1. calls # <<>> /\ step = "tools" /\ turn < Turns
    BY <1>12 DEF ToolRemediateContent, Budget, Talking
  <2>2. CASE Reaches(step' = "rewrite") /\ UNCHANGED <<messages, calls>>
    <3>1. Len(calls) \in Nat /\ Len(calls) >= 1
      BY <2>1 DEF AgentTypeOK
    <3>2. sends' = sends + 1 /\ step' = "rewrite"
          /\ UNCHANGED <<caller, ctx, scans, turn, attempt, verdict, checked, messages, calls>>
      BY <1>12, <2>2 DEF ToolRemediateContent, Reaches
    <3>3. Len(calls) <= MaxCalls /\ sends + Len(calls) <= 1 + Before(turn) + PerTurn
      BY <2>1 DEF Budget
    <3>4. sends' \in Nat /\ sends' + Len(calls) <= 1 + Before(turn) + PerTurn + 1 /\ sends' <= 1 + Before(Turns)
      BY <1>1, <1>2, <1>3, <2>1, <3>1, <3>2, <3>3 DEF AgentTypeOK
    <3>5. QED
      BY <2>1, <3>2, <3>3, <3>4 DEF AgentTypeOK, Budget, Talking, Steps
  <2>3. CASE messages' = Result(Head(calls)) /\ calls' = Tail(calls) /\ UNCHANGED <<step, sends>>
    BY <1>1, <1>3, <1>12, <2>1, <2>3, ResultType
    DEF ToolRemediateContent, AgentTypeOK, Budget, Talking, Steps
  <2>4. QED
    BY <1>12, <2>2, <2>3 DEF ToolRemediateContent
<1>13. CASE Rewritten
  BY <1>1, <1>3, <1>13, ResultType DEF Rewritten, AgentTypeOK, Budget, Talking, Steps
<1>14. CASE NextTurn
  <2>1. step = "tools" /\ turn < Turns /\ sends <= 1 + Before(turn) + PerTurn
    BY <1>14, <1>3 DEF NextTurn, AgentTypeOK, Budget, Talking
  <2>2. Before(turn') = Before(turn) + PerTurn
    BY <1>14, BeforeNext DEF NextTurn, AgentTypeOK
  <2>3. QED
    BY <1>1, <1>3, <1>14, <2>1, <2>2
    DEF NextTurn, Ends, AgentTypeOK, Budget, Talking, Steps, Verdicts
<1>15. ASSUME NEW v \in {"found", "empty"}, ParseVerdict(v)
       PROVE  AInv'
  BY <1>15 DEF ParseVerdict, talkVars, AgentTypeOK, Budget, Talking, Steps, Verdicts
<1>16. CASE InsertCheckLog
  <2>1. step = "audit" /\ checked < scans /\ checked' \in 0..scans
    BY <1>16 DEF InsertCheckLog, Budget, Talking, AgentTypeOK
  <2>2. QED
    BY <1>16, <2>1 DEF InsertCheckLog, talkVars, AgentTypeOK, Budget, Talking, Steps
<1>17. CASE Reply \/ CallerLeaves \/ ContextDone \/ UNCHANGED agentVars
  BY <1>17
  DEF Reply, CallerLeaves, ContextDone, agentVars, talkVars,
      AgentTypeOK, Budget, Talking, Steps
<1>18. QED
  BY <1>4, <1>5, <1>6, <1>7, <1>8, <1>9, <1>10, <1>11, <1>12, <1>13, <1>14, <1>15, <1>16, <1>17
  DEF AgentNext

\* AgentTypeOK: every variable keeps its type.
THEOREM AgentTypeCorrect == AgentSpec => []AgentTypeOK
<1>1. AgentInit => AInv
  BY AInvInit
<1>2. AInv /\ [AgentNext]_agentVars => AInv'
  BY AInvNext
<1>3. AInv => AgentTypeOK
  BY DEF AInv
<1>4. QED
  BY <1>1, <1>2, <1>3, PTL DEF AgentSpec

\* SpendBounded: a paid scan sends Mistral the embedding of the e-mail and, in each turn, at most
\* one request for each attempt and one for each call of the answer.
THEOREM ScanSpendsWithinBounds == AgentSpec => []SpendBounded
<1>1. AgentInit => AInv
  BY AInvInit
<1>2. AInv /\ [AgentNext]_agentVars => AInv'
  BY AInvNext
<1>3. QED
  BY <1>1, <1>2, WithinBudget, PTL DEF AgentSpec

------------------------------------------------------------------------------
(* Every call an answer made has its result in the conversation.             *)

\* Message p asked for the calls that are being made: its results so far follow it, and the
\* calls that are left are the rest of what it asked for.
WorkingOff(p) ==
  /\ messages[p].role = "assistant"
  /\ Len(messages) + Len(calls) = p + Len(messages[p].about)
  /\ \A k \in 1..Len(messages) - p :
       messages[p + k] = [role |-> "tool", about |-> <<messages[p].about[k]>>]
  /\ \A j \in 1..Len(calls) : calls[j].id = messages[p].about[Len(messages) - p + j]

AllAnswered == \A i \in DOMAIN messages : messages[i].role = "assistant" => Answered_(i)

Conversation ==
  /\ step \in {"send", "answer", "backoff"} => AllAnswered
  /\ step \in {"tools", "rewrite"} =>
       \E p \in DOMAIN messages :
         /\ WorkingOff(p)
         /\ \A i \in DOMAIN messages \ {p} : messages[i].role = "assistant" => Answered_(i)

\* A message more leaves what was answered answered.
LEMMA SaysMore ==
  ASSUME messages \in Seq(Messages), NEW r \in {"system", "user", "assistant", "tool"},
         NEW ids \in Seq(CallIds), messages' = Says(r, ids)
  PROVE  /\ Len(messages) \in Nat /\ Len(messages') = Len(messages) + 1
         /\ DOMAIN messages' = 1..Len(messages) + 1 /\ DOMAIN messages = 1..Len(messages)
         /\ messages'[Len(messages) + 1] = [role |-> r, about |-> ids]
         /\ \A i \in 1..Len(messages) : messages'[i] = messages[i]
<1>1. [role |-> r, about |-> ids] \in Messages
  BY DEF Messages
<1>2. QED
  BY <1>1 DEF Says

LEMMA StillAnswered ==
  ASSUME messages \in Seq(Messages), NEW r \in {"system", "user", "assistant", "tool"},
         NEW ids \in Seq(CallIds), messages' = Says(r, ids),
         NEW i \in DOMAIN messages, Answered_(i)
  PROVE  Answered_(i)'
<1>1. /\ Len(messages) \in Nat /\ DOMAIN messages' = 1..Len(messages) + 1
      /\ DOMAIN messages = 1..Len(messages)
      /\ \A j \in 1..Len(messages) : messages'[j] = messages[j]
  BY SaysMore
<1>2. QED
  BY <1>1 DEF Answered_

LEMMA FirstCall ==
  ASSUME calls \in Seq(CallsOf), calls # <<>>
  PROVE  /\ \E id \in CallIds : id = Head(calls).id
         /\ \E m \in Nat \ {0} :
              /\ Len(calls) = m /\ Len(Tail(calls)) = m - 1 /\ calls[1] = Head(calls)
              /\ \A j \in 1..m - 1 : Tail(calls)[j] = calls[j + 1]
<1>1. Head(calls) \in CallsOf
  OBVIOUS
<1>2. \E id \in CallIds : id = Head(calls).id
  BY <1>1 DEF CallsOf
<1>3. Len(calls) \in Nat \ {0} /\ Len(Tail(calls)) = Len(calls) - 1 /\ calls[1] = Head(calls)
      /\ \A j \in 1..Len(calls) - 1 : Tail(calls)[j] = calls[j + 1]
  OBVIOUS
<1>4. QED
  BY <1>2, <1>3

LEMMA AboutType ==
  ASSUME messages \in Seq(Messages), NEW p \in DOMAIN messages
  PROVE  /\ Len(messages) \in Nat /\ DOMAIN messages = 1..Len(messages) /\ p \in 1..Len(messages)
         /\ messages[p].about \in Seq(CallIds) /\ Len(messages[p].about) \in Nat
         /\ DOMAIN messages[p].about = 1..Len(messages[p].about)
<1>1. messages[p] \in Messages /\ Len(messages) \in Nat /\ DOMAIN messages = 1..Len(messages)
  OBVIOUS
<1>2. PICK a : a = messages[p].about
  OBVIOUS
<1>3. a \in Seq(CallIds)
  BY <1>1, <1>2 DEF Messages
<1>4. Len(a) \in Nat /\ DOMAIN a = 1..Len(a)
  BY <1>3
<1>5. QED
  BY <1>1, <1>2, <1>3, <1>4

\* The result of the first call that is left follows the others.
LEMMA ResultFollows ==
  ASSUME AInv, calls # <<>>, NEW p \in Nat, p \in DOMAIN messages, WorkingOff(p),
         messages' = Result(Head(calls)), calls' = Tail(calls)
  PROVE  WorkingOff(p)'
<1>1. messages \in Seq(Messages) /\ calls \in Seq(CallsOf)
  BY DEF AInv, AgentTypeOK
<1>2. PICK id \in CallIds : id = Head(calls).id
  BY <1>1, FirstCall
<1>3. PICK n \in Nat : n = Len(messages) /\ p \in 1..n
  BY <1>1, AboutType
<1>4. PICK m \in Nat \ {0} :
        /\ Len(calls) = m /\ Len(calls') = m - 1 /\ calls[1] = Head(calls)
        /\ \A j \in 1..m - 1 : calls'[j] = calls[j + 1]
  BY <1>1, FirstCall
<1>5. PICK a \in Seq(CallIds) : a = messages[p].about /\ Len(a) \in Nat
  BY <1>1, AboutType
<1>6. /\ messages[p].role = "assistant" /\ n + m = p + Len(a)
      /\ \A k \in 1..n - p : messages[p + k] = [role |-> "tool", about |-> <<a[k]>>]
      /\ \A j \in 1..m : calls[j].id = a[n - p + j]
  BY <1>3, <1>4, <1>5 DEF WorkingOff
<1>7. /\ Len(messages') = n + 1 /\ messages'[n + 1] = [role |-> "tool", about |-> <<id>>]
      /\ \A i \in 1..n : messages'[i] = messages[i]
  <2>1. <<id>> \in Seq(CallIds) /\ messages' = Says("tool", <<id>>)
    BY <1>2 DEF Result
  <2>2. QED
    BY <1>1, <1>3, <2>1, SaysMore
<1>8. id = a[n + 1 - p]
  <2>1. calls[1].id = a[n - p + 1] /\ n - p + 1 = n + 1 - p
    BY <1>3, <1>4, <1>6
  <2>2. QED
    BY <1>2, <1>4, <2>1
<1>9. ASSUME NEW k \in 1..n + 1 - p
      PROVE  messages'[p + k] = [role |-> "tool", about |-> <<a[k]>>]
  <2>1. CASE k = n + 1 - p
    <3>1. p + k = n + 1
      BY <1>3, <2>1
    <3>2. QED
      BY <1>7, <1>8, <2>1, <3>1
  <2>2. CASE k # n + 1 - p
    <3>1. k \in 1..n - p /\ p + k \in 1..n
      BY <1>3, <2>2
    <3>2. QED
      BY <1>6, <1>7, <3>1
  <2>3. QED
    BY <2>1, <2>2
<1>10. ASSUME NEW j \in 1..m - 1
       PROVE  calls'[j].id = a[n + 1 - p + j]
  <2>1. j + 1 \in 1..m /\ n - p + (j + 1) = n + 1 - p + j
    BY <1>3
  <2>2. calls[j + 1].id = a[n - p + (j + 1)]
    BY <1>6, <2>1
  <2>3. QED
    BY <1>4, <2>1, <2>2
<1>11. (n + 1) + (m - 1) = p + Len(a) /\ (n + 1) - p = n + 1 - p
  <2>1. ASSUME NEW x \in Nat, NEW y \in Nat, NEW z \in Int, x + y = z
        PROVE  (x + 1) + (y - 1) = z
    BY <2>1
  <2>2. n \in Nat /\ m \in Nat /\ p \in Nat /\ p + Len(a) \in Int
    BY <1>5
  <2>3. n + m = p + Len(a)
    BY <1>6
  <2>4. (n + 1) + (m - 1) = p + Len(a)
    BY <2>1, <2>2, <2>3
  <2>5. QED
    BY <2>2, <2>4
<1>12. messages'[p].role = "assistant" /\ messages'[p].about = a
  BY <1>3, <1>5, <1>6, <1>7
<1>13. Len(messages') + Len(calls') = p + Len(messages'[p].about)
  BY <1>4, <1>7, <1>11, <1>12
<1>14. \A k \in 1..Len(messages') - p :
          messages'[p + k] = [role |-> "tool", about |-> <<messages'[p].about[k]>>]
  BY <1>7, <1>9, <1>12, SMTT(30)
<1>15. \A j \in 1..Len(calls') : calls'[j].id = messages'[p].about[Len(messages') - p + j]
  <2>1. SUFFICES ASSUME NEW j \in 1..m - 1
                 PROVE  calls'[j].id = messages'[p].about[Len(messages') - p + j]
    BY <1>4
  <2>2. Len(messages') - p + j = n + 1 - p + j
    <3>1. Len(messages') - p = n + 1 - p
      BY <1>7
    <3>2. QED
      BY <3>1
  <2>3. calls'[j].id = a[n + 1 - p + j]
    BY <1>10
  <2>4. QED
    BY <1>12, <2>2, <2>3
<1>16. QED
  BY <1>12, <1>13, <1>14, <1>15 DEF WorkingOff

LEMMA ConversationNext ==
  ASSUME AInv, Conversation, [AgentNext]_agentVars
  PROVE  Conversation'
<1> DEFINE InHand(p) == /\ WorkingOff(p)
                        /\ \A i \in DOMAIN messages \ {p} : messages[i].role = "assistant" => Answered_(i)
<1>1. messages \in Seq(Messages) /\ calls \in Seq(CallsOf) /\ AgentTypeOK
  BY DEF AInv, AgentTypeOK
<1>2. ASSUME step' \notin {"send", "answer", "backoff", "tools", "rewrite"}
      PROVE  Conversation'
  BY <1>2 DEF Conversation
<1>3. ASSUME UNCHANGED <<messages, calls>>,
             \/ step \in {"send", "answer", "backoff"} /\ step' \in {"send", "answer", "backoff"}
             \/ step \in {"tools", "rewrite"} /\ step' \in {"tools", "rewrite"}
             \/ step' = step
      PROVE  Conversation'
  <2>1. messages' = messages /\ calls' = calls
    BY <1>3
  <2>2. AllAnswered' <=> AllAnswered
    BY <2>1 DEF AllAnswered, Answered_
  <2>3. (\E p \in DOMAIN messages : InHand(p))' <=> (\E p \in DOMAIN messages : InHand(p))
    BY <2>1 DEF WorkingOff, Answered_
  <2>4. CASE step \in {"send", "answer", "backoff"} /\ step' \in {"send", "answer", "backoff"}
    BY <2>2, <2>4 DEF Conversation
  <2>5. CASE step \in {"tools", "rewrite"} /\ step' \in {"tools", "rewrite"}
    BY <2>3, <2>5 DEF Conversation
  <2>6. CASE step' = step
    BY <2>2, <2>3, <2>6 DEF Conversation
  <2>7. QED
    BY <1>3, <2>4, <2>5, <2>6
<1>4. CASE Retrieve
  <2>1. CASE step' = "reply"
    BY <1>2, <2>1
  <2>2. CASE step' = "send"
           /\ messages' = <<[role |-> "system", about |-> <<>>], [role |-> "user", about |-> <<>>]>>
    <3>1. DOMAIN messages' = 1..2 /\ messages'[1].role = "system" /\ messages'[2].role = "user"
      BY <2>2
    <3>2. \A i \in DOMAIN messages' : messages'[i].role # "assistant"
      BY <3>1
    <3>3. QED
      BY <2>2, <3>2 DEF Conversation, AllAnswered
  <2>3. QED
    BY <1>4, <2>1, <2>2 DEF Retrieve, Reaches, Ends
<1>5. CASE SendMistralOnce \/ MistralFails \/ RateLimited
  BY <1>2, <1>3, <1>5 DEF SendMistralOnce, Reaches, MistralFails, RateLimited, Ends, talkVars
<1>6. CASE Backoff
  BY <1>2, <1>3, <1>6 DEF Backoff, Ends
<1>7. ASSUME NEW n \in 1..MaxCalls, NEW tools \in [1..n -> Tools], AsksForTools(tools)
      PROVE  Conversation'
  <2>1. step = "answer" /\ step' = "tools" /\ turn < Turns /\ AllAnswered
    BY <1>7 DEF AsksForTools, AInv, Budget, Talking, Conversation
  <2>2. PICK ids : ids = [i \in 1..n |-> <<turn, i>>]
    OBVIOUS
  <2>3. /\ messages' = Says("assistant", ids) /\ ids \in Seq(CallIds)
        /\ calls' = [i \in 1..n |-> [id |-> <<turn, i>>, tool |-> tools[i]]] /\ Len(calls') = n
    BY <1>1, <1>7, <2>1, <2>2, AsksForToolsType
  <2>4. Len(ids) = n /\ \A j \in 1..n : calls'[j].id = ids[j]
    BY <2>2, <2>3
  <2>5. PICK p \in Nat : p = Len(messages) + 1
    BY <1>1
  <2>6. /\ Len(messages') = p /\ DOMAIN messages' = 1..p /\ DOMAIN messages = 1..p - 1
        /\ messages'[p].role = "assistant" /\ messages'[p].about = ids
        /\ \A i \in 1..p - 1 : messages'[i] = messages[i]
    <3>1. /\ Len(messages) \in Nat /\ Len(messages') = Len(messages) + 1
          /\ DOMAIN messages' = 1..Len(messages) + 1 /\ DOMAIN messages = 1..Len(messages)
          /\ messages'[Len(messages) + 1] = [role |-> "assistant", about |-> ids]
          /\ \A i \in 1..Len(messages) : messages'[i] = messages[i]
      BY <1>1, <2>3, SaysMore
    <3>2. Len(messages) = p - 1
      BY <2>5, <3>1
    <3>3. QED
      BY <2>5, <3>1, <3>2
  <2>7. WorkingOff(p)'
    <3>1. 1..Len(messages') - p = {}
      BY <2>5, <2>6
    <3>2. \A j \in 1..n : Len(messages') - p + j = j
      BY <2>6
    <3>3. Len(messages') + Len(calls') = p + Len(messages'[p].about)
      BY <2>3, <2>4, <2>6
    <3>4. \A j \in 1..Len(calls') : calls'[j].id = messages'[p].about[Len(messages') - p + j]
      BY <2>3, <2>4, <2>6, <3>2
    <3>5. QED
      BY <2>6, <3>1, <3>3, <3>4 DEF WorkingOff
  <2>8. ASSUME NEW i \in DOMAIN messages' \ {p}, messages'[i].role = "assistant"
        PROVE  Answered_(i)'
    <3>1. i \in DOMAIN messages /\ messages[i].role = "assistant"
      BY <2>5, <2>6, <2>8
    <3>2. QED
      BY <1>1, <2>1, <2>3, <3>1, StillAnswered DEF AllAnswered
  <2>9. p \in DOMAIN messages'
    BY <2>5, <2>6
  <2>10. QED
    BY <2>1, <2>7, <2>8, <2>9 DEF Conversation
<1>8. ASSUME calls # <<>>, step \in {"tools", "rewrite"}, step' = "tools",
             messages' = Result(Head(calls)), calls' = Tail(calls)
      PROVE  Conversation'
  <2>1. PICK p \in DOMAIN messages : InHand(p)
    BY <1>8 DEF Conversation
  <2>2. WorkingOff(p)'
    <3>1. p \in Nat
      BY <1>1, AboutType
    <3>2. QED
      BY <1>8, <2>1, <3>1, ResultFollows
  <2>3. PICK id \in CallIds : id = Head(calls).id
    BY <1>1, <1>8, FirstCall
  <2>4. <<id>> \in Seq(CallIds) /\ messages' = Says("tool", <<id>>)
    BY <1>8, <2>3 DEF Result
  <2>5. /\ Len(messages) \in Nat /\ DOMAIN messages' = 1..Len(messages) + 1
        /\ DOMAIN messages = 1..Len(messages)
        /\ messages'[Len(messages) + 1] = [role |-> "tool", about |-> <<id>>]
        /\ \A i \in 1..Len(messages) : messages'[i] = messages[i]
    BY <1>1, <2>4, SaysMore
  <2>6. ASSUME NEW i \in DOMAIN messages' \ {p}, messages'[i].role = "assistant"
        PROVE  Answered_(i)'
    <3>1. i # Len(messages) + 1
      BY <2>5, <2>6
    <3>2. i \in DOMAIN messages \ {p} /\ messages[i].role = "assistant"
      BY <2>5, <2>6, <3>1
    <3>3. QED
      BY <1>1, <2>1, <2>4, <3>2, StillAnswered
  <2>7. QED
    BY <1>8, <2>1, <2>2, <2>5, <2>6 DEF Conversation
<1>9. CASE ExecuteTool
  BY <1>8, <1>9 DEF ExecuteTool, Reaches
<1>10. CASE ToolRemediateContent
  BY <1>3, <1>8, <1>10 DEF ToolRemediateContent, Reaches
<1>11. CASE Rewritten
  BY <1>8, <1>11 DEF Rewritten, AInv, Budget
<1>12. CASE NextTurn
  <2>1. CASE step' = "reply"
    BY <1>2, <2>1
  <2>2. CASE step' = "send"
    <3>1. step = "tools" /\ calls = <<>> /\ UNCHANGED messages
      BY <1>12 DEF NextTurn
    <3>2. PICK p \in Nat : p \in DOMAIN messages /\ InHand(p)
      <4>1. PICK q \in DOMAIN messages : InHand(q)
        BY <3>1 DEF Conversation
      <4>2. q \in Nat
        BY <1>1, AboutType
      <4>3. QED
        BY <4>1, <4>2
    <3>3. Answered_(p)
      <4>1. PICK a \in Seq(CallIds) : a = messages[p].about /\ Len(a) \in Nat /\ DOMAIN a = 1..Len(a)
        BY <1>1, <3>2, AboutType
      <4>2. PICK n \in Nat : n = Len(messages) /\ p \in 1..n /\ DOMAIN messages = 1..n
        BY <1>1, <3>2, AboutType
      <4>3. n = p + Len(a)
            /\ \A k \in 1..n - p : messages[p + k] = [role |-> "tool", about |-> <<a[k]>>]
        BY <3>1, <3>2, <4>1, <4>2, SMTT(30) DEF WorkingOff
      <4>4. n - p = Len(a) /\ \A k \in 1..Len(a) : p + k \in 1..n
        <5>1. PICK l \in Nat : l = Len(a)
          BY <4>1
        <5>2. n = p + l
          BY <4>3, <5>1
        <5>3. n - p = l /\ \A k \in 1..l : p + k \in 1..n
          BY <5>2
        <5>4. QED
          BY <5>1, <5>3
      <4>5. QED
        BY <4>1, <4>2, <4>3, <4>4 DEF Answered_
    <3>4. AllAnswered
      BY <3>2, <3>3 DEF AllAnswered
    <3>5. QED
      BY <2>2, <3>1, <3>4 DEF Conversation, AllAnswered, Answered_
  <2>3. QED
    BY <1>12, <2>1, <2>2 DEF NextTurn, Ends
<1>13. ASSUME NEW v \in {"found", "empty"}, ParseVerdict(v)
       PROVE  Conversation'
  BY <1>2, <1>13 DEF ParseVerdict
<1>14. CASE CheckEmail \/ Post \/ InsertCheckLog \/ Reply
  BY <1>2, <1>14 DEF CheckEmail, Post, Ends, InsertCheckLog, Reply
<1>15. CASE CallerLeaves \/ ContextDone \/ UNCHANGED agentVars
  BY <1>3, <1>15 DEF CallerLeaves, ContextDone, agentVars, talkVars
<1>16. QED
  BY <1>4, <1>5, <1>6, <1>7, <1>9, <1>10, <1>11, <1>12, <1>13, <1>14, <1>15 DEF AgentNext

\* ToolsAnswered: whenever the model is asked, the conversation holds right after each of its
\* answers the result of every call that the answer made, in order.
THEOREM EveryCallAnswered == AgentSpec => []ToolsAnswered
<1>1. AgentInit => AInv /\ Conversation
  BY AInvInit DEF AgentInit, Conversation
<1>2. AInv /\ Conversation /\ [AgentNext]_agentVars => (AInv /\ Conversation)'
  BY AInvNext, ConversationNext
<1>3. Conversation => ToolsAnswered
  BY DEF Conversation, AllAnswered, ToolsAnswered
<1>4. QED
  BY <1>1, <1>2, <1>3, PTL DEF AgentSpec

------------------------------------------------------------------------------
(* The rate limiter: what is known of a request from its arrival on.          *)

\* Requests are finitely many, numbered in the order of their arrival, and lie in the past.
Arrived ==
  /\ IsFiniteSet(made) /\ Cardinality(made) \in Nat
  /\ \A q \in made : q.nth <= Cardinality(made) /\ q.at <= clock

\* A request waits for the mutex no longer than Slack.
Waits == \A h \in Handlers : waiting[h] # NoRequest => clock <= waiting[h].at + Slack

\* The key of an address holds requests of that address, and the time that the last of them
\* to enter has is at most Slack before that of any other.
Keys ==
  \A a \in Addresses : \A q \in rlStore[a].times :
    q.ip = a /\ q.at <= rlStore[a].end + Slack

\* What was let in stays counted as long as it can still matter to a request to come.
Kept ==
  \A q \in admitted : q.at >= clock - Window + Slack => q \in rlStore[q.ip].times

LimitInv == LimitTypeOK /\ Arrived /\ Waits /\ Keys /\ Kept

LEMMA LimitConstants ==
  /\ Slack \in Nat /\ Slack >= 1 /\ Window \in Nat /\ Window > Slack
  /\ Cleanup \in Nat /\ MaxReqs \in Nat /\ Horizon \in Nat /\ MaxArrivals \in Nat
BY WindowAssumption, ReqsAssumption

LEMMA WithinFinite ==
  ASSUME NEW S, IsFiniteSet(S), NEW a, NEW t, NEW u
  PROVE  /\ IsFiniteSet(Within(S, a, t, u))
         /\ Cardinality(Within(S, a, t, u)) \in Nat
<1>1. Within(S, a, t, u) \in SUBSET S
  BY DEF Within
<1>2. QED
  BY <1>1, FS_Subset, FS_CardinalityType

\* A clean-up leaves an address its key, or takes it away as a whole.
LEMMA CleanedKeys ==
  ASSUME LimitTypeOK, NEW now \in Int
  PROVE  /\ Cleaned(now) \in [Addresses -> [times : SUBSET made, end : Times]]
         /\ \A a \in Addresses :
              Cleaned(now)[a] = rlStore[a] \/ (Cleaned(now)[a] = NoKey /\ Quiet(rlStore[a], now))
<1>1. NoKey \in [times : SUBSET made, end : Times] /\ Cleanup \in Nat
  BY LimitConstants DEF NoKey, Times
<1>2. CASE now - rlLastClean > Cleanup
  <2>1. Cleaned(now) = [a \in Addresses |-> IF Quiet(rlStore[a], now) THEN NoKey ELSE rlStore[a]]
    BY <1>2 DEF Cleaned
  <2>2. QED
    BY <1>1, <2>1 DEF LimitTypeOK
<1>3. CASE ~(now - rlLastClean > Cleanup)
  BY <1>3 DEF Cleaned, LimitTypeOK
<1>4. QED
  BY <1>2, <1>3

\* The window of an address holds requests that the address made since a window before.
LEMMA FilteredType ==
  ASSUME LimitInv, NEW r \in made
  PROVE  /\ Filtered(r) \in SUBSET made /\ IsFiniteSet(Filtered(r)) /\ r \in Filtered(r)
         /\ \A q \in Filtered(r) : q.ip = r.ip /\ q.at > r.at - Window
<1>1. r.at \in Int /\ r.ip \in Addresses /\ Window \in Nat /\ Window > 0
  BY LimitConstants DEF LimitInv, LimitTypeOK, Request_, Times
<1>2. Cleaned(r.at)[r.ip].times \in SUBSET made
  BY <1>1, CleanedKeys DEF LimitInv
<1>3. \A q \in Cleaned(r.at)[r.ip].times : q.ip = r.ip
  BY <1>1, CleanedKeys DEF LimitInv, Keys, NoKey
<1>4. Filtered(r) \in SUBSET made
  BY <1>2 DEF Filtered
<1>5. IsFiniteSet(Filtered(r))
  BY <1>4, FS_Subset DEF LimitInv, Arrived
<1>6. r \in Filtered(r)
  BY DEF Filtered
<1>7. r.at > r.at - Window
  BY <1>1
<1>8. QED
  BY <1>3, <1>4, <1>5, <1>6, <1>7 DEF Filtered, InWindow

\* What was let in lately enough is in the window that a request of its address finds.
LEMMA StillCounted ==
  ASSUME LimitInv, NEW r \in made, clock <= r.at + Slack,
         NEW q \in admitted, q.ip = r.ip, q.at >= r.at - Window + 2 * Slack
  PROVE  q \in Filtered(r)
<1>1. /\ r.at \in Int /\ q.at \in Int /\ clock \in Int /\ r.ip \in Addresses
      /\ rlStore[r.ip].end \in Int
  BY DEF LimitInv, LimitTypeOK, Request_, Times
<1>2. q.at >= clock - Window + Slack /\ q.at >= r.at - Window + Slack /\ q.at > r.at - Window
  BY <1>1, LimitConstants
<1>3. q \in rlStore[r.ip].times
  BY <1>2 DEF LimitInv, Kept
<1>4. q.at <= rlStore[r.ip].end + Slack
  BY <1>1, <1>3 DEF LimitInv, Keys
<1>5. ~(rlStore[r.ip].end < r.at - Window)
  BY <1>1, <1>2, <1>4, LimitConstants
<1>6. ~Quiet(rlStore[r.ip], r.at)
  BY <1>3, <1>5 DEF Quiet
<1>7. Cleaned(r.at)[r.ip] = rlStore[r.ip]
  BY <1>1, <1>6, CleanedKeys DEF LimitInv
<1>8. QED
  BY <1>2, <1>3, <1>7 DEF Filtered, InWindow

\* The parts of an answer, with the window and the verdict by name.
LEMMA ServeParts ==
  ASSUME LimitInv, NEW h \in Handlers, Serve(h)
  PROVE  \E r \in made, ok \in BOOLEAN :
           /\ r = waiting[h] /\ r # NoRequest /\ clock <= r.at + Slack
           /\ ok <=> Cardinality(Filtered(r)) <= MaxReqs
           /\ rlStore' = [Cleaned(r.at) EXCEPT ![r.ip] = [times |-> Filtered(r), end |-> r.at]]
           /\ rlLastClean' \in {r.at, rlLastClean}
           /\ admitted' = IF ok THEN admitted \cup {r} ELSE admitted
           /\ last' = [request |-> r, ok |-> ok]
           /\ waiting' = [waiting EXCEPT ![h] = NoRequest]
           /\ clock' = clock /\ made' = made
<1>1. waiting[h] \in made /\ waiting[h] # NoRequest
  BY DEF Serve, LimitInv, LimitTypeOK
<1>2. PICK r \in made : r = waiting[h]
  BY <1>1
<1>3. PICK ok \in BOOLEAN : ok <=> Cardinality(Filtered(r)) <= MaxReqs
  OBVIOUS
<1>4. /\ rlStore' = [Cleaned(r.at) EXCEPT ![r.ip] = [times |-> Filtered(r), end |-> r.at]]
      /\ rlLastClean' \in {r.at, rlLastClean}
      /\ admitted' = IF ok THEN admitted \cup {r} ELSE admitted
      /\ waiting' = [waiting EXCEPT ![h] = NoRequest]
      /\ clock' = clock /\ made' = made
  BY <1>2, <1>3 DEF Serve
<1>5. last' = [request |-> r, ok |-> ok]
  BY <1>2, <1>3 DEF Serve
<1>6. clock <= r.at + Slack
  BY <1>1, <1>2 DEF LimitInv, Waits
<1>7. QED
  BY <1>1, <1>2, <1>3, <1>4, <1>5, <1>6

LEMMA LimitInvInit == LimitInit => LimitInv
<1> SUFFICES ASSUME LimitInit PROVE LimitInv
  OBVIOUS
<1>1. LimitTypeOK
  BY LimitConstants DEF LimitInit, LimitTypeOK, Times, NoKey
<1>2. Arrived
  BY FS_EmptySet DEF LimitInit, Arrived
<1>3. Waits /\ Keys /\ Kept
  BY DEF LimitInit, Waits, Keys, Kept, NoKey
<1>4. QED
  BY <1>1, <1>2, <1>3 DEF LimitInv

LEMMA ServeKeepsInv ==
  ASSUME LimitInv, NEW h \in Handlers, Serve(h)
  PROVE  LimitInv'
<1>1. PICK r \in made, ok \in BOOLEAN :
           /\ r = waiting[h] /\ r # NoRequest /\ clock <= r.at + Slack
           /\ ok <=> Cardinality(Filtered(r)) <= MaxReqs
           /\ rlStore' = [Cleaned(r.at) EXCEPT ![r.ip] = [times |-> Filtered(r), end |-> r.at]]
           /\ rlLastClean' \in {r.at, rlLastClean}
           /\ admitted' = IF ok THEN admitted \cup {r} ELSE admitted
           /\ last' = [request |-> r, ok |-> ok]
           /\ waiting' = [waiting EXCEPT ![h] = NoRequest]
           /\ clock' = clock /\ made' = made
  BY ServeParts
<1>2. /\ r.at \in Times /\ r.at \in Int /\ r.ip \in Addresses /\ clock \in Int
      /\ made \subseteq Request_
  BY DEF LimitInv, LimitTypeOK, Request_, Times
<1>3. /\ Filtered(r) \in SUBSET made /\ r \in Filtered(r)
      /\ \A q \in Filtered(r) : q.ip = r.ip
  BY FilteredType
<1>4. PICK F \in SUBSET made : F = Filtered(r)
  BY <1>3
<1>5. PICK C \in [Addresses -> [times : SUBSET made, end : Times]] : C = Cleaned(r.at)
  BY <1>2, CleanedKeys DEF LimitInv
<1>6. rlStore' = [C EXCEPT ![r.ip] = [times |-> F, end |-> r.at]]
  BY <1>1, <1>4, <1>5
<1>7. \A a \in Addresses : C[a] = rlStore[a] \/ (C[a] = NoKey /\ Quiet(rlStore[a], r.at))
  BY <1>2, <1>5, CleanedKeys DEF LimitInv
<1>8. /\ rlStore'[r.ip] = [times |-> F, end |-> r.at]
      /\ \A a \in Addresses : a # r.ip => rlStore'[a] = C[a]
  BY <1>2, <1>5, <1>6
<1>9. LimitTypeOK'
  <2>1. rlStore' \in [Addresses -> [times : SUBSET made, end : Times]]
    BY <1>2, <1>4, <1>5, <1>6
  <2>2. clock' \in Times /\ rlLastClean' \in Times
    BY <1>1, <1>2 DEF LimitInv, LimitTypeOK
  <2>3. admitted' \subseteq made'
    BY <1>1 DEF LimitInv, LimitTypeOK
  <2>4. waiting' \in [Handlers -> made' \cup {NoRequest}]
    BY <1>1 DEF LimitInv, LimitTypeOK
  <2>5. last' \in [request : made' \cup {NoRequest}, ok : BOOLEAN]
    BY <1>1
  <2>6. QED
    BY <1>1, <1>2, <2>1, <2>2, <2>3, <2>4, <2>5 DEF LimitTypeOK
<1>10. Arrived'
  BY <1>1 DEF LimitInv, Arrived
<1>11. Waits'
  BY <1>1 DEF LimitInv, LimitTypeOK, Waits
<1>12. Keys'
  <2> SUFFICES ASSUME NEW a \in Addresses, NEW q \in rlStore'[a].times
               PROVE  q.ip = a /\ q.at <= rlStore'[a].end + Slack
    BY DEF Keys
  <2>1. CASE a = r.ip
    <3>1. q \in F /\ rlStore'[a].end = r.at
      BY <1>8, <2>1
    <3>2. q \in made /\ q.ip = a
      BY <1>3, <1>4, <2>1, <3>1
    <3>3. q.at <= clock /\ q.at \in Int
      BY <3>2 DEF LimitInv, LimitTypeOK, Arrived, Request_, Times
    <3>4. q.at <= r.at + Slack
      BY <1>1, <1>2, <3>3, LimitConstants
    <3>5. QED
      BY <3>1, <3>2, <3>4
  <2>2. CASE a # r.ip
    <3>1. rlStore'[a] = C[a]
      BY <1>8, <2>2
    <3>2. C[a] = rlStore[a]
      BY <1>7, <3>1 DEF NoKey
    <3>3. QED
      BY <3>1, <3>2 DEF LimitInv, Keys
  <2>3. QED
    BY <2>1, <2>2
<1>13. Kept'
  <2> SUFFICES ASSUME NEW q \in admitted', q.at >= clock - Window + Slack
               PROVE  q \in rlStore'[q.ip].times
    <3>1. clock' = clock
      BY <1>1
    <3>2. QED
      BY <3>1 DEF Kept
  <2>1. q \in admitted \/ q = r
    BY <1>1
  <2>2. CASE q = r
    BY <1>3, <1>4, <1>8, <2>2
  <2>3. CASE q \in admitted
    <3>1. q \in made /\ q.ip \in Addresses /\ q.at \in Int
      BY <2>3 DEF LimitInv, LimitTypeOK, Request_, Times
    <3>2. q \in rlStore[q.ip].times
      BY <2>3 DEF LimitInv, Kept
    <3>3. rlStore[q.ip].end \in Int /\ q.at <= rlStore[q.ip].end + Slack
      BY <3>1, <3>2 DEF LimitInv, LimitTypeOK, Keys, Times
    <3>4. r.at <= clock
      BY DEF LimitInv, Arrived
    <3>5. ~(rlStore[q.ip].end < r.at - Window) /\ q.at > r.at - Window
      BY <1>2, <3>1, <3>3, <3>4, LimitConstants
    <3>6. ~Quiet(rlStore[q.ip], r.at)
      BY <3>2, <3>5 DEF Quiet
    <3>7. C[q.ip] = rlStore[q.ip]
      BY <1>7, <3>1, <3>6
    <3>8. CASE q.ip = r.ip
      <4>1. q \in F
        BY <1>4, <1>5, <3>2, <3>5, <3>7, <3>8 DEF Filtered, InWindow
      <4>2. QED
        BY <1>8, <3>8, <4>1
    <3>9. CASE q.ip # r.ip
      BY <1>8, <3>1, <3>2, <3>7, <3>9
    <3>10. QED
      BY <3>8, <3>9
  <2>4. QED
    BY <2>1, <2>2, <2>3
<1>14. QED
  BY <1>9, <1>10, <1>11, <1>12, <1>13 DEF LimitInv

LEMMA ArriveKeepsInv ==
  ASSUME LimitInv, NEW h \in Handlers, NEW a \in Addresses, Arrive(h, a)
  PROVE  LimitInv' /\ (\E r \in Request_ : r \notin made /\ made' = made \cup {r})
<1>1. PICK n \in Nat : n = Cardinality(made)
  BY DEF LimitInv, Arrived
<1>2. PICK r : r = [ip |-> a, at |-> clock, nth |-> n + 1]
  OBVIOUS
<1>3. /\ waiting' = [waiting EXCEPT ![h] = r] /\ made' = made \cup {r}
      /\ clock' = clock /\ rlStore' = rlStore /\ rlLastClean' = rlLastClean
      /\ admitted' = admitted /\ last' = last
  BY <1>1, <1>2 DEF Arrive
<1>4. r \in Request_ /\ r.at = clock /\ r.nth = n + 1 /\ clock \in Int
  BY <1>1, <1>2 DEF LimitInv, LimitTypeOK, Request_, Times
<1>5. r \notin made
  <2>1. \A q \in made : q.nth <= n /\ q.nth \in Nat
    BY <1>1 DEF LimitInv, LimitTypeOK, Arrived, Request_
  <2>2. QED
    BY <1>1, <1>4, <2>1
<1>6. LimitTypeOK'
  <2>1. rlStore' \in [Addresses -> [times : SUBSET made', end : Times]]
    <3>1. \A b \in Addresses : rlStore[b] \in [times : SUBSET made', end : Times]
      BY <1>3 DEF LimitInv, LimitTypeOK
    <3>2. QED
      BY <1>3, <3>1 DEF LimitInv, LimitTypeOK
  <2>2. waiting' \in [Handlers -> made' \cup {NoRequest}]
    BY <1>3 DEF LimitInv, LimitTypeOK
  <2>3. last' \in [request : made' \cup {NoRequest}, ok : BOOLEAN]
    BY <1>3 DEF LimitInv, LimitTypeOK
  <2>4. QED
    BY <1>3, <1>4, <2>1, <2>2, <2>3 DEF LimitInv, LimitTypeOK
<1>7. Arrived'
  <2>1. IsFiniteSet(made') /\ Cardinality(made') = n + 1
    BY <1>1, <1>3, <1>5, FS_AddElement DEF LimitInv, Arrived
  <2>2. \A q \in made : q.nth <= n + 1 /\ q.at <= clock
    BY <1>1 DEF LimitInv, LimitTypeOK, Arrived, Request_
  <2>3. \A q \in made' : q.nth <= n + 1 /\ q.at <= clock
    BY <1>1, <1>3, <1>4, <2>2
  <2>4. QED
    BY <1>1, <1>3, <2>1, <2>3 DEF Arrived
<1>8. Waits'
  BY <1>3, <1>4, LimitConstants DEF LimitInv, LimitTypeOK, Waits
<1>9. Keys' /\ Kept'
  BY <1>3 DEF LimitInv, Keys, Kept
<1>10. QED
  BY <1>3, <1>4, <1>5, <1>6, <1>7, <1>8, <1>9 DEF LimitInv

LEMMA PassesKeepsInv ==
  ASSUME LimitInv, Passes
  PROVE  LimitInv'
<1>1. /\ clock' = clock + 1 /\ clock \in Nat /\ clock < Horizon
      /\ rlStore' = rlStore /\ rlLastClean' = rlLastClean /\ waiting' = waiting
      /\ made' = made /\ admitted' = admitted /\ last' = last
  BY DEF Passes, LimitInv, LimitTypeOK, Times
<1>2. \A q \in made : q.at \in Int
  BY DEF LimitInv, LimitTypeOK, Request_, Times
<1>3. LimitTypeOK'
  BY <1>1, LimitConstants DEF LimitInv, LimitTypeOK, Times
<1>4. Arrived'
  BY <1>1, <1>2 DEF LimitInv, Arrived
<1>5. Waits'
  <2> SUFFICES ASSUME NEW h \in Handlers, waiting[h] # NoRequest
               PROVE  clock + 1 <= waiting[h].at + Slack
    BY <1>1 DEF Waits
  <2>1. waiting[h] \in made /\ clock - waiting[h].at < Slack
    BY DEF Passes, LimitInv, LimitTypeOK
  <2>2. QED
    BY <1>1, <1>2, <2>1, LimitConstants
<1>6. Keys'
  BY <1>1 DEF LimitInv, Keys
<1>7. Kept'
  <2> SUFFICES ASSUME NEW q \in admitted, q.at >= clock' - Window + Slack
               PROVE  q \in rlStore[q.ip].times
    <3>1. admitted' = admitted /\ rlStore' = rlStore
      BY <1>1
    <3>2. QED
      BY <3>1 DEF Kept
  <2>1. q.at \in Int
    BY <1>2 DEF LimitInv, LimitTypeOK
  <2>2. q.at >= clock - Window + Slack
    BY <1>1, <2>1, LimitConstants
  <2>3. QED
    BY <2>2 DEF LimitInv, Kept
<1>8. QED
  BY <1>3, <1>4, <1>5, <1>6, <1>7 DEF LimitInv

LEMMA LimitInvNext == LimitInv /\ [LimitNext]_limitVars => LimitInv'
<1> SUFFICES ASSUME LimitInv, [LimitNext]_limitVars PROVE LimitInv'
  OBVIOUS
<1>1. CASE UNCHANGED limitVars
  BY <1>1 DEF limitVars, LimitInv, LimitTypeOK, Arrived, Waits, Keys, Kept
<1>2. QED
  BY <1>1, ServeKeepsInv, ArriveKeepsInv, PassesKeepsInv DEF LimitNext

\* LimitTypeOK, for every number of addresses and goroutines and every window.
THEOREM LimiterTypeCorrect == LimitSpec => []LimitTypeOK
<1>1. LimitInv => LimitTypeOK
  BY DEF LimitInv
<1>2. QED
  BY <1>1, LimitInvInit, LimitInvNext, PTL DEF LimitSpec

\* Limited: an address is let in at most MaxReqs times in a window less twice the time that a
\* request may wait for the mutex (ratelimit.go: authRateLimit).
THEOREM LetInSeldom == LimitSpec => []Limited
<1>1. LimitInit => Limited
  <2> SUFFICES ASSUME LimitInit, NEW a \in Addresses, NEW t \in Times
               PROVE  Cardinality(Within(admitted, a, t, t + Window - 2 * Slack)) <= MaxReqs
    BY DEF Limited
  <2>1. Within(admitted, a, t, t + Window - 2 * Slack) = {}
    BY DEF LimitInit, Within
  <2>2. QED
    <3>1. Cardinality({}) = 0 /\ 0 <= MaxReqs
      BY FS_EmptySet, LimitConstants
    <3>2. QED
      BY <2>1, <3>1
<1>2. LimitInv /\ Limited /\ [LimitNext]_limitVars => Limited'
  <2> SUFFICES ASSUME LimitInv, Limited, [LimitNext]_limitVars PROVE Limited'
    OBVIOUS
  <2>1. CASE admitted' = admitted
    BY <2>1 DEF Limited, Within
  <2>2. ASSUME NEW h \in Handlers, Serve(h)
        PROVE  Limited'
    <3>1. PICK r \in made, ok \in BOOLEAN :
             /\ clock <= r.at + Slack
             /\ ok <=> Cardinality(Filtered(r)) <= MaxReqs
             /\ admitted' = IF ok THEN admitted \cup {r} ELSE admitted
      BY <2>2, ServeParts
    <3>2. CASE ~ok
      BY <2>1, <3>1, <3>2
    <3>3. CASE ok
      <4> SUFFICES ASSUME NEW a \in Addresses, NEW t \in Times
                   PROVE  Cardinality(Within(admitted', a, t, t + Window - 2 * Slack)) <= MaxReqs
        BY DEF Limited, Within
      <4>1. PICK u \in Int : u = t + Window - 2 * Slack
        BY LimitConstants DEF Times
      <4>2. PICK S : S = Within(admitted', a, t, u)
        OBVIOUS
      <4>3. admitted' = admitted \cup {r}
        BY <3>1, <3>3
      <4>4. CASE r \notin S
        <5>1. S = Within(admitted, a, t, u)
          BY <4>2, <4>3, <4>4 DEF Within
        <5>2. QED
          BY <4>1, <4>2, <5>1 DEF Limited
      <4>5. CASE r \in S
        <5>1. r.ip = a /\ r.at <= u /\ r.at \in Int /\ t \in Int
          BY <4>2, <4>5 DEF Within, LimitInv, LimitTypeOK, Request_, Times
        <5>2. ASSUME NEW q \in S PROVE q \in Filtered(r)
          <6>1. CASE q = r
            BY <6>1, FilteredType
          <6>2. CASE q # r
            <7>1. q \in admitted /\ q.ip = r.ip /\ q.at >= t /\ q.at \in Int
              BY <4>2, <4>3, <5>1, <5>2, <6>2 DEF Within, LimitInv, LimitTypeOK, Request_, Times
            <7>2. q.at >= r.at - Window + 2 * Slack
              BY <4>1, <5>1, <7>1, LimitConstants
            <7>3. QED
              BY <3>1, <7>1, <7>2, StillCounted
          <6>3. QED
            BY <6>1, <6>2
        <5>3. IsFiniteSet(Filtered(r)) /\ S \in SUBSET Filtered(r)
          BY <5>2, FilteredType
        <5>4. Cardinality(S) <= Cardinality(Filtered(r)) /\ Cardinality(S) \in Nat
          BY <5>3, FS_Subset, FS_CardinalityType
        <5>5. Cardinality(Filtered(r)) \in Nat /\ Cardinality(Filtered(r)) <= MaxReqs
          BY <3>1, <3>3, <5>3, FS_CardinalityType
        <5>6. QED
          BY <4>1, <4>2, <5>4, <5>5, LimitConstants
      <4>6. QED
        BY <4>4, <4>5
    <3>4. QED
      BY <3>2, <3>3
  <2>3. ASSUME NEW h \in Handlers, NEW a \in Addresses, Arrive(h, a)
        PROVE  Limited'
    BY <2>1, <2>3 DEF Arrive
  <2>4. CASE Passes \/ UNCHANGED limitVars
    BY <2>1, <2>4 DEF Passes, limitVars
  <2>5. QED
    BY <2>2, <2>3, <2>4 DEF LimitNext
<1>3. QED
  BY <1>1, <1>2, LimitInvInit, LimitInvNext, PTL DEF LimitSpec

\* RefusedForCause: the 429 that was last answered has more than MaxReqs requests of its address
\* behind it, made since a window before (ratelimit.go: authRateLimit).
THEOREM NobodyRefusedForNothing == LimitSpec => []RefusedForCause
<1>1. LimitInit => RefusedForCause
  BY DEF LimitInit, RefusedForCause
<1>2. LimitInv /\ RefusedForCause /\ [LimitNext]_limitVars => RefusedForCause'
  <2> SUFFICES ASSUME LimitInv, RefusedForCause, [LimitNext]_limitVars PROVE RefusedForCause'
    OBVIOUS
  <2>1. CASE last' = last /\ made' = made
    BY <2>1 DEF RefusedForCause
  <2>2. ASSUME NEW h \in Handlers, Serve(h)
        PROVE  RefusedForCause'
    <3>1. PICK r \in made, ok \in BOOLEAN :
             /\ ok <=> Cardinality(Filtered(r)) <= MaxReqs
             /\ last' = [request |-> r, ok |-> ok]
             /\ made' = made
      BY <2>2, ServeParts
    <3>2. CASE ok
      BY <3>1, <3>2 DEF RefusedForCause
    <3>3. CASE ~ok
      <4>1. PICK S : S = Within(made, r.ip, r.at - Window + 1, Horizon)
        OBVIOUS
      <4>2. IsFiniteSet(S) /\ Cardinality(S) \in Nat
        BY <4>1, WithinFinite DEF LimitInv, Arrived
      <4>3. ASSUME NEW q \in Filtered(r) PROVE q \in S
        <5>1. q \in made /\ q.ip = r.ip /\ q.at > r.at - Window
          BY FilteredType
        <5>2. q.at \in 0..Horizon /\ r.at \in Int
          BY <5>1 DEF LimitInv, LimitTypeOK, Request_, Times
        <5>3. q.at \in (r.at - Window + 1)..Horizon
          BY <5>1, <5>2, LimitConstants
        <5>4. QED
          BY <4>1, <5>1, <5>3 DEF Within
      <4>4. Filtered(r) \in SUBSET S
        BY <4>3
      <4>5. /\ Cardinality(Filtered(r)) <= Cardinality(S)
            /\ Cardinality(Filtered(r)) \in Nat
        BY <4>2, <4>4, FS_Subset, FS_CardinalityType
      <4>6. Cardinality(S) > MaxReqs
        BY <3>1, <3>3, <4>2, <4>5, LimitConstants
      <4>7. QED
        BY <3>1, <4>1, <4>6 DEF RefusedForCause
    <3>4. QED
      BY <3>2, <3>3
  <2>3. ASSUME NEW h \in Handlers, NEW a \in Addresses, Arrive(h, a)
        PROVE  RefusedForCause'
    <3>1. /\ last' = last /\ made \subseteq made'
          /\ IsFiniteSet(made) /\ IsFiniteSet(made')
      BY <2>3, ArriveKeepsInv DEF Arrive, LimitInv, Arrived
    <3>2. PICK S, T : /\ S = Within(made, last.request.ip, last.request.at - Window + 1, Horizon)
                      /\ T = Within(made', last.request.ip, last.request.at - Window + 1, Horizon)
      OBVIOUS
    <3>3. S \in SUBSET T /\ IsFiniteSet(T)
      <4>1. S \in SUBSET T
        BY <3>1, <3>2 DEF Within
      <4>2. IsFiniteSet(T)
        BY <3>1, <3>2, WithinFinite
      <4>3. QED
        BY <4>1, <4>2
    <3>4. Cardinality(S) <= Cardinality(T) /\ Cardinality(S) \in Nat /\ Cardinality(T) \in Nat
      BY <3>3, FS_Subset, FS_CardinalityType
    <3>5. last.ok \/ Cardinality(S) > MaxReqs
      BY <3>2 DEF RefusedForCause
    <3>6. last.ok \/ Cardinality(T) > MaxReqs
      BY <3>4, <3>5, LimitConstants
    <3>7. QED
      BY <3>1, <3>2, <3>6 DEF RefusedForCause
  <2>4. CASE Passes \/ UNCHANGED limitVars
    BY <2>1, <2>4 DEF Passes, limitVars
  <2>5. QED
    BY <2>2, <2>3, <2>4 DEF LimitNext
<1>3. QED
  BY <1>1, <1>2, LimitInvInit, LimitInvNext, PTL DEF LimitSpec

------------------------------------------------------------------------------
(* The three side by side.                                                   *)

\* MCService starts like each of the three, and each of its steps is one of the three or
\* leaves it alone: so what is proved of Billing, RateLimit and AgentLoop holds of the run.
THEOREM SideBySide == Spec => BillingSpec /\ LimitSpec /\ AgentSpec
<1>1. Init => BillingInit /\ LimitInit /\ AgentInit
  BY DEF Init
<1>2. [Next]_<<billingVars, limitVars, agentVars>> =>
        /\ [BillingNext]_billingVars /\ [LimitNext]_limitVars /\ [AgentNext]_agentVars
  BY DEF Next
<1>3. QED
  BY <1>1, <1>2, PTL DEF Spec, BillingSpec, LimitSpec, AgentSpec

\* TypeOK of MCService: the types of the three.
THEOREM ServiceTypeCorrect == Spec => []TypeOK
<1>1. BillingTypeOK /\ LimitTypeOK /\ AgentTypeOK => TypeOK
  BY DEF TypeOK
<1>2. QED
  BY <1>1, SideBySide, TypeCorrect, LimiterTypeCorrect, AgentTypeCorrect, PTL
=============================================================================
