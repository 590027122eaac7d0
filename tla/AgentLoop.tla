-------------------------------- MODULE AgentLoop --------------------------------
(***************************************************************************)
(* The synchronous check: CheckEmail in tenant-service, which pays for a   *)
(* scan and asks ai-compliance-service, and the agent's loop there, which  *)
(* talks with the model until it has a verdict.                            *)
(*                                                                         *)
(* The model (Mistral) asks for tools, gives its verdict, is rate limited, *)
(* fails, or says nothing for as long as it likes: no request has a        *)
(* timeout.  The caller may leave at any time; that cancels the context of *)
(* both handlers, the second one some time after.                          *)
(***************************************************************************)
EXTENDS Integers, Sequences, SequencesExt

CONSTANTS
  Tools,      \* names the model may ask for
  Turns,      \* the turns of RunLoop: 10 in the code
  Attempts,   \* the attempts with a wait after each: 4 in the code
  ScanLimit,  \* the scans of the plan
  MaxCalls    \* bound: tool calls in one answer, which the code leaves to the model

ASSUME AgentAssumption == Turns \in Nat \ {0} /\ Attempts \in Nat /\ ScanLimit \in Nat /\ MaxCalls \in Nat

VARIABLES
  step,      \* where the check is
  caller,    \* TRUE until the caller leaves
  ctx,       \* TRUE until the context of the agent is done
  scans,     \* scans paid for
  turn, attempt,
  messages,  \* the conversation the next request sends
  calls,     \* tool calls of the last answer that are still to be made
  sends,     \* requests of this check that reached Mistral: for an answer, a rewriting or an embedding
  verdict,   \* of RunLoop
  checked    \* rows of the audit log with the action "checked"

talkVars  == <<turn, attempt, messages, calls>>
agentVars == <<step, caller, ctx, scans, talkVars, sends, verdict, checked>>

\* A call has an id of its own: the turn and its place in the answer.
CallIds  == (0..Turns - 1) \X (1..MaxCalls)
CallsOf  == [id : CallIds, tool : Tools]
\* A message of the assistant is about the calls it asks for, one of a tool about its call.
Messages == [role : {"system", "user", "assistant", "tool"}, about : Seq(CallIds)]
Says(role, ids) == Append(messages, [role |-> role, about |-> ids])
Verdicts == {"none", "found", "empty", "error"}
Steps    == {"idle", "post", "retrieve", "send", "answer", "backoff", "tools", "rewrite", "audit", "reply"}

AgentTypeOK ==
  /\ step \in Steps /\ caller \in BOOLEAN /\ ctx \in BOOLEAN
  /\ scans \in 0..ScanLimit /\ checked \in 0..scans
  /\ turn \in 0..Turns /\ attempt \in 0..Attempts
  /\ messages \in Seq(Messages) /\ calls \in Seq(CallsOf)
  /\ sends \in Nat
  /\ verdict \in Verdicts

AgentInit ==
  /\ step = "idle" /\ caller = TRUE /\ ctx = TRUE
  /\ scans = 0 /\ checked = 0 /\ sends = 0 /\ verdict = "none"
  /\ turn = 0 /\ attempt = 0 /\ messages = <<>> /\ calls = <<>>

Ends(v) == step' = "reply" /\ verdict' = v

\* A request whose context is done is not sent.
Reaches(next) == ctx /\ sends' = sends + 1 /\ next

------------------------------------------------------------------------------
(* CheckEmail and checkEmail.                                               *)

\* CheckAndIncrementScan, which does nothing for a tenant at its limit.
CheckEmail ==
  /\ step = "idle" /\ scans < ScanLimit
  /\ scans' = scans + 1 /\ step' = "post"
  /\ caller' = TRUE /\ ctx' = TRUE /\ verdict' = "none" /\ sends' = 0
  /\ turn' = 0 /\ attempt' = 0 /\ messages' = <<>> /\ calls' = <<>>
  /\ UNCHANGED checked

\* The request to /internal/check, or its failure.
Post ==
  /\ step = "post"
  /\ \/ caller /\ step' = "retrieve" /\ UNCHANGED verdict
     \/ Ends("error")
  /\ UNCHANGED <<caller, ctx, scans, talkVars, sends, checked>>

\* The embedding of the e-mail, the tenant's policies and history, and the prompt made of them.
Retrieve ==
  /\ step = "retrieve"
  /\ \/ /\ Reaches(step' = "send") /\ UNCHANGED verdict
        /\ messages' = <<[role |-> "system", about |-> <<>>], [role |-> "user", about |-> <<>>]>>
     \/ /\ Ends("error") /\ UNCHANGED messages
        /\ Reaches(TRUE) \/ UNCHANGED sends
  /\ UNCHANGED <<caller, ctx, scans, turn, attempt, calls, checked>>

------------------------------------------------------------------------------
(* RunLoop.                                                                 *)

SendMistralOnce ==
  /\ step = "send"
  /\ \/ Reaches(step' = "answer") /\ UNCHANGED verdict
     \/ Ends("error") /\ UNCHANGED sends
  /\ UNCHANGED <<caller, ctx, scans, talkVars, checked>>

\* No choices, an answer that does not parse, or any error but a 429; parseVerdict's too.
MistralFails ==
  /\ step = "answer"
  /\ Ends("error")
  /\ UNCHANGED <<caller, ctx, scans, talkVars, sends, checked>>

\* Mutant of RateLimited: every attempt is followed by a wait.
AlwaysWaits ==
  /\ step = "answer" /\ ctx
  /\ step' = "backoff"
  /\ UNCHANGED <<caller, ctx, scans, talkVars, sends, verdict, checked>>
\* The last attempt is not followed by a wait.
RateLimited ==
  /\ step = "answer" /\ ctx
  /\ IF attempt < Attempts THEN step' = "backoff" /\ UNCHANGED verdict ELSE Ends("error")
  /\ UNCHANGED <<caller, ctx, scans, talkVars, sends, checked>>

\* Mutant of Backoff: the attempts are not counted.
WaitUncounted ==
  /\ step = "backoff"
  /\ \/ step' = "send" /\ UNCHANGED verdict
     \/ ~ctx /\ Ends("error")
  /\ UNCHANGED <<caller, ctx, scans, talkVars, sends, checked>>
\* The timer, or the context; either when both are over.
Backoff ==
  /\ step = "backoff"
  /\ \/ attempt' = attempt + 1 /\ step' = "send" /\ UNCHANGED verdict
     \/ ~ctx /\ Ends("error") /\ UNCHANGED attempt
  /\ UNCHANGED <<caller, ctx, scans, turn, messages, calls, sends, checked>>

\* The message of the model comes first; its text is dropped.
AsksForTools(tools) ==
  LET asked == [i \in DOMAIN tools |-> [id |-> <<turn, i>>, tool |-> tools[i]]] IN
  /\ step = "answer" /\ ctx /\ tools # <<>>
  /\ messages' = Says("assistant", [i \in DOMAIN tools |-> <<turn, i>>])
  /\ calls' = asked
  /\ step' = "tools"
  /\ UNCHANGED <<caller, ctx, scans, turn, attempt, sends, verdict, checked>>

\* Mutant of Result: a tool nobody knows has no result.
KnownOnly(c) == IF c.tool = "unknown" THEN messages ELSE Says("tool", <<c.id>>)
\* Whatever the tool finds, and its error too, is the text of a message.
Result(c) == Says("tool", <<c.id>>)

\* executeTool.  To look something up is to embed the text first, when the context allows.
LooksUp(c) == c.tool \in {"check_policy_violation", "retrieve_precedent"}
ExecuteTool ==
  /\ step = "tools" /\ calls # <<>> /\ Head(calls).tool # "remediate_content"
  /\ messages' = Result(Head(calls)) /\ calls' = Tail(calls)
  /\ (LooksUp(Head(calls)) /\ Reaches(UNCHANGED step)) \/ UNCHANGED <<step, sends>>
  /\ UNCHANGED <<caller, ctx, scans, turn, attempt, verdict, checked>>

\* toolRemediateContent asks the model, once; without the context it asks nobody.
ToolRemediateContent ==
  /\ step = "tools" /\ calls # <<>> /\ Head(calls).tool = "remediate_content"
  /\ \/ Reaches(step' = "rewrite") /\ UNCHANGED <<messages, calls>>
     \/ /\ messages' = Result(Head(calls)) /\ calls' = Tail(calls)
        /\ UNCHANGED <<step, sends>>
  /\ UNCHANGED <<caller, ctx, scans, turn, attempt, verdict, checked>>

Rewritten ==
  /\ step = "rewrite"
  /\ messages' = Result(Head(calls)) /\ calls' = Tail(calls)
  /\ step' = "tools"
  /\ UNCHANGED <<caller, ctx, scans, turn, attempt, sends, verdict, checked>>

NextTurn ==
  /\ step = "tools" /\ calls = <<>>
  /\ turn' = turn + 1 /\ attempt' = 0
  /\ IF turn + 1 < Turns THEN step' = "send" /\ UNCHANGED verdict ELSE Ends("error")
  /\ UNCHANGED <<caller, ctx, scans, messages, calls, sends, checked>>

\* parseVerdict: a JSON object with any verdict, or with none.
ParseVerdict(v) ==
  /\ step = "answer" /\ ctx
  /\ verdict' = v /\ step' = "audit"
  /\ UNCHANGED <<caller, ctx, scans, talkVars, sends, checked>>

\* Best effort.
InsertCheckLog ==
  /\ step = "audit"
  /\ \/ ctx /\ checked' = checked + 1
     \/ UNCHANGED checked
  /\ step' = "reply"
  /\ UNCHANGED <<caller, ctx, scans, talkVars, sends, verdict>>

\* The answer of both handlers; an error of any kind is a 500 or 503, and the scan stays paid.
Reply ==
  /\ step = "reply"
  /\ step' = "idle"
  /\ UNCHANGED <<caller, ctx, scans, talkVars, sends, verdict, checked>>

------------------------------------------------------------------------------
CallerLeaves ==
  /\ step # "idle" /\ caller
  /\ caller' = FALSE
  /\ UNCHANGED <<step, ctx, scans, talkVars, sends, verdict, checked>>

ContextDone ==
  /\ step # "idle" /\ ~caller /\ ctx
  /\ ctx' = FALSE
  /\ UNCHANGED <<step, caller, scans, talkVars, sends, verdict, checked>>

AgentNext ==
  \/ CheckEmail \/ Post \/ Retrieve \/ SendMistralOnce \/ MistralFails \/ RateLimited \/ Backoff
  \/ \E n \in 1..MaxCalls : \E tools \in [1..n -> Tools] : AsksForTools(tools)
  \/ ExecuteTool \/ ToolRemediateContent \/ Rewritten \/ NextTurn
  \/ \E v \in {"found", "empty"} : ParseVerdict(v)
  \/ InsertCheckLog \/ Reply \/ CallerLeaves \/ ContextDone

AgentSpec == AgentInit /\ [][AgentNext]_agentVars

------------------------------------------------------------------------------
\* A request to the model carries, right after each of its earlier answers, the result of
\* every call that answer made, in order: whatever failed, was unknown or was cut short.
Answered_(i) ==
  \A k \in DOMAIN messages[i].about :
    /\ i + k \in DOMAIN messages
    /\ messages[i + k] = [role |-> "tool", about |-> <<messages[i].about[k]>>]
ToolsAnswered ==
  step \in {"send", "answer", "backoff"} =>
    \A i \in DOMAIN messages : messages[i].role = "assistant" => Answered_(i)

\* One paid scan costs at most the embedding of the e-mail and, in each turn, a request for each
\* attempt and one for each call of the answer, an embedding or a rewriting: however the model
\* mixes rate limits, tools and turns, each counter of the loop starts and ends where it should.
SpendBounded == sends <= 1 + Turns * (Attempts + 1 + MaxCalls)
=============================================================================
