------------------------------ MODULE MailPromise ------------------------------
(***************************************************************************)
(* What the mail path promises the organisation that submits an email,     *)
(* whatever queues, redeliveries and crashes lie behind it: an accepted    *)
(* email stays open until the path is done with it; by then it was         *)
(* delivered, or is held for a reviewer, or is excused by a failure; what  *)
(* is delivered or held stays so, and a closed email changes no more.      *)
(***************************************************************************)
CONSTANT Emails

VARIABLES
  stage,      \* "new", "open" or "closed"
  delivered,  \* the emails handed to the mail provider
  held,       \* the emails that are, or will be, in the review queue
  excused     \* the emails a failure may have cost

vars == <<stage, delivered, held, excused>>

Init ==
  /\ stage = [e \in Emails |-> "new"]
  /\ delivered = {} /\ held = {} /\ excused = {}

Submit(e) ==
  /\ stage[e] = "new"
  /\ stage' = [stage EXCEPT ![e] = "open"]
  /\ UNCHANGED <<delivered, held, excused>>

Deliver(e) ==
  /\ stage[e] = "open"
  /\ delivered' = delivered \cup {e}
  /\ UNCHANGED <<stage, held, excused>>

Hold(e) ==
  /\ stage[e] = "open"
  /\ held' = held \cup {e}
  /\ UNCHANGED <<stage, delivered, excused>>

\* A failure: it may close emails at once, and the provider may have got the one
\* that was being sent.
Fail(es, closed, sent) ==
  /\ \A e \in es : stage[e] = "open"
  /\ closed \subseteq es /\ sent \subseteq es
  /\ excused' = excused \cup es
  /\ delivered' = delivered \cup sent
  /\ stage' = [e \in Emails |-> IF e \in closed THEN "closed" ELSE stage[e]]
  /\ UNCHANGED held

Close(e) ==
  /\ stage[e] = "open"
  /\ e \in delivered \cup held \cup excused
  /\ stage' = [stage EXCEPT ![e] = "closed"]
  /\ UNCHANGED <<delivered, held, excused>>

Next ==
  \/ \E e \in Emails : Submit(e) \/ Deliver(e) \/ Hold(e) \/ Close(e)
  \/ \E es, closed, sent \in SUBSET Emails : Fail(es, closed, sent)

Spec == Init /\ [][Next]_vars

Closes(e) == Close(e) \/ \E es, closed, sent \in SUBSET Emails : e \in closed /\ Fail(es, closed, sent)

\* An open email does not stay open.
FairSpec == Spec /\ \A e \in Emails : WF_vars(Closes(e))
==============================================================================
