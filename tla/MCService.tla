-------------------------------- MODULE MCService --------------------------------
(***************************************************************************)
(* Billing, RateLimit and AgentLoop: what an owner pays, the limiter in    *)
(* front of sign-in, and the check a user asks for.  They share no state;  *)
(* the plan only sets the ScanLimit of AgentLoop.  So one run takes any of *)
(* them, and not their product; the three use the same model values, so    *)
(* that one symmetry fits.                                                 *)
(***************************************************************************)
EXTENDS Billing, RateLimit, AgentLoop, TLC
CONSTANTS a1, a2, h1, h2, s1, s2

MCRank == [p \in {"free", "starter", "pro"} |->
             CASE p = "free" -> 0 [] p = "starter" -> 1 [] p = "pro" -> 2]
ServiceSymmetry == Permutations({a1, a2}) \cup Permutations({h1, h2}) \cup Permutations({s1, s2})

Init == BillingInit /\ LimitInit /\ AgentInit
Next ==
  \/ LimitInit /\ AgentInit /\ BillingNext /\ UNCHANGED <<limitVars, agentVars>>
  \/ BillingInit /\ AgentInit /\ LimitNext /\ UNCHANGED <<billingVars, agentVars>>
  \/ BillingInit /\ LimitInit /\ AgentNext /\ UNCHANGED <<billingVars, limitVars>>
Spec == Init /\ [][Next]_<<billingVars, limitVars, agentVars>>

TypeOK == BillingTypeOK /\ LimitTypeOK /\ AgentTypeOK
=============================================================================
