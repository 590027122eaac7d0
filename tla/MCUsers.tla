--------------------------------- MODULE MCUsers ---------------------------------
(***************************************************************************)
(* GmailConnection and Sessions: the mailboxes people connect, and how they*)
(* sign in.  They meet in the access token, which names the organisation a *)
(* handler works for: GmailConnection lets it change at any time.  So one  *)
(* run takes either, and not their product.                                *)
(***************************************************************************)
EXTENDS GmailConnection, Sessions, TLC
CONSTANTS u1, u2, o1, o2, alice, bob, s1, s2, g1, g2

MCOwnerOf == [s \in Ids |-> IF s = s1 THEN alice ELSE bob]
UserSymmetry == Permutations({u1, u2}) \cup Permutations({g1, g2})

Init == GmailInit /\ SessionsInit
Next ==
  \/ SessionsInit /\ GmailNext /\ UNCHANGED sessionsVars
  \/ GmailInit /\ SessionsNext /\ UNCHANGED gmailVars
Spec == Init /\ [][Next]_<<gmailVars, sessionsVars>>

TypeOK == GmailTypeOK /\ SessionsTypeOK
=============================================================================
