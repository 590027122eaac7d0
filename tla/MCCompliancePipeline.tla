------------------------- MODULE MCCompliancePipeline -------------------------
(* CompliancePipeline on a few emails, for TLC. *)
EXTENDS CompliancePipeline, TLC

EmailSymmetry == Permutations(Emails)
==============================================================================
