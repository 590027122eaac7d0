-------------------------- MODULE MCQuarantineReview --------------------------
(* QuarantineReview on one entry from Gmail and one from the mail path, for TLC. *)
EXTENDS QuarantineReview, TLC

HandlerSymmetry == Permutations(Handlers)
==============================================================================
