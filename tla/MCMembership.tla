----------------------------- MODULE MCMembership -----------------------------
(* Membership on a founder with a paid team, a second owner with a free one, and a newcomer. *)
EXTENDS Membership
CONSTANTS founder, loner, newcomer, team, home, spare1, h1, h2
MCUsers == {founder, loner, newcomer}
MCTenants == {team, home, spare1}
HandlerSymmetry == Permutations({h1, h2})
MCLimit == [p \in {"free", "starter"} |-> IF p = "free" THEN 1 ELSE 2]
=============================================================================
