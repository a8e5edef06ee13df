----------------------------- MODULE AdminRbacMC -----------------------------
\* Instances of AdminRbac for TLC.
EXTENDS AdminRbac, TLC

CONSTANTS boss, clerk

\* Both users may be given the role and lose it, and the role its power.
RolePairs == {<<boss, "super_admin">>, <<clerk, "super_admin">>}

PairsOfRun == RolePairs \cup {<<"super_admin", "roles.manage">>}

Symmetry == Permutations(Slots)
=============================================================================
