------------------------- MODULE AccountRecoveryMC -------------------------
\* Instances of AccountRecovery for TLC: requests and addresses are interchangeable.
EXTENDS AccountRecovery, TLC

Symmetry == Permutations(Requests) \cup Permutations(Emails)
=============================================================================
