---------------------------- MODULE RequestGateMC ----------------------------
(* Symmetry for the TLC runs of RequestGate. *)
EXTENDS RequestGate, TLC

Symmetry == Permutations(Requests) \cup Permutations(Users) \cup Permutations(Tenants)
=============================================================================
