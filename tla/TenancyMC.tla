----------------------------- MODULE TenancyMC -----------------------------
(* Symmetry for the TLC runs of Tenancy. *)
EXTENDS Tenancy, TLC

\* Nothing tells slots, users or invitations apart.
Symmetry == Permutations(Slots) \cup Permutations(Users) \cup Permutations(Invitations)
=============================================================================
