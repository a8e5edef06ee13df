--------------------------- MODULE AuthSessionMC ---------------------------
(* Model values and symmetry for the TLC runs of AuthSession. *)
EXTENDS AuthSession, TLC

\* Requests are interchangeable: they differ only in what they are asked.
Symmetry == Permutations(Requests)
=============================================================================
