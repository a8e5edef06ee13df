----------------------- MODULE TenantProvisioningMC -----------------------
(* Symmetry for the TLC runs of TenantProvisioning. *)
EXTENDS TenantProvisioning, TLC

Symmetry == Permutations(Requests) \cup Permutations(Slugs)
=============================================================================
