------------------------- MODULE MCSmbProvisioning -------------------------
(* A small instance of SmbProvisioning for TLC. *)
EXTENDS SmbProvisioning, TLC

CONSTANTS u1, r1, r2, r3, p1, p2

MCSecrets == {p1, p2}
MCRequests == {r1, r2, r3}
Symmetry == Permutations(MCRequests) \cup Permutations(MCSecrets)

=============================================================================
