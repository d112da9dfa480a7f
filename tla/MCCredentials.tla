--------------------------- MODULE MCCredentials ---------------------------
(* A small instance of Credentials for TLC. *)
EXTENDS Credentials, TLC

CONSTANTS u1, root, ops, old, fresh, long, l1, l2, k1, k2

MCLogins == {l1, l2}
MCChanges == {k1, k2}
MCBoot == [a \in {root} |-> old]
Symmetry == Permutations(MCLogins) \cup Permutations(MCChanges)

=============================================================================
