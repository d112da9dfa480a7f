-------------------------- MODULE MCAdminSessions --------------------------
(* A small instance of AdminSessions for TLC. *)
EXTENDS AdminSessions, TLC

CONSTANTS root, ops, new, s1, s2, r1, r2

MCRequests == {r1, r2}
MCSIDs == {s1, s2}
RequestSymmetry == Permutations(MCRequests)
Symmetry == RequestSymmetry \cup Permutations(MCSIDs)

=============================================================================
