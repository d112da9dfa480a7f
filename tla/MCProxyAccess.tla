---------------------------- MODULE MCProxyAccess ----------------------------
(***************************************************************************)
(* Instances of ProxyAccess for TLC: the rows an earlier version left in   *)
(* the database, one set per run.                                          *)
(***************************************************************************)
EXTENDS ProxyAccessRefinement, TLC

CONSTANTS p1, p2

Row(form, status, quota, used, devices) ==
    [password |-> [form |-> form, secret |-> p1], status |-> status,
     expires_at |-> 0, quota_bytes |-> quota, used_bytes |-> used,
     max_devices |-> devices]

(* Device runs: a plaintext password, and a row whose max_devices is 0.    *)
DeviceLegacy == {Row("plain", 1, 0, 0, 0), Row("hash", 1, 0, 0, 2)}

(* Quota runs: a fresh counter under a quota, and one already at it.       *)
QuotaLegacy == {Row("hash", 1, 1, 0, 1), Row("hash", 1, 1, 1, 1)}

NoInputs == {}

SymmetryIPs == Permutations(IPs)
SymmetryConns == Permutations(Conns)
SymmetryBoth == SymmetryIPs \cup SymmetryConns
=============================================================================
