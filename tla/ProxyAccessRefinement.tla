------------------------ MODULE ProxyAccessRefinement ------------------------
(***************************************************************************)
(* ProxyAccess implements AccessLedger: however requests with clocks of    *)
(* different age overlap, with each other and with the administrator, what *)
(* they do is what some order of single admissions, charges and releases   *)
(* does.                                                                   *)
(***************************************************************************)
EXTENDS ProxyAccess

(* The account a row of table users stands for.                            *)
AccountOf(row) ==
    [enabled |-> row.status = 1, quota |-> row.quota_bytes,
     used |-> row.used_bytes, limit |-> DeviceLimit(row)]

Accounts == [u \in Users |-> IF Exists(u) THEN AccountOf(users[u]) ELSE Null]

Devices == [u \in Users |-> DevicesIn(active_ips, u)]

(* A connection holds its account from the grant until it is charged.      *)
Holder(q) == IF q.phase \in {"dial", "copy", "charge"} THEN q.user ELSE Null

Held == [c \in Conns |-> Holder(conns[c])]

Ledger == INSTANCE AccessLedger WITH accounts <- Accounts, devices <- Devices, held <- Held

ASSUME RefinementAssumption == Null \notin Users \cup Ledger!Account

(* Every behaviour of the proxies and the store is one of the ledger: a    *)
(* denial, a stale clock, a retried login or a late charge shows nothing   *)
(* that a single admission, charge or release would not show.              *)
ImplementsLedger == Ledger!Spec
=============================================================================
