---------------------------- MODULE AccessLedger ----------------------------
(***************************************************************************)
(* What the proxies promise about access, seen from outside: a connection  *)
(* is admitted to an account in one step, occupies one of the account's    *)
(* devices, and is charged to the account at most once, with what it       *)
(* carried.  Clocks, expiry, passwords and the phases of a request are     *)
(* left out; ProxyAccess has them and implements this specification        *)
(* (ProxyAccessRefinement).                                                *)
(***************************************************************************)
EXTENDS Integers, FiniteSets

CONSTANTS
    Users, IPs, Conns,
    Null,
    MaxBytes    \* the most one connection carries

VARIABLES
    accounts,   \* user -> account, or Null
    devices,    \* user -> the addresses that count as the user's devices
    held        \* connection -> the user it was admitted to, or Null

vars == <<accounts, devices, held>>

Account == [enabled : BOOLEAN, quota : Nat, used : Nat, limit : Nat]

Init ==
    /\ accounts \in [Users -> Account \cup {Null}]
    /\ devices \in [Users -> SUBSET IPs]
    /\ held = [c \in Conns |-> Null]

QuotaLeft(account) == account.quota > 0 => account.used < account.quota

(* A device that is new to the account must fit under the limit, together  *)
(* with those that still count.  Any device of any account may stop        *)
(* counting at this moment: which ones did is a matter of time.            *)
Admit(c, u, ip) ==
    /\ held[c] = Null
    /\ accounts[u] # Null /\ accounts[u].enabled /\ QuotaLeft(accounts[u])
    /\ devices' \in [Users -> SUBSET IPs]
    /\ \A v \in Users \ {u} : devices'[v] \subseteq devices[v]
    /\ ip \in devices'[u] /\ devices'[u] \ {ip} \subseteq devices[u]
    /\ ip \in devices[u] \/ Cardinality(devices'[u]) <= accounts[u].limit
    /\ held' = [held EXCEPT ![c] = u]
    /\ UNCHANGED accounts

(* The connection is over and its bytes are the account's, if there still  *)
(* is an account of that name.                                             *)
Charge(c, n) ==
    /\ held[c] # Null
    /\ accounts' = IF accounts[held[c]] = Null THEN accounts
                   ELSE [accounts EXCEPT ![held[c]].used = @ + n]
    /\ held' = [held EXCEPT ![c] = Null]
    /\ UNCHANGED devices

(* The connection failed, carried nothing, or could not be charged.        *)
Release(c) ==
    /\ held[c] # Null
    /\ held' = [held EXCEPT ![c] = Null]
    /\ UNCHANGED <<accounts, devices>>

-----------------------------------------------------------------------------
(* The administrator.                                                      *)

Open(u) ==
    /\ accounts[u] = Null
    /\ accounts'[u] \in Account /\ accounts'[u].used = 0
    /\ accounts' = [accounts EXCEPT ![u] = accounts'[u]]
    /\ UNCHANGED <<devices, held>>

(* An account's terms change; its counter is never lowered but to zero.    *)
Revise(u) ==
    /\ accounts[u] # Null
    /\ accounts'[u] \in Account
    /\ accounts'[u].used = 0 \/ accounts'[u].used >= accounts[u].used
    /\ accounts' = [accounts EXCEPT ![u] = accounts'[u]]
    /\ UNCHANGED <<devices, held>>

Switch(names, on) ==
    /\ accounts' = [u \in Users |-> IF u \in names /\ accounts[u] # Null
                                    THEN [accounts[u] EXCEPT !.enabled = on]
                                    ELSE accounts[u]]
    /\ UNCHANGED <<devices, held>>

Close(u) ==
    /\ accounts[u] # Null
    /\ accounts' = [accounts EXCEPT ![u] = Null]
    /\ devices' = [devices EXCEPT ![u] = {}]
    /\ UNCHANGED held

Kick(u, ip) ==
    /\ devices' = [devices EXCEPT ![u] = @ \ {ip}]
    /\ UNCHANGED <<accounts, held>>

(* Connections do not survive the process; an empty store gets one account.*)
Crash ==
    /\ held' = [c \in Conns |-> Null]
    /\ \/ UNCHANGED accounts
       \/ /\ \A u \in Users : accounts[u] = Null
          /\ \E u \in Users :
                /\ accounts'[u] \in Account /\ accounts'[u].used = 0
                /\ accounts' = [accounts EXCEPT ![u] = accounts'[u]]
    /\ UNCHANGED devices

Next ==
    \/ \E u \in Users :
         \/ Revise(u) \/ Open(u) \/ Close(u)
         \/ \E ip \in IPs : Kick(u, ip)
    \/ \E c \in Conns :
         \/ Release(c)
         \/ \E n \in 1..MaxBytes : Charge(c, n)
         \/ \E u \in Users, ip \in IPs : Admit(c, u, ip)
    \/ \E names \in SUBSET Users, on \in BOOLEAN : Switch(names, on)
    \/ Crash

Spec == Init /\ [][Next]_vars
=============================================================================
