--------------------------- MODULE MCProxyServers ---------------------------
(* A small instance of ProxyServers for TLC. *)
EXTENDS ProxyServers

CONSTANTS c1, c2

=============================================================================
