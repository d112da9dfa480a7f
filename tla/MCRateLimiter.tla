--------------------------- MODULE MCRateLimiter ---------------------------
(* A small instance of RateLimiter for TLC: one client, the others being    *)
(* felt through the sweeps their requests start (LoginSweep).               *)
EXTENDS RateLimiter

CONSTANTS k1

=============================================================================
