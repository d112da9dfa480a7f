---------------------------- MODULE MCLoginGuard ----------------------------
(* A small instance of LoginGuard for TLC: one key, the others being felt    *)
(* through the sweeps their requests start (LimiterSweep).                   *)
EXTENDS LoginGuard

CONSTANTS k1

=============================================================================
