--------------------------- MODULE MCNetworkStack ---------------------------
(***************************************************************************)
(* NetworkStack for TLC: this host, the gateway, and a host beyond it.     *)
(***************************************************************************)
EXTENDS NetworkStack

CONSTANTS own, gate, far
=============================================================================
