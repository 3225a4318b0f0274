--------------------------- MODULE MCTunnelClient ---------------------------
(* TunnelClient for TLC.                                                   *)
EXTENDS TunnelClient
=============================================================================
