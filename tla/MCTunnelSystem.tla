--------------------------- MODULE MCTunnelSystem ---------------------------
(* TunnelSystem for TLC.                                                   *)
EXTENDS TunnelSystem
=============================================================================
