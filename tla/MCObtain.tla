----------------------------- MODULE MCObtain ------------------------------
(* An instance of Obtain for TLC.                                          *)
EXTENDS Obtain

MCServers == <<"ns1", "ns2">>
=============================================================================
