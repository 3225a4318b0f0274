--------------------------- MODULE MCCertManager ----------------------------
(* CertManager for TLC.                                                    *)
EXTENDS CertManager, TLC

\* Calls are interchangeable, and so are names.
Symmetry == Permutations(Callers) \cup Permutations(Names)
=============================================================================
