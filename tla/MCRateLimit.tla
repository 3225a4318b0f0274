---------------------------- MODULE MCRateLimit ----------------------------
(* Instances of RateLimit for TLC.                                         *)
EXTENDS RateLimit, TLC

\* Keys and callers are interchangeable.
Symmetry == Permutations(Keys) \cup Permutations(Callers)
=============================================================================
