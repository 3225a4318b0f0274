---------------------------- MODULE MCCertStore -----------------------------
(* CertStore for TLC: which names an operator's certificates may have.     *)
EXTENDS CertStore, TLC

\* Each file holds names of its own host, and a renewal may change which.
OwnNames(b) == (SUBSET {Exact(b), Wildcard(b)}) \ {{}}

\* A certificate of the apex may also list a tunnel's wildcard.
SharedNames(b) == OwnNames(b) \cup
  IF b = Apex THEN {{Exact(Apex), Wildcard(Apex)} \cup {Wildcard(<<l>>)} : l \in Labels}
  ELSE {}

Symmetry == Permutations(Labels)
=============================================================================
