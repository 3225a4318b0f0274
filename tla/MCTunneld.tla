----------------------------- MODULE MCTunneld -----------------------------
(* Instances of Tunneld for TLC.                                           *)
EXTENDS TunneldRefines, TLC

\* Handler slots, names, keys and addresses are interchangeable.
Symmetry == Permutations(Conns) \cup Permutations(Uniques)
            \cup Permutations(Keys) \cup Permutations(Ips)
=============================================================================
