------------------------------- MODULE MCEdge -------------------------------
(* Edge for TLC.                                                           *)
EXTENDS Edge

\* "all", a port and a range that ends at the last port, and nothing (deny-all)
\* with a range the wrong way round.
MCSpecs == {[all |-> FALSE, pieces |-> <<<<80>>, <<65534, 65535>>>>],
            [all |-> TRUE, pieces |-> <<>>],
            [all |-> FALSE, pieces |-> <<<<>>, <<90, 80>>>>]}

MCInline == [all |-> FALSE, pieces |-> <<<<80, 90>>>>]

MCPorts == {65535, 65536}

MCBundles == {{"A"}, {"B"}}

\* Every way to set the gates around registration; ports inline, a second
\* source of ports, and a missing required flag.
MCFlags ==
  LET base == [apex |-> TRUE, email |-> TRUE, noAcme |-> FALSE, allowlistDir |-> TRUE,
               openRegistration |-> FALSE, allowedPorts |-> FALSE,
               allowedPortsFile |-> TRUE, mtlsCA |-> FALSE, registerListen |-> FALSE] IN
  {[base EXCEPT !.allowlistDir = a, !.openRegistration = o, !.mtlsCA = m,
                !.registerListen = r] : a, o, m, r \in BOOLEAN}
  \cup {[base EXCEPT !.allowedPortsFile = FALSE, !.allowedPorts = TRUE, !.noAcme = TRUE],
        [base EXCEPT !.allowedPorts = TRUE],
        [base EXCEPT !.email = FALSE], [base EXCEPT !.apex = FALSE]}
=============================================================================
