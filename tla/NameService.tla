---------------------------- MODULE NameService ----------------------------
(***************************************************************************)
(* What the registration protocol of swe-swe-tunneld promises, without the *)
(* frames, budgets, certificates and allowlists it takes to get there: who *)
(* owns a name, who has been let in to serve it, and who does.  Tunneld    *)
(* implements it (TunneldRefines).                                         *)
(***************************************************************************)
EXTENDS Naturals

CONSTANTS
  Sessions,   \* connections alive at the same time
  Names,      \* claimable names
  Keys,       \* public keys
  None        \* no owner, no session, nothing asked or granted

VARIABLES
  owner,      \* name -> the key it belongs to
  asked,      \* session -> the takeover it has been challenged for
  granted,    \* session -> the name and key it was let in with
  live        \* name -> the session that serves it

vars == <<owner, asked, granted, live>>

Outside(s) == asked[s] = None /\ granted[s] = None

Serving(s) == granted[s] # None /\ live[granted[s].name] = s

Grant(s, n, k) ==
  granted' = [granted EXCEPT ![s] = [name |-> n, key |-> k]]

Init ==
  /\ owner = [n \in Names |-> None]
  /\ asked = [s \in Sessions |-> None]
  /\ granted = [s \in Sessions |-> None]
  /\ live = [n \in Names |-> None]

\* A free name goes to the first key that takes it.
Claim(s, n, k) ==
  /\ Outside(s)
  /\ owner[n] = None
  /\ owner' = [owner EXCEPT ![n] = k]
  /\ Grant(s, n, k)
  /\ UNCHANGED <<asked, live>>

\* The owner comes back.
Resume(s, n, k) ==
  /\ Outside(s)
  /\ owner[n] = k
  /\ Grant(s, n, k)
  /\ UNCHANGED <<owner, asked, live>>

\* Another key wants an owned name: it is asked for the owner's signature.
Challenge(s, n, k) ==
  /\ Outside(s)
  /\ owner[n] \notin {None, k}
  /\ asked' = [asked EXCEPT ![s] = [name |-> n, key |-> k, from |-> owner[n]]]
  /\ UNCHANGED <<owner, granted, live>>

\* The challenge was met: the name passes to the new key, unless it was
\* released in the meantime, in which case the session is let in all the same.
Takeover(s) ==
  /\ asked[s] # None
  /\ LET n == asked[s].name IN
     /\ owner' = IF owner[n] = None THEN owner
                 ELSE [owner EXCEPT ![n] = asked[s].key]
     /\ Grant(s, n, asked[s].key)
  /\ asked' = [asked EXCEPT ![s] = None]
  /\ UNCHANGED live

\* A session that has been let in serves its name, if nobody does.
Serve(s) ==
  /\ granted[s] # None
  /\ live[granted[s].name] = None
  /\ live' = [live EXCEPT ![granted[s].name] = s]
  /\ UNCHANGED <<owner, asked, granted>>

\* A serving session gives its name up.
Release(s) ==
  /\ Serving(s)
  /\ owner' = [owner EXCEPT ![granted[s].name] = None]
  /\ UNCHANGED <<asked, granted, live>>

\* A serving session ends.
Leave(s) ==
  /\ Serving(s)
  /\ live' = [live EXCEPT ![granted[s].name] = None]
  /\ granted' = [granted EXCEPT ![s] = None]
  /\ UNCHANGED <<owner, asked>>

\* A session that serves nothing is turned away.
Refuse(s) ==
  /\ ~Serving(s)
  /\ asked' = [asked EXCEPT ![s] = None]
  /\ granted' = [granted EXCEPT ![s] = None]
  /\ UNCHANGED <<owner, live>>

\* The operator frees a name.
Withdraw(n) ==
  /\ owner' = [owner EXCEPT ![n] = None]
  /\ UNCHANGED <<asked, granted, live>>

\* Ownership is all that survives the daemon.
Restart ==
  /\ asked' = [s \in Sessions |-> None]
  /\ granted' = [s \in Sessions |-> None]
  /\ live' = [n \in Names |-> None]
  /\ UNCHANGED owner

Next ==
  \/ \E s \in Sessions :
       \/ \E n \in Names, k \in Keys :
            Claim(s, n, k) \/ Resume(s, n, k) \/ Challenge(s, n, k)
       \/ Takeover(s) \/ Serve(s) \/ Release(s) \/ Leave(s) \/ Refuse(s)
  \/ \E n \in Names : Withdraw(n)
  \/ Restart

Spec == Init /\ [][Next]_vars
=============================================================================
