--------------------------- MODULE TunneldProofs ----------------------------
(***************************************************************************)
(* Proofs about Tunneld, for any number of connections, names, keys and    *)
(* addresses and any limits.  A step keeps the types; as far as the        *)
(* registry and the revoker are concerned a handler's step has one of six  *)
(* shapes, each of which preserves what IInv says of them; so IInv is      *)
(* inductive, and the safety properties follow from it.                    *)
(***************************************************************************)
EXTENDS Tunneld, TLAPS

\* A leaf may take the SMT solver a minute; Zenon tries what it leaves.
USE SMTT(60), Zenon

----------------------------------------------------------------------------
(* The identity rows: what a step may do to one.                           *)

\* What a handler's step may do to the store and to the certificates.
LEMMA HandlerStore ==
  ASSUME TypeOK, Authenticated, NEW c \in Conns, Progress(c) \/ Peer(c)
  PROVE  /\ certs \subseteq certs' /\ certFiles \subseteq certFiles'
         /\ certs' \ certs \subseteq certFiles'
         /\ purged' = purged
         /\ \A u \in Uniques : store'[u] \notin {None, store[u]} =>
              /\ req[c].unique = u /\ store'[u] = req[c].key
              /\ \/ pc[c] = "put" /\ store[u] = None
                 \/ pc[c] = "rotate" /\ store[u] # None
<1> USE DEF KeepLocals, KeepShared, certVars
<1>1. CASE EnsureOK(c)
  <2>1. /\ certs \subseteq certs' /\ certFiles \subseteq certFiles'
        /\ certs' \ certs \subseteq certFiles'
    BY <1>1 DEF EnsureOK
  <2>2. purged' = purged /\ store' = store
    BY <1>1 DEF EnsureOK
  <2> QED BY Zenon, <2>1, <2>2
<1>2. CASE Put(c)
  BY <1>2 DEF Put, TypeOK
<1>3. CASE Rotate(c)
  BY <1>3 DEF Rotate, At, TypeOK
<1>4. CASE Delete(c)
  BY <1>4 DEF Delete, TypeOK
<1>5. CASE ~(EnsureOK(c) \/ Put(c) \/ Rotate(c) \/ Delete(c))
  <2>1. UNCHANGED <<store, certs, certFiles, purged>>
    <3>1. CASE Progress(c)
      BY ZenonT(30), <1>5, <3>1
         DEF Progress, ReadFails, VerifyOK, VerifyFails, ClockSkewed, Gate, Get,
             StoreFails, KeyLimit, GraceElapses, GraceAborted, EnsurePermanent,
             EnsureTransient, RefundSkew, RefundIp, RefundKey, Reget,
             SendChallenge, ChallengeFails, Add, Reply, DeleteFails,
             CloseSession, LoopEnds, Closed, Remove
    <3>2. CASE Peer(c)
      BY Zenon, <3>2 DEF Peer, Accept, ReadRegister, Proof, Deregister, ControlEOF, PeerGone
    <3> QED BY <3>1, <3>2
  <2>2. store' = store /\ certs' = certs /\ certFiles' = certFiles /\ purged' = purged
    BY <2>1
  <2>3. certs \subseteq certs' /\ certFiles \subseteq certFiles' /\ certs' \ certs = {}
    BY Zenon, <2>2
  <2>4. ASSUME NEW u \in Uniques PROVE store'[u] = store[u]
    BY Zenon, <2>2
  <2> QED BY Zenon, <2>2, <2>3, <2>4
<1> QED BY <1>1, <1>2, <1>3, <1>4, <1>5

----------------------------------------------------------------------------
(* Type correctness: no step leaves the types.                             *)

\* A returning handler leaves well-typed locals behind.
LEMMA ReturnType ==
  ASSUME NEW c \in Conns, TypeOK, Return(c)
  PROVE  /\ pc' \in [Conns -> States]
         /\ req' \in [Conns -> [ip : Ips \cup {None}, unique : Uniques \cup {None},
                                key : Keys \cup {None}]]
         /\ existing' \in [Conns -> Keys \cup {None}]
         /\ sess' \in [Conns -> {"none", "open", "closed"}]
         /\ allow' \subseteq Keys
         /\ revoker' \in {"idle", "snapshot", "closing"}
         /\ victims' \subseteq Conns
         /\ late' \subseteq Conns
  BY DEF TypeOK, Return, Goto, NoReq, States

\* The limiter operators keep a count a natural number.
LEMMA BudgetType ==
  ASSUME NEW max \in Int, NEW n \in Nat
  PROVE  Sample(max, n) \in Nat /\ CancelLatest(max, n) \in Nat
  BY DEF Sample, CancelLatest

\* Every handler past the Register frame holds a request with no None in it.
LEMMA AuthenticatedReq ==
  ASSUME NEW c \in Conns, Authenticated, pc[c] \notin {"idle", "read"}
  PROVE  req[c].ip \in Ips /\ req[c].unique \in Uniques /\ req[c].key \in Keys
  BY DEF Authenticated

\* No step of the daemon, its peers or the operator leaves the types.
LEMMA TypeStep ==
  ASSUME TypeOK, Authenticated, [Next]_vars
  PROVE  TypeOK'
<1> USE DEF TypeOK, KeepLocals, KeepShared, connVars, certVars, registryVars,
            budgetVars, revokeVars
<1>1. ASSUME NEW c \in Conns, Progress(c) PROVE TypeOK'
  <2> USE DEF At, Goto
  <2>1. CASE ReadFails(c) \/ VerifyFails(c) \/ StoreFails(c)
             \/ EnsurePermanent(c) \/ ChallengeFails(c)
    BY Zenon, <2>1, ReturnType
       DEF ReadFails, VerifyFails, StoreFails, EnsurePermanent, ChallengeFails
  <2>2. CASE VerifyOK(c) \/ GraceElapses(c) \/ SendChallenge(c)
    BY Zenon, <2>2 DEF VerifyOK, GraceElapses, SendChallenge, States, InFlight
  <2>3. CASE Reply(c) \/ DeleteFails(c) \/ LoopEnds(c) \/ Closed(c) \/ CloseSession(c)
    BY Zenon, <2>3 DEF Reply, DeleteFails, LoopEnds, Closed, CloseSession, States, Registered
  <2>4. CASE ClockSkewed(c) \/ GraceAborted(c) \/ EnsureTransient(c)
    <3>1. PICK to \in Refunding : RefundOrReturn(c, to)
      BY <2>4 DEF ClockSkewed, GraceAborted, EnsureTransient, Refunding
    <3>2. UNCHANGED <<store, certVars, registryVars, ipUsed, keyUsed, admitted, claims>>
      BY <2>4 DEF ClockSkewed, GraceAborted, EnsureTransient
    <3>3. req[c].ip \in Ips
      BY <2>4, AuthenticatedReq DEF ClockSkewed, GraceAborted, EnsureTransient
    <3>4. Sample(RefundMax, refundUsed[req[c].ip]) \in Nat
      BY Zenon, <3>3, BudgetType, MaxAssumption
    <3>5. refundUsed' \in [Ips -> Nat]
      BY <3>1, <3>3, <3>4 DEF RefundOrReturn
    <3>6. CASE Return(c)
      BY Zenon, <3>2, <3>5, <3>6, ReturnType
    <3>7. CASE Goto(c, to) /\ KeepLocals
      BY <3>2, <3>5, <3>7 DEF States
    <3> QED BY Zenon, <3>1, <3>6, <3>7 DEF RefundOrReturn
  <2>5. CASE Gate(c)
    BY Zenon, <2>5, ReturnType DEF Gate, States, InFlight
  <2>6. CASE Get(c)
    <3>1. req[c].unique \in Uniques
      BY <2>6, AuthenticatedReq DEF Get
    <3> QED BY Zenon, <2>6, <3>1 DEF Get, States, InFlight
  <2>7. CASE KeyLimit(c)
    <3>1. Sample(KeyMax, keyUsed[req[c].key]) \in Nat
      BY Zenon, <2>7, AuthenticatedReq, BudgetType, MaxAssumption DEF KeyLimit
    <3>2. keyUsed' \in [Keys -> Nat]
      BY <2>7, <3>1 DEF KeyLimit
    <3>3. CASE Return(c)
      BY Zenon, <2>7, <3>2, <3>3, ReturnType DEF KeyLimit
    <3>4. CASE Goto(c, "grace") /\ KeepLocals
      BY <2>7, <3>2, <3>4 DEF KeyLimit, States, InFlight
    <3> QED BY Zenon, <2>7, <3>3, <3>4 DEF KeyLimit
  <2>8. CASE EnsureOK(c)
    <3>1. req[c].unique \in Uniques
      BY <2>8, AuthenticatedReq DEF EnsureOK
    <3> QED BY <2>8, <3>1 DEF EnsureOK, States, InFlight
  <2>9. CASE RefundSkew(c)
    BY Zenon, <2>9, ReturnType, BudgetType, MaxAssumption DEF RefundSkew
  <2>10. CASE RefundIp(c)
    BY Zenon, <2>10, BudgetType, MaxAssumption DEF RefundIp, States, Refunding
  <2>11. CASE RefundKey(c)
    BY Zenon, <2>11, ReturnType, BudgetType, MaxAssumption DEF RefundKey
  <2>12. CASE Put(c)
    <3>1. req[c].key \in Keys /\ Sample(KeyMax, claims[req[c].key]) \in Nat
      BY Zenon, <2>12, AuthenticatedReq, BudgetType, MaxAssumption DEF Put
    <3>2. claims' \in [Keys -> Nat]
      BY <2>12, <3>1 DEF Put
    <3>3. store' \in [Uniques -> Keys \cup {None}]
      <4>1. store' = store \/ store' = [store EXCEPT ![req[c].unique] = req[c].key]
        BY Zenon, <2>12 DEF Put
      <4>2. store \in [Uniques -> Keys \cup {None}]
        BY Zenon DEF TypeOK
      <4> HIDE DEF TypeOK
      <4> QED BY Zenon, <3>1, <4>1, <4>2
    <3>4. pc' \in [Conns -> States]
      <4>1. pc \in [Conns -> States] /\ "add" \in States /\ "reget" \in States
        BY Zenon DEF States, InFlight
      <4>2. pc' = [pc EXCEPT ![c] = "add"] \/ pc' = [pc EXCEPT ![c] = "reget"]
        BY Zenon, <2>12 DEF Put
      <4> HIDE DEF TypeOK
      <4> QED BY Zenon, <4>1, <4>2
    <3> QED BY <2>12, <3>2, <3>3, <3>4 DEF Put
  <2>13. CASE Reget(c)
    BY Zenon, <2>13, ReturnType DEF Reget, States, InFlight
  <2>14. CASE Rotate(c)
    BY Zenon, <2>14 DEF Rotate, States, InFlight
  <2>15. CASE Add(c)
    <3>1. req[c].unique \in Uniques /\ req[c].key \in Keys
      BY <2>15, AuthenticatedReq DEF Add
    <3>2. CASE sessions[req[c].unique] # None
      BY Zenon, <2>15, <3>2, ReturnType DEF Add
    <3>3. CASE sessions[req[c].unique] = None
      <4>1. /\ sessions' = [sessions EXCEPT ![req[c].unique] = c]
            /\ byPubkey' = [byPubkey EXCEPT ![req[c].key][req[c].unique] = c]
            /\ Goto(c, "reply") /\ KeepLocals
            /\ UNCHANGED <<store, certVars, budgetVars>>
        BY Zenon, <2>15, <3>3 DEF Add
      <4>2. byPubkey' \in [Keys -> [Uniques -> Conns \cup {None}]]
        BY <3>1, <4>1
      <4> QED BY Zenon, <4>1, <4>2 DEF States, Registered
    <3> QED BY Zenon, <3>2, <3>3
  <2>16. CASE Delete(c)
    BY Zenon, <2>16 DEF Delete, States, Registered
  <2>17. CASE Remove(c)
    BY Zenon, <2>17, ReturnType DEF Remove
  <2> QED BY Zenon, <1>1, <2>1, <2>2, <2>3, <2>4, <2>5, <2>6, <2>7, <2>8, <2>9, <2>10,
             <2>11, <2>12, <2>13, <2>14, <2>15, <2>16, <2>17 DEF Progress
<1>2. ASSUME NEW c \in Conns, Peer(c) PROVE TypeOK'
  <2> USE DEF At, Goto
  <2>1. CASE Accept(c)
    BY <2>1 DEF Accept, States
  <2>2. ASSUME NEW i \in Ips, NEW u \in Uniques, NEW k \in Keys, ReadRegister(c, i, u, k)
        PROVE  TypeOK'
    <3>1. /\ Sample(IpMax, ipUsed[i]) \in Nat
          /\ Sample(IpMax, admitted[i]) \in Nat
      BY Zenon, BudgetType, MaxAssumption
    <3>2. ipUsed' \in [Ips -> Nat]
      BY Zenon, <2>2, <3>1 DEF ReadRegister
    <3>3. admitted' \in [Ips -> Nat]
      BY Zenon, <2>2, <3>1 DEF ReadRegister
    <3>4. CASE Return(c)
      BY Zenon, <2>2, <3>2, <3>3, <3>4, ReturnType DEF ReadRegister
    <3>5. CASE /\ req' = [req EXCEPT ![c] = [ip |-> i, unique |-> u, key |-> k]]
               /\ Goto(c, "verify")
               /\ UNCHANGED <<existing, sess, revokeVars>>
      <4>1. pc' \in [Conns -> States]
        BY <3>5 DEF States
      <4>2. req' \in [Conns -> [ip : Ips \cup {None}, unique : Uniques \cup {None},
                                key : Keys \cup {None}]]
        BY <3>5
      <4> QED BY Zenon, <2>2, <3>2, <3>3, <3>5, <4>1, <4>2 DEF ReadRegister
    <3> QED BY Zenon, <2>2, <3>4, <3>5 DEF ReadRegister
  <2>3. ASSUME NEW p \in Keys, Proof(c, p) PROVE TypeOK'
    BY Zenon, <2>3, ReturnType DEF Proof, States, InFlight
  <2>4. CASE Deregister(c) \/ ControlEOF(c)
    BY Zenon, <2>4 DEF Deregister, ControlEOF, States, Registered
  <2>5. CASE PeerGone(c)
    BY <2>5 DEF PeerGone
  <2> QED BY Zenon, <1>2, <2>1, <2>2, <2>3, <2>4, <2>5 DEF Peer
<1>3. CASE Revoke
  BY <1>3 DEF Revoke, Snapshot, RevokeDone, CloseVictim
<1>4. CASE Operator
  <2>1. ASSUME NEW S \in SUBSET Keys, Reload(S) PROVE TypeOK'
    BY <2>1 DEF Reload
  <2>2. ASSUME NEW u \in Uniques, IdentityDelete(u) \/ PurgeCert(u) PROVE TypeOK'
    BY <2>2 DEF IdentityDelete, PurgeCert
  <2>3. ASSUME NEW S \in AllowSets, Restart(S) PROVE TypeOK'
    BY <2>3 DEF Restart, NoReq, States, AllowSets
  <2> QED BY Zenon, <1>4, <2>1, <2>2, <2>3 DEF Operator
<1>5. CASE UNCHANGED vars
  BY <1>5 DEF vars
<1> QED BY Zenon, <1>1, <1>2, <1>3, <1>4, <1>5 DEF Next

----------------------------------------------------------------------------
(* The shapes of a handler's step.  As far as the registry, the allowlist   *)
(* and the revoker are concerned, the thirty actions of a handler come in   *)
(* six shapes.                                                              *)

\* It returns without having been in the registry.
Leaves(c) ==
  /\ pc[c] \notin Registered \cup {"idle"}
  /\ Return(c)
  /\ UNCHANGED registryVars

\* It moves on under the same request, on the same side of the registry, and
\* past the gate only with a key the gate admits.
Moves(c, to) ==
  /\ pc[c] \notin {"idle", "read"}
  /\ to \notin {"idle", "read"}
  /\ pc[c] \in Registered <=> to \in Registered
  /\ to \in InFlight => pc[c] \in InFlight \/ (Gated => req[c].key \in allow)
  /\ to = "put" => req[c].unique \in certs'
  /\ Goto(c, to)
  /\ req' = req
  /\ sess' \in {sess, [sess EXCEPT ![c] = "closed"]}
  /\ UNCHANGED <<registryVars, revokeVars>>

\* It takes a connection, or an admitted Register frame.
Enters(c) ==
  /\ \/ At(c, "idle", "read") /\ req' = req
     \/ /\ At(c, "read", "verify")
        /\ \E r \in [ip : Ips, unique : Uniques, key : Keys] :
             req' = [req EXCEPT ![c] = r]
  /\ sess' \in {sess, [sess EXCEPT ![c] = "open"]}
  /\ UNCHANGED <<registryVars, revokeVars>>

\* Every step of a handler has one of the shapes.
LEMMA ProgressShape ==
  ASSUME NEW c \in Conns, Progress(c)
  PROVE  \/ Leaves(c) \/ (\E to \in States : Moves(c, to))
         \/ (Add(c) /\ sessions[req[c].unique] = None) \/ Remove(c)
<1> USE DEF KeepLocals, KeepShared, registryVars, revokeVars, certVars, budgetVars, At
<1>1. CASE ReadFails(c) \/ VerifyFails(c) \/ StoreFails(c)
           \/ EnsurePermanent(c) \/ ChallengeFails(c)
  BY <1>1 DEF ReadFails, VerifyFails, StoreFails, EnsurePermanent,
              ChallengeFails, Leaves, Registered
<1>2. CASE VerifyOK(c)
  <2>1. Moves(c, "gate")
    BY Zenon, <1>2 DEF VerifyOK, Moves, Registered, InFlight
  <2> QED BY <2>1 DEF States
<1>3. CASE ClockSkewed(c) \/ GraceAborted(c) \/ EnsureTransient(c)
  <2>1. PICK to \in Refunding : RefundOrReturn(c, to)
    BY <1>3 DEF ClockSkewed, GraceAborted, EnsureTransient, Refunding
  <2>2. pc[c] \in {"verify", "grace", "ensure"} /\ UNCHANGED registryVars
    BY <1>3 DEF ClockSkewed, GraceAborted, EnsureTransient
  <2>3. CASE Return(c)
    BY <2>2, <2>3 DEF Leaves, Registered
  <2>4. CASE Goto(c, to) /\ KeepLocals
    <3>1. Moves(c, to)
      BY <2>2, <2>4 DEF Moves, Registered, InFlight, Refunding
    <3> QED BY Zenon, <3>1 DEF States
  <2> QED BY <2>1, <2>3, <2>4 DEF RefundOrReturn
<1>4. CASE Gate(c)
  <2>1. CASE Return(c)
    BY <1>4, <2>1 DEF Gate, Leaves, Registered
  <2>2. CASE (Gated => req[c].key \in allow) /\ Goto(c, "get") /\ KeepLocals
    <3>1. Moves(c, "get")
      BY <1>4, <2>2 DEF Gate, Moves, Registered
    <3> QED BY <3>1 DEF States, InFlight
  <2> QED BY <1>4, <2>1, <2>2 DEF Gate
<1>5. CASE Get(c)
  <2>1. PICK to \in {"keyLimit", "add", "challenge"} : Goto(c, to)
    BY <1>5 DEF Get
  <2>2. Moves(c, to)
    BY Zenon, <1>5, <2>1 DEF Get, Moves, Registered, InFlight
  <2> QED BY <2>2 DEF States, InFlight
<1>6. CASE KeyLimit(c)
  <2>1. CASE Return(c)
    BY <1>6, <2>1 DEF KeyLimit, Leaves, Registered
  <2>2. CASE Goto(c, "grace") /\ KeepLocals
    <3>1. Moves(c, "grace")
      BY <1>6, <2>2 DEF KeyLimit, Moves, Registered, InFlight
    <3> QED BY <3>1 DEF States, InFlight
  <2> QED BY <1>6, <2>1, <2>2 DEF KeyLimit
<1>7. CASE GraceElapses(c)
  <2>1. Moves(c, "ensure")
    BY <1>7 DEF GraceElapses, Moves, Registered, InFlight
  <2> QED BY Zenon, <2>1 DEF States, InFlight
<1>8. CASE EnsureOK(c)
  <2>1. Moves(c, "put")
    BY <1>8 DEF EnsureOK, Moves, Registered, InFlight
  <2> QED BY <2>1 DEF States, InFlight
<1>9. CASE RefundSkew(c) \/ RefundKey(c)
  BY <1>9 DEF RefundSkew, RefundKey, Leaves, Registered
<1>10. CASE RefundIp(c)
  <2>1. Moves(c, "refundKey")
    BY <1>10 DEF RefundIp, Moves, Registered, InFlight
  <2> QED BY <2>1 DEF States, Refunding
<1>11. CASE Put(c)
  <2>1. PICK to \in {"add", "reget"} : Goto(c, to)
    BY <1>11 DEF Put
  <2>2. Moves(c, to)
    BY Zenon, <1>11, <2>1 DEF Put, Moves, Registered, InFlight
  <2> QED BY <2>2 DEF States, InFlight
<1>12. CASE Reget(c)
  <2>1. CASE Return(c)
    BY <1>12, <2>1 DEF Reget, Leaves, Registered
  <2>2. CASE Goto(c, "add") /\ KeepLocals
    <3>1. Moves(c, "add")
      BY <1>12, <2>2 DEF Reget, Moves, Registered, InFlight
    <3> QED BY <3>1 DEF States, InFlight
  <2> QED BY <1>12, <2>1, <2>2 DEF Reget
<1>13. CASE SendChallenge(c)
  <2>1. Moves(c, "proof")
    BY <1>13 DEF SendChallenge, Moves, Registered, InFlight
  <2> QED BY <2>1 DEF States, InFlight
<1>14. CASE Rotate(c)
  <2>1. Moves(c, "add")
    BY <1>14 DEF Rotate, Moves, Registered, InFlight
  <2> QED BY <2>1 DEF States, InFlight
<1>15. CASE Add(c)
  BY <1>15 DEF Add, Leaves, Registered
<1>16. CASE Reply(c)
  <2>1. PICK to \in {"loop", "remove"} : Goto(c, to)
    BY <1>16 DEF Reply
  <2>2. Moves(c, to)
    BY <1>16, <2>1 DEF Reply, Moves, Registered, InFlight
  <2> QED BY <2>2 DEF States, Registered
<1>17. CASE Delete(c) \/ DeleteFails(c) \/ CloseSession(c) \/ LoopEnds(c) \/ Closed(c)
  <2>1. PICK to \in {"close", "loop", "remove", "wait"} : Goto(c, to)
    BY <1>17 DEF Delete, DeleteFails, CloseSession, LoopEnds, Closed
  <2>2. pc[c] \in {"delete", "close", "loop", "wait"}
    BY Zenon, <1>17 DEF Delete, DeleteFails, CloseSession, LoopEnds, Closed
  <2>3. /\ req' = req
        /\ sess' \in {sess, [sess EXCEPT ![c] = "closed"]}
        /\ UNCHANGED <<registryVars, revokeVars>>
    BY <1>17 DEF Delete, DeleteFails, CloseSession, LoopEnds, Closed
  <2>4. Moves(c, to)
    BY <2>1, <2>2, <2>3 DEF Moves, Registered, InFlight
  <2> QED BY Zenon, <2>4 DEF States, Registered
<1>18. CASE Remove(c)
  BY <1>18
<1> QED BY Zenon, <1>1, <1>2, <1>3, <1>4, <1>5, <1>6, <1>7, <1>8, <1>9, <1>10, <1>11,
           <1>12, <1>13, <1>14, <1>15, <1>16, <1>17, <1>18 DEF Progress

\* The same for the steps a peer decides on.
LEMMA PeerShape ==
  ASSUME NEW c \in Conns, Peer(c)
  PROVE  \/ Leaves(c) \/ (\E to \in States : Moves(c, to)) \/ Enters(c)
         \/ PeerGone(c)
<1> USE DEF KeepLocals, KeepShared, registryVars, revokeVars, certVars, budgetVars, At
<1>1. CASE Accept(c)
  BY <1>1 DEF Accept, Enters
<1>2. ASSUME NEW i \in Ips, NEW u \in Uniques, NEW k \in Keys, ReadRegister(c, i, u, k)
      PROVE  Leaves(c) \/ Enters(c)
  <2>1. CASE Return(c)
    BY Zenon, <1>2, <2>1 DEF ReadRegister, Leaves, Registered
  <2>2. CASE ~Return(c)
    <3> DEFINE r == [ip |-> i, unique |-> u, key |-> k]
    <3>1. r \in [ip : Ips, unique : Uniques, key : Keys]
      BY Zenon
    <3>2. req' = [req EXCEPT ![c] = r] /\ Goto(c, "verify") /\ pc[c] = "read"
          /\ UNCHANGED <<sess, registryVars, revokeVars>>
      BY <1>2, <2>2 DEF ReadRegister
    <3> HIDE DEF r
    <3> QED BY Zenon, <3>1, <3>2 DEF Enters
  <2> QED BY <2>1, <2>2
<1>3. ASSUME NEW p \in Keys, Proof(c, p)
      PROVE  Leaves(c) \/ (\E to \in States : Moves(c, to))
  <2>1. CASE Return(c)
    BY <1>3, <2>1 DEF Proof, Leaves, Registered
  <2>2. CASE Goto(c, "rotate") /\ KeepLocals
    <3>1. Moves(c, "rotate")
      BY <1>3, <2>2 DEF Proof, Moves, Registered, InFlight
    <3> QED BY Zenon, <3>1 DEF States, InFlight
  <2> QED BY Zenon, <1>3, <2>1, <2>2 DEF Proof
<1>4. CASE Deregister(c) \/ ControlEOF(c)
  <2>1. PICK to \in {"delete", "wait"} : Goto(c, to)
    BY <1>4 DEF Deregister, ControlEOF
  <2>2. Moves(c, to)
    BY <1>4, <2>1 DEF Deregister, ControlEOF, Moves, Registered, InFlight
  <2> QED BY <2>2 DEF States, Registered
<1>5. CASE PeerGone(c)
  BY <1>5
<1> QED BY Zenon, <1>1, <1>2, <1>3, <1>4, <1>5 DEF Peer

----------------------------------------------------------------------------
(* Each shape of a handler's step preserves what IInv says of the registry *)
(* and of the revoker.                                                     *)

\* A handler that leaves was not in the registry, and takes its locals along.
LEMMA LeavesKeeps ==
  ASSUME IInv, NEW c \in Conns, Leaves(c)
  PROVE  /\ Authenticated' /\ RegistryMatchesHandlers' /\ IndexAgrees'
         /\ VictimsRegistered' /\ RevokeReaches'
<1> USE DEF Leaves, Return, Goto, registryVars
<1>1. \A d \in Conns : d # c => pc'[d] = pc[d] /\ req'[d] = req[d] /\ sess'[d] = sess[d]
  BY DEF IInv, TypeOK
<1>2. pc'[c] = "idle"
  BY DEF IInv, TypeOK
<1>3. "idle" \notin Registered \cup InFlight
  BY DEF Registered, InFlight
<1>4. \A u \in Uniques : sessions[u] # c
  BY DEF IInv, RegistryMatchesHandlers
<1>5. Authenticated'
  BY <1>1, <1>2 DEF IInv, Authenticated
<1>6. RegistryMatchesHandlers'
  BY <1>1, <1>2, <1>3, <1>4 DEF IInv, RegistryMatchesHandlers
<1>7. IndexAgrees'
  BY <1>1, <1>4 DEF IInv, IndexAgrees
<1>8. VictimsRegistered'
  BY <1>1 DEF IInv, VictimsRegistered, TypeOK
<1>9. RevokeReaches'
  BY <1>1, <1>2, <1>3 DEF IInv, RevokeReaches
<1> QED BY Zenon, <1>5, <1>6, <1>7, <1>8, <1>9

\* A handler that moves stays on its side of the registry, with its request.
LEMMA MovesKeeps ==
  ASSUME IInv, NEW c \in Conns, NEW to \in States, Moves(c, to)
  PROVE  /\ Authenticated' /\ RegistryMatchesHandlers' /\ IndexAgrees'
         /\ VictimsRegistered' /\ RevokeReaches'
<1> USE DEF Moves, Goto, registryVars, revokeVars
<1>1. \A d \in Conns : d # c => pc'[d] = pc[d]
  BY DEF IInv, TypeOK
<1>2. pc'[c] = to
  BY DEF IInv, TypeOK
<1>3. \A d \in Conns : pc'[d] \in Registered <=> pc[d] \in Registered
  BY <1>1, <1>2
<1>4. \A d \in Conns : sess'[d] = "open" => sess[d] = "open"
  BY DEF IInv, TypeOK
<1>5. Authenticated'
  BY <1>1 DEF IInv, Authenticated
<1>6. RegistryMatchesHandlers'
  BY <1>3 DEF IInv, RegistryMatchesHandlers
<1>7. IndexAgrees'
  BY DEF IInv, IndexAgrees
<1>8. VictimsRegistered'
  BY <1>3 DEF IInv, VictimsRegistered, TypeOK
<1>9. RevokeReaches'
  BY <1>1, <1>2, <1>3, <1>4 DEF IInv, RevokeReaches
<1> QED BY Zenon, <1>5, <1>6, <1>7, <1>8, <1>9

\* A handler that enters is in no index and no snapshot yet.
LEMMA EntersKeeps ==
  ASSUME IInv, NEW c \in Conns, Enters(c)
  PROVE  /\ Authenticated' /\ RegistryMatchesHandlers' /\ IndexAgrees'
         /\ VictimsRegistered' /\ RevokeReaches'
<1> USE DEF Enters, At, Goto, registryVars, revokeVars
<1>1. \A d \in Conns : d # c => pc'[d] = pc[d] /\ req'[d] = req[d] /\ sess'[d] = sess[d]
  BY DEF IInv, TypeOK
<1>2. pc[c] \in {"idle", "read"} /\ pc'[c] \in {"read", "verify"}
  BY DEF IInv, TypeOK
<1>3. pc[c] \notin Registered \cup InFlight /\ pc'[c] \notin Registered \cup InFlight
  BY <1>2 DEF Registered, InFlight
<1>4. \A u \in Uniques : sessions[u] # c
  BY <1>3 DEF IInv, RegistryMatchesHandlers
<1>5. Authenticated'
  <2>1. pc'[c] = "verify" => req'[c] \in [ip : Ips, unique : Uniques, key : Keys]
    BY DEF IInv, TypeOK
  <2> QED BY <1>1, <1>2, <2>1 DEF IInv, Authenticated
<1>6. RegistryMatchesHandlers'
  BY <1>1, <1>3, <1>4 DEF IInv, RegistryMatchesHandlers
<1>7. IndexAgrees'
  BY <1>1, <1>4 DEF IInv, IndexAgrees
<1>8. VictimsRegistered'
  BY <1>1, <1>3 DEF IInv, VictimsRegistered, TypeOK
<1>9. RevokeReaches'
  BY <1>1, <1>3 DEF IInv, RevokeReaches
<1> QED BY Zenon, <1>5, <1>6, <1>7, <1>8, <1>9

\* reg.add takes a free label, in both indexes, under the handler's own key.
LEMMA AddKeeps ==
  ASSUME IInv, NEW c \in Conns, Add(c), sessions[req[c].unique] = None
  PROVE  /\ Authenticated' /\ RegistryMatchesHandlers' /\ IndexAgrees'
         /\ VictimsRegistered' /\ RevokeReaches'
<1> DEFINE n == req[c].unique
           k == req[c].key
<1>1. /\ pc[c] = "add" /\ pc' = [pc EXCEPT ![c] = "reply"]
      /\ sessions' = [sessions EXCEPT ![n] = c]
      /\ byPubkey' = [byPubkey EXCEPT ![k][n] = c]
      /\ UNCHANGED <<req, sess, allow, revoker, victims, late>>
  BY DEF Add, Goto, KeepLocals, revokeVars
<1>2. n \in Uniques /\ k \in Keys
  BY <1>1, AuthenticatedReq DEF IInv
<1>3. None \notin Conns
  BY NoneAssumption
<1>4. /\ \A d \in Conns : d # c => pc'[d] = pc[d]
      /\ pc'[c] = "reply"
      /\ "reply" \in Registered /\ "add" \notin Registered /\ "add" \in InFlight
  BY Zenon, <1>1 DEF IInv, TypeOK, Registered, InFlight
<1>5. \A u \in Uniques : sessions'[u] = IF u = n THEN c ELSE sessions[u]
  BY Zenon, <1>1, <1>2 DEF IInv, TypeOK
<1>6. \A j \in Keys, u \in Uniques :
        byPubkey'[j][u] = IF j = k /\ u = n THEN c ELSE byPubkey[j][u]
  BY <1>1, <1>2 DEF IInv, TypeOK
<1>7. Authenticated'
  BY <1>1, <1>4 DEF IInv, Authenticated
<1>8. RegistryMatchesHandlers'
  BY <1>1, <1>3, <1>4, <1>5 DEF IInv, RegistryMatchesHandlers
<1>9. IndexAgrees'
  <2> SUFFICES ASSUME NEW d \in Conns, NEW u \in Uniques, NEW j \in Keys
               PROVE  byPubkey'[j][u] = d <=> sessions'[u] = d /\ req[d].key = j
    BY <1>1 DEF IndexAgrees
  <2>1. byPubkey[j][u] = d <=> sessions[u] = d /\ req[d].key = j
    BY DEF IInv, IndexAgrees
  <2> QED BY <1>3, <1>5, <1>6, <2>1
<1>10. VictimsRegistered'
  BY <1>1, <1>4 DEF IInv, VictimsRegistered, TypeOK
<1>11. RevokeReaches'
  BY <1>1, <1>4 DEF IInv, RevokeReaches
<1> QED BY Zenon, <1>7, <1>8, <1>9, <1>10, <1>11

\* reg.remove takes the label out of both indexes as its handler returns.
LEMMA RemoveKeeps ==
  ASSUME IInv, NEW c \in Conns, Remove(c)
  PROVE  /\ Authenticated' /\ RegistryMatchesHandlers' /\ IndexAgrees'
         /\ VictimsRegistered' /\ RevokeReaches'
<1> DEFINE n == req[c].unique
           k == req[c].key
<1>1. pc[c] = "remove" /\ Return(c)
  BY DEF Remove
<1>2. n \in Uniques /\ k \in Keys
  BY <1>1, AuthenticatedReq DEF IInv
<1>3. None \notin Conns
  BY NoneAssumption
<1>4. "remove" \in Registered /\ "idle" \notin Registered \cup InFlight
  BY DEF Registered, InFlight
<1>5. sessions[n] = c /\ byPubkey[k][n] = c
  BY <1>1, <1>2, <1>4 DEF IInv, RegistryMatchesHandlers, IndexAgrees
<1>6. /\ \A d \in Conns : d # c => pc'[d] = pc[d] /\ req'[d] = req[d] /\ sess'[d] = sess[d]
      /\ pc'[c] = "idle"
  BY Zenon, <1>1 DEF Return, Goto, IInv, TypeOK
<1>7. \A u \in Uniques : sessions'[u] = IF u = n THEN None ELSE sessions[u]
  BY <1>2, <1>5 DEF Remove, IInv, TypeOK
<1>8. \A j \in Keys, u \in Uniques :
        byPubkey'[j][u] = IF j = k /\ u = n THEN None ELSE byPubkey[j][u]
  BY Zenon, <1>2, <1>5 DEF Remove, IInv, TypeOK
<1>9. \A u \in Uniques : sessions[u] = c => u = n
  BY DEF IInv, RegistryMatchesHandlers
<1>10. Authenticated'
  BY <1>6 DEF IInv, Authenticated
<1>11. RegistryMatchesHandlers'
  BY <1>3, <1>4, <1>5, <1>6, <1>7, <1>9 DEF IInv, RegistryMatchesHandlers
<1>12. IndexAgrees'
  <2> SUFFICES ASSUME NEW d \in Conns, NEW u \in Uniques, NEW j \in Keys
               PROVE  byPubkey'[j][u] = d <=> sessions'[u] = d /\ req'[d].key = j
    BY DEF IndexAgrees
  <2>1. byPubkey[j][u] = d <=> sessions[u] = d /\ req[d].key = j
    BY DEF IInv, IndexAgrees
  <2>2. CASE d = c
    <3>1. sessions'[u] # d
      BY <1>3, <1>7, <1>9, <2>2
    <3>2. byPubkey'[j][u] # d
      <4>1. CASE u = n
        <5>1. CASE j = k
          <6>1. byPubkey'[j][u] = None
            BY Zenon, <1>8, <4>1, <5>1
          <6> QED BY Zenon, <1>3, <6>1
        <5>2. CASE j # k
          <6>1. byPubkey'[j][u] = byPubkey[j][u]
            BY Zenon, <1>8, <5>2
          <6> QED BY Zenon, <2>1, <2>2, <5>2, <6>1
        <5> QED BY Zenon, <5>1, <5>2
      <4>2. CASE u # n
        BY <1>8, <1>9, <2>1, <2>2, <4>2
      <4> QED BY <4>1, <4>2
    <3> QED BY Zenon, <3>1, <3>2
  <2>3. CASE d # c
    <3>1. req'[d] = req[d]
      BY <1>6, <2>3
    <3>2. sessions'[u] = d <=> sessions[u] = d
      BY Zenon, <1>3, <1>5, <1>7, <2>3
    <3>3. byPubkey'[j][u] = d <=> byPubkey[j][u] = d
      <4>1. CASE j = k /\ u = n
        <5>1. byPubkey'[j][u] = None /\ byPubkey[j][u] = c
          BY Zenon, <1>5, <1>8, <4>1
        <5> QED BY Zenon, <1>3, <2>3, <5>1
      <4>2. CASE ~(j = k /\ u = n)
        BY Zenon, <1>8, <4>2
      <4> QED BY Zenon, <4>1, <4>2
    <3> QED BY Zenon, <2>1, <3>1, <3>2, <3>3
  <2> QED BY Zenon, <2>2, <2>3
<1>13. VictimsRegistered'
  BY Zenon, <1>1, <1>6 DEF Return, IInv, VictimsRegistered, TypeOK
<1>14. RevokeReaches'
  <2>1. /\ victims' = victims \ {c} /\ late' = late \ {c}
        /\ allow' = allow /\ revoker' = revoker /\ RevokeReaches
    BY Zenon, <1>1 DEF Return, IInv
  <2> SUFFICES ASSUME Gated, revoker # "snapshot", NEW d \in Conns, req'[d].key \notin allow,
                      pc'[d] \in InFlight \/ (pc'[d] \in Registered /\ sess'[d] = "open")
               PROVE  d \in late' \cup victims'
    BY Zenon, <2>1 DEF RevokeReaches
  <2>2. d # c
    BY Zenon, <1>4, <1>6
  <2>3. d \in late \cup victims
    BY Zenon, <1>6, <2>1, <2>2 DEF RevokeReaches
  <2> QED BY Zenon, <2>1, <2>2, <2>3
<1> QED BY Zenon, <1>10, <1>11, <1>12, <1>13, <1>14

----------------------------------------------------------------------------
(* The certificates: a row is written only once its label has one.         *)

\* A handler is about to insert only when it comes from EnsureOK.
LEMMA InsertsStep ==
  ASSUME IInv, NEW c \in Conns, Progress(c) \/ Peer(c)
  PROVE  InsertsAfterCert'
<1>1. certs \subseteq certs'
  BY HandlerStore DEF IInv
<1>2. \A d \in Conns : d # c => pc'[d] = pc[d] /\ req'[d] = req[d]
  <2>1. CASE Leaves(c)
    BY Zenon, <2>1 DEF Leaves, Return, Goto, IInv, TypeOK
  <2>2. CASE \E to \in States : Moves(c, to)
    BY Zenon, <2>2 DEF Moves, Goto, IInv, TypeOK
  <2>3. CASE Add(c) /\ sessions[req[c].unique] = None
    BY Zenon, <2>3 DEF Add, Goto, KeepLocals, IInv, TypeOK
  <2>4. CASE Remove(c)
    BY <2>4 DEF Remove, Return, Goto, IInv, TypeOK
  <2>5. CASE Enters(c)
    BY <2>5 DEF Enters, At, Goto, IInv, TypeOK
  <2>6. CASE PeerGone(c)
    BY <2>6 DEF PeerGone
  <2> QED BY Zenon, <2>1, <2>2, <2>3, <2>4, <2>5, <2>6, ProgressShape, PeerShape
<1>3. pc'[c] = "put" => req'[c].unique \in certs'
  <2>1. CASE Leaves(c)
    BY <2>1 DEF Leaves, Return, Goto, IInv, TypeOK
  <2>2. CASE \E to \in States : Moves(c, to)
    BY Zenon, <2>2 DEF Moves, Goto, IInv, TypeOK
  <2>3. CASE Add(c) /\ sessions[req[c].unique] = None
    BY Zenon, <2>3 DEF Add, Goto, KeepLocals, IInv, TypeOK
  <2>4. CASE Remove(c)
    BY <2>4 DEF Remove, Return, Goto, IInv, TypeOK
  <2>5. CASE Enters(c)
    BY <2>5 DEF Enters, At, Goto, IInv, TypeOK
  <2>6. CASE PeerGone(c)
    BY <1>1, <2>6 DEF PeerGone, IInv, InsertsAfterCert
  <2> QED BY Zenon, <2>1, <2>2, <2>3, <2>4, <2>5, <2>6, ProgressShape, PeerShape
<1> QED BY <1>1, <1>2, <1>3 DEF IInv, InsertsAfterCert

\* No step leaves an owned name without its certificate.
LEMMA CertStep ==
  ASSUME IInv, [Next]_vars
  PROVE  InsertsAfterCert' /\ LoadedFromFiles' /\ OwnedNameHasCert'
<1> USE DEF LoadedFromFiles, OwnedNameHasCert
<1>1. ASSUME NEW c \in Conns, Progress(c) \/ Peer(c)
      PROVE  InsertsAfterCert' /\ LoadedFromFiles' /\ OwnedNameHasCert'
  <2>1. InsertsAfterCert'
    BY Zenon, <1>1, InsertsStep
  <2>2. LoadedFromFiles'
    BY <1>1, HandlerStore DEF IInv
  <2>3. OwnedNameHasCert'
    <3> SUFFICES ASSUME NEW u \in Uniques, store'[u] # None
                 PROVE  u \in certs' \cup purged'
      BY Zenon
    <3>1. CASE store'[u] = store[u]
      BY Zenon, <1>1, <3>1, HandlerStore DEF IInv
    <3>2. CASE store'[u] # store[u]
      BY <1>1, <3>2, HandlerStore DEF IInv, InsertsAfterCert
    <3> QED BY <3>1, <3>2
  <2> QED BY <2>1, <2>2, <2>3
<1>2. CASE Revoke
  BY Zenon, <1>2 DEF Revoke, Snapshot, RevokeDone, CloseVictim, connVars, certVars,
              IInv, InsertsAfterCert
<1>3. ASSUME NEW S \in SUBSET Keys, Reload(S)
      PROVE  InsertsAfterCert' /\ LoadedFromFiles' /\ OwnedNameHasCert'
  BY Zenon, <1>3 DEF Reload, connVars, certVars, IInv, InsertsAfterCert
<1>4. ASSUME NEW u \in Uniques, IdentityDelete(u) \/ PurgeCert(u)
      PROVE  InsertsAfterCert' /\ LoadedFromFiles' /\ OwnedNameHasCert'
  BY <1>4 DEF IdentityDelete, PurgeCert, connVars, IInv, InsertsAfterCert, TypeOK
<1>5. ASSUME NEW S \in AllowSets, Restart(S)
      PROVE  InsertsAfterCert' /\ LoadedFromFiles' /\ OwnedNameHasCert'
  <2>1. InsertsAfterCert'
    BY <1>5 DEF Restart, InsertsAfterCert
  <2>2. LoadedFromFiles' /\ OwnedNameHasCert'
    BY Zenon, <1>5 DEF Restart, IInv
  <2> QED BY <2>1, <2>2
<1>6. CASE UNCHANGED vars
  BY <1>6 DEF vars, connVars, certVars, IInv, InsertsAfterCert
<1> QED BY Zenon, <1>1, <1>2, <1>3, <1>4, <1>5, <1>6 DEF Next, Operator

----------------------------------------------------------------------------
(* The revoker and the environment.                                       *)

\* A step that leaves the handlers' positions, their requests and the registry
\* alone keeps what is said of the registry.
LEMMA SameRegistry ==
  ASSUME IInv, UNCHANGED <<pc, req, sessions, byPubkey>>
  PROVE  Authenticated' /\ RegistryMatchesHandlers' /\ IndexAgrees'
<1>1. Authenticated'
  BY DEF IInv, Authenticated
<1>2. RegistryMatchesHandlers'
  BY DEF IInv, RegistryMatchesHandlers
<1>3. IndexAgrees'
  BY DEF IInv, IndexAgrees
<1> QED BY <1>1, <1>2, <1>3

\* ... and of revocation, when that is left alone, too.
LEMMA SameHandlers ==
  ASSUME IInv, UNCHANGED <<connVars, registryVars, revokeVars>>
  PROVE  /\ Authenticated' /\ RegistryMatchesHandlers' /\ IndexAgrees'
         /\ VictimsRegistered' /\ RevokeReaches'
<1> USE DEF connVars, registryVars, revokeVars
<1>1. Authenticated' /\ RegistryMatchesHandlers' /\ IndexAgrees'
  BY SameRegistry
<1>2. VictimsRegistered'
  BY DEF IInv, VictimsRegistered
<1>3. RevokeReaches'
  BY DEF IInv, RevokeReaches
<1> QED BY <1>1, <1>2, <1>3

\* RevokeMissing finds every registered session of a removed key through the
\* index, and closes what it found.
LEMMA RevokeKeeps ==
  ASSUME IInv, Revoke
  PROVE  /\ Authenticated' /\ RegistryMatchesHandlers' /\ IndexAgrees'
         /\ VictimsRegistered' /\ RevokeReaches'
<1> USE DEF connVars, registryVars
<1>1. CASE Snapshot
  <2>1. Authenticated' /\ RegistryMatchesHandlers' /\ IndexAgrees'
    BY Zenon, <1>1, SameRegistry DEF Snapshot
  <2> USE <1>1 DEF Snapshot
  <2>2. VictimsRegistered'
    <3> SUFFICES ASSUME NEW c \in victims' PROVE pc[c] \in Registered
      BY DEF VictimsRegistered
    <3>1. PICK k \in Keys \ allow, u \in Uniques : c \in Conns /\ byPubkey[k][u] = c
      OBVIOUS
    <3>2. sessions[u] = c
      BY <3>1 DEF IInv, IndexAgrees
    <3> QED BY <3>1, <3>2 DEF IInv, RegistryMatchesHandlers
  <2>3. RevokeReaches'
    <3> SUFFICES ASSUME NEW c \in Conns, req[c].key \notin allow,
                        pc[c] \in InFlight \/ pc[c] \in Registered
                 PROVE  c \in late' \cup victims'
      BY DEF RevokeReaches
    <3>1. CASE pc[c] \in InFlight
      BY <3>1
    <3>2. CASE pc[c] \in Registered
      <4>1. req[c].unique \in Uniques /\ req[c].key \in Keys
        BY <3>2, AuthenticatedReq DEF IInv, Registered
      <4>2. byPubkey[req[c].key][req[c].unique] = c
        BY <3>2, <4>1 DEF IInv, RegistryMatchesHandlers, IndexAgrees
      <4> QED BY <4>1, <4>2
    <3> QED BY <3>1, <3>2
  <2> QED BY Zenon, <2>1, <2>2, <2>3
<1>2. CASE RevokeDone
  <2>1. Authenticated' /\ RegistryMatchesHandlers' /\ IndexAgrees'
    BY <1>2, SameRegistry DEF RevokeDone
  <2>2. VictimsRegistered'
    BY <1>2 DEF RevokeDone, IInv, VictimsRegistered
  <2>3. RevokeReaches'
    BY <1>2 DEF RevokeDone, IInv, RevokeReaches
  <2> QED BY <2>1, <2>2, <2>3
<1>3. ASSUME NEW c \in Conns, CloseVictim(c)
      PROVE  /\ Authenticated' /\ RegistryMatchesHandlers' /\ IndexAgrees'
             /\ VictimsRegistered' /\ RevokeReaches'
  <2>1. Authenticated' /\ RegistryMatchesHandlers' /\ IndexAgrees'
    BY <1>3, SameRegistry DEF CloseVictim
  <2> USE <1>3 DEF CloseVictim
  <2>2. VictimsRegistered'
    BY DEF IInv, VictimsRegistered
  <2>3. RevokeReaches'
    <3>1. pc[c] \in Registered /\ pc[c] \notin InFlight
      BY DEF IInv, VictimsRegistered, Registered, InFlight
    <3>2. sess'[c] = "closed" /\ \A d \in Conns : d # c => sess'[d] = sess[d]
      BY DEF IInv, TypeOK
    <3> QED BY <3>1, <3>2 DEF IInv, RevokeReaches
  <2> QED BY <2>1, <2>2, <2>3
<1> QED BY <1>1, <1>2, <1>3 DEF Revoke

\* The operator's steps and a lost connection.
LEMMA EnvironmentKeeps ==
  ASSUME IInv, Operator \/ \E c \in Conns : PeerGone(c)
  PROVE  /\ Authenticated' /\ RegistryMatchesHandlers' /\ IndexAgrees'
         /\ VictimsRegistered' /\ RevokeReaches'
<1> USE DEF connVars, registryVars, revokeVars
<1>1. ASSUME NEW S \in SUBSET Keys, Reload(S)
      PROVE  /\ Authenticated' /\ RegistryMatchesHandlers' /\ IndexAgrees'
             /\ VictimsRegistered' /\ RevokeReaches'
  <2>1. Authenticated' /\ RegistryMatchesHandlers' /\ IndexAgrees'
    BY <1>1, SameRegistry DEF Reload
  <2>2. VictimsRegistered'
    BY <1>1 DEF Reload, IInv, VictimsRegistered
  <2>3. RevokeReaches'
    BY <1>1 DEF Reload, RevokeReaches
  <2> QED BY <2>1, <2>2, <2>3
<1>2. ASSUME NEW u \in Uniques, IdentityDelete(u) \/ PurgeCert(u)
      PROVE  /\ Authenticated' /\ RegistryMatchesHandlers' /\ IndexAgrees'
             /\ VictimsRegistered' /\ RevokeReaches'
  <2>1. UNCHANGED <<connVars, registryVars, revokeVars>>
    BY <1>2 DEF IdentityDelete, PurgeCert
  <2> QED BY <2>1, SameHandlers
<1>3. ASSUME NEW S \in AllowSets, Restart(S)
      PROVE  /\ Authenticated' /\ RegistryMatchesHandlers' /\ IndexAgrees'
             /\ VictimsRegistered' /\ RevokeReaches'
  <2>1. Authenticated'
    BY <1>3 DEF Restart, Authenticated
  <2>2. RegistryMatchesHandlers' /\ IndexAgrees'
    BY <1>3, NoneAssumption
       DEF Restart, RegistryMatchesHandlers, IndexAgrees, Registered
  <2>3. VictimsRegistered' /\ RevokeReaches'
    BY <1>3 DEF Restart, VictimsRegistered, RevokeReaches, Registered, InFlight
  <2> QED BY <2>1, <2>2, <2>3
<1>4. ASSUME NEW c \in Conns, PeerGone(c)
      PROVE  /\ Authenticated' /\ RegistryMatchesHandlers' /\ IndexAgrees'
             /\ VictimsRegistered' /\ RevokeReaches'
  <2>1. \A d \in Conns : sess'[d] = "open" => sess[d] = "open"
    BY <1>4 DEF PeerGone, IInv, TypeOK
  <2>2. Authenticated' /\ RegistryMatchesHandlers' /\ IndexAgrees'
    BY <1>4, SameRegistry DEF PeerGone
  <2>3. VictimsRegistered'
    BY Zenon, <1>4 DEF PeerGone, IInv, VictimsRegistered
  <2>4. RevokeReaches'
    BY <1>4, <2>1 DEF PeerGone, IInv, RevokeReaches
  <2> QED BY <2>2, <2>3, <2>4
<1> QED BY <1>1, <1>2, <1>3, <1>4 DEF Operator

----------------------------------------------------------------------------
(* The theorems.                                                           *)

\* A daemon that boots with a certificate for every name in its store satisfies
\* IInv.
LEMMA BootInv ==
  ASSUME NEW rows \in [Uniques -> Keys \cup {None}], NEW files \in SUBSET Uniques,
         \A u \in Uniques : rows[u] # None => u \in files,
         Boot(rows, files)
  PROVE  IInv
<1> USE DEF Boot
<1>1. TypeOK
  BY DEF TypeOK, NoReq, States, AllowSets
<1>2. Authenticated /\ InsertsAfterCert
  BY DEF Authenticated, InsertsAfterCert
<1>3. RegistryMatchesHandlers /\ IndexAgrees
  BY NoneAssumption DEF RegistryMatchesHandlers, IndexAgrees, Registered
<1>4. OwnedNameHasCert /\ LoadedFromFiles
  BY DEF OwnedNameHasCert, LoadedFromFiles
<1>5. VictimsRegistered /\ RevokeReaches
  BY DEF VictimsRegistered, RevokeReaches, Registered, InFlight
<1> QED BY Zenon, <1>1, <1>2, <1>3, <1>4, <1>5 DEF IInv

\* IInv holds initially and every step preserves it.
LEMMA Inductive == (Init => IInv) /\ (IInv /\ [Next]_vars => IInv')
<1>1. Init => IInv
  <2> DEFINE empty == [u \in Uniques |-> None]
  <2>1. empty \in [Uniques -> Keys \cup {None}] /\ \A u \in Uniques : empty[u] = None
    OBVIOUS
  <2>2. {} \in SUBSET Uniques
    OBVIOUS
  <2> HIDE DEF empty
  <2>3. Boot(empty, {}) => IInv
    BY <2>1, <2>2, BootInv
  <2> QED BY <2>3 DEF Init, empty
<1>2. ASSUME IInv, [Next]_vars PROVE IInv'
  <2>1. TypeOK'
    BY <1>2, TypeStep DEF IInv
  <2>2. InsertsAfterCert' /\ LoadedFromFiles' /\ OwnedNameHasCert'
    BY <1>2, CertStep
  <2>3. /\ Authenticated' /\ RegistryMatchesHandlers' /\ IndexAgrees'
        /\ VictimsRegistered' /\ RevokeReaches'
    <3>1. CASE \E c \in Conns : Progress(c)
      BY Zenon, <1>2, <3>1, ProgressShape, LeavesKeeps, MovesKeeps, AddKeeps, RemoveKeeps
    <3>2. CASE \E c \in Conns : Peer(c)
      BY <1>2, <3>2, PeerShape, LeavesKeeps, MovesKeeps, EntersKeeps, EnvironmentKeeps
    <3>3. CASE Revoke
      BY <1>2, <3>3, RevokeKeeps
    <3>4. CASE Operator
      BY <1>2, <3>4, EnvironmentKeeps
    <3>5. CASE UNCHANGED vars
      BY <1>2, <3>5, SameHandlers DEF vars
    <3> QED BY <1>2, <3>1, <3>2, <3>3, <3>4, <3>5 DEF Next
  <2> QED BY <2>1, <2>2, <2>3 DEF IInv
<1> QED BY <1>1, <1>2

\* The inductive invariant holds in every reachable state of the daemon.
THEOREM Invariance == Spec => []IInv
  BY Inductive, PTL DEF Spec

\* Type correctness of the daemon's state.
THEOREM TypeCorrect == Spec => []TypeOK
<1>1. IInv => TypeOK
  BY DEF IInv
<1> QED BY <1>1, Invariance, PTL

\* The registry: a label routes to a session exactly while the handler that
\* registered it is between reg.add and reg.remove, and the index
\* RevokeMissing searches says the same, whatever handlers interleave.
THEOREM RegistryCorrect == Spec => [](RegistryMatchesHandlers /\ IndexAgrees)
<1>1. IInv => RegistryMatchesHandlers /\ IndexAgrees
  BY DEF IInv
<1> QED BY <1>1, Invariance, PTL

\* Revocation: after a reload, a session still open under a removed key was
\* past the gate and not yet added when RevokeMissing took its snapshot.
THEOREM RevokeCorrect == Spec => []OnlyInFlightEscapeRevoke
<1>1. IInv => OnlyInFlightEscapeRevoke
  BY DEF IInv, RevokeReaches, VictimsRegistered, OnlyInFlightEscapeRevoke
<1> QED BY <1>1, Invariance, PTL

\* Claims: a name is owned only once its label has a certificate.
THEOREM CertBeforeRow == Spec => []OwnedNameHasCert
<1>1. IInv => OwnedNameHasCert
  BY DEF IInv
<1> QED BY <1>1, Invariance, PTL

\* A step that gives an owned name to another key is the rotation of a handler.
LEMMA OnlyRotates ==
  ASSUME IInv, [Next]_vars, NEW u \in Uniques, store[u] # None,
         store'[u] \notin {None, store[u]}
  PROVE  \E c \in Conns : pc[c] = "rotate" /\ req[c].unique = u /\ store'[u] = req[c].key
<1>1. CASE \E c \in Conns : Progress(c) \/ Peer(c)
  <2> PICK c \in Conns : Progress(c) \/ Peer(c)
    BY Zenon, <1>1
  <2> TypeOK /\ Authenticated
    BY Zenon DEF IInv
  <2> QED BY Zenon, HandlerStore
<1>2. CASE Revoke
  BY Zenon, <1>2 DEF Revoke, Snapshot, RevokeDone, CloseVictim
<1>3. CASE Operator
  <2>1. CASE \E n \in Uniques : IdentityDelete(n)
    BY <2>1 DEF IdentityDelete, IInv, TypeOK
  <2>2. CASE \E S \in SUBSET Keys : Reload(S)
    BY Zenon, <2>2 DEF Reload
  <2>3. CASE \E n \in Uniques : PurgeCert(n)
    BY Zenon, <2>3 DEF PurgeCert
  <2>4. CASE \E S \in AllowSets : Restart(S)
    BY Zenon, <2>4 DEF Restart
  <2> QED BY Zenon, <1>3, <2>1, <2>2, <2>3, <2>4 DEF Operator
<1>4. CASE UNCHANGED vars
  BY Zenon, <1>4 DEF vars
<1> QED BY Zenon, <1>1, <1>2, <1>3, <1>4 DEF Next

\* Ownership: an owned name goes to another key only through a handler whose
\* proof was accepted.
THEOREM NoStealing == Spec => ClaimNeverSteals
<1> DEFINE Passes == \A u \in Uniques :
             store[u] # None /\ store'[u] \notin {None, store[u]} =>
               \E c \in Conns : pc[c] = "rotate" /\ req[c].unique = u
                                /\ store'[u] = req[c].key
<1>1. ASSUME IInv, [Next]_vars PROVE [Passes]_vars
  BY <1>1, OnlyRotates
<1>2. [][Passes]_vars <=> ClaimNeverSteals
  BY PTL DEF ClaimNeverSteals
<1> QED BY <1>1, <1>2, Invariance, PTL DEF Spec
=============================================================================
