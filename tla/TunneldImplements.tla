------------------------- MODULE TunneldImplements --------------------------
(***************************************************************************)
(* Tunneld implements NameService: the proof, for any number of            *)
(* connections, names and keys.                                            *)
(***************************************************************************)
EXTENDS TunneldProofs, TunneldRefines

\* A leaf may take the SMT solver a minute; Zenon tries what it leaves.
USE SMTT(60), Zenon

----------------------------------------------------------------------------
(* NameService sees of a handler's step nothing, a session turned away, or *)
(* one of the seven steps that read or write a row or the registry.        *)

Asking == {"challenge", "proof", "rotate"}

LetIn == {"add"} \cup Registered

Unseen == States \ (Asking \cup LetIn)

\* The step is handler c's own.
OnlyMoves(c) ==
  \A d \in Conns \ {c} :
    pc'[d] = pc[d] /\ req'[d] = req[d] /\ existing'[d] = existing[d]

\* NameService sees nothing of the step.
Silent(c) ==
  /\ OnlyMoves(c)
  /\ UNCHANGED <<store, sessions>>
  /\ \/ pc[c] \in Unseen /\ pc'[c] \in Unseen
     \/ /\ req'[c] = req[c] /\ existing'[c] = existing[c]
        /\ \/ pc[c] \in Asking /\ pc'[c] \in Asking
           \/ pc[c] \in LetIn /\ pc'[c] \in LetIn

\* The handler returns without ever having been registered.
TurnedAway(c) ==
  /\ OnlyMoves(c)
  /\ pc[c] \notin Registered /\ pc'[c] = "idle"
  /\ UNCHANGED <<store, sessions>>

\* A handler that returns is idle, and no other is touched.
LEMMA ReturnMoves ==
  ASSUME TypeOK, NEW c \in Conns, Return(c)
  PROVE  OnlyMoves(c) /\ pc'[c] = "idle"
  BY DEF Return, Goto, OnlyMoves, TypeOK

\* A handler that goes on leaves the others alone.
LEMMA GotoMoves ==
  ASSUME TypeOK, NEW c \in Conns, NEW to, Goto(c, to), UNCHANGED <<req, existing>>
  PROVE  OnlyMoves(c) /\ pc'[c] = to /\ req'[c] = req[c] /\ existing'[c] = existing[c]
  BY DEF Goto, OnlyMoves, TypeOK

\* Three of the kinds of state, told apart.
LEMMA Kinds ==
  /\ "idle" \in Unseen /\ "read" \in Unseen /\ "verify" \in Unseen /\ "gate" \in Unseen
  /\ "get" \in Unseen /\ "keyLimit" \in Unseen /\ "grace" \in Unseen
  /\ "ensure" \in Unseen /\ "put" \in Unseen /\ "reget" \in Unseen
  /\ Refunding \subseteq Unseen
  /\ Asking \cap LetIn = {}
  BY DEF Unseen, Asking, LetIn, States, InFlight, Registered, Refunding

\* Every step a handler takes by itself.
LEMMA ProgressMaps ==
  ASSUME TypeOK, NEW c \in Conns, Progress(c)
  PROVE  \/ Silent(c) \/ TurnedAway(c)
         \/ Get(c) \/ Put(c) \/ Rotate(c) \/ Delete(c) \/ Remove(c)
         \/ (Reget(c) /\ store[req[c].unique] = req[c].key)
         \/ (Add(c) /\ sessions[req[c].unique] = None)
<1> USE DEF KeepLocals, KeepShared, registryVars, At
<1>1. CASE ReadFails(c) \/ VerifyFails(c) \/ StoreFails(c)
           \/ EnsurePermanent(c) \/ ChallengeFails(c)
  BY <1>1, ReturnMoves DEF ReadFails, VerifyFails, StoreFails, EnsurePermanent,
              ChallengeFails, TurnedAway, Registered
<1>2. CASE VerifyOK(c) \/ GraceElapses(c)
  BY <1>2, GotoMoves, Kinds DEF VerifyOK, GraceElapses, Silent
<1>3. CASE ClockSkewed(c) \/ GraceAborted(c) \/ EnsureTransient(c)
  <2>1. PICK to \in Refunding : RefundOrReturn(c, to)
    BY <1>3 DEF ClockSkewed, GraceAborted, EnsureTransient, Refunding
  <2>2. pc[c] \in {"verify", "grace", "ensure"} /\ UNCHANGED <<store, sessions>>
    BY <1>3 DEF ClockSkewed, GraceAborted, EnsureTransient
  <2>3. CASE Return(c)
    BY <2>2, <2>3, ReturnMoves DEF TurnedAway, Registered
  <2>4. CASE Goto(c, to) /\ KeepLocals
    BY <2>2, <2>4, GotoMoves, Kinds DEF Silent
  <2> QED BY <2>1, <2>3, <2>4 DEF RefundOrReturn
<1>4. CASE Gate(c)
  <2>1. pc[c] = "gate" /\ UNCHANGED <<store, sessions>>
    BY <1>4 DEF Gate
  <2>2. CASE Return(c)
    BY <2>1, <2>2, ReturnMoves DEF TurnedAway, Registered
  <2>3. CASE Goto(c, "get") /\ KeepLocals
    BY <2>1, <2>3, GotoMoves, Kinds DEF Silent
  <2> QED BY <1>4, <2>2, <2>3 DEF Gate
<1>5. CASE KeyLimit(c)
  <2>1. pc[c] = "keyLimit" /\ UNCHANGED <<store, sessions>>
    BY <1>5 DEF KeyLimit
  <2>2. CASE Return(c)
    BY <2>1, <2>2, ReturnMoves DEF TurnedAway, Registered
  <2>3. CASE Goto(c, "grace") /\ KeepLocals
    BY <2>1, <2>3, GotoMoves, Kinds DEF Silent
  <2> QED BY <1>5, <2>2, <2>3 DEF KeyLimit
<1>6. CASE EnsureOK(c)
  BY <1>6, GotoMoves, Kinds DEF EnsureOK, Silent
<1>7. CASE RefundSkew(c) \/ RefundKey(c)
  BY <1>7, ReturnMoves DEF RefundSkew, RefundKey, TurnedAway, Registered
<1>8. CASE RefundIp(c)
  BY <1>8, GotoMoves, Kinds DEF RefundIp, Silent, Refunding
<1>9. CASE Reget(c)
  BY <1>9, ReturnMoves DEF Reget, TurnedAway, Registered
<1>10. CASE SendChallenge(c)
  BY <1>10, GotoMoves DEF SendChallenge, Silent, Asking
<1>11. CASE Add(c)
  BY <1>11, ReturnMoves DEF Add, TurnedAway, Registered
<1>12. CASE Reply(c) \/ DeleteFails(c) \/ CloseSession(c) \/ LoopEnds(c) \/ Closed(c)
  <2>1. PICK to \in {"loop", "remove", "wait"} : Goto(c, to)
    BY <1>12 DEF Reply, DeleteFails, CloseSession, LoopEnds, Closed
  <2>2. pc[c] \in Registered /\ UNCHANGED <<req, existing, store, sessions>>
    BY <1>12 DEF Reply, DeleteFails, CloseSession, LoopEnds, Closed, Registered
  <2> QED BY Zenon, <2>1, <2>2, GotoMoves DEF Silent, LetIn, Registered
<1> QED BY Zenon, <1>1, <1>2, <1>3, <1>4, <1>5, <1>6, <1>7, <1>8, <1>9, <1>10, <1>11,
           <1>12 DEF Progress

\* Every step of a handler's peer.
LEMMA PeerMaps ==
  ASSUME TypeOK, NEW c \in Conns, Peer(c)
  PROVE  Silent(c) \/ TurnedAway(c) \/ PeerGone(c)
<1> USE DEF KeepLocals, KeepShared, registryVars, At
<1>1. CASE Accept(c)
  BY <1>1, GotoMoves, Kinds DEF Accept, Silent
<1>2. ASSUME NEW i \in Ips, NEW u \in Uniques, NEW k \in Keys, ReadRegister(c, i, u, k)
      PROVE  Silent(c) \/ TurnedAway(c)
  <2>1. pc[c] = "read" /\ UNCHANGED <<store, sessions>>
    BY Zenon, <1>2 DEF ReadRegister
  <2>2. CASE Return(c)
    BY <2>1, <2>2, ReturnMoves DEF TurnedAway, Registered
  <2>3. CASE ~Return(c)
    <3>1. /\ req' = [req EXCEPT ![c] = [ip |-> i, unique |-> u, key |-> k]]
          /\ Goto(c, "verify") /\ UNCHANGED existing
      BY <1>2, <2>3 DEF ReadRegister
    <3>2. OnlyMoves(c) /\ pc'[c] = "verify"
      BY <3>1 DEF OnlyMoves, Goto, TypeOK
    <3> QED BY <2>1, <3>2, Kinds DEF Silent
  <2> QED BY <2>2, <2>3
<1>3. ASSUME NEW p \in Keys, Proof(c, p) PROVE Silent(c) \/ TurnedAway(c)
  <2>1. pc[c] = "proof" /\ UNCHANGED <<store, sessions>>
    BY <1>3 DEF Proof
  <2>2. CASE Return(c)
    BY <2>1, <2>2, ReturnMoves DEF TurnedAway, Registered
  <2>3. CASE Goto(c, "rotate") /\ KeepLocals
    BY <2>1, <2>3, GotoMoves DEF Silent, Asking
  <2> QED BY <1>3, <2>2, <2>3 DEF Proof
<1>4. CASE Deregister(c) \/ ControlEOF(c)
  <2>1. PICK to \in {"delete", "wait"} : Goto(c, to)
    BY <1>4 DEF Deregister, ControlEOF
  <2>2. pc[c] \in Registered /\ UNCHANGED <<req, existing, store, sessions>>
    BY <1>4 DEF Deregister, ControlEOF, Registered
  <2> QED BY <2>1, <2>2, GotoMoves DEF Silent, LetIn, Registered
<1> QED BY Zenon, <1>1, <1>2, <1>3, <1>4 DEF Peer

----------------------------------------------------------------------------
(* What NameService sees of a step.                                        *)

\* Two functions that agree but for one argument.
LEMMA Update ==
  ASSUME NEW S, NEW f, NEW g, NEW c \in S,
         f = [x \in S |-> f[x]], g = [x \in S |-> g[x]],
         \A d \in S \ {c} : g[d] = f[d]
  PROVE  g = [f EXCEPT ![c] = g[c]]
  OBVIOUS

\* Two functions that agree.
LEMMA Same ==
  ASSUME NEW S, NEW f, NEW g,
         f = [x \in S |-> f[x]], g = [x \in S |-> g[x]], \A d \in S : g[d] = f[d]
  PROVE  g = f
  OBVIOUS

\* Of the sessions NameService sees, a handler's step changes its own.
LEMMA OneSession ==
  ASSUME NEW c \in Conns, OnlyMoves(c)
  PROVE  /\ allAsked' = [allAsked EXCEPT ![c] = allAsked'[c]]
         /\ allGranted' = [allGranted EXCEPT ![c] = allGranted'[c]]
         /\ allAsked'[c] = allAsked[c] => allAsked' = allAsked
         /\ allGranted'[c] = allGranted[c] => allGranted' = allGranted
<1>1. \A d \in Conns \ {c} : allAsked'[d] = allAsked[d] /\ allGranted'[d] = allGranted[d]
  BY DEF OnlyMoves, allAsked, allGranted, askedBy, grantedTo
<1>2. allAsked = [d \in Conns |-> allAsked[d]] /\ allAsked' = [d \in Conns |-> allAsked'[d]]
  BY DEF allAsked
<1>3. allGranted = [d \in Conns |-> allGranted[d]]
      /\ allGranted' = [d \in Conns |-> allGranted'[d]]
  BY DEF allGranted
<1>4. allAsked' = [allAsked EXCEPT ![c] = allAsked'[c]]
  BY <1>1, <1>2, Update
<1>5. allGranted' = [allGranted EXCEPT ![c] = allGranted'[c]]
  BY <1>1, <1>3, Update
<1>6. ASSUME allAsked'[c] = allAsked[c] PROVE allAsked' = allAsked
  <2>1. \A d \in Conns : allAsked'[d] = allAsked[d]
    BY <1>1, <1>6
  <2> QED BY <1>2, <2>1, Same
<1>7. ASSUME allGranted'[c] = allGranted[c] PROVE allGranted' = allGranted
  <2>1. \A d \in Conns : allGranted'[d] = allGranted[d]
    BY <1>1, <1>7
  <2> QED BY <1>3, <2>1, Same
<1> QED BY <1>4, <1>5, <1>6, <1>7

\* A step with no counterpart.
LEMMA SilentStutters ==
  ASSUME NEW c \in Conns, Silent(c)
  PROVE  UNCHANGED Abstract!vars
<1>1. allAsked'[c] = allAsked[c] /\ allGranted'[c] = allGranted[c]
  BY Kinds DEF Silent, allAsked, allGranted, askedBy, grantedTo, Unseen, Asking, LetIn
<1>2. allAsked' = allAsked /\ allGranted' = allGranted
  BY <1>1, OneSession DEF Silent
<1> QED BY <1>2 DEF Silent, Abstract!vars

\* A handler that goes without having been registered serves nothing.
LEMMA TurnedAwayRefuses ==
  ASSUME IInv, NEW c \in Conns, TurnedAway(c)
  PROVE  Abstract!Refuse(c)
<1>1. allAsked'[c] = None /\ allGranted'[c] = None
  BY DEF TurnedAway, allAsked, allGranted, askedBy, grantedTo, Registered
<1>2. ~Abstract!Serving(c)
  <2> SUFFICES ASSUME allGranted[c] # None, sessions[allGranted[c].name] = c PROVE FALSE
    BY DEF Abstract!Serving
  <2>1. pc[c] = "add" /\ allGranted[c].name = req[c].unique
    BY DEF allGranted, grantedTo, TurnedAway
  <2>2. req[c].unique \in Uniques
    BY <2>1, AuthenticatedReq DEF IInv
  <2> QED BY <2>1, <2>2 DEF IInv, RegistryMatchesHandlers, TurnedAway
<1> QED BY <1>1, <1>2, OneSession DEF TurnedAway, Abstract!Refuse

\* store.Get answers: the owner resumes, another key is challenged, and a free
\* name is only looked at.
LEMMA GetMaps ==
  ASSUME IInv, NEW c \in Conns, Get(c)
  PROVE  Abstract!Next \/ UNCHANGED Abstract!vars
<1> DEFINE u == req[c].unique
           k == req[c].key
<1>1. u \in Uniques /\ k \in Keys
  BY AuthenticatedReq DEF IInv, Get
<1>2. OnlyMoves(c) /\ UNCHANGED <<req, store, sessions>> /\ pc[c] = "get"
  BY DEF Get, Goto, OnlyMoves, registryVars, IInv, TypeOK
<1>3. Abstract!Outside(c)
  BY <1>2 DEF Abstract!Outside, allAsked, allGranted, askedBy, grantedTo, Registered
<1>4. CASE store[u] = None
  <2>1. pc'[c] = "keyLimit"
    BY <1>1, <1>4, NoneAssumption DEF Get, Goto, IInv, TypeOK
  <2> QED BY <1>2, <2>1, SilentStutters, Kinds DEF Silent
<1>5. CASE store[u] = k
  <2>1. pc'[c] = "add"
    BY <1>1, <1>5, NoneAssumption DEF Get, Goto, IInv, TypeOK
  <2>2. allAsked'[c] = allAsked[c] /\ allGranted'[c] = [name |-> u, key |-> k]
    BY Zenon, <1>2, <2>1 DEF allAsked, allGranted, askedBy, grantedTo, Registered
  <2>3. allAsked' = allAsked
    BY <1>2, <2>2, OneSession
  <2>4. Abstract!Grant(c, u, k)
    BY <1>2, <2>2, OneSession DEF Abstract!Grant
  <2>5. Abstract!Resume(c, u, k)
    BY Zenon, <1>2, <1>3, <1>5, <2>3, <2>4 DEF Abstract!Resume
  <2> QED BY <1>1, <2>5 DEF Abstract!Next
<1>6. CASE store[u] \notin {None, k}
  <2>1. pc'[c] = "challenge" /\ existing'[c] = store[u]
    BY <1>1, <1>6 DEF Get, Goto, IInv, TypeOK
  <2>2. allAsked'[c] = [name |-> u, key |-> k, from |-> store[u]]
        /\ allGranted'[c] = allGranted[c]
    BY <1>2, <2>1 DEF allAsked, allGranted, askedBy, grantedTo, Registered
  <2>3. allGranted' = allGranted
    BY <1>2, <2>2, OneSession
  <2>4. allAsked' = [allAsked EXCEPT ![c] = [name |-> u, key |-> k, from |-> store[u]]]
    BY <1>2, <2>2, OneSession
  <2>5. Abstract!Challenge(c, u, k)
    BY Zenon, <1>2, <1>3, <1>6, <2>3, <2>4 DEF Abstract!Challenge
  <2> QED BY <1>1, <2>5 DEF Abstract!Next
<1> QED BY <1>4, <1>5, <1>6

\* A handler is let in: it inserted the row, found it its own after a lost
\* insert, or met the challenge.
LEMMA LetInMaps ==
  ASSUME IInv, NEW c \in Conns,
         Put(c) \/ Rotate(c) \/ (Reget(c) /\ store[req[c].unique] = req[c].key)
  PROVE  Abstract!Next \/ UNCHANGED Abstract!vars
<1> DEFINE u == req[c].unique
           k == req[c].key
<1>1. u \in Uniques /\ k \in Keys
  BY Zenon, AuthenticatedReq DEF IInv, Put, Reget, Rotate, At
<1>2. /\ OnlyMoves(c) /\ UNCHANGED <<req, existing, sessions>>
      /\ pc[c] \in {"put", "reget", "rotate"}
  <2>1. PICK to : Goto(c, to) /\ UNCHANGED <<req, existing, sessions>>
    BY Zenon, NoneAssumption, <1>1
       DEF Put, Reget, Rotate, At, registryVars, KeepLocals, KeepShared, Return, IInv, TypeOK
  <2>2. pc[c] \in {"put", "reget", "rotate"}
    BY Zenon DEF Put, Reget, Rotate, At
  <2> QED BY <2>1, <2>2, GotoMoves DEF IInv
<1>3. ASSUME pc'[c] = "add"
      PROVE  /\ allAsked' = [allAsked EXCEPT ![c] = None]
             /\ Abstract!Grant(c, u, k)
  <2>1. allGranted'[c] = [name |-> u, key |-> k] /\ allAsked'[c] = None
    BY <1>2, <1>3 DEF allAsked, allGranted, askedBy, grantedTo
  <2> QED BY Zenon, <1>2, <2>1, OneSession DEF Abstract!Grant
<1>4. ASSUME pc[c] # "rotate", pc'[c] = "add"
      PROVE  Abstract!Outside(c) /\ allAsked' = allAsked
  <2>1. allAsked[c] = None /\ allGranted[c] = None /\ allAsked'[c] = None
    BY <1>2, <1>4 DEF allAsked, allGranted, askedBy, grantedTo, Registered
  <2> QED BY Zenon, <1>2, <2>1, OneSession DEF Abstract!Outside
<1>5. CASE Put(c)
  <2>1. pc[c] = "put"
    BY Zenon, <1>5 DEF Put
  <2>2. CASE store[u] # None
    <3>1. pc'[c] = "reget" /\ store' = store
      BY <1>5, <2>2 DEF Put, Goto, IInv, TypeOK
    <3> QED BY Zenon, <1>2, <2>1, <3>1, SilentStutters, Kinds DEF Silent
  <2>3. CASE store[u] = None
    <3>1. pc'[c] = "add" /\ store' = [store EXCEPT ![u] = k]
      BY <1>5, <2>3 DEF Put, Goto, IInv, TypeOK
    <3>2. Abstract!Claim(c, u, k)
      BY Zenon, <1>2, <1>3, <1>4, <2>1, <2>3, <3>1 DEF Abstract!Claim
    <3> QED BY Zenon, <1>1, <3>2 DEF Abstract!Next
  <2> QED BY <2>2, <2>3
<1>6. CASE Reget(c) /\ store[u] = k
  <2>1. pc[c] = "reget" /\ pc'[c] = "add" /\ store' = store
    BY <1>6 DEF Reget, Goto, KeepShared, IInv, TypeOK
  <2>2. Abstract!Resume(c, u, k)
    BY Zenon, <1>2, <1>3, <1>4, <1>6, <2>1 DEF Abstract!Resume
  <2> QED BY Zenon, <1>1, <2>2 DEF Abstract!Next
<1>7. CASE Rotate(c)
  <2>1. pc[c] = "rotate" /\ pc'[c] = "add"
    BY <1>7 DEF Rotate, At, Goto, IInv, TypeOK
  <2>2. store' = IF store[u] = None THEN store ELSE [store EXCEPT ![u] = k]
    BY <1>7 DEF Rotate
  <2>3. allAsked[c] = [name |-> u, key |-> k, from |-> existing[c]]
    BY Zenon, <2>1 DEF allAsked, askedBy
  <2>4. allAsked[c] # None
    <3>1. u \in Uniques /\ k \in Keys /\ existing[c] \in Keys \cup {None}
      BY <1>1, <2>1 DEF IInv, TypeOK
    <3> QED BY <2>3, <3>1, RecordAssumption
  <2>5. allAsked[c].name = u /\ allAsked[c].key = k
    BY <2>3
  <2>6. Abstract!Takeover(c)
    BY Zenon, <1>2, <1>3, <2>1, <2>2, <2>4, <2>5 DEF Abstract!Takeover
  <2> QED BY Zenon, <2>6 DEF Abstract!Next
<1> QED BY <1>5, <1>6, <1>7

\* A handler that is let in joins the registry, and one in the registry gives
\* its name up or leaves.
LEMMA RegistryMaps ==
  ASSUME IInv, NEW c \in Conns,
         (Add(c) /\ sessions[req[c].unique] = None) \/ Delete(c) \/ Remove(c)
  PROVE  Abstract!Next
<1> DEFINE u == req[c].unique
           k == req[c].key
<1>1. pc[c] \in LetIn /\ u \in Uniques /\ k \in Keys
  BY Zenon, AuthenticatedReq DEF IInv, Add, Delete, Remove, At, LetIn, Registered
<1>2. allGranted[c] = [name |-> u, key |-> k] /\ allGranted[c] # None
      /\ allGranted[c].name = u
  BY <1>1, RecordAssumption DEF allGranted, grantedTo, LetIn
<1>3. allAsked[c] = None
  BY Zenon, <1>1, Kinds DEF allAsked, askedBy, Asking
<1>4. CASE Add(c) /\ sessions[u] = None
  <2>1. /\ pc'[c] = "reply" /\ OnlyMoves(c) /\ req' = req /\ store' = store
        /\ sessions' = [sessions EXCEPT ![u] = c]
    <3>1. /\ Goto(c, "reply") /\ UNCHANGED <<req, existing, store>>
          /\ sessions' = [sessions EXCEPT ![u] = c]
      BY <1>4 DEF Add, KeepLocals
    <3> QED BY <3>1, GotoMoves DEF IInv
  <2>2. allAsked'[c] = allAsked[c] /\ allGranted'[c] = allGranted[c]
    BY Zenon, <1>2, <1>3, <2>1 DEF allAsked, allGranted, askedBy, grantedTo, Registered
  <2>3. allAsked' = allAsked /\ allGranted' = allGranted
    BY <2>1, <2>2, OneSession
  <2>4. Abstract!Serve(c)
    BY Zenon, <1>2, <1>4, <2>1, <2>3 DEF Abstract!Serve
  <2> QED BY Zenon, <2>4 DEF Abstract!Next
<1>5. ASSUME Delete(c) \/ Remove(c) PROVE sessions[u] = c /\ Abstract!Serving(c)
  <2>1. pc[c] \in Registered
    BY Zenon, <1>5 DEF Delete, Remove, At, Registered
  <2>2. sessions[u] = c
    BY Zenon, <1>1, <2>1 DEF IInv, RegistryMatchesHandlers
  <2> QED BY <1>2, <2>2 DEF Abstract!Serving
<1>6. CASE Delete(c)
  <2>1. /\ pc'[c] = "close" /\ OnlyMoves(c) /\ req' = req /\ sessions' = sessions
        /\ store' = [store EXCEPT ![u] = None]
    BY <1>6, GotoMoves DEF Delete, At, registryVars, IInv
  <2>2. allAsked'[c] = allAsked[c] /\ allGranted'[c] = allGranted[c]
    BY Zenon, <1>2, <1>3, <2>1 DEF allAsked, allGranted, askedBy, grantedTo, Registered
  <2>3. allAsked' = allAsked /\ allGranted' = allGranted
    BY <2>1, <2>2, OneSession
  <2>4. Abstract!Release(c)
    BY Zenon, <1>2, <1>5, <1>6, <2>1, <2>3 DEF Abstract!Release
  <2> QED BY Zenon, <2>4 DEF Abstract!Next
<1>7. CASE Remove(c)
  <2>1. pc'[c] = "idle" /\ OnlyMoves(c)
    BY Zenon, <1>7, ReturnMoves DEF Remove, IInv
  <2>2. sessions' = [sessions EXCEPT ![u] = None] /\ store' = store
    BY Zenon, <1>5, <1>7 DEF Remove
  <2>3. allAsked'[c] = allAsked[c] /\ allGranted'[c] = None
    BY <1>3, <2>1 DEF allAsked, allGranted, askedBy, grantedTo, Registered
  <2>4. allAsked' = allAsked /\ allGranted' = [allGranted EXCEPT ![c] = None]
    BY <2>1, <2>3, OneSession
  <2>5. Abstract!Leave(c)
    BY Zenon, <1>2, <1>5, <1>7, <2>2, <2>4 DEF Abstract!Leave
  <2> QED BY Zenon, <2>5 DEF Abstract!Next
<1> QED BY <1>4, <1>6, <1>7

\* What leaves handlers, rows and registry alone is invisible.
LEMMA Aside ==
  ASSUME UNCHANGED <<pc, req, existing, store, sessions>>
  PROVE  UNCHANGED Abstract!vars
  BY DEF Abstract!vars, allAsked, allGranted, askedBy, grantedTo

\* Every step of the daemon, its peers and its operator is a step of
\* NameService, or none.
LEMMA StepMaps ==
  ASSUME IInv, [Next]_vars
  PROVE  Abstract!Next \/ UNCHANGED Abstract!vars
<1>1. ASSUME NEW c \in Conns, Silent(c) \/ TurnedAway(c) \/ PeerGone(c)
      PROVE  Abstract!Next \/ UNCHANGED Abstract!vars
  <2>1. CASE Silent(c)
    BY <2>1, SilentStutters
  <2>2. CASE TurnedAway(c)
    BY <2>2, TurnedAwayRefuses DEF Abstract!Next
  <2>3. CASE PeerGone(c)
    BY Zenon, <2>3, Aside DEF PeerGone, registryVars
  <2> QED BY <1>1, <2>1, <2>2, <2>3
<1>2. ASSUME NEW c \in Conns, Progress(c)
      PROVE  Abstract!Next \/ UNCHANGED Abstract!vars
  BY <1>1, <1>2, ProgressMaps, GetMaps, LetInMaps, RegistryMaps DEF IInv
<1>3. ASSUME NEW c \in Conns, Peer(c)
      PROVE  Abstract!Next \/ UNCHANGED Abstract!vars
  BY Zenon, <1>1, <1>3, PeerMaps DEF IInv
<1>4. CASE Revoke
  BY <1>4, Aside DEF Revoke, Snapshot, RevokeDone, CloseVictim, connVars, registryVars
<1>5. CASE Operator
  <2>1. ASSUME NEW S \in SUBSET Keys, Reload(S) PROVE UNCHANGED Abstract!vars
    BY <2>1, Aside DEF Reload, connVars, registryVars
  <2>2. ASSUME NEW u \in Uniques, PurgeCert(u) PROVE UNCHANGED Abstract!vars
    BY <2>2, Aside DEF PurgeCert, connVars, registryVars
  <2>3. ASSUME NEW u \in Uniques, IdentityDelete(u) PROVE Abstract!Next
    <3>1. store' = [store EXCEPT ![u] = None] /\ sessions' = sessions
      BY Zenon, <2>3 DEF IdentityDelete, registryVars
    <3>2. allAsked' = allAsked /\ allGranted' = allGranted
      BY <2>3 DEF IdentityDelete, connVars, allAsked, allGranted, askedBy, grantedTo
    <3>3. Abstract!Withdraw(u)
      BY <3>1, <3>2 DEF Abstract!Withdraw
    <3> QED BY <3>3 DEF Abstract!Next
  <2>4. ASSUME NEW S \in AllowSets, Restart(S) PROVE Abstract!Next
    <3>1. allAsked' = [c \in Conns |-> None] /\ allGranted' = [c \in Conns |-> None]
      BY <2>4 DEF Restart, allAsked, allGranted, askedBy, grantedTo, Registered
    <3> QED BY <2>4, <3>1 DEF Restart, Abstract!Next, Abstract!Restart
  <2> QED BY Zenon, <1>5, <2>1, <2>2, <2>3, <2>4 DEF Operator
<1>6. CASE UNCHANGED vars
  BY <1>6, Aside DEF vars, connVars, registryVars
<1> QED BY Zenon, <1>2, <1>3, <1>4, <1>5, <1>6 DEF Next

\* The daemon keeps the promise of NameService: handleRegister, the registry
\* and the identity store implement it under every interleaving, loss of
\* peers, revocation and restart.
THEOREM Implements == Spec => ImplementsNameService
<1>1. Init => Abstract!Init
  BY DEF Init, Boot, Abstract!Init, allAsked, allGranted, askedBy, grantedTo, Registered
<1>2. IInv /\ [Next]_vars => [Abstract!Next]_(Abstract!vars)
  BY Zenon, StepMaps
<1> QED BY <1>1, <1>2, Invariance, PTL DEF Spec, ImplementsNameService, Abstract!Spec
=============================================================================
