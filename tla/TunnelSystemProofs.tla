------------------------- MODULE TunnelSystemProofs -------------------------
(***************************************************************************)
(* Proofs about TunnelSystem, for any number of handlers, names, keys and  *)
(* addresses, any limits and any number of faults: the client and its      *)
(* handler stay in step, a client that was told register_ok is routed to,  *)
(* and it never takes over another key's name.                             *)
(*                                                                         *)
(* The daemon's part of the inductive invariant is IInv of Tunneld, which  *)
(* every step of the composition preserves because it is a step of the     *)
(* daemon or leaves the daemon alone.                                      *)
(***************************************************************************)
EXTENDS TunnelSystem, TunneldProofs

\* A leaf may take the SMT solver a minute; Zenon tries what it leaves.
USE SMTT(60), Zenon

----------------------------------------------------------------------------
(* The inductive invariant.                                                *)

\* Every handler works for this client.  The one whose key is not the row's is
\* challenged for the row's key, which this client does not have, so none
\* gets as far as to rotate.
Requests ==
  \A c \in Conns :
    /\ pc[c] \notin {"idle", "read"} =>
         req[c] = [ip |-> Addr, unique |-> Label, key |-> Me]
    /\ pc[c] \in {"challenge", "proof"} => existing[c] # Me
    /\ pc[c] # "rotate"

\* A client with an open connection has a handler, and Restart finds an
\* allowlist that the gate's setting permits.
Linked ==
  /\ link \in Conns \cup {None}
  /\ conn = "open" => link \in Conns
  /\ up \in [Conns -> {None, "register", "proof", "deregister"}]
  /\ allow \in AllowSets

\* Both ends are there, neither has closed, and the network carries frames.
Live == conn = "open" /\ ~cut /\ sess[link] = "open"

\* Between the Register frame and the answer: the handler waits for nobody.
Working == {"verify", "gate", "get", "keyLimit", "grace", "ensure", "put", "reget",
            "challenge", "add", "reply", "remove"} \cup Refunding

\* Where the two sides of a live connection are, and the frames between them:
\* one frame is on its way, or the handler works, or the client does.
Exchange ==
  LET at == pc[link]
      to == up[link] IN
  /\ run = "register" =>
       \/ at = "read" /\ to = "register" /\ down = None
       \/ at \in Working /\ to = None /\ down = None
       \/ at = "proof" /\ to = None /\ down = "challenge"
       \/ at = "loop" /\ to = None /\ down = "register_ok"
  /\ run = "proof" => at = "proof" /\ to = "proof" /\ down = None
  /\ run \in {"connected", "serve", "deregister"} =>
       at = "loop" /\ to = None /\ down = None
  /\ run = "await" =>
       \/ at = "loop" /\ to = "deregister" /\ down = None
       \/ at = "delete" /\ to = None /\ down = None
       \/ at = "close" /\ to = None /\ down = "deregister_ok"
       \/ at = "loop" /\ to = None /\ down = "store_error"

\* The state every step of the composition preserves.
SystemInv == IInv /\ Requests /\ Linked /\ (Live => Exchange)

----------------------------------------------------------------------------
(* A handler's step, as its client sees it.                                *)

\* The other handlers stay where they are.
OthersStay(c) ==
  \A d \in Conns \ {c} :
    pc'[d] = pc[d] /\ req'[d] = req[d] /\ existing'[d] = existing[d] /\ sess'[d] = sess[d]

\* The handler returns, and its session is closed.
Ends(c) == OthersStay(c) /\ pc'[c] = "idle" /\ sess'[c] = "none"

\* The handler goes on along an edge of the exchange.
GoesOn(c) ==
  /\ OthersStay(c)
  /\ req'[c] = req[c] /\ sess'[c] \in {sess[c], "closed"}
  /\ pc'[c] \in {"challenge", "proof"} => existing'[c] # Me
  /\ \/ pc[c] \in Working \ {"challenge"} /\ pc'[c] \in Working
     \/ pc[c] = "challenge" /\ pc'[c] = "proof"
     \/ pc[c] = "reply" /\ pc'[c] = "loop"
     \/ pc[c] = "delete" /\ pc'[c] \in {"close", "loop"}
     \/ /\ pc[c] \in {"close", "loop", "wait"} /\ pc'[c] \in {"wait", "remove"}
        /\ sess'[c] = "closed"

\* A handler past its first message works for this label and this key.
LEMMA RequestFields ==
  ASSUME Requests, NEW c \in Conns, pc[c] \notin {"idle", "read"}
  PROVE  req[c].unique = Label /\ req[c].key = Me
  BY DEF Requests

\* A handler that returns ends.
LEMMA ReturnEnds ==
  ASSUME TypeOK, NEW c \in Conns, Return(c)
  PROVE  Ends(c)
  BY DEF TypeOK, Return, Goto, Ends, OthersStay

\* A handler that moves on with its locals changes its own pc only.
LEMMA GotoStays ==
  ASSUME TypeOK, NEW c \in Conns, NEW to, Goto(c, to), UNCHANGED <<req, existing, sess>>
  PROVE  /\ OthersStay(c) /\ pc'[c] = to
         /\ req'[c] = req[c] /\ sess'[c] = sess[c] /\ existing'[c] = existing[c]
  BY DEF TypeOK, Goto, OthersStay

\* A handler's own step ends it or follows an edge of the exchange.
LEMMA HandlerMoves ==
  ASSUME TypeOK, Requests, NEW c \in Conns, Progress(c)
  PROVE  GoesOn(c) \/ Ends(c)
<1> USE DEF At, KeepLocals
<1>g. ASSUME NEW to, Goto(c, to), UNCHANGED <<req, existing, sess>>,
             pc[c] \in Working \ {"challenge"}, to \in Working \ {"challenge"}
      PROVE  GoesOn(c)
  BY <1>g, GotoStays DEF GoesOn, Working, Refunding
<1>1. CASE ReadFails(c) \/ VerifyFails(c) \/ StoreFails(c)
           \/ EnsurePermanent(c) \/ ChallengeFails(c)
  BY Zenon, <1>1, ReturnEnds
     DEF ReadFails, VerifyFails, StoreFails, EnsurePermanent, ChallengeFails
<1>2. CASE RefundSkew(c) \/ RefundKey(c) \/ Remove(c)
  BY Zenon, <1>2, ReturnEnds DEF RefundSkew, RefundKey, Remove
<1>3. CASE VerifyOK(c)
  BY <1>3, <1>g DEF VerifyOK, Working
<1>4. CASE ClockSkewed(c) \/ GraceAborted(c) \/ EnsureTransient(c)
  <2>1. PICK to \in Refunding : RefundOrReturn(c, to)
    BY <1>4 DEF ClockSkewed, GraceAborted, EnsureTransient, Refunding
  <2>2. pc[c] \in Working \ {"challenge"} /\ to \in Working \ {"challenge"}
    BY <1>4, <2>1 DEF ClockSkewed, GraceAborted, EnsureTransient, Working, Refunding
  <2> QED BY Zenon, <2>1, <2>2, <1>g, ReturnEnds DEF RefundOrReturn
<1>5. CASE Gate(c)
  <2>1. pc[c] \in Working \ {"challenge"} /\ "get" \in Working \ {"challenge"}
    BY <1>5 DEF Gate, Working
  <2> QED BY Zenon, <1>5, <2>1, <1>g, ReturnEnds DEF Gate
<1>6. CASE Get(c)
  <2>1. req[c].unique = Label /\ req[c].key = Me
    BY <1>6 DEF Get, Requests
  <2>2. PICK to \in {"keyLimit", "add", "challenge"} :
          Goto(c, to) /\ (to = "challenge" => store[Label] # Me)
    BY <1>6, <2>1 DEF Get
  <2>3. existing' = [existing EXCEPT ![c] = store[Label]]
    BY <1>6, <2>1 DEF Get
  <2>4. UNCHANGED <<req, sess>> /\ pc[c] = "get"
    BY <1>6 DEF Get
  <2>5. OthersStay(c) /\ pc'[c] = to /\ existing'[c] = store[Label]
    BY <2>2, <2>3, <2>4 DEF TypeOK, Goto, OthersStay
  <2> QED BY <2>2, <2>4, <2>5 DEF GoesOn, Working
<1>7. CASE KeyLimit(c)
  <2>1. pc[c] \in Working \ {"challenge"} /\ "grace" \in Working \ {"challenge"}
    BY <1>7 DEF KeyLimit, Working
  <2> QED BY Zenon, <1>7, <2>1, <1>g, ReturnEnds DEF KeyLimit
<1>8. CASE GraceElapses(c) \/ EnsureOK(c) \/ RefundIp(c)
  BY <1>8, <1>g DEF GraceElapses, EnsureOK, RefundIp, Working, Refunding
<1>9. CASE Put(c)
  BY <1>9, <1>g DEF Put, Working
<1>10. CASE Reget(c)
  <2>1. pc[c] \in Working \ {"challenge"} /\ "add" \in Working \ {"challenge"}
    BY <1>10 DEF Reget, Working
  <2> QED BY Zenon, <1>10, <2>1, <1>g, ReturnEnds DEF Reget
<1>11. CASE SendChallenge(c)
  BY Zenon, <1>11, GotoStays DEF SendChallenge, GoesOn, Requests
<1>12. CASE Rotate(c)
  BY <1>12 DEF Rotate, Requests
<1>13. CASE Add(c)
  <2>1. pc[c] \in Working \ {"challenge"} /\ "reply" \in Working \ {"challenge"}
    BY <1>13 DEF Add, Working
  <2> QED BY Zenon, <1>13, <2>1, <1>g, ReturnEnds DEF Add
<1>14. CASE Reply(c)
  <2>1. PICK to \in {"loop", "remove"} : Goto(c, to)
    BY <1>14 DEF Reply
  <2>2. pc[c] = "reply" /\ UNCHANGED <<req, existing, sess>>
    BY <1>14 DEF Reply
  <2> QED BY <2>1, <2>2, GotoStays DEF GoesOn, Working
<1>15. CASE Delete(c) \/ DeleteFails(c)
  <2>1. PICK to \in {"close", "loop"} : Goto(c, to)
    BY <1>15 DEF Delete, DeleteFails
  <2>2. pc[c] = "delete" /\ UNCHANGED <<req, existing, sess>>
    BY <1>15 DEF Delete, DeleteFails
  <2> QED BY <2>1, <2>2, GotoStays DEF GoesOn
<1>16. CASE LoopEnds(c) \/ Closed(c)
  <2>1. PICK to \in {"wait", "remove"} : Goto(c, to)
    BY <1>16 DEF LoopEnds, Closed
  <2>2. pc[c] \in {"loop", "wait"} /\ sess[c] = "closed" /\ UNCHANGED <<req, existing, sess>>
    BY <1>16 DEF LoopEnds, Closed
  <2> QED BY <2>1, <2>2, GotoStays DEF GoesOn
<1>17. CASE CloseSession(c)
  <2>1. /\ OthersStay(c) /\ pc[c] = "close" /\ pc'[c] = "remove"
        /\ req'[c] = req[c] /\ sess'[c] = "closed"
    BY <1>17 DEF CloseSession, TypeOK, Goto, OthersStay
  <2> QED BY <2>1 DEF GoesOn
<1> QED BY Zenon, <1>1, <1>2, <1>3, <1>4, <1>5, <1>6, <1>7, <1>8, <1>9, <1>10, <1>11,
           <1>12, <1>13, <1>14, <1>15, <1>16, <1>17 DEF Progress

\* A handler that reads a frame of its client goes on to work on it, or ends.
LEMMA ReceiveMoves ==
  ASSUME TypeOK, Requests, NEW c \in Conns, Receive(c)
  PROVE  /\ Ends(c) \/ (OthersStay(c) /\ sess'[c] = sess[c])
         /\ \/ Ends(c)
            \/ /\ up[c] = "register" /\ pc[c] = "read" /\ pc'[c] = "verify"
               /\ req'[c] = [ip |-> Addr, unique |-> Label, key |-> Me]
            \/ /\ up[c] = "deregister" /\ pc[c] = "loop" /\ pc'[c] = "delete"
               /\ req'[c] = req[c]
<1>1. CASE up[c] = "register" /\ ReadRegister(c, Addr, Label, Me)
  <2>1. CASE Return(c)
    BY Zenon, <2>1, ReturnEnds
  <2>2. CASE /\ req' = [req EXCEPT ![c] = [ip |-> Addr, unique |-> Label, key |-> Me]]
             /\ Goto(c, "verify") /\ UNCHANGED <<existing, sess, revokeVars>>
    BY Zenon, <1>1, <2>2 DEF ReadRegister, Goto, TypeOK, OthersStay
  <2> QED BY Zenon, <1>1, <2>1, <2>2 DEF ReadRegister
<1>2. CASE up[c] = "proof" /\ Proof(c, Me)
  BY Zenon, <1>2, ReturnEnds DEF Proof, Requests
<1>3. CASE up[c] = "deregister" /\ Deregister(c)
  BY <1>3, GotoStays DEF Deregister, At, KeepLocals
<1> QED BY Zenon, <1>1, <1>2, <1>3 DEF Receive

\* The frame a handler writes on each edge.
LEMMA WrittenIs ==
  ASSUME NEW c \in Conns
  PROVE  /\ pc[c] \in Working \ {"challenge"} /\ pc'[c] \in Working => Written(c) = {None}
         /\ pc[c] = "challenge" /\ pc'[c] = "proof" => Written(c) = {"challenge"}
         /\ pc[c] = "reply" /\ pc'[c] = "loop" => Written(c) = {"register_ok"}
         /\ pc[c] = "delete" /\ pc'[c] = "close" => Written(c) = {"deregister_ok"}
         /\ pc[c] = "delete" /\ pc'[c] = "loop" => Written(c) = {"store_error"}
         /\ pc[c] = "read" /\ pc'[c] = "verify" => Written(c) = {None}
         /\ pc[c] = "loop" /\ pc'[c] = "delete" => Written(c) = {None}
<1> USE DEF Written, Frames
<1>1. pc[c] \in Working \ {"challenge"} /\ pc'[c] \in Working => Written(c) = {None}
  BY Zenon DEF Working, Refunding
<1>2. pc[c] = "challenge" /\ pc'[c] = "proof" => Written(c) = {"challenge"}
  BY Zenon
<1>3. pc[c] = "reply" /\ pc'[c] = "loop" => Written(c) = {"register_ok"}
  BY Zenon
<1>4. pc[c] = "delete" /\ pc'[c] = "close" => Written(c) = {"deregister_ok"}
  BY Zenon
<1>5. pc[c] = "delete" /\ pc'[c] = "loop" => Written(c) = {"store_error"}
  BY Zenon
<1>6. pc[c] = "read" /\ pc'[c] = "verify" => Written(c) = {None}
  BY Zenon
<1>7. pc[c] = "loop" /\ pc'[c] = "delete" => Written(c) = {None}
  BY Zenon
<1> HIDE DEF Written, Frames
<1> QED BY <1>1, <1>2, <1>3, <1>4, <1>5, <1>6, <1>7

\* It reaches the client over a live connection, and over no other.
LEMMA WriteReaches ==
  ASSUME NEW c \in Conns, Write(c)
  PROVE  /\ c # link => down' = down
         /\ \A f : Written(c) = {f} /\ c = link /\ Live => down' = IF f = None THEN down ELSE f
  BY DEF Write, Connected, Live

\* A handler's step keeps the exchange: the frame it writes is what its client
\* waits for.
LEMMA ServerExchange ==
  ASSUME SystemInv, NEW c \in Conns, Handler(c) \/ Receive(c), Live'
  PROVE  Exchange'
<1>t. TypeOK /\ Requests
  BY Zenon DEF SystemInv, IInv
<1>e. Live => Exchange
  BY Zenon DEF SystemInv
<1>u. DOMAIN up = Conns
  BY Zenon DEF SystemInv, Linked
<1>k. run' = run /\ conn' = conn /\ link' = link /\ cut' = cut
  BY DEF Handler, Receive, clientVars
<1>w. Write(c) /\ (up' = up \/ up' = [up EXCEPT ![c] = None])
  BY DEF Handler, Receive
<1>l. link \in Conns /\ conn = "open" /\ ~cut /\ sess'[link] = "open"
  <2>1. conn' = "open" /\ ~cut' /\ sess'[link'] = "open"
    BY Zenon DEF Live
  <2>2. conn = "open" => link \in Conns
    BY Zenon DEF SystemInv, Linked
  <2> QED BY <1>k, <2>1, <2>2
<1>1. CASE c # link
  <2>1. OthersStay(c)
    BY Zenon, <1>t, HandlerMoves, ReceiveMoves DEF Handler, GoesOn, Ends
  <2>2. down' = down /\ up'[link] = up[link] /\ pc'[link] = pc[link] /\ sess[link] = "open"
    <3>1. down' = down
      BY Zenon, <1>1, <1>w, WriteReaches
    <3>2. pc'[link] = pc[link] /\ sess[link] = "open"
      BY <1>1, <1>l, <2>1 DEF OthersStay
    <3>3. up'[link] = up[link]
      BY <1>1, <1>l, <1>u, <1>w
    <3> QED BY <3>1, <3>2, <3>3
  <2>3. Exchange
    BY <1>e, <1>l, <2>2 DEF Live
  <2> QED BY <2>2, <2>3, <1>k DEF Exchange
<1>2. CASE c = link /\ Handler(c)
  <2>1. GoesOn(c) /\ sess[c] = "open"
    BY <1>2, <1>t, <1>l, HandlerMoves DEF Handler, Ends, GoesOn
  <2>2. Live /\ Exchange
    BY Zenon, <1>2, <1>e, <1>l, <2>1 DEF Live
  <2>3. up' = up
    BY <1>2, <2>1 DEF Handler, GoesOn, Working, Refunding
  <2>d. \A f : Written(c) = {f} => down' = IF f = None THEN down ELSE f
    BY Zenon, <1>2, <1>w, <2>2, WriteReaches
  <2>4. CASE pc[c] \in Working \ {"challenge"} /\ pc'[c] \in Working
    <3>1. down' = down
      BY Zenon, <2>d, <2>4, WrittenIs
    <3> QED BY Zenon, <1>2, <1>k, <2>2, <2>3, <2>4, <3>1 DEF Exchange, Working, Refunding
  <2>5. CASE pc[c] = "challenge" /\ pc'[c] = "proof"
    <3>1. down' = "challenge"
      BY Zenon, <2>d, <2>5, WrittenIs, FrameAssumption
    <3> QED BY Zenon, <1>2, <1>k, <2>2, <2>3, <2>5, <3>1 DEF Exchange
  <2>6. CASE pc[c] = "reply" /\ pc'[c] = "loop"
    <3>1. down' = "register_ok"
      BY Zenon, <2>d, <2>6, WrittenIs, FrameAssumption
    <3> QED BY <1>2, <1>k, <2>2, <2>3, <2>6, <3>1 DEF Exchange
  <2>7. CASE pc[c] = "delete" /\ pc'[c] = "close"
    <3>1. down' = "deregister_ok"
      BY Zenon, <2>d, <2>7, WrittenIs, FrameAssumption
    <3> QED BY Zenon, <1>2, <1>k, <2>2, <2>3, <2>7, <3>1 DEF Exchange, Working, Refunding
  <2>8. CASE pc[c] = "delete" /\ pc'[c] = "loop"
    <3>1. down' = "store_error"
      BY Zenon, <2>d, <2>8, WrittenIs, FrameAssumption
    <3> QED BY Zenon, <1>2, <1>k, <2>2, <2>3, <2>8, <3>1 DEF Exchange, Working, Refunding
  <2> QED BY Zenon, <1>2, <1>l, <2>1, <2>4, <2>5, <2>6, <2>7, <2>8 DEF GoesOn
<1>3. CASE c = link /\ Receive(c)
  <2>1. sess[c] = "open" /\ ~Ends(c)
    BY Zenon, <1>3, <1>t, <1>l, ReceiveMoves DEF Ends
  <2>2. Live /\ Exchange
    BY Zenon, <1>3, <1>e, <1>l, <2>1 DEF Live
  <2>3. up'[c] = None
    BY <1>3, <1>u DEF Receive
  <2>4. \/ up[c] = "register" /\ pc[c] = "read" /\ pc'[c] = "verify"
        \/ up[c] = "deregister" /\ pc[c] = "loop" /\ pc'[c] = "delete"
    BY Zenon, <1>3, <1>t, <2>1, ReceiveMoves
  <2>5. down' = down
    BY <1>3, <1>w, <2>2, <2>4, WriteReaches, WrittenIs
  <2> QED BY <1>3, <1>k, <2>2, <2>3, <2>4, <2>5, FrameAssumption DEF Exchange, Working, Refunding
<1> QED BY <1>1, <1>2, <1>3

----------------------------------------------------------------------------
(* The client's steps.                                                     *)

\* A Connect that fails closes the connection and leaves the exchange.
LEMMA ConnectFailsLeaves ==
  ASSUME NEW r, NEW h, C!ConnectFails(r, h)
  PROVE  conn' = "none" /\ run' \in {"done", "sleep"}
  BY DEF C!ConnectFails, C!Return

\* What Run does without the wire: it leaves the exchange, or goes on from
\* register_ok to serving and from serving to deregistering.
LEMMA ClientMoves ==
  ASSUME Client
  PROVE  /\ conn' \in {conn, "none"}
         /\ \/ run' \notin {"register", "proof", "connected", "serve", "deregister", "await"}
            \/ run = "connected" /\ run' = "serve"
            \/ run = "serve" /\ run' = "deregister"
<1>1. CASE C!ReadFails
  BY <1>1, ConnectFailsLeaves DEF C!ReadFails
<1>2. CASE C!Start \/ C!Connecting \/ C!ConnectReturns \/ C!Cancelled \/ C!DeregisterFails
  BY <1>2 DEF C!Start, C!Connecting, C!ConnectReturns, C!Cancelled, C!DeregisterFails,
              C!sessionVars
<1>3. CASE C!StopServe \/ C!Join \/ C!Disconnected
  BY <1>3 DEF C!StopServe, C!Join, C!Disconnected, C!Return
<1>4. CASE C!Reconnecting \/ C!Interrupted \/ C!Wakes
  BY <1>4 DEF C!Reconnecting, C!Interrupted, C!Wakes, C!sessionVars, C!Return
<1> QED BY Zenon, <1>1, <1>2, <1>3, <1>4 DEF Client

\* The steps that leave every handler where it is.
Elsewhere ==
  \/ ClientSide /\ ~Dial
  \/ Revoking \/ Signal \/ Cut \/ (Operate /\ ~Restart(allow))
  \/ (\E c \in Conns : Hangup(c)) \/ UNCHANGED systemVars

\* They keep the handlers' positions, requests and rows read, and open no session.
LEMMA ElsewhereStays ==
  ASSUME TypeOK, Elsewhere
  PROVE  /\ UNCHANGED <<pc, req, existing>>
         /\ \A c \in Conns : sess'[c] = "open" => sess[c] = "open"
<1> USE DEF connVars
<1>1. CASE UNCHANGED vars
  BY Zenon, <1>1 DEF vars
<1>2. CASE Revoking
  BY <1>2 DEF Revoking, Revoke, Snapshot, RevokeDone, CloseVictim, TypeOK
<1>3. CASE Operate /\ ~Restart(allow)
  BY <1>3 DEF Operate, Reload, IdentityDelete, PurgeCert
<1>4. ASSUME NEW c \in Conns, Hangup(c)
      PROVE  /\ UNCHANGED <<pc, req, existing>>
             /\ \A d \in Conns : sess'[d] = "open" => sess[d] = "open"
  BY <1>4 DEF Hangup, PeerGone, TypeOK
<1>5. CASE ClientSide /\ ~Dial
  <2>1. UNCHANGED vars
    BY Zenon, <1>5 DEF ClientSide, Client, DialFails, Deliver, SendDeregister, Lost, Watcher,
                       ServeEnds
  <2> QED BY <1>1, <2>1
<1>6. CASE Signal \/ Cut \/ UNCHANGED systemVars
  <2>1. UNCHANGED vars
    BY Zenon, <1>6 DEF Signal, Cut, systemVars
  <2> QED BY <1>1, <2>1
<1> QED BY Zenon, <1>2, <1>3, <1>4, <1>5, <1>6 DEF Elsewhere

\* The client's steps other than a dial open no connection, and change at most
\* the frame on its way to its own handler.
LEMMA ElsewhereWire ==
  ASSUME Elsewhere
  PROVE  /\ conn' = "open" => conn = "open"
         /\ link' = link /\ (cut' = FALSE => cut = FALSE)
         /\ \/ UNCHANGED up
            \/ conn = "open" /\ \E f \in {None, "proof", "deregister"} : up' = [up EXCEPT ![link] = f]
<1> USE DEF wireVars, clientVars
<1>1. CASE Revoking \/ (Operate /\ ~Restart(allow)) \/ (\E c \in Conns : Hangup(c))
           \/ UNCHANGED systemVars
  BY Zenon, <1>1 DEF Revoking, Operate, Hangup, systemVars
<1>2. CASE Cut
  BY <1>2 DEF Cut
<1>3. CASE Client
  BY <1>3, ClientMoves DEF Client
<1>4. CASE DialFails
  BY Zenon, <1>4, ConnectFailsLeaves DEF DialFails, C!DialFails
<1>5. CASE Lost \/ Watcher \/ ServeEnds \/ Signal
  BY <1>5 DEF Lost, C!PeerGone, Watcher, C!Watcher, C!WatcherCloses, C!WatcherExits,
              ServeEnds, C!ServeEnds, Signal, C!Signal, C!sessionVars
<1>6. CASE SendDeregister
  BY Zenon, <1>6 DEF SendDeregister, C!SendDeregister, C!sessionVars, Connected
<1>7. CASE Deliver
  BY <1>7, ConnectFailsLeaves
     DEF Deliver, C!Challenged, C!RegisterOK, C!DeregisterOK, C!Denied, C!DeregisterFails,
         C!sessionVars
<1> QED BY Zenon, <1>1, <1>2, <1>3, <1>4, <1>5, <1>6, <1>7 DEF Elsewhere, ClientSide

\* A client's step keeps the exchange.
LEMMA ClientExchange ==
  ASSUME SystemInv, Elsewhere, Live'
  PROVE  Exchange'
<1>t. TypeOK /\ (conn = "open" => link \in Conns)
  BY Zenon DEF SystemInv, IInv, Linked
<1>e. Live => Exchange
  BY Zenon DEF SystemInv
<1>u. DOMAIN up = Conns
  BY Zenon DEF SystemInv, Linked
<1>l. conn = "open" /\ conn' = "open" /\ link' = link /\ ~cut' /\ sess'[link] = "open"
  BY ElsewhereWire DEF Live
<1>p. pc' = pc /\ sess[link] = "open" /\ link \in Conns
  BY Zenon, <1>l, <1>t, ElsewhereStays
<1>0. ASSUME UNCHANGED <<run, link, up, down, cut>> PROVE Exchange'
  BY <1>0, <1>e, <1>l, <1>p DEF Live, Exchange
<1>1. CASE Revoking \/ (Operate /\ ~Restart(allow)) \/ (\E c \in Conns : Hangup(c))
           \/ Signal \/ Lost \/ Watcher \/ ServeEnds \/ UNCHANGED systemVars
  <2> USE DEF wireVars, clientVars
  <2>1. CASE Revoking \/ (\E c \in Conns : Hangup(c)) \/ UNCHANGED systemVars
    BY Zenon, <1>0, <2>1 DEF Revoking, Hangup, systemVars
  <2>2. CASE Operate /\ ~Restart(allow)
    BY Zenon, <1>0, <2>2 DEF Operate
  <2>3. CASE Signal \/ Lost \/ Watcher \/ ServeEnds
    BY Zenon, <1>0, <2>3 DEF Signal, C!Signal, Lost, C!PeerGone, Watcher, C!Watcher,
              C!WatcherCloses, C!WatcherExits, ServeEnds, C!ServeEnds
  <2> QED BY Zenon, <1>1, <2>1, <2>2, <2>3
<1>2. CASE Cut
  BY Zenon, <1>2, <1>l DEF Cut
<1>3. CASE Client
  <2>1. UNCHANGED <<link, up, down, cut>>
    BY Zenon, <1>3 DEF Client, wireVars
  <2>2. Exchange
    BY <1>e, <1>l, <1>p, <2>1 DEF Live
  <2> QED BY <1>3, <1>l, <1>p, <2>1, <2>2, ClientMoves DEF Exchange
<1>4. CASE DialFails
  BY <1>4, <1>l, ConnectFailsLeaves DEF DialFails, C!DialFails
<1>5. CASE SendDeregister
  <2>1. run = "deregister" /\ run' = "await" /\ UNCHANGED <<link, down, cut>>
    BY <1>5, <1>l DEF SendDeregister, C!SendDeregister
  <2>2. Exchange
    BY <1>e, <1>l, <1>p, <2>1 DEF Live
  <2>3. up'[link] = "deregister"
    <3>1. up' = IF Connected(link) /\ sess[link] = "open"
                THEN [up EXCEPT ![link] = "deregister"] ELSE up
      BY Zenon, <1>5 DEF SendDeregister
    <3>2. Connected(link) /\ sess[link] = "open"
      BY <1>l, <1>p, <2>1 DEF Connected
    <3>3. up' = [up EXCEPT ![link] = "deregister"]
      BY Zenon, <3>1, <3>2
    <3> QED BY Zenon, <1>p, <1>u, <3>3
  <2> QED BY Zenon, <1>l, <1>p, <2>1, <2>2, <2>3 DEF Exchange
<1>6. CASE Deliver
  <2>1. UNCHANGED <<link, cut>> /\ down' = None /\ down # None
    BY <1>6 DEF Deliver
  <2>2. Exchange
    BY Zenon, <1>e, <1>l, <1>p, <2>1 DEF Live
  <2>3. CASE down = "challenge" /\ C!Challenged /\ up' = [up EXCEPT ![link] = "proof"]
    BY <2>1, <2>2, <2>3, <1>p, <1>u DEF C!Challenged, Exchange
  <2>4. CASE down = "register_ok" /\ C!RegisterOK /\ UNCHANGED up
    BY Zenon, <2>1, <2>2, <2>4, <1>p DEF C!RegisterOK, Exchange
  <2>5. CASE C!DeregisterOK \/ C!DeregisterFails
    BY Zenon, <2>5 DEF C!DeregisterOK, C!DeregisterFails, Exchange
  <2>6. CASE C!Denied(down, 0)
    BY <2>6, <1>l, ConnectFailsLeaves DEF C!Denied
  <2> QED BY Zenon, <1>6, <2>3, <2>4, <2>5, <2>6 DEF Deliver
<1> QED BY Zenon, <1>1, <1>2, <1>3, <1>4, <1>5, <1>6 DEF Elsewhere, ClientSide

----------------------------------------------------------------------------
(* Every step keeps the invariant.                                         *)

\* As far as the daemon is concerned, a step of the composition is one of its
\* own, its peer's or the operator's.
LEMMA DaemonStep ==
  ASSUME SystemInv, [SystemNext]_systemVars
  PROVE  [Next]_vars
<1>1. ASSUME NEW c \in Conns, ServerSide(c) PROVE Next
  <2>1. Progress(c) \/ Peer(c)
    BY Zenon, <1>1, ClientAssumption DEF ServerSide, Handler, Receive, Hangup, Peer
  <2> QED BY <2>1 DEF Next
<1>2. CASE Dial
  <2>1. PICK c \in Conns : Accept(c)
    BY <1>2 DEF Dial
  <2> QED BY Zenon, <2>1 DEF Next, Peer
<1>3. CASE Revoking
  BY Zenon, <1>3 DEF Revoking, Next
<1>4. CASE Operate
  <2>1. \A S \in SUBSET {Me} : S \in SUBSET Keys
    BY ClientAssumption
  <2>2. Operator
    BY Zenon, <1>4, <2>1, ClientAssumption DEF Operate, Operator, SystemInv, Linked
  <2> QED BY <2>2 DEF Next
<1>5. CASE Client \/ DialFails \/ Deliver \/ SendDeregister \/ Lost \/ Watcher \/ ServeEnds
           \/ Signal \/ Cut
  BY Zenon, <1>5 DEF Client, DialFails, Deliver, SendDeregister, Lost, Watcher, ServeEnds,
                     Signal, Cut
<1>6. CASE UNCHANGED systemVars
  BY <1>6 DEF systemVars
<1> QED BY Zenon, <1>1, <1>2, <1>3, <1>4, <1>5, <1>6 DEF SystemNext, ClientSide

\* Every other step is a handler's, a new connection or a restart.
LEMMA Cases ==
  ASSUME [SystemNext]_systemVars
  PROVE  Elsewhere \/ Dial \/ (Operate /\ Restart(allow))
         \/ \E c \in Conns : Handler(c) \/ Receive(c)
  BY Zenon DEF SystemNext, ServerSide, ClientSide, Elsewhere

\* A new connection takes an idle handler.
LEMMA DialTakes ==
  ASSUME TypeOK, Dial
  PROVE  /\ link' \in Conns /\ OthersStay(link') /\ pc'[link'] = "read"
         /\ run' = "register" /\ conn' = "open"
         /\ up' = [up EXCEPT ![link'] = "register"] /\ down' = None /\ allow' = allow
<1>1. PICK c \in Conns : Accept(c) /\ link' = c /\ up' = [up EXCEPT ![c] = "register"]
  BY Zenon DEF Dial
<1>2. OthersStay(c) /\ pc'[c] = "read" /\ allow' = allow
  BY <1>1 DEF Accept, At, Goto, OthersStay, TypeOK, revokeVars
<1>3. run' = "register" /\ conn' = "open" /\ down' = None
  BY DEF Dial, C!DialOK
<1> QED BY <1>1, <1>2, <1>3

\* Every handler works for this client, whichever handler steps.
LEMMA RequestsStep ==
  ASSUME SystemInv, [SystemNext]_systemVars
  PROVE  Requests'
<1>t. TypeOK /\ Requests
  BY Zenon DEF SystemInv, IInv
<1>1. CASE Elsewhere
  BY Zenon, <1>1, <1>t, ElsewhereStays DEF Requests
<1>2. CASE Dial
  BY <1>2, <1>t, DialTakes DEF Requests, OthersStay
<1>3. CASE Restart(allow)
  BY <1>3 DEF Requests, Restart
<1>4. ASSUME NEW c \in Conns, Handler(c) PROVE Requests'
  <2>1. GoesOn(c) \/ Ends(c)
    BY <1>4, <1>t, HandlerMoves DEF Handler
  <2>2. CASE Ends(c)
    BY Zenon, <2>2, <1>t DEF Ends, OthersStay, Requests
  <2>3. CASE GoesOn(c)
    BY Zenon, <2>3, <1>t DEF GoesOn, OthersStay, Requests, Working, Refunding
  <2> QED BY <2>1, <2>2, <2>3
<1>5. ASSUME NEW c \in Conns, Receive(c) PROVE Requests'
  <2>1. \A d \in Conns \ {c} :
          pc'[d] = pc[d] /\ req'[d] = req[d] /\ existing'[d] = existing[d]
    BY Zenon, <1>5, <1>t, ReceiveMoves DEF Ends, OthersStay
  <2>2. /\ pc'[c] \notin {"idle", "read"} =>
              req'[c] = [ip |-> Addr, unique |-> Label, key |-> Me]
        /\ pc'[c] \notin {"challenge", "proof", "rotate"}
    BY <1>5, <1>t, ReceiveMoves DEF Ends, Requests
  <2> QED BY Zenon, <1>t, <2>1, <2>2 DEF Requests
<1> QED BY Zenon, <1>1, <1>2, <1>3, <1>4, <1>5, Cases

\* The allowlist stays one that the gate's setting permits.
LEMMA AllowStep ==
  ASSUME SystemInv, [SystemNext]_systemVars
  PROVE  allow' \in AllowSets
<1>0. allow \in AllowSets
  BY DEF SystemInv, Linked
<1>1. ASSUME NEW c \in Conns, Progress(c) \/ Peer(c) PROVE allow' = allow
  <2>1. CASE Leaves(c) \/ Remove(c)
    BY Zenon, <2>1 DEF Leaves, Remove, Return
  <2>2. CASE (\E to \in States : Moves(c, to)) \/ Enters(c)
    BY Zenon, <2>2 DEF Moves, Enters, revokeVars
  <2>3. CASE Add(c) /\ sessions[req[c].unique] = None
    BY Zenon, <2>3 DEF Add, KeepLocals, revokeVars
  <2>4. CASE PeerGone(c)
    BY Zenon, <2>4 DEF PeerGone, revokeVars
  <2> QED BY Zenon, <1>1, <2>1, <2>2, <2>3, <2>4, ProgressShape, PeerShape
<1>2. CASE Revoke
  BY Zenon, <1>0, <1>2 DEF Revoke, Snapshot, RevokeDone, CloseVictim
<1>3. CASE Operator
  <2>1. ASSUME NEW S \in SUBSET Keys, Reload(S) PROVE allow' \in AllowSets
    BY <2>1 DEF Reload, AllowSets
  <2>2. ASSUME NEW u \in Uniques, IdentityDelete(u) \/ PurgeCert(u) PROVE allow' = allow
    BY Zenon, <2>2 DEF IdentityDelete, PurgeCert, revokeVars
  <2>3. ASSUME NEW S \in AllowSets, Restart(S) PROVE allow' \in AllowSets
    BY Zenon, <2>3 DEF Restart
  <2> QED BY Zenon, <1>0, <1>3, <2>1, <2>2, <2>3 DEF Operator
<1>4. CASE UNCHANGED vars
  BY Zenon, <1>0, <1>4 DEF vars, revokeVars
<1> QED BY Zenon, <1>0, <1>1, <1>2, <1>3, <1>4, DaemonStep DEF Next

\* The client's connection keeps its handler, and the frames their kinds.
LEMMA LinkedStep ==
  ASSUME SystemInv, [SystemNext]_systemVars
  PROVE  Linked'
<1>t. /\ TypeOK /\ Requests /\ link \in Conns \cup {None} /\ (conn = "open" => link \in Conns)
      /\ up \in [Conns -> {None, "register", "proof", "deregister"}]
  BY Zenon DEF SystemInv, IInv, Linked
<1>s. SUFFICES /\ link' \in Conns \cup {None} /\ (conn' = "open" => link' \in Conns)
               /\ up' \in [Conns -> {None, "register", "proof", "deregister"}]
  BY AllowStep DEF Linked
<1>1. CASE Elsewhere
  BY <1>1, <1>t, ElsewhereWire
<1>2. CASE Dial
  BY <1>2, <1>t, DialTakes
<1>3. CASE Operate /\ Restart(allow)
  <2>1. link' = link /\ conn' = conn
    BY <1>3 DEF Operate, clientVars
  <2>2. up' = up \/ up' = [c \in Conns |-> None]
    BY <1>3 DEF Operate
  <2> QED BY <1>t, <2>1, <2>2
<1>4. ASSUME NEW c \in Conns, Handler(c) \/ Receive(c) PROVE Linked'
  <2>1. link' = link /\ conn' = conn /\ (up' = up \/ up' = [up EXCEPT ![c] = None])
    BY <1>4 DEF Handler, Receive, clientVars
  <2> QED BY Zenon, <1>t, <2>1, AllowStep DEF Linked
<1> QED BY <1>1, <1>2, <1>3, <1>4, Cases DEF Linked

\* The invariant holds when both programs start.
LEMMA SystemBoots == SystemInit => SystemInv
<1> SUFFICES ASSUME SystemInit PROVE SystemInv
  OBVIOUS
<1>1. IInv
  <2>1. PICK k \in Keys \cup {None} :
          Boot([u \in Uniques |-> IF u = Label THEN k ELSE None],
               IF k = None THEN {} ELSE {Label})
    BY DEF SystemInit
  <2> DEFINE rows == [u \in Uniques |-> IF u = Label THEN k ELSE None]
             files == IF k = None THEN {} ELSE {Label}
  <2>2. rows \in [Uniques -> Keys \cup {None}]
    OBVIOUS
  <2>3. files \in SUBSET Uniques
    BY ClientAssumption
  <2>4. \A u \in Uniques : rows[u] # None => u \in files
    OBVIOUS
  <2>5. Boot(rows, files)
    BY Zenon, <2>1
  <2> HIDE DEF rows, files
  <2> QED BY <2>2, <2>3, <2>4, <2>5, BootInv
<1>2. Requests
  BY Zenon DEF SystemInit, Boot, Requests
<1>3. Linked /\ ~Live
  BY DEF SystemInit, Boot, C!Init, Linked, Live
<1> QED BY <1>1, <1>2, <1>3 DEF SystemInv

\* Every step of the composition preserves it.
LEMMA SystemInductive == SystemInv /\ [SystemNext]_systemVars => SystemInv'
<1> SUFFICES ASSUME SystemInv, [SystemNext]_systemVars PROVE SystemInv'
  OBVIOUS
<1>1. IInv'
  BY DaemonStep, Inductive DEF SystemInv
<1>2. Requests' /\ Linked'
  BY RequestsStep, LinkedStep
<1>3. ASSUME Live' PROVE Exchange'
  <2>1. CASE Elsewhere
    BY Zenon, <1>3, <2>1, ClientExchange
  <2>2. CASE Dial
    <3>1. TypeOK /\ up \in [Conns -> {None, "register", "proof", "deregister"}]
      BY Zenon DEF SystemInv, IInv, Linked
    <3> QED BY <2>2, <3>1, DialTakes DEF Exchange
  <2>3. CASE Operate /\ Restart(allow)
    BY <1>2, <1>3, <2>3 DEF Restart, Linked, Live
  <2>4. CASE \E c \in Conns : Handler(c) \/ Receive(c)
    BY <1>3, <2>4, ServerExchange
  <2> QED BY <2>1, <2>2, <2>3, <2>4, Cases
<1> QED BY <1>1, <1>2, <1>3 DEF SystemInv

----------------------------------------------------------------------------
(* The theorems.                                                           *)

\* The inductive invariant holds in every reachable state of the composition,
\* and with it everything the daemon alone guarantees.
THEOREM SystemInvariance == SystemSpec => []SystemInv
  BY SystemBoots, SystemInductive, PTL DEF SystemSpec

\* The composition is a daemon that had rows in its store and whose peers send
\* only what Run sends: every one of its steps is a step of Tunneld.
THEOREM SystemIsDaemon == SystemSpec => [][Next]_vars
  BY SystemInvariance, DaemonStep, PTL DEF SystemSpec

\* Routing: a client that was told register_ok is routed to over the very
\* connection it was told on, under its own key, as long as that stands.
THEOREM ClientIsRouted == SystemSpec => []ServedIsRouted
<1>1. ASSUME SystemInv PROVE ServedIsRouted
  <2> SUFFICES ASSUME Announced, Connected(link), sess[link] = "open"
               PROVE  sessions[Label] = link /\ byPubkey[Me][Label] = link
    BY DEF ServedIsRouted
  <2>1. link \in Conns /\ Exchange
    BY Zenon, <1>1 DEF SystemInv, Linked, Live, Connected
  <2>2. pc[link] \in {"loop", "delete", "close"}
    BY Zenon, <2>1 DEF Exchange, Announced
  <2>3. pc[link] \in Registered /\ req[link].unique = Label /\ req[link].key = Me
    <3>1. pc[link] \in Registered
      BY Zenon, <2>2 DEF Registered
    <3>2. Requests
      BY Zenon, <1>1 DEF SystemInv
    <3>3. pc[link] \notin {"idle", "read"}
      BY <2>2
    <3>4. QED
      BY Zenon, <2>1, <3>1, <3>2, <3>3, RequestFields
  <2>4. RegistryMatchesHandlers /\ IndexAgrees
    BY Zenon, <1>1 DEF SystemInv, IInv
  <2>5. sessions[Label] = link
    BY Zenon, <2>1, <2>3, <2>4, ClientAssumption DEF RegistryMatchesHandlers
  <2>6. byPubkey[Me][Label] = link
    BY Zenon, <2>1, <2>3, <2>4, <2>5, ClientAssumption, NoneAssumption DEF IndexAgrees
  <2> QED BY <2>5, <2>6
<1> QED BY <1>1, SystemInvariance, PTL

\* The exchange: client and handler never wait for each other.
THEOREM ExchangeInStep == SystemSpec => []InStep
<1>1. ASSUME SystemInv PROVE InStep
  <2> SUFFICES ASSUME run \in {"register", "proof", "await"}, Connected(link),
                      sess[link] = "open"
               PROVE  \/ down # None \/ up[link] # None
                      \/ pc[link] \notin {"read", "proof", "loop", "wait"}
    BY DEF InStep
  <2>1. Exchange
    BY <1>1 DEF SystemInv, Live, Connected
  <2> QED BY Zenon, <2>1, FrameAssumption DEF Exchange, Working, Refunding
<1> QED BY <1>1, SystemInvariance, PTL

\* Claims: across all that the client and the operator do, a name is owned only
\* once its label has a certificate.
THEOREM OwnedHasCert == SystemSpec => []OwnedNameHasCert
<1>1. SystemInv => OwnedNameHasCert
  BY Zenon DEF SystemInv, IInv
<1> QED BY <1>1, SystemInvariance, PTL

\* Ownership: this client takes over no name whose row is another key's.
THEOREM TakesNothingOver == SystemSpec => NeverTakesOver
<1> DEFINE Keeps == store[Label] \notin {None, Me} => store'[Label] \in {None, store[Label]}
<1>1. ASSUME SystemInv, [SystemNext]_systemVars PROVE [Keeps]_systemVars
  BY <1>1, DaemonStep, OnlyRotates, ClientAssumption DEF SystemInv, Requests
<1>2. [][Keeps]_systemVars <=> NeverTakesOver
  BY PTL DEF NeverTakesOver
<1> QED BY <1>1, <1>2, SystemInvariance, PTL DEF SystemSpec
=============================================================================
