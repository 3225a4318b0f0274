---------------------------- MODULE TunnelSystem ----------------------------
(***************************************************************************)
(* The client and the daemon together: tunnelclient.Run of one process     *)
(* against the /v1/connect handlers of Tunneld, joined by the frames of    *)
(* the control stream.  Every dial takes a handler of its own, so a client *)
(* that reconnects meets the handlers its earlier connections left behind. *)
(*                                                                         *)
(* A connection is a yamux session over TLS.  An end that closes it is     *)
(* noticed by the other end later, after the frames written before; a cut  *)
(* loses what is under way and each end notices it by itself.  Everything  *)
(* that goes wrong or is done by an operator counts against MaxFaults.     *)
(***************************************************************************)
EXTENDS Tunneld

CONSTANTS
  Me,         \* the client's key, its --unique, and its address
  Label,
  Addr,
  MaxFaults   \* bound: faults and operator actions in one behaviour

ASSUME ClientAssumption ==
  Me \in Keys /\ Label \in Uniques /\ Addr \in Ips /\ MaxFaults \in Nat

\* No frame is nil.
ASSUME FrameAssumption ==
  None \notin {"register", "proof", "deregister", "challenge", "register_ok",
               "deregister_ok", "store_error"}

VARIABLES
  run, ctxDone, attempt, delay, limited, conn, closer, watching, serving,
  stopServe, last, result, fails,   \* the variables of TunnelClient
  revoked, \* its stand-in for the daemon's allowlist; FALSE, the daemon is here
  link,    \* the handler of the client's latest connection
  cut,     \* the network no longer carries it
  up,      \* per handler, the frame on its way to it
  down,    \* the frame on its way to the client: a kind, or a deny reason
  faults   \* history: how often something went wrong

\* The client retries without limit, and the length of a delay is no matter.
C == INSTANCE TunnelClient WITH pc <- run, MaxAttempts <- 0,
       BackoffMin <- 1, BackoffMax <- 1, RateLimitFloor <- 1, RetryHints <- {},
       AttemptCap <- 2

clientVars == <<run, ctxDone, attempt, delay, limited, conn, closer, watching,
                serving, stopServe, last, result, fails, revoked>>
wireVars == <<link, cut, up, down, faults>>
systemVars == <<vars, clientVars, wireVars>>

\* Both ends are there and the network carries frames between them.
Connected(c) == link = c /\ conn = "open" /\ ~cut

Fault == faults < MaxFaults /\ faults' = faults + 1

----------------------------------------------------------------------------
(* The daemon's side.                                                      *)

\* The frame a handler writes in a step from pc[c] to pc'[c].
Frames(c) ==
  LET ends == pc'[c] = "idle" IN
  CASE pc[c] = "challenge" /\ ~ends -> {"challenge"}
    [] pc[c] = "reply" /\ pc'[c] = "loop" -> {"register_ok"}
    [] pc[c] = "delete" /\ pc'[c] = "close" -> {"deregister_ok"}
    [] pc[c] = "read" /\ ends ->
         {None} \cup (IF Admits(IpMax, ipUsed[Addr]) THEN {} ELSE {"rate_limited:ip"})
    [] pc[c] = "verify" /\ ends -> {"timestamp_out_of_range", "not_authorized"}
    [] pc[c] = "refundSkew" /\ ends -> {"timestamp_out_of_range"}
    [] pc[c] = "gate" /\ ends -> {"not_authorized"}
    [] pc[c] \in {"get", "put", "rotate"} /\ ends -> {"store_error"}
    [] pc[c] = "keyLimit" /\ ends -> {"rate_limited:pubkey"}
    [] pc[c] = "ensure" /\ ends -> {"cert_issuance_failed", "cert_not_provisioned"}
    [] pc[c] = "refundKey" /\ ends -> {"cert_issuance_failed"}
    [] pc[c] = "reget" /\ ends ->
         {IF store[req[c].unique] \in {None, req[c].key} THEN "store_error" ELSE "key_mismatch"}
    [] pc[c] = "proof" /\ ends -> {"key_mismatch"}
    [] pc[c] = "add" /\ ends -> {"already_connected"}
    [] OTHER -> {None}

\* Mutant: a Deregister whose delete fails is not answered.
MutWritten(c) == Frames(c)

\* ... or, when the row cannot be deleted, the Deny before the loop goes on.
Written(c) ==
  IF pc[c] = "delete" /\ pc'[c] = "loop" THEN {"store_error"} ELSE Frames(c)

\* It reaches the client if the connection is whole.
Write(c) ==
  \E f \in Written(c) :
    down' = IF f # None /\ sess[c] = "open" /\ Connected(c) THEN f ELSE down

\* A step that ends a Register, a Deregister or a connection which a working
\* network, store and certificate authority would have let through.
Unlucky(c) ==
  LET ends == pc'[c] = "idle" IN
  \/ pc[c] \in {"verify", "get", "put", "rotate", "ensure"}
       /\ (ends \/ pc'[c] \in Refunding)
  \/ pc[c] = "reget" /\ ends /\ store[req[c].unique] = req[c].key
  \/ pc[c] \in {"read", "reply"} /\ (ends \/ pc'[c] = "remove")
       /\ sess[c] = "open" /\ Connected(c)
  \/ pc[c] = "delete" /\ pc'[c] = "loop"

\* A handler's own step, with the frame it writes.
Handler(c) ==
  /\ Progress(c)
  /\ Write(c)
  /\ IF Unlucky(c) THEN Fault ELSE UNCHANGED faults
  /\ up' = IF pc'[c] = "idle" THEN [up EXCEPT ![c] = None] ELSE up
  /\ UNCHANGED <<clientVars, link, cut>>

\* A handler reads the frame its client sent, which may be gone by then.
Receive(c) ==
  /\ \/ up[c] = "register" /\ ReadRegister(c, Addr, Label, Me)
     \/ up[c] = "proof" /\ Proof(c, Me)
     \/ up[c] = "deregister" /\ Deregister(c)
  /\ Write(c)
  /\ up' = [up EXCEPT ![c] = None]
  /\ UNCHANGED <<clientVars, link, cut, faults>>

\* The daemon's end notices that the connection is gone: by the close, or by
\* yamux keepalives.
Hangup(c) ==
  /\ ~Connected(c)
  /\ PeerGone(c)
  /\ UNCHANGED <<clientVars, wireVars>>

\* The SIGHUP goroutine.
Revoking == Revoke /\ UNCHANGED <<clientVars, wireVars>>

----------------------------------------------------------------------------
(* The client's side.                                                      *)

\* What Run does without the wire; a Deregister that is not answered in time
\* is given up.
Client ==
  /\ \/ C!Start \/ C!Connecting \/ C!ReadFails \/ C!ConnectReturns
     \/ C!Cancelled \/ C!DeregisterFails \/ C!StopServe \/ C!Join
     \/ C!Disconnected \/ C!Reconnecting \/ C!Interrupted \/ C!Wakes
  /\ UNCHANGED <<vars, wireVars>>

\* Dial, handshake, upgrade, and the Register frame: a handler is there for
\* the connection.
Dial ==
  LET c == CHOOSE d \in Conns : pc[d] = "idle" IN
  /\ \E d \in Conns : pc[d] = "idle"
  /\ C!DialOK /\ Accept(c)
  /\ link' = c /\ cut' = FALSE
  /\ up' = [up EXCEPT ![c] = "register"] /\ down' = None
  /\ UNCHANGED faults

\* The dial fails, by itself or because ctx is cancelled.
DialFails ==
  /\ C!DialFails
  /\ IF ctxDone THEN UNCHANGED faults ELSE Fault
  /\ UNCHANGED <<vars, link, cut, up, down>>

\* Run reads the frame the handler wrote, and answers a challenge with its
\* own key.
Deliver ==
  /\ down # None /\ conn = "open" /\ ~cut
  /\ down' = None
  /\ \/ down = "challenge" /\ C!Challenged /\ up' = [up EXCEPT ![link] = "proof"]
     \/ down = "register_ok" /\ C!RegisterOK /\ UNCHANGED up
     \/ down = "deregister_ok" /\ C!DeregisterOK /\ UNCHANGED up
     \/ /\ down \notin {"challenge", "register_ok", "deregister_ok"}
        /\ C!Denied(down, 0) \/ C!DeregisterFails
        /\ UNCHANGED up
  /\ UNCHANGED <<vars, link, cut, faults>>

\* The Deregister frame is written, into a connection that may be gone.
SendDeregister ==
  /\ C!SendDeregister
  /\ up' = IF Connected(link) /\ sess[link] = "open"
           THEN [up EXCEPT ![link] = "deregister"] ELSE up
  /\ UNCHANGED <<vars, link, cut, down, faults>>

\* The client's end notices that the connection is gone, after what was
\* written before it was closed.
Lost ==
  /\ C!PeerGone
  /\ cut \/ sess[link] # "open"
  /\ down = None
  /\ UNCHANGED <<vars, wireVars>>

\* Connect's watcher, and the Serve goroutine.
Watcher == C!Watcher /\ UNCHANGED <<vars, wireVars>>

ServeEnds == C!ServeEnds /\ UNCHANGED <<vars, wireVars>>

\* SIGINT or SIGTERM.
Signal == C!Signal /\ UNCHANGED <<vars, wireVars>>

----------------------------------------------------------------------------
(* The network and the operator.                                           *)

\* The network loses the connection, and the frames under way.
Cut ==
  /\ conn = "open" /\ ~cut
  /\ cut' = TRUE
  /\ up' = [up EXCEPT ![link] = None] /\ down' = None
  /\ Fault
  /\ UNCHANGED <<vars, clientVars, link>>

\* The operator edits the allowlist, releases the name, or restarts the
\* daemon, which takes the frames under way to its handlers with it.
Operate ==
  /\ \/ /\ \/ \E S \in SUBSET {Me} : Reload(S)
           \/ IdentityDelete(Label)
        /\ Fault
        /\ UNCHANGED up
     \/ PurgeCert(Label) /\ UNCHANGED <<up, faults>>
     \/ Restart(allow) /\ Fault /\ up' = [c \in Conns |-> None]
  /\ UNCHANGED <<clientVars, link, cut, down>>

----------------------------------------------------------------------------

\* The daemon has run before: the name is free, the client's, or another's.
SystemInit ==
  /\ \E k \in Keys \cup {None} :
       Boot([u \in Uniques |-> IF u = Label THEN k ELSE None],
            IF k = None THEN {} ELSE {Label})
  /\ allow \subseteq {Me}
  /\ C!Init
  /\ link = None /\ cut = FALSE
  /\ up = [c \in Conns |-> None] /\ down = None
  /\ faults = 0

\* A handler and its end of the connection.
ServerSide(c) == Handler(c) \/ Receive(c) \/ Hangup(c)

\* The client process and its end.
ClientSide ==
  \/ Client \/ Dial \/ DialFails \/ Deliver \/ SendDeregister
  \/ Lost \/ Watcher \/ ServeEnds

SystemNext ==
  \/ \E c \in Conns : ServerSide(c)
  \/ ClientSide \/ Revoking \/ Signal \/ Cut \/ Operate

SystemSpec == SystemInit /\ [][SystemNext]_systemVars

\* Both programs are scheduled fairly, what is written is read, and each end
\* of a connection that is gone notices it (yamux keepalives).
FairSystem ==
  /\ SystemSpec
  /\ \A c \in Conns : WF_systemVars(ServerSide(c))
  /\ WF_systemVars(ClientSide) /\ WF_systemVars(Revoking)

----------------------------------------------------------------------------
(* Properties.                                                             *)

\* From register_ok until it tears the session down, the client has a
\* connection it may call a tunnel.
Announced == run \in {"connected", "serve", "deregister", "await"}

\* What a client that was told register_ok relies on: as long as its
\* connection stands, the daemon routes its label to that connection and to
\* none that an earlier attempt left behind, under the client's key.
ServedIsRouted ==
  Announced /\ Connected(link) /\ sess[link] = "open" =>
    sessions[Label] = link /\ byPubkey[Me][Label] = link

\* The two sides never wait for each other: while Run waits for an answer, its
\* handler does not wait for a frame unless one is on its way.
InStep ==
  run \in {"register", "proof", "await"} /\ Connected(link) /\ sess[link] = "open"
    => down # None \/ up[link] # None \/ pc[link] \notin {"read", "proof", "loop", "wait"}

\* The client proves with the key it registers with, so it never takes over a
\* name whose row is another key's.
NeverTakesOver ==
  [][store[Label] \notin {None, Me} => store'[Label] \in {None, store[Label]}]_systemVars

\* Once nothing goes wrong any more, the two agree for good.  A client that
\* ended has left no handler and no label behind.  One whose key is on the
\* allowlist has a routed session, and no earlier handler keeps its label
\* occupied.  One whose key was removed has none, except from a Register that
\* was in flight when RevokeMissing looked.
Settled ==
  \/ run = "done" /\ sessions[Label] = None /\ \A c \in Conns : pc[c] = "idle"
  \/ /\ run = "serve" /\ Connected(link) /\ sessions[Label] = link
     /\ \A c \in Conns \ {link} : pc[c] = "idle"
     /\ Me \in allow \/ link \in late
  \/ Me \notin allow /\ run # "serve" /\ sessions[Label] = None

Settles == <>[]Settled

----------------------------------------------------------------------------
(* What a comment says, and the code does not ensure.                      *)

\* client.go: "after a successful Deregister the next Register from any pubkey
\* will be a fresh registration (no Challenge required, since the row is
\* gone)".
DeregisteredIsReleased == last = "deregister_ok" => store[Label] = None
=============================================================================
