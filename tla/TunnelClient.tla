---------------------------- MODULE TunnelClient ----------------------------
(***************************************************************************)
(* The client's supervisor loop, tunnelclient.Run: connect, register,      *)
(* serve, reconnect with backoff, and on SIGTERM deregister before the     *)
(* session is torn down; with the events it emits for a parent process.    *)
(* Three goroutines take part: Run itself, the watcher that closes the     *)
(* connection when ctx is cancelled during Connect, and Serve.  The server *)
(* and the network are external: they answer or fail as they like.         *)
(***************************************************************************)
EXTENDS Integers

CONSTANTS
  MaxAttempts,    \* RunOptions.MaxAttempts; 0 is unlimited
  BackoffMin,     \* first reconnect delay
  BackoffMax,     \* cap of the exponential schedule
  RateLimitFloor, \* least delay after a rate_limited deny without a hint
  RetryHints,     \* the RetryAfter values a server may send; 0 is no hint
  AttemptCap,     \* bound: the attempt counter saturates here
  None

ASSUME BackoffAssumption ==
  /\ MaxAttempts \in Nat
  /\ BackoffMin \in Nat \ {0} /\ BackoffMax \in Nat \ {0}
  /\ RateLimitFloor \in Nat \ {0} /\ RetryHints \subseteq Nat
  /\ AttemptCap \in Nat /\ AttemptCap > MaxAttempts /\ AttemptCap > 1

\* The events but for errors, who closes a connection, and what Run returns.
Events == {"starting", "connecting", "register_ok", "disconnected", "reconnecting",
           "deregister_ok", "fatal"}

Closers == {"peer", "watcher", "self"}

Results == {"nil", "permanent", "gaveUp"}

ASSUME NoneAssumption == None \notin Nat /\ None \notin Events \cup Closers \cup Results

VARIABLES
  pc,        \* where Run is
  ctxDone,   \* SIGINT or SIGTERM arrived
  attempt,   \* attempt, saturated at AttemptCap
  delay,     \* the delay of the reconnecting event
  limited,   \* the last failure was a rate_limited deny, with this hint
  conn,      \* the connection: none, open, closed
  closer,    \* history: who closed it
  watching,  \* Connect's watcher: off, waiting, released (connectDone closed)
  serving,   \* the Serve goroutine: off, running, done
  stopServe, \* cancelServe was called
  revoked,   \* the server no longer authorises this client's key
  last,      \* the last event emitted, errors apart
  result,    \* what Run returned: nil, or the kind of its error
  fails      \* history: connect failures since the last session

sessionVars == <<conn, closer, watching, serving, stopServe>>
retryVars == <<attempt, delay, limited, fails>>
vars == <<pc, ctxDone, sessionVars, retryVars, revoked, last, result>>

----------------------------------------------------------------------------
(* Deny reasons and backoff.                                               *)

\* One reason of each class the client tells apart, its words joined by _.
Reasons == {"key_mismatch", "cert_not_provisioned", "rate_limited:ip",
            "not_authorized", "store_error"}

IsRateLimit(r) == r \in {"rate_limited:ip", "rate_limited:pubkey"}

\* A Deny for which IsPermanent holds, or an isPermanentTLSError.
IsPermanent(r) == r \in {"key_mismatch", "cert_not_provisioned", "tls"}

Capped(d) == IF d >= BackoffMax THEN BackoffMax ELSE d

\* backoffDuration: double, and stop at the cap.
backoffDuration[n \in 1 .. AttemptCap] ==
  IF n = 1 THEN BackoffMin ELSE Capped(2 * backoffDuration[n - 1])

\* Mutant: the hint only raises the delay of the schedule, and is capped.
MutDelayAfter(r, hint) ==
  IF hint > 0 /\ hint < BackoffMax THEN hint ELSE backoffDuration[attempt]

\* The delay after a failed attempt: a hint is authoritative, a rate limit
\* without one is floored.
DelayAfter(r, hint) ==
  LET d == backoffDuration[attempt] IN
  IF ~IsRateLimit(r) THEN d
  ELSE IF hint > 0 THEN hint
  ELSE IF d < RateLimitFloor THEN RateLimitFloor ELSE d

NextAttempt == IF attempt < AttemptCap THEN attempt + 1 ELSE attempt

Emit(e) == last' = e

Return(r) == pc' = "done" /\ result' = r

\* Connect returned an error: the connection is closed and the watcher told
\* to go (a late close of its own does nothing), then Run looks at ctx, at the
\* error and at the attempts, in this order.
ConnectFails(r, hint) ==
  /\ conn' = "none" /\ closer' = None /\ watching' = "off"
  /\ \/ /\ ctxDone
        /\ Return("nil")
        /\ UNCHANGED <<retryVars, last>>
     \/ /\ ~ctxDone /\ IsPermanent(r)
        /\ Emit("fatal") /\ Return("permanent")
        /\ UNCHANGED retryVars
     \/ /\ ~ctxDone /\ ~IsPermanent(r)
        /\ MaxAttempts > 0 /\ attempt >= MaxAttempts
        /\ fails' = fails + 1
        /\ Emit("fatal") /\ Return("gaveUp")
        /\ UNCHANGED <<attempt, delay, limited>>
     \/ /\ ~ctxDone /\ ~IsPermanent(r)
        /\ ~(MaxAttempts > 0 /\ attempt >= MaxAttempts)
        /\ fails' = IF fails < AttemptCap THEN fails + 1 ELSE fails
        /\ delay' = DelayAfter(r, hint)
        /\ limited' = IF IsRateLimit(r) THEN hint ELSE None
        /\ attempt' = NextAttempt
        /\ Emit("reconnecting")
        /\ pc' = "sleep"
        /\ UNCHANGED result
  /\ UNCHANGED <<ctxDone, serving, stopServe, revoked>>

----------------------------------------------------------------------------
(* Run and Connect.                                                        *)

\* The starting event, then the first connecting event.
Start ==
  /\ pc = "start"
  /\ Emit("starting")
  /\ pc' = "connect"
  /\ UNCHANGED <<ctxDone, sessionVars, retryVars, revoked, result>>

\* The connecting event at the head of the loop.
Connecting ==
  /\ pc = "connect"
  /\ Emit("connecting")
  /\ pc' = "dial"
  /\ UNCHANGED <<ctxDone, sessionVars, retryVars, revoked, result>>

\* Dial, TLS handshake, upgrade, yamux and the Register frame go through;
\* the watcher is running from the dial on.
DialOK ==
  /\ pc = "dial" /\ ~ctxDone
  /\ pc' = "register"
  /\ conn' = "open" /\ watching' = "waiting"
  /\ UNCHANGED <<ctxDone, closer, serving, stopServe, retryVars, revoked, last, result>>

\* One of them fails in a way that may pass.
DialFails == pc = "dial" /\ ConnectFails("network", 0)

\* isPermanentTLSError: the certificates do not fit, retrying cannot help.
TLSFails == pc = "dial" /\ ConnectFails("tls", 0)

\* The server challenges; the client signs with the key it registers with.
Challenged ==
  /\ pc = "register" /\ conn = "open" /\ ~revoked
  /\ pc' = "proof"
  /\ UNCHANGED <<ctxDone, sessionVars, retryVars, revoked, last, result>>

\* A Deny answers the Register or the Proof.  For a key off the allowlist only
\* the server's IP limit comes before its gate.
Denied(r, hint) ==
  /\ pc \in {"register", "proof"} /\ conn = "open"
  /\ revoked => r \in {"not_authorized", "rate_limited:ip"}
  /\ ~IsRateLimit(r) => hint = 0
  /\ ConnectFails(r, hint)

\* The connection is gone while Run waits for the answer.
ReadFails ==
  /\ pc \in {"register", "proof"} /\ conn = "closed"
  /\ ConnectFails("network", 0)

\* RegisterOK is read and announced.
RegisterOK ==
  /\ pc \in {"register", "proof"} /\ conn = "open" /\ ~revoked
  /\ Emit("register_ok")
  /\ pc' = "connected"
  /\ UNCHANGED <<ctxDone, sessionVars, retryVars, revoked, result>>

\* Mutant: it is not reset.
MutReturnsKeeps ==
  /\ pc = "connected"
  /\ pc' = "serve"
  /\ fails' = 0
  /\ watching' = "released"
  /\ serving' = "running" /\ stopServe' = FALSE
  /\ UNCHANGED <<ctxDone, attempt, conn, closer, delay, limited, revoked, last, result>>

\* Connect returns: connectDone releases the watcher, Serve is started.
ConnectReturns ==
  /\ pc = "connected"
  /\ pc' = "serve"
  /\ attempt' = 1 /\ fails' = 0
  /\ watching' = "released"
  /\ serving' = "running" /\ stopServe' = FALSE
  /\ UNCHANGED <<ctxDone, conn, closer, delay, limited, revoked, last, result>>

\* Mutant: Serve hangs off ctx itself.
MutCancelled ==
  /\ pc = "serve" /\ ctxDone
  /\ pc' = "deregister" /\ stopServe' = TRUE
  /\ UNCHANGED <<ctxDone, conn, closer, watching, serving, retryVars, revoked,
                 last, result>>

\* ctx.Done() wins the select.
Cancelled ==
  /\ pc = "serve" /\ ctxDone
  /\ pc' = "deregister"
  /\ UNCHANGED <<ctxDone, sessionVars, retryVars, revoked, last, result>>

\* The Deregister frame is written, or the write fails.
SendDeregister ==
  /\ pc = "deregister"
  /\ \/ conn = "open" /\ pc' = "await"
     \/ conn = "closed" /\ pc' \in {"await", "stop"}
  /\ UNCHANGED <<ctxDone, sessionVars, retryVars, revoked, last, result>>

\* DeregisterOK arrives.
DeregisterOK ==
  /\ pc = "await" /\ conn = "open"
  /\ Emit("deregister_ok")
  /\ pc' = "stop"
  /\ UNCHANGED <<ctxDone, sessionVars, retryVars, revoked, result>>

\* A Deny, a lost connection or DeregisterTimeout: an error event.
DeregisterFails ==
  /\ pc = "await"
  /\ pc' = "stop"
  /\ UNCHANGED <<ctxDone, sessionVars, retryVars, revoked, last, result>>

\* cancelServe()
StopServe ==
  /\ pc = "stop"
  /\ stopServe' = TRUE
  /\ pc' = "join"
  /\ UNCHANGED <<ctxDone, conn, closer, watching, serving, retryVars, revoked,
                 last, result>>

\* Mutant: Run does not wait for Serve.
MutJoin ==
  /\ pc = "join"
  /\ conn' = "none" /\ closer' = None
  /\ Return("nil")
  /\ UNCHANGED <<ctxDone, watching, serving, stopServe, retryVars, revoked, last>>

\* <-serveDone, sess.Close(), return nil.
Join ==
  /\ pc = "join" /\ serving = "done"
  /\ conn' = "none" /\ closer' = None /\ serving' = "off"
  /\ Return("nil")
  /\ UNCHANGED <<ctxDone, watching, stopServe, retryVars, revoked, last>>

\* Mutant: the disconnect is not announced.
MutDisconnected ==
  /\ pc = "serve" /\ serving = "done"
  /\ pc' = "lost"
  /\ conn' = "none" /\ closer' = None
  /\ serving' = "off" /\ stopServe' = TRUE
  /\ UNCHANGED <<ctxDone, watching, retryVars, revoked, last, result>>

\* <-serveDone wins the select: the disconnected event, and sess.Close().
Disconnected ==
  /\ pc = "serve" /\ serving = "done"
  /\ Emit("disconnected")
  /\ pc' = "lost"
  /\ conn' = "none" /\ closer' = None
  /\ serving' = "off" /\ stopServe' = TRUE
  /\ UNCHANGED <<ctxDone, watching, retryVars, revoked, result>>

\* The reconnecting event after a disconnect.
Reconnecting ==
  /\ pc = "lost"
  /\ delay' = backoffDuration[attempt]
  /\ limited' = None
  /\ attempt' = NextAttempt
  /\ Emit("reconnecting")
  /\ pc' = "sleep"
  /\ UNCHANGED <<ctxDone, sessionVars, fails, revoked, result>>

\* sleepCtx sees ctx first.
Interrupted ==
  /\ pc = "sleep" /\ ctxDone
  /\ Return("nil")
  /\ UNCHANGED <<ctxDone, sessionVars, retryVars, revoked, last>>

\* The delay is over.
Wakes ==
  /\ pc = "sleep"
  /\ pc' = "connect"
  /\ UNCHANGED <<ctxDone, sessionVars, retryVars, revoked, last, result>>

----------------------------------------------------------------------------
(* The other goroutines, and the environment.                              *)

\* Mutant: the watcher leaves without closing.
MutWatcherCloses ==
  /\ watching # "off" /\ ctxDone
  /\ watching' = "off"
  /\ UNCHANGED <<pc, ctxDone, conn, closer, serving, stopServe, retryVars, revoked,
                 last, result>>

\* ctx.Done() wins the watcher's select, which it may also do once connectDone
\* is closed: rawConn.Close().
WatcherCloses ==
  /\ watching # "off" /\ ctxDone
  /\ watching' = "off"
  /\ conn' = IF conn = "open" THEN "closed" ELSE conn
  /\ closer' = IF conn = "open" THEN "watcher" ELSE closer
  /\ UNCHANGED <<pc, ctxDone, serving, stopServe, retryVars, revoked, last, result>>

\* connectDone wins it.
WatcherExits ==
  /\ watching = "released"
  /\ watching' = "off"
  /\ UNCHANGED <<pc, ctxDone, conn, closer, serving, stopServe, retryVars, revoked,
                 last, result>>

\* Serve sees the session closed or serveCtx cancelled; Shutdown closes the
\* listener and with it the session.
ServeEnds ==
  /\ serving = "running" /\ (stopServe \/ conn = "closed")
  /\ serving' = "done"
  /\ conn' = "closed"
  /\ closer' = IF conn = "open" THEN "self" ELSE closer
  /\ UNCHANGED <<pc, ctxDone, watching, stopServe, retryVars, revoked, last, result>>

\* SIGINT or SIGTERM.
Signal ==
  /\ ~ctxDone /\ pc # "done"
  /\ ctxDone' = TRUE
  /\ UNCHANGED <<pc, sessionVars, retryVars, revoked, last, result>>

\* The network or the server drops the connection.
PeerGone ==
  /\ conn = "open"
  /\ conn' = "closed" /\ closer' = "peer"
  /\ UNCHANGED <<pc, ctxDone, watching, serving, stopServe, retryVars, revoked,
                 last, result>>

\* The server's operator has taken the key off the allowlist, and the live
\* session is closed.  (A Register in flight at that moment is the server
\* model's business.)
RevokeKey ==
  /\ ~revoked /\ pc \notin {"register", "proof", "done"}
  /\ revoked' = TRUE
  /\ conn' = IF conn = "open" THEN "closed" ELSE conn
  /\ closer' = IF conn = "open" THEN "peer" ELSE closer
  /\ UNCHANGED <<pc, ctxDone, watching, serving, stopServe, retryVars, last, result>>

----------------------------------------------------------------------------

Init ==
  /\ pc = "start" /\ ctxDone = FALSE
  /\ attempt = 1 /\ delay = 0 /\ limited = None /\ fails = 0
  /\ conn = "none" /\ closer = None /\ watching = "off"
  /\ serving = "off" /\ stopServe = FALSE
  /\ revoked = FALSE /\ last = None /\ result = None

\* What Run does without waiting for the server: its own code, timers,
\* timeouts and I/O errors.
Run ==
  \/ Start \/ Connecting \/ DialOK \/ DialFails \/ TLSFails \/ ReadFails
  \/ ConnectReturns \/ Cancelled \/ SendDeregister \/ DeregisterFails
  \/ StopServe \/ Join \/ Disconnected \/ Reconnecting \/ Interrupted \/ Wakes

\* The server answers.
Answer ==
  \/ RegisterOK \/ DeregisterOK
  \/ \E r \in Reasons, hint \in RetryHints \cup {0} : Denied(r, hint)

Watcher == WatcherCloses \/ WatcherExits

Next ==
  \/ Run \/ Answer \/ Challenged
  \/ Watcher \/ ServeEnds
  \/ Signal \/ PeerGone \/ RevokeKey

Spec == Init /\ [][Next]_vars

\* The three goroutines are scheduled fairly.  The server owes nothing.
FairSpec == Spec /\ WF_vars(Run) /\ WF_vars(Watcher) /\ WF_vars(ServeEnds)

\* The same with a server that answers every Register sooner or later, not
\* always with a rate limit, and a network that lets the client through again
\* and again.
AnsweredSpec ==
  /\ FairSpec
  /\ WF_vars(Answer) /\ SF_vars(Denied("not_authorized", 0)) /\ SF_vars(DialOK)

----------------------------------------------------------------------------
(* Properties.                                                             *)

\* Every variable keeps its shape; Run's attempt counter is 1-based, which
\* backoffDuration and the reconnecting event rely on.
TypeOK ==
  /\ pc \in {"start", "connect", "dial", "register", "proof", "connected",
             "serve", "deregister", "await", "stop", "join", "lost", "sleep", "done"}
  /\ ctxDone \in BOOLEAN /\ revoked \in BOOLEAN
  /\ attempt \in 1 .. AttemptCap /\ fails \in 0 .. AttemptCap
  /\ delay \in Nat /\ limited \in Nat \cup {None}
  /\ conn \in {"none", "open", "closed"} /\ closer \in Closers \cup {None}
  /\ watching \in {"off", "waiting", "released"} /\ stopServe \in BOOLEAN
  /\ serving \in {"off", "running", "done"}
  /\ last \in Events \cup {None} /\ result \in Results \cup {None}

\* The supervisor protocol's ordering guarantees: starting comes first,
\* register_ok precedes any disconnected, after a disconnected comes
\* reconnecting, deregister_ok ends a session on graceful shutdown only, and
\* fatal is the last line.
EventOrder ==
  [][last' # last =>
       CASE last = None -> last' = "starting"
         [] last \in {"starting", "reconnecting"} -> last' = "connecting"
         [] last = "connecting" -> last' \in {"register_ok", "reconnecting", "fatal"}
         [] last = "register_ok" -> (last' = "disconnected"
                                     \/ (last' = "deregister_ok" /\ ctxDone))
         [] last = "disconnected" -> last' = "reconnecting"
         [] OTHER -> FALSE]_vars

\* Run returns an error exactly when fatal was its last event, and leaves no
\* session, no waiting watcher and no Serve goroutine behind.
CleanReturn ==
  pc = "done" =>
    /\ result \in {"permanent", "gaveUp"} <=> last = "fatal"
    /\ conn = "none" /\ serving = "off" /\ watching # "waiting"

\* "So when the outer ctx cancels, we Deregister first, then cancel serveCtx":
\* while the Deregister round trip runs, the client itself has not torn the
\* session down.
DeregisterBeforeTeardown ==
  pc \in {"deregister", "await"} => ~stopServe /\ closer # "self"

\* A client with MaxAttempts gives up after that many failed connects in a row,
\* or one fewer when a session was lost before them (the disconnect counts as
\* an attempt), and never because of failures before its last session.
GiveUpBound ==
  MaxAttempts > 0 =>
    /\ fails <= MaxAttempts
    /\ result = "gaveUp" => fails >= MaxAttempts - 1

\* The schedule without its cap: BackoffMin, doubled n times.
Exponential[n \in 0 .. AttemptCap] ==
  IF n = 0 THEN BackoffMin ELSE 2 * Exponential[n - 1]

\* The schedule: BackoffMin first, whatever the cap, and from then on the
\* exponential cut off at the cap.
Scheduled(n) == IF n = 1 THEN BackoffMin ELSE Capped(Exponential[n - 1])

\* The reconnect delay is the one of the schedule, except that a rate limit's
\* hint is obeyed exactly and its floor is kept.
DelayIsRight ==
  pc = "sleep" /\ attempt < AttemptCap =>
    LET d == Scheduled(attempt - 1) IN
    CASE limited = None -> delay = d
      [] limited = 0 -> delay >= d /\ delay >= RateLimitFloor
      [] OTHER -> delay = limited

\* SIGTERM ends Run, from wherever it is: while it dials, while a server that
\* never answers keeps it waiting, while it serves, and while it sleeps.
StopsOnCancel == ctxDone ~> pc = "done"

----------------------------------------------------------------------------
(* What comments and documentation say, and the code does not ensure.      *)

\* docs/access-control.md: after a revocation the client "receives
\* `not_authorized` on retry and the supervisor stops".
RevokedStops == revoked ~> pc = "done"

\* run.go: "MaxAttempts caps consecutive connect failures before Run gives
\* up", so a client that gave up without a permanent deny had that many.
GivesUpAfterMaxAttempts == result = "gaveUp" => fails >= MaxAttempts

\* client.go: "On a successful return the watcher exits without closing", so
\* a session that Connect returned was not closed by the watcher.
WatcherSparesSession == pc = "serve" => closer # "watcher"
=============================================================================
