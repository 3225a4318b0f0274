-------------------------------- MODULE Edge --------------------------------
(***************************************************************************)
(* The process swe-swe-tunneld around its control plane: the boot sequence *)
(* of main, the SIGHUP goroutine and its four reload arms, the TLS front   *)
(* with and without client certificates, and route(), which sends a        *)
(* request for <port>.<name>-tunnel.<apex> to the session of that name.    *)
(* Tunneld has what happens behind the allowlist gate, and the revocation  *)
(* a reload entails; CertStore has the certificate arm.                    *)
(***************************************************************************)
EXTENDS PortPolicy

CONSTANTS
  Flags,      \* the command lines under which the daemon is started
  Clients,    \* TLS connections alive at the same time
  Specs,      \* contents of the port file that can be read
  Inline,     \* the spec of --allowed-ports or of DefaultSpec
  Allows,     \* allowlists that parse: is the client's key on it?
  Bundles,    \* CA bundles that parse: sets of CAs
  Cas,        \* CAs a client certificate may be signed by
  Ports,      \* integers a request may name
  MaxEdits,   \* bound: how often the operator rewrites a file
  Bad,        \* a file that cannot be read or does not parse
  None        \* nil

\* The files are what the operator may write; an inline spec that does not
\* parse ends the process before it has any state.
ASSUME FilesAssumption ==
  /\ Specs \subseteq PortSpecs /\ Inline \in PortSpecs /\ ~Malformed(Inline)
  /\ Allows \subseteq BOOLEAN
  /\ None \notin BOOLEAN /\ \A b \in Bundles : None \notin b

ASSUME FlagsAssumption ==
  Flags \subseteq [apex : BOOLEAN, email : BOOLEAN, noAcme : BOOLEAN,
                  allowlistDir : BOOLEAN, openRegistration : BOOLEAN,
                  allowedPorts : BOOLEAN, allowedPortsFile : BOOLEAN,
                  mtlsCA : BOOLEAN, registerListen : BOOLEAN]

ASSUME PortsAssumption == Ports \subseteq Int

VARIABLES
  flags,      \* the command line
  proc,       \* main: how far boot is, up, stopping or down
  file,       \* the files on disk
  live,       \* what the daemon loaded from them
  hup,        \* hupCh, a channel of capacity one, holds a signal
  reloader,   \* the SIGHUP goroutine: idle, or the arm it is at
  owed,       \* history: files left alone since a SIGHUP that should load them
  edits,      \* bound: rewrites so far
  conn,       \* each connection: where it is, how it came in, what it asks
  since       \* history: the answers of the gates since the request arrived

vars == <<flags, proc, file, live, hup, reloader, owed, edits, conn, since>>

Files == {"allow", "ports", "mtls"}

NoConn == [at |-> "off", via |-> None, cert |-> None, port |-> None]

NoAnswers == [allow |-> {}, ports |-> {}]

----------------------------------------------------------------------------
(* Files.                                                                  *)

\* The flags name the file; without it the gate is off, or inline.
Configured(f) == CASE f = "allow" -> flags.allowlistDir
                   [] f = "ports" -> flags.allowedPortsFile
                   [] f = "mtls" -> flags.mtlsCA

\* allowlist.Load, readFileSpec and Parse, LoadCABundle return no error.
Loads(f) == file[f] # Bad /\ (f = "ports" => ~Malformed(file[f]))

\* portpolicy.Set keeps the spec beside the policy.
PortSet(spec) == [spec |-> spec, policy |-> Parse(spec)]

Content(f) == IF f = "ports" THEN PortSet(file[f]) ELSE file[f]

\* What the operator's files say of connection x while the daemon runs on l.
Says(f, x, l) == IF f = "ports" THEN Covers(l["ports"].spec, conn[x].port)
                 ELSE l["allow"] = TRUE

----------------------------------------------------------------------------
(* Boot.  main checks the flags, loads what they name, arms SIGHUP, and     *)
(* only then listens.  A check or a load that fails is an os.Exit.          *)

requireFlags == flags.apex /\ (flags.noAcme \/ flags.email)

\* Exactly one of --allowlist-dir and --open-registration.
validateRegistrationGate == flags.allowlistDir # flags.openRegistration

\* Mutant: the allowlist is not asked for.
MutValidateRegisterListen == flags.registerListen => flags.mtlsCA

\* A listener that asks for no certificate needs both gates around it.
validateRegisterListen == flags.registerListen => flags.mtlsCA /\ flags.allowlistDir

Exit ==
  /\ proc' = "down"
  /\ live' = [f \in Files |-> None]
  /\ hup' = FALSE
  /\ reloader' = "off"
  /\ owed' = {}
  /\ conn' = [x \in Clients |-> NoConn]
  /\ since' = [x \in Clients |-> NoAnswers]
  /\ UNCHANGED <<flags, file, edits>>

Advance(from, to) ==
  /\ proc = from /\ proc' = to
  /\ UNCHANGED <<flags, file, hup, owed, edits, conn, since>>

CheckFlags ==
  LET ok == /\ requireFlags
            /\ validateRegistrationGate
            /\ ~(flags.allowedPortsFile /\ flags.allowedPorts)
            /\ validateRegisterListen IN
  \/ ok /\ Advance("flags", "ports") /\ UNCHANGED <<live, reloader>>
  \/ proc = "flags" /\ ~ok /\ Exit

\* loadPortPolicy, allowlist.Load, loadMtlsBundle: loud at boot.
LoadAtBoot(f, to) ==
  \/ /\ Configured(f) => Loads(f)
     /\ Advance(f, to)
     /\ live' = [live EXCEPT ![f] = IF Configured(f) THEN Content(f)
                                    ELSE IF f = "ports" THEN PortSet(Inline) ELSE None]
     /\ UNCHANGED reloader
  \/ proc = f /\ Configured(f) /\ ~Loads(f) /\ Exit

loadPortPolicy == LoadAtBoot("ports", "certs")

\* mgr.Ensure gets the apex certificate, with --no-acme it is on disk or it is
\* not; LoadAllFromDisk; identity.Open.
EnsureAtBoot ==
  \/ Advance("certs", "allow") /\ UNCHANGED <<live, reloader>>
  \/ proc = "certs" /\ Exit

loadAllowlist == LoadAtBoot("allow", "mtls")

loadMtlsBundle == LoadAtBoot("mtls", "arm")

\* Mutant: SIGHUP is armed once everything else is up.
MutArm == Advance("arm", "listen") /\ UNCHANGED <<live, reloader>>

\* signal.Notify(hupCh, SIGHUP), and the reload goroutine.
Arm == Advance("arm", "listen") /\ reloader' = "idle" /\ UNCHANGED live

\* The main listener, then the one without client certificates.
Listen == Advance("listen", "up") /\ UNCHANGED <<live, reloader>>

Listening(l) == proc = "up" /\ (l = "register" => flags.registerListen)

----------------------------------------------------------------------------
(* SIGHUP.                                                                 *)

\* Mutant: the channel has no buffer, so a busy goroutine misses the signal.
MutHup ==
  /\ proc # "down"
  /\ \/ /\ reloader # "off"
        /\ hup' = (hup \/ reloader = "idle")
        /\ owed' = IF proc = "stopping" THEN {} ELSE {f \in Files : Configured(f) /\ Loads(f)}
        /\ UNCHANGED <<flags, proc, file, live, reloader, edits, conn, since>>
     \/ reloader = "off" /\ Exit

\* The operator signals the process: hupCh keeps one signal and drops the
\* rest.  Before signal.Notify the default action ends the process.
Hup ==
  /\ proc # "down"
  /\ \/ /\ reloader # "off"
        /\ hup' = TRUE
        /\ owed' = IF proc = "stopping" THEN {} ELSE {f \in Files : Configured(f) /\ Loads(f)}
        /\ UNCHANGED <<flags, proc, file, live, reloader, edits, conn, since>>
     \/ reloader = "off" /\ Exit

\* The goroutine takes the signal out of the channel.
TakeHup ==
  /\ reloader = "idle" /\ hup
  /\ hup' = FALSE
  /\ reloader' = "allow"
  /\ UNCHANGED <<flags, proc, file, live, owed, edits, conn, since>>

\* The requests that wait for gate f see it change.
Seen(f) ==
  since' = [x \in Clients |->
              IF <<f, conn[x].at>> \in {<<"ports", "route">>, <<"allow", "gate">>}
              THEN [since[x] EXCEPT ![f] = @ \cup {Says(f, x, live')}] ELSE since[x]]

\* One arm: a file that does not load keeps the previous policy, and the next
\* arm runs all the same.
ReloadArm(f, next) ==
  /\ reloader = f
  /\ reloader' = next
  /\ live' = IF Configured(f) /\ Loads(f) THEN [live EXCEPT ![f] = Content(f)] ELSE live
  /\ Seen(f)
  /\ UNCHANGED <<flags, proc, file, hup, owed, edits, conn>>

reloadAllowlistAndRevoke == ReloadArm("allow", "ports")

\* The certificate arm, reloadCerts, runs between this one and the next; it
\* touches none of the state here.
reloadPortPolicy == ReloadArm("ports", "mtls")

reloadMtlsBundle == ReloadArm("mtls", "idle")

----------------------------------------------------------------------------
(* The TLS front.                                                          *)

\* Mutant: the main listener verifies a certificate only if it is given one.
MutVerifies(l, ca) == ca = None \/ (flags.mtlsCA /\ ca \in live["mtls"])

\* RequireAndVerifyClientCert on the main listener, VerifyClientCertIfGiven on
\* the other, against the pool GetConfigForClient takes at the ClientHello.
\* Without mTLS no certificate is asked for.
Verifies(l, ca) ==
  \/ ~flags.mtlsCA /\ ca = None
  \/ flags.mtlsCA /\ ca \in live["mtls"]
  \/ l = "register" /\ ca = None

\* A TLS handshake that succeeds; one that fails leaves nothing behind.
Handshake(x, l, ca) ==
  /\ Listening(l) /\ conn[x].at = "off"
  /\ Verifies(l, ca)
  /\ conn' = [conn EXCEPT ![x] = [at |-> "open", via |-> l, cert |-> ca, port |-> None]]
  /\ UNCHANGED <<flags, proc, file, live, hup, reloader, owed, edits, since>>

Step(x, from, to) ==
  /\ conn[x].at = from
  /\ conn' = [conn EXCEPT ![x].at = to]
  /\ UNCHANGED <<flags, proc, file, live, hup, reloader, owed, edits>>

\* The connection ends, from either side.
Hangup(x) ==
  /\ conn[x].at # "off"
  /\ conn' = [conn EXCEPT ![x] = NoConn]
  /\ since' = [since EXCEPT ![x] = NoAnswers]
  /\ UNCHANGED <<flags, proc, file, live, hup, reloader, owed, edits>>

----------------------------------------------------------------------------
(* route(): requests come in on the main listener only.                    *)

\* A request for <n>.<name>-tunnel.<apex>; any other host gets the hello page.
Request(x, n) ==
  /\ conn[x].at = "open" /\ conn[x].via = "main"
  /\ conn' = [conn EXCEPT ![x].at = "route", ![x].port = n]
  /\ since' = [since EXCEPT ![x].ports = {Covers(live["ports"].spec, n)}]
  /\ UNCHANGED <<flags, proc, file, live, hup, reloader, owed, edits>>

\* Mutant: the port is looked at only when the policy is not deny-all.
MutPermitted(x) ==
  live["ports"].policy.single = {} \/ Permits(live["ports"].policy, conn[x].port)

\* The port label is an integer in range and the policy permits it.
Permitted(x) == inRange(conn[x].port) /\ Permits(live["ports"].policy, conn[x].port)

\* "port not allowed", or on to the registry.
route(x) ==
  Step(x, "route", IF Permitted(x) THEN "lookup" ELSE "rejected") /\ UNCHANGED since

Answer(x) ==
  /\ conn' = [conn EXCEPT ![x].at = "open", ![x].port = None]
  /\ since' = [since EXCEPT ![x] = NoAnswers]
  /\ UNCHANGED <<flags, proc, file, live, hup, reloader, owed, edits>>

\* The 404 is out; the connection may be used again.
Rejected(x) == conn[x].at = "rejected" /\ Answer(x)

\* reg.get finds a session and the request goes over a fresh stream to it, the
\* session has just gone and the stream does not open, or there is none and
\* the page says "Tunnel offline".
Proxy(x) == conn[x].at = "lookup" /\ Answer(x)

\* /v1/connect, on either listener, up to the allowlist check.
Connect(x) ==
  /\ Step(x, "open", "gate")
  /\ since' = [since EXCEPT ![x].allow = {Says("allow", x, live)}]

\* allow.Contains; a nil allowlist lets every key through.
Gate(x) ==
  \/ live["allow"] \in {None, TRUE} /\ Step(x, "gate", "admitted") /\ UNCHANGED since
  \/ live["allow"] = FALSE /\ conn[x].at = "gate" /\ Hangup(x)

----------------------------------------------------------------------------
(* The operator, and the end of the process.                               *)

Contents(f) == CASE f = "allow" -> Allows [] f = "ports" -> Specs [] f = "mtls" -> Bundles

Edit(f, c) ==
  /\ edits < MaxEdits /\ Configured(f) /\ c # file[f]
  /\ file' = [file EXCEPT ![f] = c]
  /\ owed' = owed \ {f}
  /\ edits' = edits + 1
  /\ UNCHANGED <<flags, proc, live, hup, reloader, conn, since>>

\* SIGTERM, or a listener that fails: ctx is cancelled, and both servers shut
\* down: no connection is taken any more, and idle ones are closed.  A SIGTERM
\* during boot waits until main looks at ctx.
Stop ==
  /\ proc = "up"
  /\ proc' = "stopping"
  /\ owed' = {}
  /\ conn' = [x \in Clients |-> IF conn[x].at = "open" THEN NoConn ELSE conn[x]]
  /\ UNCHANGED <<flags, file, live, hup, reloader, edits, since>>

\* The reload goroutine sees ctx, though a signal may win the select; it
\* disarms SIGHUP as it leaves.
ReloaderQuits ==
  /\ proc = "stopping" /\ reloader = "idle"
  /\ reloader' = "off"
  /\ UNCHANGED <<flags, proc, file, live, hup, owed, edits, conn, since>>

\* Everything is answered, or shutdownCtx runs out.
Stopped == proc = "stopping" /\ Exit

\* The process is started again under the same command line.
Start ==
  /\ proc = "down"
  /\ proc' = "flags"
  /\ UNCHANGED <<flags, file, live, hup, reloader, owed, edits, conn, since>>

----------------------------------------------------------------------------

Init ==
  /\ flags \in Flags
  /\ proc = "flags"
  /\ file \in [allow : Allows \cup {Bad}, ports : Specs \cup {Bad}, mtls : Bundles \cup {Bad}]
  /\ \A f \in Files : Configured(f) <=> file[f] # Bad
  /\ live = [f \in Files |-> None]
  /\ hup = FALSE /\ reloader = "off"
  /\ owed = {} /\ edits = 0
  /\ conn = [x \in Clients |-> NoConn]
  /\ since = [x \in Clients |-> NoAnswers]

Boot == CheckFlags \/ loadPortPolicy \/ EnsureAtBoot \/ loadAllowlist
        \/ loadMtlsBundle \/ Arm \/ Listen

Reload == TakeHup \/ reloadAllowlistAndRevoke \/ reloadPortPolicy \/ reloadMtlsBundle

Handle(x) == route(x) \/ Rejected(x) \/ Proxy(x) \/ Gate(x)

Peer(x) ==
  \/ \E l \in {"main", "register"}, ca \in Cas \cup {None} : Handshake(x, l, ca)
  \/ \E n \in Ports : Request(x, n)
  \/ Connect(x) \/ Hangup(x)

Operator ==
  \/ Hup \/ Stop \/ Start
  \/ \E f \in Files : \E c \in Contents(f) \cup {Bad} : Edit(f, c)

Next ==
  \/ Boot \/ Reload \/ ReloaderQuits \/ Stopped \/ Operator
  \/ \E x \in Clients : Handle(x) \/ Peer(x)

Spec == Init /\ [][Next]_vars

\* Go schedules the reload goroutine fairly, and its file reads return.
FairSpec == Spec /\ WF_vars(Reload)

----------------------------------------------------------------------------
(* Properties.                                                             *)

\* Every variable keeps its shape; in particular a daemon that is up has
\* loaded every gate its flags name (main's os.Exit on each failed load).
TypeOK ==
  /\ flags \in Flags /\ edits \in 0 .. MaxEdits
  /\ proc \in {"flags", "ports", "certs", "allow", "mtls", "arm", "listen",
               "up", "stopping", "down"}
  /\ file \in [allow : Allows \cup {Bad}, ports : Specs \cup {Bad}, mtls : Bundles \cup {Bad}]
  /\ DOMAIN live = Files /\ (proc = "up" => \A f \in Files : Configured(f) => live[f] # None)
  /\ hup \in BOOLEAN /\ reloader \in {"off", "idle"} \cup Files
  /\ owed \subseteq Files
  /\ DOMAIN conn = Clients /\ since \in [Clients -> [allow : SUBSET BOOLEAN, ports : SUBSET BOOLEAN]]

\* The integers a spec turns on, with their neighbours, and the ends of the range.
Edges(spec) ==
  LET named == UNION {{p[i] : i \in 1 .. Len(p)} :
                      p \in {spec.pieces[j] : j \in 1 .. Len(spec.pieces)}} IN
  UNION {{n - 1, n, n + 1} : n \in named \cup {1, MaxPort}}

\* portpolicy.Parse and Permits: the policy in force comes from a spec that
\* makes sense as a whole, and permits exactly the ports that spec spells out,
\* up to both ends of a range and of the port numbers.
PolicyMeansSpec ==
  live["ports"] # None =>
    /\ Meaningful(live["ports"].spec)
    /\ \A n \in Edges(live["ports"].spec) :
         inRange(n) /\ Permits(live["ports"].policy, n) <=> Covers(live["ports"].spec, n)

\* route() against a reload: a request goes on to a session only if its port
\* was allowed at some moment since it arrived, and is turned away only if it
\* was not.
PortGate ==
  \A x \in Clients :
    /\ conn[x].at = "lookup" => TRUE \in since[x].ports
    /\ conn[x].at = "rejected" => FALSE \in since[x].ports

\* No command line that boots leaves a way in: a client reaches handleRegister's
\* claim without a verified certificate only where mTLS is off or through the
\* second listener, and then, as ever, only with a key that was on the
\* allowlist while its request waited, or under --open-registration.
Guarded ==
  \A x \in Clients : conn[x].at = "admitted" =>
    /\ flags.openRegistration \/ TRUE \in since[x].allow
    /\ flags.mtlsCA /\ conn[x].cert = None =>
         conn[x].via = "register" /\ TRUE \in since[x].allow

\* The proxy stays behind mTLS whatever other listener there is: whoever makes
\* a request showed a certificate.
ProxyBehindMtls ==
  \A x \in Clients :
    flags.mtlsCA /\ conn[x].at \in {"route", "lookup", "rejected"} => conn[x].cert # None

\* A daemon that takes connections is not ended by a SIGHUP: main arms the
\* handler before it listens, and a failed reload is only logged.
HupSparesListeners == [][proc = "up" => proc' \in {"up", "stopping"}]_vars

\* A file that was good when the operator sent SIGHUP, and has been left alone
\* since, becomes the live policy, and all such files do once the operator
\* stops editing: the one signal the channel keeps while a reload is running is
\* enough, and no arm's failure stops another's.
HupApplied == []<>(\A f \in owed : live[f] = Content(f))
=============================================================================
