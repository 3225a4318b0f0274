----------------------------- MODULE EdgeProofs -----------------------------
(***************************************************************************)
(* Proofs about Edge and PortPolicy: for every port spec, every set of     *)
(* command lines and any number of connections, the gates in front of the  *)
(* proxy and of registration answer what the operator's files say, through *)
(* every reload, restart and shutdown.                                     *)
(***************************************************************************)
EXTENDS Edge, TLAPS

----------------------------------------------------------------------------
(* The port policy.                                                        *)

\* All the proofs need to know of the highest port.
LEMMA PortBound == MaxPort \in Int
BY DEF MaxPort

\* A piece has no integer, one or two.
LEMMA PieceShape ==
  ASSUME NEW p \in Pieces
  PROVE  /\ Len(p) = 0 => p = <<>>
         /\ Len(p) = 0 \/ Len(p) = 1 \/ Len(p) = 2
         /\ \A i \in 1 .. Len(p) : p[i] \in Int
<1>1. p \in Seq(Int) /\ Len(p) \in Nat /\ Len(p) <= 2
  BY DEF Pieces
<1>2. \A i \in 1 .. Len(p) : p[i] \in Int
  BY <1>1
<1>3. Len(p) = 0 => p = <<>>
  BY <1>1
<1>4. Len(p) = 0 \/ Len(p) = 1 \/ Len(p) = 2
  <2>1. \A k \in Nat : k <= 2 => k = 0 \/ k = 1 \/ k = 2
    OBVIOUS
  <2> QED BY <1>1, <2>1, Zenon
<1> QED BY <1>2, <1>3, <1>4, Zenon

\* A piece that parses names ports, in order.
LEMMA PieceMeaningful ==
  ASSUME NEW p \in Pieces, parses(p)
  PROVE  p = <<>> \/ (p[1] <= p[Len(p)] /\ {p[1], p[Len(p)]} \subseteq 1 .. MaxPort)
<1>1. CASE Len(p) = 0 BY <1>1, PieceShape
<1>2. CASE Len(p) = 1 BY <1>2, PieceShape, PortBound DEF parses, inRange
<1>3. CASE Len(p) = 2 BY <1>3, PieceShape, PortBound DEF parses, inRange
<1> QED BY <1>1, <1>2, <1>3, PieceShape

\* The ports a piece covers are the one it is or those of its range.
LEMMA PieceCovers ==
  ASSUME NEW p \in Pieces, NEW n \in Int
  PROVE  (p # <<>> /\ n \in p[1] .. p[Len(p)]) <=>
           \/ Len(p) = 1 /\ n = p[1]
           \/ Len(p) = 2 /\ p[1] <= n /\ n <= p[2]
<1>1. CASE Len(p) = 0 BY <1>1, PieceShape
<1>2. CASE Len(p) = 1
  <2>1. p # <<>> /\ p[1] \in Int BY <1>2, PieceShape
  <2> QED BY <1>2, <2>1
<1>3. CASE Len(p) = 2
  <2>1. p # <<>> /\ p[1] \in Int /\ p[2] \in Int BY <1>3, PieceShape
  <2> QED BY <1>3, <2>1
<1> QED BY <1>1, <1>2, <1>3, PieceShape

\* A spec that parses names ports only, with ranges the right way round, and
\* its policy permits exactly the ports it names (portpolicy.Parse, Permits).
LEMMA PolicyOfSpec ==
  ASSUME NEW spec \in PortSpecs, ~Malformed(spec)
  PROVE  /\ Meaningful(spec)
         /\ \A n \in Int : inRange(n) /\ Permits(Parse(spec), n) <=> Covers(spec, n)
<1>1. \A i \in 1 .. Len(spec.pieces) : spec.pieces[i] \in Pieces
  <2>1. spec.pieces \in Seq(Pieces) BY DEF PortSpecs
  <2> QED BY <2>1
<1>2. spec.all \/ \A i \in 1 .. Len(spec.pieces) : parses(spec.pieces[i])
  BY DEF Malformed
<1>3. Meaningful(spec)
  BY <1>1, <1>2, PieceMeaningful, Zenon DEF Meaningful
<1>4. ASSUME NEW n \in Int
      PROVE inRange(n) /\ Permits(Parse(spec), n) <=> Covers(spec, n)
  <2> DEFINE N == 1 .. Len(spec.pieces)
             p(i) == spec.pieces[i]
  <2>1. Permits(Parse(spec), n) <=>
          \/ spec.all
          \/ \E i \in N : Len(p(i)) = 1 /\ n = p(i)[1]
          \/ \E i \in N : Len(p(i)) = 2 /\ p(i)[1] <= n /\ n <= p(i)[2]
    BY DEF Permits, Parse
  <2>2. \A i \in N : (p(i) # <<>> /\ n \in p(i)[1] .. p(i)[Len(p(i))]) <=>
                      \/ Len(p(i)) = 1 /\ n = p(i)[1]
                      \/ Len(p(i)) = 2 /\ p(i)[1] <= n /\ n <= p(i)[2]
    BY <1>1, PieceCovers, Zenon
  <2>3. Covers(spec, n) <=>
          /\ inRange(n)
          /\ \/ spec.all
             \/ \E i \in N : p(i) # <<>> /\ n \in p(i)[1] .. p(i)[Len(p(i))]
    <3>1. n \in 1 .. MaxPort <=> inRange(n) BY PortBound DEF inRange
    <3> QED BY <3>1, Zenon DEF Covers
  <2> HIDE DEF N, p
  <2> QED BY <2>1, <2>2, <2>3, Zenon
<1> QED BY <1>3, <1>4

----------------------------------------------------------------------------
(* The inductive invariant.                                                *)

Procs == {"flags", "ports", "certs", "allow", "mtls", "arm", "listen", "up",
          "stopping", "down"}

ConnStates == {"off", "open", "route", "lookup", "rejected", "gate", "admitted"}

Conn == [at : ConnStates, via : {"main", "register", None}, cert : Cas \cup {None},
         port : Ports \cup {None}]

\* The shapes the proofs rely on.
Shape ==
  /\ flags \in Flags /\ proc \in Procs
  /\ file \in [allow : Allows \cup {Bad}, ports : Specs \cup {Bad}, mtls : Bundles \cup {Bad}]
  /\ DOMAIN live = Files /\ live = [f \in Files |-> live[f]]
  /\ conn \in [Clients -> Conn]
  /\ since = [x \in Clients |-> [allow |-> since[x].allow, ports |-> since[x].ports]]

\* What main has checked and loaded by the time it is at a stage of boot, and
\* what every reload arm leaves in place.
Booted ==
  /\ proc \notin {"flags", "down"} => validateRegistrationGate /\ validateRegisterListen
  /\ IF proc \in {"flags", "down", "ports"} THEN live["ports"] = None
     ELSE \E spec \in PortSpecs : ~Malformed(spec) /\ live["ports"] = PortSet(spec)
  /\ proc \in {"mtls", "arm", "listen", "up", "stopping"} =>
       IF flags.allowlistDir THEN live["allow"] \in BOOLEAN ELSE live["allow"] = None
  /\ proc \in {"arm", "listen", "up", "stopping"} /\ flags.mtlsCA => live["mtls"] \in Bundles

\* SIGHUP is handled from before the first connection until shutdown.
Armed ==
  /\ proc \in {"listen", "up"} => reloader # "off"
  /\ reloader # "off" => proc \in {"listen", "up", "stopping"}

\* How a connection can have come in, and where it can be.
CameIn ==
  \A x \in Clients : conn[x].at # "off" =>
    /\ proc \in {"up", "stopping"}
    /\ conn[x].via = "register" => flags.registerListen
    /\ flags.mtlsCA /\ conn[x].cert = None => conn[x].via = "register"
    /\ conn[x].at \in {"route", "lookup", "rejected"} => conn[x].via = "main"

\* A request that waits for a gate has seen what the gate says now.
UpToDate ==
  \A x \in Clients :
    /\ conn[x].at = "route" =>
         LET covered == Covers(live["ports"].spec, conn[x].port) IN
         /\ conn[x].port \in Ports
         /\ covered => TRUE \in since[x].ports
         /\ ~covered => FALSE \in since[x].ports
    /\ conn[x].at = "gate" /\ live["allow"] = TRUE => TRUE \in since[x].allow

EInv == Shape /\ Booted /\ Armed /\ CameIn /\ UpToDate /\ PortGate /\ Guarded

----------------------------------------------------------------------------
(* Steps of main and of the operator.                                      *)

\* The facts about connections hold as long as there is none.
Quiet == \A x \in Clients : conn[x].at = "off"

\* A step into a state without connections keeps what is said of them.
LEMMA QuietHolds ==
  ASSUME Quiet' PROVE CameIn' /\ UpToDate' /\ PortGate' /\ Guarded'
BY Zenon DEF Quiet, CameIn, UpToDate, PortGate, Guarded

\* The process ends and leaves no connection.
LEMMA ExitStep ==
  ASSUME EInv, Exit PROVE EInv'
<1>1. Shape'
  BY FilesAssumption DEF EInv, Shape, Exit, Procs, Conn, ConnStates, NoConn, NoAnswers
<1>2. Booted' /\ Armed'
  BY DEF Exit, Booted, Armed, Files
<1>3. Quiet'
  BY DEF Exit, Quiet, NoConn
<1> QED BY <1>1, <1>2, <1>3, QuietHolds DEF EInv
\* Boot goes from one stage to the next, with what the stage loads.
LEMMA BootStep ==
  ASSUME EInv, Boot PROVE EInv'
<1> USE DEF EInv
<1>1. CASE Exit
  BY <1>1, ExitStep
<1>2. CASE ~Exit
  <2>1. proc \notin {"up", "stopping"} /\ UNCHANGED <<flags, file, conn, since>>
    BY <1>2 DEF Boot, CheckFlags, loadPortPolicy, EnsureAtBoot, loadAllowlist,
         loadMtlsBundle, Arm, Listen, LoadAtBoot, Advance
  <2>2. Quiet'
    BY <2>1 DEF CameIn, Quiet
  <2>3. Shape'
    <3>1. proc' \in Procs
      BY <1>2 DEF Boot, CheckFlags, loadPortPolicy, EnsureAtBoot, loadAllowlist,
           loadMtlsBundle, Arm, Listen, LoadAtBoot, Advance, Procs
    <3>2. DOMAIN live' = Files /\ live' = [f \in Files |-> live'[f]]
      BY <1>2 DEF Boot, CheckFlags, loadPortPolicy, EnsureAtBoot, loadAllowlist,
           loadMtlsBundle, Arm, Listen, LoadAtBoot, Shape
    <3> QED BY <2>1, <3>1, <3>2 DEF Shape
  <2>4. Booted'
    <3>1. CASE CheckFlags
      BY <1>2, <2>1, <3>1 DEF CheckFlags, Advance, Booted, validateRegistrationGate,
           validateRegisterListen
    <3>2. CASE loadPortPolicy
      BY <1>2, <2>1, <3>2, FilesAssumption DEF loadPortPolicy, LoadAtBoot, Advance, Booted,
           validateRegistrationGate, validateRegisterListen, Configured, Loads, Content,
           Shape, Files
    <3>3. CASE EnsureAtBoot \/ Arm \/ Listen
      BY <1>2, <2>1, <3>3 DEF EnsureAtBoot, Arm, Listen, Advance, Booted,
           validateRegistrationGate, validateRegisterListen
    <3>4. CASE loadAllowlist
      BY <1>2, <2>1, <3>4, FilesAssumption DEF loadAllowlist, LoadAtBoot, Advance, Booted,
           validateRegistrationGate, validateRegisterListen, Configured, Loads, Content,
           Shape, Files
    <3>5. CASE loadMtlsBundle
      BY <1>2, <2>1, <3>5, FilesAssumption DEF loadMtlsBundle, LoadAtBoot, Advance, Booted,
           validateRegistrationGate, validateRegisterListen, Configured, Loads, Content,
           Shape, Files
    <3> QED BY <3>1, <3>2, <3>3, <3>4, <3>5 DEF Boot
  <2>5. Armed'
    BY <1>2 DEF Boot, CheckFlags, loadPortPolicy, EnsureAtBoot, loadAllowlist,
         loadMtlsBundle, Arm, Listen, LoadAtBoot, Advance, Armed
  <2> QED BY <2>2, <2>3, <2>4, <2>5, QuietHolds, Zenon
<1> QED BY <1>1, <1>2
\* The steps that leave the loaded files and the requests alone: SIGHUP and its
\* channel, edits of files, a start, and the first half of a shutdown.
LEMMA AsideStep ==
  ASSUME EInv, TakeHup \/ ReloaderQuits \/ Stopped \/ Operator PROVE EInv'
<1> USE DEF EInv
<1>1. CASE Exit
  BY <1>1, ExitStep
<1>2. CASE ~Exit
  <2>1. UNCHANGED <<flags, live, since>>
    BY <1>2 DEF TakeHup, ReloaderQuits, Stopped, Operator, Hup, Stop, Start, Edit
  <2>2. /\ proc' = proc \/ (proc = "up" /\ proc' = "stopping") \/ (proc = "down" /\ proc' = "flags")
        /\ \/ reloader' = reloader
           \/ reloader = "idle" /\ reloader' = "allow"
           \/ proc = "stopping" /\ reloader' = "off" /\ proc' = proc
    <3>1. CASE TakeHup BY <3>1 DEF TakeHup
    <3>2. CASE ReloaderQuits BY <3>2 DEF ReloaderQuits
    <3>3. CASE Stopped BY <1>2, <3>3 DEF Stopped
    <3>4. CASE Operator BY <1>2, <3>4 DEF Operator, Hup, Stop, Start, Edit
    <3> QED BY <3>1, <3>2, <3>3, <3>4
  <2>3. \A x \in Clients : conn'[x] = conn[x] \/ conn'[x] = NoConn
    BY <1>2 DEF TakeHup, ReloaderQuits, Stopped, Operator, Hup, Stop, Start, Edit, Shape
  <2>4. Shape'
    <3>1. file' \in [allow : Allows \cup {Bad}, ports : Specs \cup {Bad}, mtls : Bundles \cup {Bad}]
      BY <1>2 DEF TakeHup, ReloaderQuits, Stopped, Operator, Hup, Stop, Start, Edit, Shape,
           Contents, Files
    <3>2. conn' \in [Clients -> Conn]
      BY <1>2 DEF TakeHup, ReloaderQuits, Stopped, Operator, Hup, Stop, Start, Edit, Shape,
           NoConn, Conn, ConnStates
    <3> QED BY <2>1, <2>2, <3>1, <3>2 DEF Shape, Procs
  <2>5. Booted'
    BY <2>1, <2>2 DEF Booted, validateRegistrationGate, validateRegisterListen
  <2>6. Armed'
    BY <2>2 DEF Armed
  <2>7. CameIn'
    BY <2>1, <2>2, <2>3 DEF CameIn, NoConn
  <2>8. UpToDate'
    <3>1. ASSUME NEW x \in Clients, conn'[x] = conn[x] PROVE UpToDate!(x)'
      BY <2>1, <3>1, Zenon DEF UpToDate
    <3>2. ASSUME NEW x \in Clients, conn'[x] = NoConn PROVE UpToDate!(x)'
      BY <3>2 DEF NoConn
    <3> QED BY <2>3, <3>1, <3>2, Zenon DEF UpToDate
  <2>9. PortGate' /\ Guarded'
    <3>1. ASSUME NEW x \in Clients, conn'[x] = conn[x] PROVE PortGate!(x)' /\ Guarded!(x)'
      BY <2>1, <3>1, Zenon DEF PortGate, Guarded
    <3>2. ASSUME NEW x \in Clients, conn'[x] = NoConn PROVE PortGate!(x)' /\ Guarded!(x)'
      BY <3>2 DEF NoConn
    <3> QED BY <2>3, <3>1, <3>2, Zenon DEF PortGate, Guarded
  <2> QED BY <2>4, <2>5, <2>6, <2>7, <2>8, <2>9
<1> QED BY <1>1, <1>2

\* A reload arm: what it loads is as good as what boot loads, and the requests
\* waiting for the gate see the change.
LEMMA ArmStep ==
  ASSUME EInv, NEW f \in Files, NEW next \in {"ports", "mtls", "idle"}, ReloadArm(f, next)
  PROVE  EInv'
<1> USE DEF EInv
<1>1. UNCHANGED <<flags, proc, file, conn>> /\ proc \in {"listen", "up", "stopping"}
  BY DEF ReloadArm, Armed, Files
<1>2. Shape'
  <2>1. DOMAIN live' = Files /\ live' = [g \in Files |-> live'[g]]
    BY DEF ReloadArm, Shape
  <2>2. since' = [x \in Clients |-> [allow |-> since'[x].allow, ports |-> since'[x].ports]]
    <3>1. \A x \in Clients : since[x] = [allow |-> since[x].allow, ports |-> since[x].ports]
      BY DEF Shape
    <3>2. \A x \in Clients : since'[x] = [allow |-> since'[x].allow, ports |-> since'[x].ports]
      <4> SUFFICES ASSUME NEW x \in Clients, NEW says,
                          since'[x] = [since[x] EXCEPT ![f] = @ \cup {says}]
                   PROVE  since'[x] = [allow |-> since'[x].allow, ports |-> since'[x].ports]
        BY <3>1, Zenon DEF ReloadArm, Seen
      <4> QED BY <3>1, Zenon DEF Files
    <3> QED BY <3>2, Zenon DEF ReloadArm, Seen
  <2> QED BY <1>1, <2>1, <2>2 DEF Shape
<1>3. Booted'
  BY <1>1, FilesAssumption, Zenon DEF ReloadArm, Booted, validateRegistrationGate,
       validateRegisterListen, Configured, Loads, Content, Shape, Files
<1>4. Armed' /\ CameIn'
  BY <1>1 DEF ReloadArm, Armed, CameIn
<1>5. UpToDate'
  <2> SUFFICES ASSUME NEW x \in Clients
               PROVE /\ conn[x].at = "route" =>
                          LET covered == Covers(live'["ports"].spec, conn[x].port) IN
                          /\ conn[x].port \in Ports
                          /\ covered => TRUE \in since'[x].ports
                          /\ ~covered => FALSE \in since'[x].ports
                     /\ conn[x].at = "gate" /\ live'["allow"] = TRUE => TRUE \in since'[x].allow
    BY <1>1, Zenon DEF UpToDate
  <2>1. CASE f = "ports" /\ conn[x].at = "route"
    <3>1. since'[x].ports = since[x].ports \cup {Covers(live'["ports"].spec, conn[x].port)}
      BY <2>1 DEF ReloadArm, Seen, Says, Shape
    <3>2. conn[x].port \in Ports
      BY <2>1, Zenon DEF UpToDate
    <3>3. Covers(live'["ports"].spec, conn[x].port) \in BOOLEAN
      BY DEF Covers
    <3> QED BY <2>1, <3>1, <3>2, <3>3, Zenon
  <2>2. CASE f = "allow" /\ conn[x].at = "gate"
    <3>1. since'[x].allow = since[x].allow \cup {live'["allow"] = TRUE}
      BY <2>2 DEF ReloadArm, Seen, Says, Shape
    <3> QED BY <2>2, <3>1, Zenon
  <2>3. CASE <<f, conn[x].at>> \notin {<<"ports", "route">>, <<"allow", "gate">>}
    <3>1. since'[x] = since[x]
      BY <2>3 DEF ReloadArm, Seen
    <3>2. /\ conn[x].at = "route" => live'["ports"] = live["ports"]
          /\ conn[x].at = "gate" => live'["allow"] = live["allow"]
      BY <2>3 DEF ReloadArm, Shape, Files
    <3> QED BY <3>1, <3>2, Zenon DEF UpToDate
  <2> QED BY <2>1, <2>2, <2>3, Zenon
<1>6. PortGate' /\ Guarded'
  BY <1>1, Zenon DEF ReloadArm, Seen, PortGate, Guarded, Shape
<1> QED BY <1>2, <1>3, <1>4, <1>5, <1>6

----------------------------------------------------------------------------
(* Steps of a connection.                                                  *)

\* What an assignment to a connection's fields leaves of it.
LEMMA ConnFields ==
  ASSUME NEW r \in Conn, NEW v, NEW w
  PROVE  /\ [r EXCEPT !.at = v] = [at |-> v, via |-> r.via, cert |-> r.cert, port |-> r.port]
         /\ [[r EXCEPT !.at = v] EXCEPT !.port = w]
              = [at |-> v, via |-> r.via, cert |-> r.cert, port |-> w]
<1>1. r = [at |-> r.at, via |-> r.via, cert |-> r.cert, port |-> r.port]
  BY DEF Conn
<1> DEFINE q == [at |-> v, via |-> r.via, cert |-> r.cert, port |-> r.port]
<1>2. [r EXCEPT !.at = v] = q
  BY <1>1
<1>3. [q EXCEPT !.port = w] = [at |-> v, via |-> r.via, cert |-> r.cert, port |-> w]
  OBVIOUS
<1> QED BY <1>2, <1>3, Zenon

\* A step of one connection leaves the daemon and the other connections alone,
\* so that what is said of this one is all there is to show.
LEMMA OneConn ==
  ASSUME EInv, NEW x \in Clients, NEW c \in Conn, NEW a, NEW p,
         UNCHANGED <<flags, proc, file, live, hup, reloader, owed, edits>>,
         conn' = [conn EXCEPT ![x] = c],
         since' = [since EXCEPT ![x] = [allow |-> a, ports |-> p]],
         CameIn!(x)', UpToDate!(x)', PortGate!(x)', Guarded!(x)'
  PROVE  EInv'
<1>1. \A y \in Clients \ {x} : conn'[y] = conn[y] /\ since'[y] = since[y]
  BY DEF EInv, Shape
<1>2. Shape'
  <2>1. conn' \in [Clients -> Conn]
    BY DEF EInv, Shape
  <2>2. since' = [y \in Clients |-> [allow |-> since'[y].allow, ports |-> since'[y].ports]]
    BY DEF EInv, Shape
  <2>3. /\ flags' \in Flags /\ proc' \in Procs
        /\ file' \in [allow : Allows \cup {Bad}, ports : Specs \cup {Bad}, mtls : Bundles \cup {Bad}]
        /\ DOMAIN live' = Files /\ live' = [f \in Files |-> live'[f]]
    BY Zenon DEF EInv, Shape
  <2> QED BY Zenon, <2>1, <2>2, <2>3 DEF Shape
<1>3. Booted' /\ Armed'
  BY DEF EInv, Booted, Armed, validateRegistrationGate, validateRegisterListen
<1>4. ASSUME NEW y \in Clients \ {x}
      PROVE  CameIn!(y)' /\ UpToDate!(y)' /\ PortGate!(y)' /\ Guarded!(y)'
  <2>1. y \in Clients /\ conn'[y] = conn[y] /\ since'[y] = since[y] /\ UNCHANGED <<flags, proc, live>>
    BY <1>1
  <2>2. CameIn!(y) /\ UpToDate!(y) /\ PortGate!(y) /\ Guarded!(y)
    BY <2>1, Zenon DEF EInv, CameIn, UpToDate, PortGate, Guarded
  <2>3. CameIn!(y)' BY <2>1, <2>2, Zenon
  <2>4. UpToDate!(y)' BY <2>1, <2>2, Zenon
  <2>5. PortGate!(y)' BY <2>1, <2>2, Zenon
  <2>6. Guarded!(y)' BY <2>1, <2>2, Zenon
  <2> QED BY <2>3, <2>4, <2>5, <2>6, Zenon
<1>5. \A y \in Clients : y = x \/ y \in Clients \ {x}
  OBVIOUS
<1>6. CameIn' /\ UpToDate' /\ PortGate' /\ Guarded'
  <2>1. CameIn' BY <1>4, <1>5, Zenon DEF CameIn
  <2>2. UpToDate' BY <1>4, <1>5, Zenon DEF UpToDate
  <2>3. PortGate' BY <1>4, <1>5, Zenon DEF PortGate
  <2>4. Guarded' BY <1>4, <1>5, Zenon DEF Guarded
  <2> QED BY <2>1, <2>2, <2>3, <2>4
<1> QED BY <1>2, <1>3, <1>6 DEF EInv

\* A connection that ends, and one whose request is answered, wait for nothing.
LEMMA HangupStep ==
  ASSUME EInv, NEW x \in Clients, Hangup(x) PROVE EInv'
<1>1. NoConn \in Conn /\ NoConn.at = "off"
  BY DEF NoConn, Conn, ConnStates
<1>2. conn'[x].at = "off"
  BY <1>1 DEF Hangup, EInv, Shape
<1>3. CameIn!(x)' /\ UpToDate!(x)' /\ PortGate!(x)' /\ Guarded!(x)'
  BY <1>2
<1> QED BY <1>1, <1>3, OneConn, Zenon DEF Hangup, NoAnswers

LEMMA AnswerStep ==
  ASSUME EInv, NEW x \in Clients, conn[x].at \in {"rejected", "lookup"}, Answer(x) PROVE EInv'
<1> DEFINE c == [at |-> "open", via |-> conn[x].via, cert |-> conn[x].cert, port |-> None]
<1>1. c \in Conn /\ conn' = [conn EXCEPT ![x] = c]
  <2>1. conn[x] \in Conn /\ conn \in [Clients -> Conn] BY DEF EInv, Shape
  <2>2. c \in Conn BY <2>1 DEF Conn, ConnStates
  <2>3. [[conn[x] EXCEPT !.at = "open"] EXCEPT !.port = None] = c BY <2>1, ConnFields, Zenon
  <2>4. [conn EXCEPT ![x].at = "open", ![x].port = None]
          = [conn EXCEPT ![x] = [[conn[x] EXCEPT !.at = "open"] EXCEPT !.port = None]]
    BY <2>1, Zenon
  <2> QED BY <2>2, <2>3, <2>4, Zenon DEF Answer
<1>2. conn'[x] = c
  BY <1>1 DEF EInv, Shape
<1>3. CameIn!(x)'
  BY <1>2 DEF Answer, EInv, CameIn
<1>4. UpToDate!(x)' /\ PortGate!(x)' /\ Guarded!(x)'
  BY <1>2
<1> HIDE DEF c
<1> QED BY <1>1, <1>3, <1>4, OneConn, Zenon DEF Answer, NoAnswers

\* A handshake shows a certificate, or comes in where none is required.
LEMMA HandshakeStep ==
  ASSUME EInv, NEW x \in Clients, NEW l \in {"main", "register"}, NEW ca \in Cas \cup {None},
         Handshake(x, l, ca)
  PROVE  EInv'
<1> DEFINE c == [at |-> "open", via |-> l, cert |-> ca, port |-> None]
<1>1. c \in Conn
  BY DEF Conn, ConnStates
<1>2. conn'[x] = c
  BY DEF Handshake, EInv, Shape
<1>3. since' = [since EXCEPT ![x] = [allow |-> since[x].allow, ports |-> since[x].ports]]
  BY DEF Handshake, EInv, Shape
<1>4. flags.mtlsCA => None \notin live["mtls"]
  BY FilesAssumption DEF Handshake, Listening, EInv, Booted
<1>5. CameIn!(x)'
  <2>1. flags' = flags /\ proc' = proc /\ proc = "up" /\ (l = "register" => flags.registerListen)
    BY Zenon DEF Handshake, Listening
  <2>2. flags.mtlsCA /\ ca = None => l = "register"
    BY Zenon, <1>4 DEF Handshake, Verifies
  <2> QED BY <1>2, <2>1, <2>2
<1>6. UpToDate!(x)' /\ PortGate!(x)' /\ Guarded!(x)'
  BY <1>2
<1>7. conn' = [conn EXCEPT ![x] = c] /\ UNCHANGED <<flags, proc, file, live, hup, reloader, owed, edits>>
  BY DEF Handshake
<1> HIDE DEF c
<1> QED BY <1>1, <1>3, <1>5, <1>6, <1>7, OneConn, Zenon

\* A step that moves connection x from one place to another.
LEMMA StepFields ==
  ASSUME EInv, NEW x \in Clients, NEW from, NEW to \in ConnStates, Step(x, from, to)
  PROVE  LET c == [at |-> to, via |-> conn[x].via, cert |-> conn[x].cert, port |-> conn[x].port]
         IN c \in Conn /\ conn' = [conn EXCEPT ![x] = c] /\ conn'[x] = c
<1>1. conn \in [Clients -> Conn] /\ conn[x] \in Conn
  BY DEF EInv, Shape
<1>2. [at |-> to, via |-> conn[x].via, cert |-> conn[x].cert, port |-> conn[x].port] \in Conn
  BY <1>1 DEF Conn
<1>3. conn' = [conn EXCEPT ![x] = [conn[x] EXCEPT !.at = to]]
  BY <1>1 DEF Step
<1> QED BY <1>1, <1>2, <1>3, ConnFields, Zenon

\* A request starts to wait at the port gate.
LEMMA RequestStep ==
  ASSUME EInv, NEW x \in Clients, NEW n \in Ports, Request(x, n) PROVE EInv'
<1> DEFINE c == [at |-> "route", via |-> conn[x].via, cert |-> conn[x].cert, port |-> n]
           p == {Covers(live["ports"].spec, n)}
<1>1. conn \in [Clients -> Conn] /\ conn[x] \in Conn
  BY DEF EInv, Shape
<1>2. c \in Conn
  BY <1>1 DEF Conn, ConnStates
<1>3. conn' = [conn EXCEPT ![x] = c]
  <2>1. conn' = [conn EXCEPT ![x] = [[conn[x] EXCEPT !.at = "route"] EXCEPT !.port = n]]
    BY <1>1, Zenon DEF Request
  <2> QED BY <1>1, <2>1, ConnFields, Zenon
<1>4. conn'[x] = c
  BY <1>1, <1>3
<1>5. since' = [since EXCEPT ![x] = [allow |-> since[x].allow, ports |-> p]]
  <2>1. since[x] = [allow |-> since[x].allow, ports |-> since[x].ports] /\ DOMAIN since = Clients
    BY DEF EInv, Shape
  <2>2. [since[x] EXCEPT !.ports = p] = [allow |-> since[x].allow, ports |-> p]
    BY <2>1
  <2>3. since' = [since EXCEPT ![x] = [since[x] EXCEPT !.ports = p]]
    BY DEF Request
  <2> QED BY <2>2, <2>3, Zenon
<1>6. since'[x].ports = p
  BY <1>5 DEF EInv, Shape
<1>7. CameIn!(x)'
  BY <1>4 DEF Request, EInv, CameIn
<1>8. UpToDate!(x)'
  <2>1. Covers(live["ports"].spec, n) \in BOOLEAN
    BY DEF Covers
  <2>2. live' = live
    BY DEF Request
  <2>3. /\ Covers(live["ports"].spec, n) => TRUE \in since'[x].ports
        /\ ~Covers(live["ports"].spec, n) => FALSE \in since'[x].ports
    BY <1>6, <2>1, Zenon
  <2>4. conn'[x].at # "gate" /\ conn'[x].port = n
    BY <1>4
  <2> QED BY <2>2, <2>3, <2>4, Zenon
<1>9. PortGate!(x)' /\ Guarded!(x)'
  BY <1>4
<1>10. UNCHANGED <<flags, proc, file, live, hup, reloader, owed, edits>>
  BY DEF Request
<1> HIDE DEF c, p
<1> QED BY <1>2, <1>3, <1>5, <1>7, <1>8, <1>9, <1>10, OneConn, Zenon

\* route() answers as the spec of the moment says, which the request has seen.
LEMMA RouteStep ==
  ASSUME EInv, NEW x \in Clients, route(x) PROVE EInv'
<1> DEFINE to == IF Permitted(x) THEN "lookup" ELSE "rejected"
           c == [at |-> to, via |-> conn[x].via, cert |-> conn[x].cert, port |-> conn[x].port]
<1>1. Step(x, "route", to) /\ to \in ConnStates
  BY DEF route, ConnStates
<1>2. c \in Conn /\ conn' = [conn EXCEPT ![x] = c] /\ conn'[x] = c
  BY <1>1, StepFields
<1>3. since' = [since EXCEPT ![x] = [allow |-> since[x].allow, ports |-> since[x].ports]]
  BY DEF route, EInv, Shape
<1>4. conn[x].at = "route" /\ UNCHANGED <<flags, proc, file, live, hup, reloader, owed, edits>>
  BY DEF route, Step
<1>5. Permitted(x) <=> Covers(live["ports"].spec, conn[x].port)
  <2>1. PICK spec \in PortSpecs : ~Malformed(spec) /\ live["ports"] = PortSet(spec)
    <3>1. proc \in {"up", "stopping"}
      BY <1>4 DEF EInv, CameIn
    <3> QED BY <3>1 DEF EInv, Booted
  <2>2. conn[x].port \in Int
    BY <1>4, PortsAssumption, Zenon DEF EInv, UpToDate
  <2>3. inRange(conn[x].port) /\ Permits(Parse(spec), conn[x].port) <=> Covers(spec, conn[x].port)
    BY <2>1, <2>2, PolicyOfSpec
  <2>4. live["ports"].spec = spec /\ live["ports"].policy = Parse(spec)
    BY <2>1 DEF PortSet
  <2> QED BY <2>3, <2>4, Zenon DEF Permitted
<1>6. /\ Permitted(x) => TRUE \in since'[x].ports
      /\ ~Permitted(x) => FALSE \in since'[x].ports
  <2>1. since' = since
    BY DEF route
  <2> QED BY <1>4, <1>5, <2>1, Zenon DEF EInv, UpToDate
<1>at. conn'[x].at = to
  BY <1>2
<1>7. PortGate!(x)'
  BY <1>at, <1>6, Zenon
<1>8. CameIn!(x)'
  BY <1>2, <1>4 DEF EInv, CameIn
<1>9. UpToDate!(x)' /\ Guarded!(x)'
  BY <1>at
<1> HIDE DEF c
<1> QED BY <1>2, <1>3, <1>4, <1>7, <1>8, <1>9, OneConn, Zenon

\* A registration starts to wait at the allowlist gate.
LEMMA ConnectStep ==
  ASSUME EInv, NEW x \in Clients, Connect(x) PROVE EInv'
<1> DEFINE c == [at |-> "gate", via |-> conn[x].via, cert |-> conn[x].cert, port |-> conn[x].port]
           a == {live["allow"] = TRUE}
<1>1. Step(x, "open", "gate") /\ "gate" \in ConnStates
  BY DEF Connect, ConnStates
<1>2. c \in Conn /\ conn' = [conn EXCEPT ![x] = c] /\ conn'[x] = c
  BY <1>1, StepFields
<1>3. since' = [since EXCEPT ![x] = [allow |-> a, ports |-> since[x].ports]]
  <2>1. since[x] = [allow |-> since[x].allow, ports |-> since[x].ports]
    BY DEF EInv, Shape
  <2>2. [since[x] EXCEPT !.allow = a] = [allow |-> a, ports |-> since[x].ports]
    BY <2>1
  <2>3. since' = [since EXCEPT ![x] = [since[x] EXCEPT !.allow = a]]
    BY DEF Connect, Says
  <2> QED BY <2>2, <2>3, Zenon
<1>4. since'[x].allow = a
  BY <1>3 DEF EInv, Shape
<1>5. conn[x].at = "open" /\ UNCHANGED <<flags, proc, file, live, hup, reloader, owed, edits>>
  BY DEF Connect, Step
<1>at. conn'[x].at = "gate"
  BY <1>2
<1>6. UpToDate!(x)'
  BY <1>at, <1>4, <1>5, Zenon
<1>7. CameIn!(x)'
  BY <1>2, <1>5 DEF EInv, CameIn
<1>8. PortGate!(x)' /\ Guarded!(x)'
  BY <1>at
<1> HIDE DEF c, a
<1> QED BY <1>2, <1>3, <1>5, <1>6, <1>7, <1>8, OneConn, Zenon

\* The allowlist gate: who is let through was on the list while waiting, or
\* there is no list; and there is one wherever no certificate is asked for.
LEMMA GateStep ==
  ASSUME EInv, NEW x \in Clients, Gate(x) PROVE EInv'
<1>1. CASE Hangup(x)
  BY <1>1, HangupStep
<1>2. CASE live["allow"] \in {None, TRUE} /\ Step(x, "gate", "admitted") /\ UNCHANGED since
  <2> DEFINE c == [at |-> "admitted", via |-> conn[x].via, cert |-> conn[x].cert,
                   port |-> conn[x].port]
  <2>1. "admitted" \in ConnStates
    BY DEF ConnStates
  <2>2. c \in Conn /\ conn' = [conn EXCEPT ![x] = c] /\ conn'[x] = c
    BY <1>2, <2>1, StepFields
  <2>3. since' = [since EXCEPT ![x] = [allow |-> since[x].allow, ports |-> since[x].ports]]
    BY <1>2 DEF EInv, Shape
  <2>4. conn[x].at = "gate" /\ UNCHANGED <<flags, proc, file, live, hup, reloader, owed, edits>>
    BY <1>2 DEF Step
  <2>5. CameIn!(x)'
    BY <2>2, <2>4 DEF EInv, CameIn
  <2>6. /\ flags.openRegistration \/ TRUE \in since[x].allow
        /\ flags.registerListen => TRUE \in since[x].allow
    <3>1. proc \in {"up", "stopping"}
      BY <2>4 DEF EInv, CameIn
    <3>2. /\ flags.allowlistDir # flags.openRegistration
          /\ flags.registerListen => flags.allowlistDir
          /\ flags.allowlistDir => live["allow"] \in BOOLEAN
      BY <3>1 DEF EInv, Booted, validateRegistrationGate, validateRegisterListen
    <3>3. flags.allowlistDir \in BOOLEAN /\ flags.openRegistration \in BOOLEAN
      BY FlagsAssumption DEF EInv, Shape
    <3>4. flags.allowlistDir => live["allow"] = TRUE
      BY <1>2, <3>2, FilesAssumption, Zenon
    <3>5. live["allow"] = TRUE => TRUE \in since[x].allow
      BY <2>4, Zenon DEF EInv, UpToDate
    <3> QED BY <3>2, <3>3, <3>4, <3>5, Zenon
  <2>at. conn'[x].at = "admitted" /\ conn'[x].via = conn[x].via /\ conn'[x].cert = conn[x].cert
    BY <2>2
  <2>7. Guarded!(x)'
    <3>1. flags.mtlsCA /\ conn[x].cert = None => conn[x].via = "register" /\ flags.registerListen
      BY <2>4 DEF EInv, CameIn
    <3> QED BY <1>2, <2>4, <2>6, <2>at, <3>1, Zenon
  <2>8. UpToDate!(x)' /\ PortGate!(x)'
    BY <2>at
  <2> HIDE DEF c
  <2> QED BY <2>2, <2>3, <2>4, <2>5, <2>7, <2>8, OneConn, Zenon
<1> QED BY <1>1, <1>2, Zenon DEF Gate

----------------------------------------------------------------------------
(* Theorems.                                                               *)

\* Every step of the daemon, its clients and its operator keeps the invariant.
LEMMA Inductive == EInv /\ [Next]_vars => EInv'
<1> SUFFICES ASSUME EInv, [Next]_vars PROVE EInv'
  OBVIOUS
<1>1. CASE Boot
  BY <1>1, BootStep
<1>2. CASE Reload
  <2>1. CASE TakeHup BY <2>1, AsideStep
  <2>2. CASE reloadAllowlistAndRevoke BY <2>2, ArmStep DEF reloadAllowlistAndRevoke, Files
  <2>3. CASE reloadPortPolicy BY <2>3, ArmStep DEF reloadPortPolicy, Files
  <2>4. CASE reloadMtlsBundle BY <2>4, ArmStep DEF reloadMtlsBundle, Files
  <2> QED BY <1>2, <2>1, <2>2, <2>3, <2>4 DEF Reload
<1>3. CASE ReloaderQuits \/ Stopped \/ Operator
  BY <1>3, AsideStep
<1>4. ASSUME NEW x \in Clients, Handle(x) PROVE EInv'
  <2>1. CASE route(x) BY <2>1, RouteStep
  <2>2. CASE Rejected(x) BY <2>2, AnswerStep DEF Rejected
  <2>3. CASE Proxy(x) BY <2>3, AnswerStep DEF Proxy
  <2>4. CASE Gate(x) BY <2>4, GateStep
  <2> QED BY <1>4, <2>1, <2>2, <2>3, <2>4 DEF Handle
<1>5. ASSUME NEW x \in Clients, Peer(x) PROVE EInv'
  BY <1>5, HandshakeStep, RequestStep, ConnectStep, HangupStep, Zenon DEF Peer
<1>6. CASE UNCHANGED vars
  <2>1. UNCHANGED <<flags, proc, file, live, reloader, conn, since>>
    BY <1>6 DEF vars
  <2>2. Shape' BY <2>1 DEF EInv, Shape
  <2>3. Booted' /\ Armed'
    BY <2>1 DEF EInv, Booted, Armed, validateRegistrationGate, validateRegisterListen
  <2>4. CameIn' /\ UpToDate'
    BY <2>1, Zenon DEF EInv, CameIn, UpToDate
  <2>5. PortGate' /\ Guarded'
    BY <2>1, Zenon DEF EInv, PortGate, Guarded
  <2> QED BY <2>2, <2>3, <2>4, <2>5 DEF EInv
<1> QED BY <1>1, <1>2, <1>3, <1>4, <1>5, <1>6 DEF Next

\* The process starts without connections and with nothing loaded.
LEMMA Starts == Init => EInv
<1> SUFFICES ASSUME Init PROVE EInv
  OBVIOUS
<1>1. Shape
  BY FilesAssumption DEF Init, Shape, Procs, Conn, ConnStates, NoConn, NoAnswers
<1>2. Booted /\ Armed
  BY DEF Init, Booted, Armed, Files
<1>3. \A x \in Clients : conn[x].at = "off"
  BY DEF Init, NoConn
<1>4. CameIn /\ UpToDate /\ PortGate /\ Guarded
  BY <1>3, Zenon DEF CameIn, UpToDate, PortGate, Guarded
<1> QED BY <1>1, <1>2, <1>4 DEF EInv

\* The strengthened invariant holds throughout every run of the daemon.
THEOREM EdgeInvariance == Spec => []EInv
BY Starts, Inductive, PTL DEF Spec

\* route() against reloads, for any number of clients, files and ports: a
\* request is passed on only if its port was allowed while it waited, and
\* turned away only if it was not.
THEOREM PortGateHolds == Spec => []PortGate
<1>1. EInv => PortGate
  BY DEF EInv
<1> QED BY <1>1, EdgeInvariance, PTL

\* Whatever the command line, handleRegister's claim is reached only with a
\* key that was on the allowlist or under --open-registration, and under mTLS
\* without a certificate only through the second listener.
THEOREM GuardedHolds == Spec => []Guarded
<1>1. EInv => Guarded
  BY DEF EInv
<1> QED BY <1>1, EdgeInvariance, PTL

\* Under mTLS every proxied request came in with a verified certificate,
\* whichever listeners the flags turn on.
THEOREM ProxyBehindMtlsHolds == Spec => []ProxyBehindMtls
<1>1. EInv => ProxyBehindMtls
  BY DEF EInv, CameIn, ProxyBehindMtls
<1> QED BY <1>1, EdgeInvariance, PTL

\* The policy in force is that of a spec that parses, and permits what the
\* spec spells out, for every spec and every reload.
THEOREM PolicyHolds == Spec => []PolicyMeansSpec
<1>1. EInv => PolicyMeansSpec
  <2> SUFFICES ASSUME EInv, live["ports"] # None PROVE PolicyMeansSpec
    BY DEF PolicyMeansSpec
  <2>1. PICK spec \in PortSpecs : ~Malformed(spec) /\ live["ports"] = PortSet(spec)
    BY DEF EInv, Booted
  <2>2. live["ports"].spec = spec /\ live["ports"].policy = Parse(spec)
    BY <2>1 DEF PortSet
  <2>3. Edges(spec) \subseteq Int
    <3>1. \A j \in 1 .. Len(spec.pieces) : spec.pieces[j] \in Pieces
      BY DEF PortSpecs
    <3>2. \A p \in Pieces : \A k \in 1 .. Len(p) : p[k] \in Int
      BY DEF Pieces
    <3> QED BY <3>1, <3>2, PortBound DEF Edges
  <2>4. /\ Meaningful(spec)
        /\ \A n \in Edges(spec) : inRange(n) /\ Permits(Parse(spec), n) <=> Covers(spec, n)
    BY <2>1, <2>3, PolicyOfSpec
  <2> QED BY <2>2, <2>4, Zenon DEF PolicyMeansSpec
<1> QED BY <1>1, EdgeInvariance, PTL

\* No SIGHUP ends a daemon that takes connections: the handler is armed before
\* the listeners, and goes only once they are shut down.
THEOREM HupSpares == Spec => HupSparesListeners
<1>1. EInv /\ [Next]_vars => [proc = "up" => proc' \in {"up", "stopping"}]_vars
  <2> SUFFICES ASSUME EInv, Next, proc = "up" PROVE proc' \in {"up", "stopping"}
    OBVIOUS
  <2>1. reloader # "off"
    BY DEF EInv, Armed
  <2>2. CASE Boot
    BY <2>2 DEF Boot, CheckFlags, loadPortPolicy, EnsureAtBoot, loadAllowlist,
         loadMtlsBundle, LoadAtBoot, Arm, Listen, Advance
  <2>3. CASE Reload \/ ReloaderQuits \/ Stopped \/ Operator
    BY <2>1, <2>3 DEF Reload, TakeHup, reloadAllowlistAndRevoke, reloadPortPolicy,
         reloadMtlsBundle, ReloadArm, ReloaderQuits, Stopped, Operator, Hup, Stop, Start, Edit
  <2>4. CASE \E x \in Clients : Handle(x) \/ Peer(x)
    BY <2>4, Zenon DEF Handle, route, Rejected, Proxy, Gate, Answer, Step, Peer, Handshake,
         Request, Connect, Hangup
  <2> QED BY <2>2, <2>3, <2>4 DEF Next
<1> QED BY <1>1, EdgeInvariance, PTL DEF Spec, HupSparesListeners
=============================================================================
