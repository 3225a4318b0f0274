------------------------------ MODULE Tunneld ------------------------------
(***************************************************************************)
(* The control plane of swe-swe-tunneld: concurrent /v1/connect handlers   *)
(* (connectHandler, handleRegister, runControlLoop, handleDeregister), the *)
(* identity store they claim names in, the registry of live sessions, the  *)
(* three rate budgets, and the SIGHUP goroutine that swaps the allowlist   *)
(* and closes the sessions of removed keys.                                *)
(*                                                                         *)
(* A handler is one goroutine.  Its program counter stops wherever the     *)
(* code touches shared state, blocks, or waits for its peer, so every      *)
(* interleaving of two handlers around those points is a behaviour.        *)
(* A handler slot is reused: when a handler returns its slot is idle and a *)
(* later connection may take it.                                           *)
(***************************************************************************)
EXTENDS Integers, FiniteSets

CONSTANTS
  Conns,      \* handler slots: the connections alive at the same time
  Uniques,    \* claimable names; TunnelLabel is injective, so also the labels
  Keys,       \* Ed25519 public keys
  Ips,        \* source addresses, the keys of the per-IP limiters
  None,       \* nil: no key, no session, no request
  Purges,     \* the operator may run identity-delete with --purge-cert
  Gated,      \* TRUE: --allowlist-dir is set; FALSE: --open-registration
  IpMax,      \* --register-rate-ip-per-hour; <= 0 disables the limiter
  KeyMax,     \* --register-rate-pubkey-per-day; <= 0 disables the limiter
  RefundMax   \* --register-rate-skew-deny-per-hour; <= 0 means no refunds

ASSUME NoneAssumption == None \notin Conns \cup Uniques \cup Keys \cup Ips
ASSUME ConnsAssumption == IsFiniteSet(Conns)
ASSUME GatedAssumption == Gated \in BOOLEAN /\ Purges \in BOOLEAN
ASSUME MaxAssumption == IpMax \in Int /\ KeyMax \in Int /\ RefundMax \in Int

VARIABLES
  pc,          \* where each handler is
  req,         \* the verified part of its Register frame
  existing,    \* the pubkey its store.Get returned
  sess,        \* its yamux session: none, open, closed (CloseChan fired)
  store,       \* identities table: unique -> pubkey, None when no row
  certs,       \* labels in the daemon's certificate table
  certFiles,   \* labels with a certificate and key on disk
  purging,     \* names whose identity-delete --purge-cert has yet to unlink
  purged,      \* history: names whose certificate files were unlinked
  sessions,    \* registry.sessions: label -> session, None when absent
  byPubkey,    \* registry.byPubkey: pubkey -> label -> session
  ipUsed,      \* samples in the per-IP window
  keyUsed,     \* samples in the per-pubkey window
  refundUsed,  \* samples in the per-IP refund window
  allow,       \* the allowlist.Set snapshot
  revoker,     \* the SIGHUP goroutine: idle, snapshot, closing
  victims,     \* sessions RevokeMissing collected and has not closed yet
  late,        \* history: handlers past the gate, not yet added, at a snapshot
  admitted,    \* history: Registers the per-IP limiter let through
  claims       \* history: rows each key inserted

connVars == <<pc, req, existing, sess>>
registryVars == <<sessions, byPubkey>>
budgetVars == <<ipUsed, keyUsed, refundUsed, admitted, claims>>
revokeVars == <<allow, revoker, victims, late>>
certVars == <<certs, certFiles, purging, purged>>
vars == <<connVars, store, certVars, registryVars, budgetVars, revokeVars>>

----------------------------------------------------------------------------
(* Handler states.                                                         *)

\* Past the allowlist check, not yet in the registry.
InFlight == {"get", "keyLimit", "grace", "ensure", "put", "reget",
             "challenge", "proof", "rotate", "add"}

\* Between reg.add and the deferred reg.remove.
Registered == {"reply", "loop", "delete", "close", "wait", "remove"}

\* Giving budget back on the way out.
Refunding == {"refundSkew", "refundIp", "refundKey"}

States == {"idle", "read", "verify", "gate"} \cup InFlight \cup Registered
          \cup Refunding

NoReq == [ip |-> None, unique |-> None, key |-> None]

\* What the allowlist directory may hold; nothing when the gate is off.
AllowSets == IF Gated THEN SUBSET Keys ELSE {{}}

Goto(c, to) == pc' = [pc EXCEPT ![c] = to]

At(c, from, to) == pc[c] = from /\ Goto(c, to)

KeepLocals == UNCHANGED <<req, existing, sess, revokeVars>>

KeepShared == UNCHANGED <<store, certVars, registryVars, budgetVars>>

\* The handler returns: deferred cancel and sess.Close, locals gone.  A
\* session pointer still held by RevokeMissing refers to a closed session.
Return(c) ==
  /\ Goto(c, "idle")
  /\ req' = [req EXCEPT ![c] = NoReq]
  /\ existing' = [existing EXCEPT ![c] = None]
  /\ sess' = [sess EXCEPT ![c] = "none"]
  /\ victims' = victims \ {c}
  /\ late' = late \ {c}
  /\ UNCHANGED <<allow, revoker>>

----------------------------------------------------------------------------
(* Rate budgets.  The horizon of this module is one limiter window: a      *)
(* sample is taken and given back but does not age out (RateLimit.tla has  *)
(* the clock).  A limiter with max <= 0 admits everything, records nothing.*)

Admits(max, n) == max <= 0 \/ n < max

Sample(max, n) == IF max <= 0 THEN n ELSE n + 1

CancelLatest(max, n) == IF max <= 0 \/ n = 0 THEN n ELSE n - 1

\* Mutant: refunds are not counted.
MutMayRefund(i) == RefundMax > 0

mayRefund(i) == RefundMax > 0 /\ Admits(RefundMax, refundUsed[i])

\* Consume one unit of refund budget and go on to the refund, or keep the
\* burn and return.
RefundOrReturn(c, refund) ==
  LET i == req[c].ip IN
  \/ /\ mayRefund(i)
     /\ refundUsed' = [refundUsed EXCEPT ![i] = Sample(RefundMax, @)]
     /\ Goto(c, refund)
     /\ KeepLocals
  \/ /\ ~mayRefund(i)
     /\ Return(c)
     /\ UNCHANGED refundUsed

----------------------------------------------------------------------------
(* connectHandler up to handleRegister, and handleRegister.                *)

\* Headers valid, hijacked, 101 written, yamux up, control stream accepted.
Accept(c) ==
  /\ At(c, "idle", "read")
  /\ sess' = [sess EXCEPT ![c] = "open"]
  /\ UNCHANGED <<req, existing, store, certVars, registryVars, budgetVars,
                 revokeVars>>

\* Mutant: no deadline on the Register frame.
MutReadFails(c) ==
  /\ pc[c] = "read" /\ sess[c] = "closed"
  /\ Return(c)
  /\ KeepShared

\* The Register frame does not arrive before preRegisterDeadline, the peer
\* is gone, or the frame's type, payload, version or unique is refused.
ReadFails(c) ==
  /\ pc[c] = "read"
  /\ Return(c)
  /\ KeepShared

\* A well-shaped Register frame arrives; ipLimiter.Allow decides.
ReadRegister(c, i, u, k) ==
  /\ pc[c] = "read"
  /\ sess[c] = "open"
  /\ \/ /\ Admits(IpMax, ipUsed[i])
        /\ ipUsed' = [ipUsed EXCEPT ![i] = Sample(IpMax, @)]
        /\ admitted' = [admitted EXCEPT ![i] = Sample(IpMax, @)]
        /\ req' = [req EXCEPT ![c] = [ip |-> i, unique |-> u, key |-> k]]
        /\ Goto(c, "verify")
        /\ UNCHANGED <<existing, sess, revokeVars>>
     \/ /\ ~Admits(IpMax, ipUsed[i])
        /\ Return(c)
        /\ UNCHANGED <<ipUsed, admitted>>
  /\ UNCHANGED <<store, certVars, registryVars, keyUsed, refundUsed, claims>>

\* Pubkey and sig decode, the signature verifies, the mTLS key agrees.
VerifyOK(c) ==
  /\ At(c, "verify", "gate")
  /\ KeepLocals /\ KeepShared

\* bad pubkey, bad sig, signature invalid, cert_key_mismatch.
VerifyFails(c) ==
  /\ pc[c] = "verify"
  /\ Return(c)
  /\ KeepShared

\* Mutant: the deny also gives back a pubkey sample it never took.
MutClockSkewed(c) ==
  /\ pc[c] = "verify"
  /\ RefundOrReturn(c, "refundIp")
  /\ UNCHANGED <<store, certVars, registryVars, ipUsed, keyUsed, admitted, claims>>

\* The timestamp is out of range; the IP sample may be given back.
ClockSkewed(c) ==
  /\ pc[c] = "verify"
  /\ RefundOrReturn(c, "refundSkew")
  /\ UNCHANGED <<store, certVars, registryVars, ipUsed, keyUsed, admitted, claims>>

\* allow.Contains(pub); a nil allowlist lets every key through.
Gate(c) ==
  /\ pc[c] = "gate"
  /\ \/ /\ Gated => req[c].key \in allow
        /\ Goto(c, "get")
        /\ KeepLocals
     \/ /\ Gated /\ req[c].key \notin allow
        /\ Return(c)
  /\ KeepShared

\* store.Get: no row starts a new claim, the same key is an idempotent
\* reconnect (Touch changes last_seen_at only), another key is challenged.
Get(c) ==
  /\ pc[c] = "get"
  /\ LET row == store[req[c].unique] IN
     /\ existing' = [existing EXCEPT ![c] = row]
     /\ \/ row = None /\ Goto(c, "keyLimit")
        \/ row = req[c].key /\ Goto(c, "add")
        \/ row \notin {None, req[c].key} /\ Goto(c, "challenge")
  /\ UNCHANGED <<req, sess, store, certVars, registryVars, budgetVars, revokeVars>>

\* An identity-store call fails: "store error", no refund.
StoreFails(c) ==
  /\ pc[c] \in {"get", "put", "reget", "rotate"}
  /\ Return(c)
  /\ KeepShared

\* pubkeyLimiter.Allow, on new claims only.
KeyLimit(c) ==
  /\ pc[c] = "keyLimit"
  /\ LET k == req[c].key IN
     \/ /\ Admits(KeyMax, keyUsed[k])
        /\ keyUsed' = [keyUsed EXCEPT ![k] = Sample(KeyMax, @)]
        /\ Goto(c, "grace")
        /\ KeepLocals
     \/ /\ ~Admits(KeyMax, keyUsed[k])
        /\ Return(c)
        /\ UNCHANGED keyUsed
  /\ UNCHANGED <<store, certVars, registryVars, ipUsed, refundUsed, admitted, claims>>

\* issuanceGrace elapses before ctx is cancelled.
GraceElapses(c) ==
  /\ At(c, "grace", "ensure")
  /\ KeepLocals /\ KeepShared

\* The peer hangs up during the grace: no order is made.
GraceAborted(c) ==
  /\ pc[c] = "grace"
  /\ sess[c] = "closed"
  /\ RefundOrReturn(c, "refundIp")
  /\ UNCHANGED <<store, certVars, registryVars, ipUsed, keyUsed, admitted, claims>>

\* certMgr.EnsureName returns nil: a fresh certificate was on disk and is
\* loaded, or one was issued, written and loaded.
EnsureOK(c) ==
  /\ At(c, "ensure", "put")
  /\ certs' = certs \cup {req[c].unique}
  /\ certFiles' = certFiles \cup {req[c].unique}
  /\ UNCHANGED <<req, existing, sess, store, purging, purged, registryVars,
                 budgetVars, revokeVars>>

\* Mutant: the error is logged but the handler goes on to store.Put.
MutEnsurePermanent(c) == At(c, "ensure", "put") /\ KeepLocals /\ KeepShared

\* cert.IsPermanent: order cap, LE rate limit, not provisioned.  Burned.
EnsurePermanent(c) ==
  /\ pc[c] = "ensure"
  /\ Return(c)
  /\ KeepShared

\* Any other issuance failure is refunded while the refund budget lasts.
EnsureTransient(c) ==
  /\ pc[c] = "ensure"
  /\ RefundOrReturn(c, "refundIp")
  /\ UNCHANGED <<store, certVars, registryVars, ipUsed, keyUsed, admitted, claims>>

\* ipLimiter.CancelLatest(ipKey) of a clock-skew deny.
RefundSkew(c) ==
  /\ pc[c] = "refundSkew"
  /\ ipUsed' = [ipUsed EXCEPT ![req[c].ip] = CancelLatest(IpMax, @)]
  /\ Return(c)
  /\ UNCHANGED <<store, certVars, registryVars, keyUsed, refundUsed, admitted, claims>>

\* refundRegister: the IP sample, then the pubkey sample.
RefundIp(c) ==
  /\ At(c, "refundIp", "refundKey")
  /\ ipUsed' = [ipUsed EXCEPT ![req[c].ip] = CancelLatest(IpMax, @)]
  /\ UNCHANGED <<req, existing, sess, store, certVars, registryVars, keyUsed,
                 refundUsed, admitted, claims, revokeVars>>

RefundKey(c) ==
  /\ pc[c] = "refundKey"
  /\ keyUsed' = [keyUsed EXCEPT ![req[c].key] = CancelLatest(KeyMax, @)]
  /\ Return(c)
  /\ UNCHANGED <<store, certVars, registryVars, ipUsed, refundUsed, admitted, claims>>

\* Mutant: INSERT OR REPLACE.
MutPut(c) ==
  /\ At(c, "put", "add")
  /\ store' = [store EXCEPT ![req[c].unique] = req[c].key]
  /\ claims' = [claims EXCEPT ![req[c].key] = Sample(KeyMax, @)]
  /\ UNCHANGED <<req, existing, sess, certVars, registryVars, ipUsed, keyUsed,
                 refundUsed, admitted, revokeVars>>

\* store.Put: INSERT, so a row that appeared since Get is a conflict.
Put(c) ==
  /\ pc[c] = "put"
  /\ LET u == req[c].unique
         k == req[c].key IN
     \/ /\ store[u] = None
        /\ store' = [store EXCEPT ![u] = k]
        /\ claims' = [claims EXCEPT ![k] = Sample(KeyMax, @)]
        /\ Goto(c, "add")
     \/ /\ store[u] # None
        /\ Goto(c, "reget")
        /\ UNCHANGED <<store, claims>>
  /\ UNCHANGED <<req, existing, sess, certVars, registryVars, ipUsed, keyUsed,
                 refundUsed, admitted, revokeVars>>

\* Lost the insert race: same key reconnects, another key is a key_mismatch,
\* a row that is gone again is a "store error".
Reget(c) ==
  /\ pc[c] = "reget"
  /\ \/ /\ store[req[c].unique] = req[c].key
        /\ Goto(c, "add")
        /\ KeepLocals
     \/ /\ store[req[c].unique] # req[c].key
        /\ Return(c)
  /\ KeepShared

\* Challenge written; the nonce is fresh, so no earlier proof fits it.
SendChallenge(c) ==
  /\ At(c, "challenge", "proof")
  /\ sess[c] = "open"
  /\ KeepLocals /\ KeepShared

\* Mutant: a handler waiting for the proof does not notice the hangup.
MutChallengeFails(c) ==
  /\ pc[c] = "challenge" /\ sess[c] = "closed"
  /\ Return(c)
  /\ KeepShared

\* Writing the challenge or reading the proof fails.
ChallengeFails(c) ==
  /\ pc[c] \in {"challenge", "proof"}
  /\ sess[c] = "closed"
  /\ Return(c)
  /\ KeepShared

\* Mutant: the proof is verified against the key of the Register.
MutProof(c, p) ==
  /\ pc[c] = "proof"
  /\ sess[c] = "open"
  /\ p = req[c].key
  /\ Goto(c, "rotate")
  /\ KeepLocals /\ KeepShared

\* A proof signed with key p, verified against existing.Pubkey, the row as
\* read by Get before the challenge was sent.
Proof(c, p) ==
  /\ pc[c] = "proof"
  /\ sess[c] = "open"
  /\ \/ /\ p = existing[c]
        /\ Goto(c, "rotate")
        /\ KeepLocals
     \/ /\ p # existing[c]
        /\ Return(c)
  /\ KeepShared

\* store.Rotate: UPDATE by name alone.  A row deleted since Get matches
\* nothing, and the call succeeds all the same.
Rotate(c) ==
  /\ At(c, "rotate", "add")
  /\ LET u == req[c].unique IN
     store' = IF store[u] = None THEN store
              ELSE [store EXCEPT ![u] = req[c].key]
  /\ UNCHANGED <<req, existing, sess, certVars, registryVars, budgetVars, revokeVars>>

----------------------------------------------------------------------------
(* connectHandler after handleRegister.                                    *)

\* Mutant: the latest session takes the label over.
MutAddReplaces(c) ==
  /\ At(c, "add", "reply")
  /\ sessions' = [sessions EXCEPT ![req[c].unique] = c]
  /\ byPubkey' = [byPubkey EXCEPT ![req[c].key][req[c].unique] = c]
  /\ KeepLocals
  /\ UNCHANGED <<store, certVars, budgetVars>>

\* reg.add: refused while the label has a session, whoever holds it.
Add(c) ==
  /\ pc[c] = "add"
  /\ LET u == req[c].unique
         k == req[c].key IN
     \/ /\ sessions[u] = None
        /\ sessions' = [sessions EXCEPT ![u] = c]
        /\ byPubkey' = [byPubkey EXCEPT ![k][u] = c]
        /\ Goto(c, "reply")
        /\ KeepLocals
     \/ /\ sessions[u] # None
        /\ Return(c)
        /\ UNCHANGED registryVars
  /\ UNCHANGED <<store, certVars, budgetVars>>

\* RegisterOK is written, or the write fails and the handler unwinds.
Reply(c) ==
  /\ pc[c] = "reply"
  /\ \/ sess[c] = "open" /\ Goto(c, "loop")
     \/ Goto(c, "remove")
  /\ KeepLocals /\ KeepShared

\* A Deregister frame passes handleDeregister's checks: it names this
\* session's unique and is signed by this session's key.
Deregister(c) ==
  /\ At(c, "loop", "delete")
  /\ sess[c] = "open"
  /\ KeepLocals /\ KeepShared

\* store.Delete, by name; DeregisterOK's write error is ignored.
Delete(c) ==
  /\ At(c, "delete", "close")
  /\ store' = [store EXCEPT ![req[c].unique] = None]
  /\ UNCHANGED <<req, existing, sess, certVars, registryVars, budgetVars, revokeVars>>

\* store.Delete fails: Deny, and the control loop goes on.
DeleteFails(c) ==
  /\ At(c, "delete", "loop")
  /\ KeepLocals /\ KeepShared

\* After a Deregister the handler closes the session itself.
CloseSession(c) ==
  /\ At(c, "close", "remove")
  /\ sess' = [sess EXCEPT ![c] = "closed"]
  /\ UNCHANGED <<req, existing, store, certVars, registryVars, budgetVars, revokeVars>>

\* runControlLoop's read fails because the session is closed.
LoopEnds(c) ==
  /\ At(c, "loop", "wait")
  /\ sess[c] = "closed"
  /\ KeepLocals /\ KeepShared

\* The peer closes only the control stream; the data plane lives on.
ControlEOF(c) ==
  /\ At(c, "loop", "wait")
  /\ sess[c] = "open"
  /\ KeepLocals /\ KeepShared

\* <-sess.CloseChan()
Closed(c) ==
  /\ At(c, "wait", "remove")
  /\ sess[c] = "closed"
  /\ KeepLocals /\ KeepShared

\* reg.remove: each index drops the label only if it still maps to this
\* session.  An inner map that becomes empty is the same as an absent one.
Remove(c) ==
  /\ pc[c] = "remove"
  /\ LET u == req[c].unique
         k == req[c].key IN
     /\ sessions' = IF sessions[u] = c THEN [sessions EXCEPT ![u] = None]
                    ELSE sessions
     /\ byPubkey' = IF byPubkey[k][u] = c
                    THEN [byPubkey EXCEPT ![k][u] = None]
                    ELSE byPubkey
  /\ Return(c)
  /\ UNCHANGED <<store, certVars, budgetVars>>

----------------------------------------------------------------------------
(* SIGHUP: reloadAllowlistAndRevoke.                                       *)

\* allow.Reload swaps the set atomically.  The directory may hold anything
\* when it is read; a directory that does not parse changes nothing.
Reload(S) ==
  /\ Gated
  /\ revoker = "idle"
  /\ allow' = S
  /\ revoker' = "snapshot"
  /\ UNCHANGED <<connVars, store, certVars, registryVars, budgetVars, victims, late>>

\* RevokeMissing collects its victims from byPubkey under the read lock.
Snapshot ==
  /\ revoker = "snapshot"
  /\ revoker' = "closing"
  /\ victims' = {c \in Conns : \E k \in Keys \ allow, u \in Uniques :
                                 byPubkey[k][u] = c}
  /\ late' = {c \in Conns : pc[c] \in InFlight /\ req[c].key \notin allow}
  /\ UNCHANGED <<connVars, store, certVars, registryVars, budgetVars, allow>>

\* Mutant: the victim is logged, not closed.
MutCloseVictim(c) ==
  /\ revoker = "closing" /\ c \in victims
  /\ victims' = victims \ {c}
  /\ UNCHANGED <<connVars, store, certVars, registryVars, budgetVars, allow,
                 revoker, late>>

\* v.ts.sess.Close(), one victim after the other, outside the lock.
CloseVictim(c) ==
  /\ revoker = "closing"
  /\ c \in victims
  /\ victims' = victims \ {c}
  /\ sess' = [sess EXCEPT ![c] = "closed"]
  /\ UNCHANGED <<pc, req, existing, store, certVars, registryVars, budgetVars,
                 allow, revoker, late>>

\* Mutant: RevokeMissing returns at the first Close that fails.
MutRevokeDone ==
  /\ revoker = "closing"
  /\ revoker' = "idle"
  /\ victims' = {}
  /\ UNCHANGED <<connVars, store, certVars, registryVars, budgetVars, allow, late>>

\* RevokeMissing returns once every victim has been closed.
RevokeDone ==
  /\ revoker = "closing"
  /\ victims = {}
  /\ revoker' = "idle"
  /\ UNCHANGED <<connVars, store, certVars, registryVars, budgetVars, allow,
                 victims, late>>

----------------------------------------------------------------------------
(* The environment.                                                        *)

\* The peer hangs up or crashes, the network drops the connection, or yamux
\* keepalives give up on it: CloseChan fires.
PeerGone(c) ==
  /\ sess[c] = "open"
  /\ sess' = [sess EXCEPT ![c] = "closed"]
  /\ UNCHANGED <<pc, req, existing, store, certVars, registryVars, budgetVars,
                 revokeVars>>

\* The operator runs identity-delete, in a process of its own; live sessions
\* are not dropped.
IdentityDelete(u) ==
  /\ store[u] # None
  /\ store' = [store EXCEPT ![u] = None]
  /\ purging' \in {purging} \cup (IF Purges THEN {purging \cup {u}} ELSE {})
  /\ UNCHANGED <<connVars, certs, certFiles, purged, registryVars, budgetVars,
                 revokeVars>>

\* ... and then, with --purge-cert, unlinks the name's certificate files; the
\* daemon keeps the certificate it has loaded.
PurgeCert(u) ==
  /\ u \in purging
  /\ purging' = purging \ {u}
  /\ certFiles' = certFiles \ {u}
  /\ purged' = purged \cup {u}
  /\ UNCHANGED <<connVars, store, certs, registryVars, budgetVars, revokeVars>>

\* Mutant: the daemon boots with an empty certificate table.
MutRestart(S) ==
  /\ pc' = [c \in Conns |-> "idle"]
  /\ req' = [c \in Conns |-> NoReq]
  /\ existing' = [c \in Conns |-> None]
  /\ sess' = [c \in Conns |-> "none"]
  /\ sessions' = [u \in Uniques |-> None]
  /\ byPubkey' = [k \in Keys |-> [u \in Uniques |-> None]]
  /\ ipUsed' = [i \in Ips |-> 0]
  /\ keyUsed' = [k \in Keys |-> 0]
  /\ refundUsed' = [i \in Ips |-> 0]
  /\ admitted' = [i \in Ips |-> 0]
  /\ claims' = [k \in Keys |-> 0]
  /\ allow' = S
  /\ revoker' = "idle"
  /\ victims' = {}
  /\ late' = {}
  /\ certs' = {}
  /\ UNCHANGED <<store, certFiles, purging, purged>>

\* The daemon stops or crashes at any point and boots again: identities and
\* certificate files are on disk, everything else was memory, and
\* LoadAllFromDisk fills the certificate table.
Restart(S) ==
  /\ pc' = [c \in Conns |-> "idle"]
  /\ req' = [c \in Conns |-> NoReq]
  /\ existing' = [c \in Conns |-> None]
  /\ sess' = [c \in Conns |-> "none"]
  /\ sessions' = [u \in Uniques |-> None]
  /\ byPubkey' = [k \in Keys |-> [u \in Uniques |-> None]]
  /\ ipUsed' = [i \in Ips |-> 0]
  /\ keyUsed' = [k \in Keys |-> 0]
  /\ refundUsed' = [i \in Ips |-> 0]
  /\ admitted' = [i \in Ips |-> 0]
  /\ claims' = [k \in Keys |-> 0]
  /\ allow' = S
  /\ revoker' = "idle"
  /\ victims' = {}
  /\ late' = {}
  /\ certs' = certFiles
  /\ UNCHANGED <<store, certFiles, purging, purged>>

----------------------------------------------------------------------------

\* The daemon comes up with these rows in its store and these certificate
\* files on disk.
Boot(rows, files) ==
  /\ pc = [c \in Conns |-> "idle"]
  /\ req = [c \in Conns |-> NoReq]
  /\ existing = [c \in Conns |-> None]
  /\ sess = [c \in Conns |-> "none"]
  /\ store = rows
  /\ certs = files
  /\ certFiles = files
  /\ purging = {}
  /\ purged = {}
  /\ sessions = [u \in Uniques |-> None]
  /\ byPubkey = [k \in Keys |-> [u \in Uniques |-> None]]
  /\ ipUsed = [i \in Ips |-> 0]
  /\ keyUsed = [k \in Keys |-> 0]
  /\ refundUsed = [i \in Ips |-> 0]
  /\ admitted = [i \in Ips |-> 0]
  /\ claims = [k \in Keys |-> 0]
  /\ allow \in AllowSets
  /\ revoker = "idle"
  /\ victims = {}
  /\ late = {}

Init == Boot([u \in Uniques |-> None], {})

\* Steps the server takes by itself: its own code, timers and I/O errors.
Progress(c) ==
  \/ ReadFails(c) \/ VerifyOK(c) \/ VerifyFails(c) \/ ClockSkewed(c)
  \/ Gate(c) \/ Get(c) \/ StoreFails(c) \/ KeyLimit(c)
  \/ GraceElapses(c) \/ GraceAborted(c)
  \/ EnsureOK(c) \/ EnsurePermanent(c) \/ EnsureTransient(c)
  \/ RefundSkew(c) \/ RefundIp(c) \/ RefundKey(c)
  \/ Put(c) \/ Reget(c) \/ SendChallenge(c) \/ ChallengeFails(c) \/ Rotate(c)
  \/ Add(c) \/ Reply(c) \/ Delete(c) \/ DeleteFails(c) \/ CloseSession(c)
  \/ LoopEnds(c) \/ Closed(c) \/ Remove(c)

\* Steps a peer decides on.
Peer(c) ==
  \/ Accept(c)
  \/ \E i \in Ips, u \in Uniques, k \in Keys : ReadRegister(c, i, u, k)
  \/ \E p \in Keys : Proof(c, p)
  \/ Deregister(c) \/ ControlEOF(c) \/ PeerGone(c)

Revoke == Snapshot \/ RevokeDone \/ \E c \in Conns : CloseVictim(c)

Operator ==
  \/ \E S \in SUBSET Keys : Reload(S)
  \/ \E u \in Uniques : IdentityDelete(u) \/ PurgeCert(u)
  \/ \E S \in AllowSets : Restart(S)

Next == (\E c \in Conns : Progress(c) \/ Peer(c)) \/ Revoke \/ Operator

Spec == Init /\ [][Next]_vars

\* Handlers and the SIGHUP goroutine run on a fair scheduler, their timers
\* fire, and EnsureName and the store return; peers owe nothing.
FairSpec ==
  /\ Spec
  /\ \A c \in Conns : WF_vars(Progress(c))
  /\ WF_vars(Revoke)

----------------------------------------------------------------------------
(* Properties.                                                             *)

\* Every variable keeps its shape; byPubkey's inner maps in particular are
\* never lost while a session is filed in them (registry.remove).
TypeOK ==
  /\ pc \in [Conns -> States]
  /\ req \in [Conns -> [ip : Ips \cup {None}, unique : Uniques \cup {None},
                        key : Keys \cup {None}]]
  /\ existing \in [Conns -> Keys \cup {None}]
  /\ sess \in [Conns -> {"none", "open", "closed"}]
  /\ store \in [Uniques -> Keys \cup {None}]
  /\ certs \subseteq Uniques /\ certFiles \subseteq Uniques
  /\ purging \subseteq Uniques /\ purged \subseteq Uniques
  /\ sessions \in [Uniques -> Conns \cup {None}]
  /\ byPubkey \in [Keys -> [Uniques -> Conns \cup {None}]]
  /\ ipUsed \in [Ips -> Nat]
  /\ keyUsed \in [Keys -> Nat]
  /\ refundUsed \in [Ips -> Nat]
  /\ allow \subseteq Keys
  /\ revoker \in {"idle", "snapshot", "closing"}
  /\ victims \subseteq Conns
  /\ late \subseteq Conns
  /\ admitted \in [Ips -> Nat]
  /\ claims \in [Keys -> Nat]

\* A label routes to a session exactly while the handler that registered it
\* is between reg.add and reg.remove: no label outlives its handler, no
\* registered handler lacks its label, and no label has two handlers.
RegistryMatchesHandlers ==
  \A c \in Conns, u \in Uniques :
    sessions[u] = c <=> pc[c] \in Registered /\ req[c].unique = u

\* The index RevokeMissing searches names the same sessions as the map
\* route() reads, each under the key its handler authenticated.
IndexAgrees ==
  \A c \in Conns, u \in Uniques, k \in Keys :
    byPubkey[k][u] = c <=> sessions[u] = c /\ req[c].key = k

\* Once a reload has run, a session still open under a key it removed was,
\* at the moment RevokeMissing looked, past the allowlist check but not yet
\* in the registry.  No registered session escapes a reload.
OnlyInFlightEscapeRevoke ==
  revoker = "idle" /\ Gated =>
    \A c \in Conns :
      pc[c] \in Registered /\ sess[c] = "open" /\ req[c].key \notin allow
        => c \in late

\* "Issue cert FIRST (may fail; if so, the store stays clean)": a name is
\* only ever owned once its label has a certificate, across lost races,
\* aborted handlers, releases and restarts.  The operator unlinking the files
\* of a name that is being claimed again is the one way to lose it.
OwnedNameHasCert == \A u \in Uniques : store[u] # None => u \in certs \cup purged

\* The per-pubkey budget caps the names one key inserts in a window, however
\* its attempts overlap, fail and are refunded.
ClaimBudget == KeyMax > 0 => \A k \in Keys : claims[k] <= KeyMax

\* Refunds cannot be looped on: the Registers one address gets past the IP
\* limiter in a window are bounded by that limit plus the refund budget.
AttemptBudget ==
  IpMax > 0 =>
    \A i \in Ips :
      admitted[i] <= IpMax + (IF RefundMax > 0 THEN RefundMax ELSE 0)

\* An owned name passes from one key to another only through a handler whose
\* proof was accepted; a claim that lost the insert race takes nothing.
ClaimNeverSteals ==
  [][\A u \in Uniques :
       store[u] # None /\ store'[u] \notin {None, store[u]} =>
         \E c \in Conns : pc[c] = "rotate" /\ req[c].unique = u
                          /\ store'[u] = req[c].key]_vars

\* A session whose CloseChan fired is unwound: its handler returns, whatever
\* it was doing, and with it the label.
ClosedHandlerReturns ==
  \A c \in Conns : sess[c] = "closed" ~> pc[c] = "idle"

\* Every connection is answered or dropped: it does not stay in the part of
\* handleRegister that runs without the peer.
RegisterSettles ==
  \A c \in Conns : pc[c] \in ({"read"} \cup InFlight) \ {"proof"}
                     ~> pc[c] \in Registered \cup {"idle", "proof"}

----------------------------------------------------------------------------
(* The inductive invariant behind the safety properties.                   *)

\* Past the Register frame a handler has a name, a key and an address.
Authenticated ==
  \A c \in Conns : pc[c] \notin {"idle", "read"} =>
    req[c] \in [ip : Ips, unique : Uniques, key : Keys]

\* A handler about to insert a row has seen EnsureName succeed.
InsertsAfterCert ==
  \A c \in Conns : pc[c] = "put" => req[c].unique \in certs

\* A loaded certificate survives a restart unless its files were purged.
LoadedFromFiles == certs \subseteq certFiles \cup purged

\* RevokeMissing holds on to registered sessions only, and only while it
\* closes them.
VictimsRegistered ==
  /\ \A c \in victims : pc[c] \in Registered
  /\ revoker # "closing" => victims = {}

\* Outside the instant between the swap and the snapshot, whoever goes on
\* under a removed key is about to be closed or was in flight.
RevokeReaches ==
  Gated /\ revoker # "snapshot" =>
    \A c \in Conns :
      /\ pc[c] \in InFlight \/ (pc[c] \in Registered /\ sess[c] = "open")
      /\ req[c].key \notin allow
      => c \in late \cup victims

\* The state every step of the daemon preserves: the registry and its index,
\* the certificate-before-row order and the reach of RevokeMissing, with the
\* facts about handlers in flight that make them inductive.
IInv ==
  /\ TypeOK
  /\ Authenticated
  /\ RegistryMatchesHandlers
  /\ IndexAgrees
  /\ InsertsAfterCert
  /\ LoadedFromFiles
  /\ OwnedNameHasCert
  /\ VictimsRegistered
  /\ RevokeReaches

----------------------------------------------------------------------------
(* What the documentation says, and the code does not ensure.              *)

\* docs/access-control.md: a reload "immediately closes any live yamux
\* sessions whose pubkey is no longer authorized", so when it is done no
\* live session has such a key.
RevokedKeyHasNoSession ==
  revoker = "idle" /\ Gated =>
    \A c \in Conns : pc[c] \in Registered /\ sess[c] = "open"
                       => req[c].key \in allow

\* internal/control/proto.go: a Deregister's "Sig must verify against the
\* stored pubkey", so the row it deletes is its signer's.
DeregisterReleasesOwnRow ==
  [][\A c \in Conns : pc[c] = "delete" /\ pc'[c] = "close" =>
       store[req[c].unique] \in {None, req[c].key}]_vars

\* docs/design.md: a "PROOF must be signed by the **stored** private key", so
\* a rotation takes a name from the key that signed the proof, never from a
\* third one.
RotateReplacesProvenKey ==
  [][\A c \in Conns : pc[c] = "rotate" /\ pc'[c] = "add" =>
       store[req[c].unique] \in {None, existing[c], req[c].key}]_vars
=============================================================================
