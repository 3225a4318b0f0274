# A TLA+ model of swe-swe-tunnel

`swe-swe-tunneld` gives a client behind NAT a public name. The client dials out,
upgrades to a yamux session, claims a name with an Ed25519 key, and the daemon
routes `https://<port>.<label>.<apex>` to that session. This directory models the
daemon (its control plane, its certificates, and the process around them), the
client's reconnect loop, and the two joined by a network that fails. TLC checks the
models on small instances; TLAPS proves every safety property that the runs check, and
that the daemon implements an abstract name service, for instances of any size.

`PROJECT.json` maps every modelling definition to the source lines it stands for.

## 1. Inventory

| Part | Source | State | Operations | Module |
|---|---|---|---|---|
| connect handler, registration | `cmd/swe-swe-tunneld/tunnel.go` | a goroutine per connection | Register, Challenge/Proof, Deregister, refunds, unwinding | `Tunneld` |
| registry | `tunnel.go` | `sessions`, `byPubkey` | `add`, `remove`, `get`, `RevokeMissing` | `Tunneld` |
| identity store | `internal/identity/store.go` | SQLite rows, name to pubkey | `Get`, `Put`, `Rotate`, `Delete`, `Touch`, `List` | `Tunneld` |
| allowlist | `internal/allowlist/allowlist.go` | an atomically swapped key set | `Load`, `Reload`, `Contains` | `Tunneld` |
| `identity-delete` | `identity_subcmd.go` | none (second process) | row delete, then `--purge-cert` unlinks | `Tunneld` |
| rate limiter | `internal/ratelimit/limiter.go` | timestamps per key | `AllowAt`, `CancelLatest`, `RetryAfterAt`, `PruneAt` | `RateLimit` |
| client loop | `internal/tunnelclient/{run,client,events,tls_perm}.go` | attempt, delay, session, goroutines | `Run`, `Connect`, `Serve`, `Deregister`, events | `TunnelClient` |
| ACME manager | `internal/cert/manager.go` | files, table, singleflight, order slots | `ensureSANs`, `obtain`, `saveResource`, renewal, rescan | `CertManager` |
| certificate table, static loader | `internal/cert/{store,static}.go` | entries, exact and wildcard index | `addEntry`, `getCertificate`, `has`, `EnsureName`, directory scans | `CertStore` |
| boot, flags, listeners | `main.go` | how far boot is, what is loaded | validators, loads, `Listen`, shutdown | `Edge` |
| SIGHUP loop | `main.go` | one-slot signal channel | four reload arms | `Edge`; what the arms entail in `Tunneld`, `CertManager` and `CertStore` |
| routing, port policy, mTLS | `tunnel.go`, `mtls.go`, `internal/portpolicy` | an atomically swapped policy and pool | `Parse`, `Permits`, `Reload`, `route`, handshake | `PortPolicy`, `Edge` |
| ACME account, DNS-01 pre-check | `internal/cert/{manager,precheck}.go` | account files, TXT records, name servers left to confirm | `loadOrCreateUser`, `saveUser`, `Present`, `CleanUp` | `Obtain` |
| client and daemon together | `tunnel.go`, `run.go`, `client.go` | the control stream between them | frames, cuts, hang-ups | `TunnelSystem` |
| CA tool, identity file, DNS probe | `internal/mtls`, `identity.go`, `dnscheck.go` | none | one-shot | see section 6 |

**How the parts meet.** A handler consults, in this order: the per-address limiter,
the signature and clock checks, the allowlist, the store, the per-key limiter, the
certificate manager, the store again, and the registry. The SIGHUP goroutine swaps the
allowlist and walks the registry. Operator commands write the same database and the
same certificate directory from another process. The client sees none of this but
the replies, and must shut down cleanly whenever it is told to. Around all of it stands
the process: it decides from its flags which gates there are, loads them before it
listens, and replaces them on SIGHUP while connections are served.

**What is hard here.** Values checked before a wait and used after it (allowlist, row,
certificate bytes); two indexes and two files that have to agree; budgets that are
given back; goroutines that nothing but a close can wake; crashes between two renames or two writes;
a client that is back before the daemon has noticed that it was gone.
The list with source lines is `hazards` in `PROJECT.json`.

## 2. Modules

### Tunneld

The daemon with its registry, store, allowlist, limiters (as counters of one window)
and certificate table. `Conns` is a set of handler slots; a slot that returns to `idle`
is used again. `pc[c]` is where the handler is:

| `pc` | code |
|---|---|
| `read`, `verify` | first frame under the read deadline, limiter of the address, signature and clock |
| `gate`, `get`, `keyLimit` | `allow.Contains`, `store.Get`, limiter of the key |
| `grace`, `ensure`, `put`, `reget` | first claim: DNS grace, `EnsureName`, `store.Put`, the re-read after a lost race |
| `challenge`, `proof`, `rotate` | a name held by another key: Challenge, Proof, `store.Rotate` |
| `add`, `reply`, `loop` | `reg.add`, RegisterOK, control loop |
| `delete`, `close`, `wait`, `remove` | Deregister, session close, `CloseChan`, deferred `reg.remove` |
| `refundSkew`, `refundIp`, `refundKey` | the refund paths, one limiter call per step |

Every limiter, store, allowlist or registry call is a step of its own, so handlers
interleave between any two of them. `Reload` swaps the allowlist, `Snapshot` is
`RevokeMissing` under the lock, `CloseVictim` one close outside it. `IdentityDelete` and
`PurgeCert` are the operator's process; `Restart` is a crash of the daemon, after which
rows and files are all that is left.

Abstractions: a signature is who made it; a store call that fails has no effect;
a reload may read any set of keys, and one that does not parse changes nothing;
`identity-delete`'s look-up and delete are one step; `EnsureOK` is the ACME manager's
`EnsureName` (the static loader is in `CertStore`); one window of each limiter is
modelled, in which samples do not age (ageing is in `RateLimit`); the history counters
`admitted` and `claims` start again with the limiters on a restart.

### RateLimit

`SlidingWindow` with a clock. A call carries a clock reading up to `Stall` ticks old,
because `Allow` reads the clock before it takes the mutex. `log` remembers what
happened in the last window, independently of what the limiter remembers: a set of events
for each kind, those of one tick numbered.

### TunnelClient

`Run` with the goroutines it starts: Connect's watcher and `Serve`. The server answers
anything the protocol allows, the network may drop at any time, and a signal may arrive
at any time. `last` is the last event emitted. `DialOK` stands for dial, upgrade and the
write of the Register frame. A reply that arrived before a close is read before it. The
server revokes the key only while no Register is in flight. The close by a watcher that
is late after a failed Connect hits a closed connection and is no step.

### CertManager

`EnsureName` callers, the renewer, and the rescan of the directory, as processes over
two files per name, their `.tmp` files and the table. A certificate is the number of the
order that issued it; a pair fits when both files hold the same number. Reading and
writing the `.crt` and the `.key` are separate steps. The order limit of the window is
a free choice (`RateLimit` models the limiter), order slots are counted.

### CertStore

The table with its exact and wildcard index and the static loader on top. A
certificate is its set of DNS names. The operator provisions, replaces and removes
files (`Layout` says which names a file may hold); a scan loads files in any order.
Here reading a file and entering it is one step; `CertManager` has the race between them.

### NameService and TunneldRefines

`NameService` is what registration promises, in ten actions: who owns a name, who has
been let in, who serves it. `TunneldRefines` maps `Tunneld` to it: `owner` is the store,
`live` the registry, a handler is `asked` from the `Get` that found another key until its
`Rotate`, and is let in from the step that reaches `reg.add`. `Takeover` does not say whose key
the name passes from: the code does not compare when it rotates (section 4). That the proof was
made with the key the challenge was for is in `Tunneld`, not here.

### TunnelSystem

`TunnelClient` and `Tunneld` composed. `SystemNext` takes the actions of both and joins those
that meet on the control stream: `Written` is the frame a handler's step writes, `Deliver` the
client reading it, `up[c]` and `down` the frames under way. Every dial takes a handler of its
own, so a client that reconnects meets what its earlier connections left behind. A close
is noticed by the other end after the frames written before it; `Cut` loses what is
under way, and each end notices by itself. What goes wrong, and what the operator does,
counts against `MaxFaults`. `NeverTakesOver` is about this client, which signs a proof with
the key it registers with; a program that holds the owner's key can rotate, and `Tunneld` has that.

### PortPolicy and Edge

`PortPolicy` has the port-spec parser and `Permits`, beside what an operator means by a spec.
`Edge` is the process: `CheckFlags` to `Listen` are boot, in the order of `main`, each load an
exit when it fails; `Hup`, `TakeHup` and the arms are the SIGHUP goroutine; `Handshake`,
`Request`, `route`, `Proxy`, `Connect` and `Gate` are a connection up to the session it is
proxied to, or past the allowlist. `since[x]` remembers what a gate would have answered since
the request arrived, `owed` the files a SIGHUP should have loaded. A SIGTERM during
boot takes effect when `main` waits for it, and is `Stop`.

Abstractions: an allowlist is whether it holds the client's key; a bundle is a set of CAs; text
that is not a number is an integer out of range; the certificate arm is in `CertManager` and
`CertStore`; what a handler does past the gate is in `Tunneld`. A `--unique` label's
session is the business of `Tunneld`'s registry, so `Proxy` is one step with any outcome.

### Obtain

What one `obtain` of the ACME manager does: the account key and `account.json`, both written
in place in two steps (truncate, write), then the order and its DNS-01 challenge. A key is
the number of its generation, a TXT value is the order it belongs to. Name servers take over
the provider's records at any time or never. `raced` and `clash` remember that two obtains
found no key together, and that two orders for one name overlapped: the two situations the code
does not exclude, because the renewer and `--ensure-cert` order outside the singleflight group.
A file that a crash cut short makes every later obtain fail until it is removed, as in the code.

## 3. What is checked

Runs that pass:

| Run | Checks | Instance, and why it is enough |
|---|---|---|
| `safety` (`Tunneld`) | `RegistryMatchesHandlers`, `OnlyInFlightEscapeRevoke`, `IInv` (which has `TypeOK` and `IndexAgrees` in it) | 2 handlers, 1 name, 2 keys, gate on: an owner and a challenger, one registered and one in flight at a snapshot, restarts anywhere |
| `names` (`Tunneld`) | `ClaimNeverSteals`, `ImplementsNameService`, `ClosedHandlerReturns`, `RegisterSettles` | 2 handlers, 1 name, 2 keys, gate off, fair: first claims, reclaims and challenges overlap |
| `budget` (`Tunneld`) | `ClaimBudget`, `AttemptBudget` | 2 handlers of one key and address, 1 name, limits 4, 2, 1, purges on: all three limits are reached, and with a release in between two overlapping claims both insert |
| `system` (`TunnelSystem`) | `ServedIsRouted`, `InStep`, `OwnedNameHasCert`, `NeverTakesOver`, `Settles` | 2 handlers, the client's key and another, 1 fault anywhere, gate and purges on, fair: a reconnect overlaps the handler of the connection before it; the name starts free, the client's or the other's |
| `edge` (`Edge`) | `PolicyMeansSpec`, `PortGate`, `Guarded`, `ProxyBehindMtls`, `HupSparesListeners`, `HupApplied` | 20 command lines (all settings of the four flags around registration), 2 edits, ports at and past the last one, fair; 1 connection, because connections share only what the reloader writes |
| `obtain` (`Obtain`) | `AccountMatches`, `OneAccount`, `ValidatesFresh`, `ObtainReturns` | a caller and the renewer on one name, 2 name servers, 1 crash, fair: first orders race, orders overlap, one server is confirmed while the other lags |
| `window` (`RateLimit`) | `Bounded`, `WindowBudget`, `RetryHintExact` | 2 keys for 1 place, 2 callers, 2 events in 2 ticks, clock to 4: two windows, late readings, refunds, prunes and evictions all happen |
| `run` (`TunnelClient`) | `CleanReturn`, `DeregisterBeforeTeardown`, `GiveUpBound`, `DelayIsRight`, `EventOrder`, `StopsOnCancel` | `MaxAttempts` 4, fair: the limit is reached with and without a session before it, the backoff reaches its cap |
| `orders` (`CertManager`) | `SlotsMatchOrders`, `EnsuredIsServed`, `PairsFit` | 2 callers, 2 names, 1 slot, 2 orders: the slot is contended, an order and a renewal of one name overlap, crashes in the middle of a save |
| `returns` (`CertManager`) | `OneOrderPerName`, `EnsureReturns` | 2 callers of one name, fair: one leads, one joins |
| `index` (`CertStore`) | `IndexSound`, `HandshakeCovered` | 2 labels and the apex; a file's certificate has names of its own host, and a replacement may change which |

`IInv` is checked with the gate on and purges off, where TLC is quick; the proof covers both
switches. The component modules also have a type invariant, `TypeOK`
(`LimiterTypeOK` in `RateLimit`, `StoreTypeOK` in `CertStore`), for the reader; TLC finds it to hold in the same configurations, and in `Tunneld` it is part of `IInv`. The invariants of
`system` also hold with two faults (612,943 states; too slow for `Settles`). Handlers, names,
keys and callers are only compared, so TLC uses symmetry over them, except in runs with
liveness properties. Deadlock is checked everywhere but in
`run` and `system`, where `Run` returns.

Bounds: `MaxTime` (end of the clock), `MaxRefunds` (events of a key taken back in a
window), `Stall` (age of a clock reading), `AttemptCap`, `MaxOrders`, `MaxFaults`,
`MaxEdits`, `MaxCrashes`. `Stall` is shorter than the window: a goroutine does not wait an hour for a mutex.

**Fairness.** Weak fairness of the steps the process takes by itself: a runnable
goroutine is scheduled, a read deadline or a timer fires, and `EnsureName`, an ACME order
and a store call return, with success or an error. Peers owe nothing: no fairness on
frames, proofs, hang-ups, operators or signals. `RegisterSettles` therefore leaves out the
wait for a Proof, during which no read deadline is set. In `system` the peer is the client
process, so more is fair: both programs run, what is written is read, and each end of a
connection that is gone notices it, by yamux keepalives. Faults are bounded there, so `Settles`
speaks of the time after the last one. In `edge` only the reload goroutine is fair
(`HupApplied` needs neither operator nor clients to move); in `obtain`, the steps of an
order, whose calls to the CA and the provider return and whose deadline passes, and not the
name servers.

Every property has a mutant: a plausible slip in one definition (a `reg.add` that replaces
the session it finds, a refund that skips its budget, a save that renames only the `.crt`)
with which TLC finds the property violated.

## 4. Where documentation and code differ

Each of these properties states what a document or comment of the repository says, and
TLC finds a counterexample. The first is a run, with the quotation in `findings`; the
others are defined at the end of their modules, and listing one in a configuration of its
module (`SharedNames` as `Layout` for `IndexComplete`, `MaxTime = 4`, `Stall = 0` and
`MaxKeys = 0` for `RefundKeepsBudget`, `Gated = TRUE` for `RevokedKeyHasNoSession`,
`AnsweredSpec` for `RevokedStops`, the configuration of `system` for `DeregisteredIsReleased`)
shows its counterexample. `AnsweredSpec` assumes what a client needs to hear of its revocation
at all: the network lets it through again and again, and the server answers, not always
with a rate limit.

| Property | Statement | What happens |
|---|---|---|
| `RotateReplacesProvenKey` (run `stale_rotate`) | docs/design.md:151: the proof is by the stored key | the row may have changed since it was read; `Rotate` does not compare |
| `RevokedStops` | docs/access-control.md:51: a revoked client stops | `not_authorized` is not permanent for the client |
| `DeregisteredIsReleased` | internal/tunnelclient/client.go:293: after a Deregister the row is gone | the handler of an earlier, cut connection may still be at work, and inserts it again |
| `RevokedKeyHasNoSession` | docs/access-control.md:51: a reload closes all live sessions of removed keys | a Register past the gate at the snapshot registers afterwards |
| `DeregisterReleasesOwnRow` | internal/control/proto.go:103: Deregister is verified against the stored key | it is verified against the session's key and deletes by name |
| `RefundKeepsBudget` | internal/ratelimit/limiter.go:126: refunds keep the budget arithmetic correct | the newest sample goes, the older one it stood for ages out first |
| `GivesUpAfterMaxAttempts` | internal/tunnelclient/run.go:40: `MaxAttempts` consecutive connect failures | a disconnect counts as one of them |
| `WatcherSparesSession` | internal/tunnelclient/client.go:201: the watcher leaves a returned session alone | its `select` may still take `ctx.Done()` |
| `RescanPublishesDisk` | internal/cert/manager.go:145: a rescan ends with the latest disk state | it can publish bytes that a renewal has replaced |
| `IndexComplete` | internal/cert/store.go:46: `addEntry` rebuilds the index | names shared with another entry are dropped |
| `UnprovisionedDenied` | docs/manual-certs.md:20: a label without a certificate is denied | the apex wildcard satisfies `has` |

Read off the code, without a run: `tunnel.go:594` comments that the refund still applies
to `cert not provisioned`, but that reason is permanent and never reaches a refund. `run.go:29`
says that `BackoffMax` caps the reconnect delay; the first delay is `BackoffMin` also when that
is larger, because `backoffDuration` compares only after doubling.

## 5. What is proved

Eight specifications have theorems, for every value of their constants that satisfies
the named assumptions. Each rests on one inductive invariant: the properties alone are not
inductive, and what each invariant adds is said below. TLC checked every one of the invariants
on the instances of section 3 before it was proved.

### Tunneld

For any finite `Conns`, any `Uniques`, `Keys`, `Ips` and any integer limits, with gate and
purges on or off. The assumptions are that `None` is not one of the values or records it
stands in for, that the switches are Booleans and the limits integers, and (for the counting in
`TunneldBudgets`) that there are finitely many handlers.

| Theorem (module) | States |
|---|---|
| `Invariance` (`TunneldProofs`) | `Spec => []IInv` |
| `TypeCorrect` | `TypeOK` |
| `RegistryCorrect` | `RegistryMatchesHandlers` and `IndexAgrees` |
| `RevokeCorrect` | `OnlyInFlightEscapeRevoke` |
| `CertBeforeRow` | `OwnedNameHasCert` |
| `NoStealing` | `ClaimNeverSteals` |
| `ClaimsBounded` (`TunneldBudgets`) | `ClaimBudget` |
| `AttemptsBounded` | `AttemptBudget` |
| `Implements` (`TunneldImplements`) | `Spec => ImplementsNameService` |

- That the index agrees with the map needs the registry to match the handlers (`remove`
  deletes by what its handler registered) and the handlers past the first frame to have
  a name and a key (`Authenticated`).
- That an owned name has a certificate needs a handler at `put` to have seen
  `EnsureName` succeed (`InsertsAfterCert`), and, across a restart, loaded certificates to
  be on disk unless purged (`LoadedFromFiles`).
- That only handlers in flight escape a reload needs to say, for the time before the last
  close, that everyone else with a removed key is a victim (`RevokeReaches`), and that
  victims are registered sessions (`VictimsRegistered`).

`HandlerStore` says what a handler may do to a row, `TypeStep` shows the type invariant action by
action. `ProgressShape` and `PeerShape` sort every step of a handler by what it does to the
registry: it leaves, moves on, enters `InFlight` through the gate, adds or removes. There is a
lemma for each shape (`LeavesKeeps` and so on), one for the revoker and one for the
environment; `InsertsStep` and `CertStep` do the same for rows and certificates, and
`Inductive` puts them together.

The budgets need to count what is under way. A key's rows *plus the handlers between their
sample and their row or refund* are at most the samples taken (`KeyBudget`); the Registers let
through *plus the handlers that drew on the refund budget and have yet to give the sample
back* are at most the samples of the address and of its refunds (`IpBudget`). `BudgetShape`
sorts the steps by which sample they take or give back; `OneChanges` says that a step of one
handler moves the count by at most one.

The refinement sorts a handler's steps by what of them `NameService` can see (silent, turned
away, or one of seven visible ones) and maps each kind to its abstract action or a stutter. It
needs `IInv`: `Serve`, `Leave` and `Refuse` speak of who serves a name, and only
`RegistryMatchesHandlers` ties that to where a handler is.

### TunnelSystem

`TunnelSystemProofs`, for any handlers, names, keys and addresses, any limits and any number
of faults, from the assumptions of `Tunneld`, that the client's key, label and address are
among the constants, and that no frame is `None`.

| Theorem | States |
|---|---|
| `SystemInvariance` | `SystemSpec => []SystemInv` |
| `SystemIsDaemon` | `SystemSpec => [][Next]_vars`: a step of the composition is a step of the daemon or leaves it alone |
| `ClientIsRouted` | `ServedIsRouted` |
| `ExchangeInStep` | `InStep` |
| `OwnedHasCert` | `OwnedNameHasCert` (here the daemon has run before) |
| `TakesNothingOver` | `NeverTakesOver` |

`SystemInv` is the daemon's `IInv`, preserved because of `SystemIsDaemon`, and three
facts about both programs: every handler works for this client and none is let past a
challenge for another key (`Requests`); an open connection has a handler (`Linked`); and on a
connection that neither end has closed, `Exchange` lists where client and handler are
together with the frames between them. The client's progress depends on where the handler is
and the other way round, so neither program's invariant would do alone.

### TunnelClient

`TunnelClientProofs`, for any `MaxAttempts`, any positive `BackoffMin`, `BackoffMax` and floor
in any order of size, and any hints.

| Theorem | States |
|---|---|
| `BackoffIsCappedExponential` | `backoffDuration` is `BackoffMin` first, then the exponential cut off at the cap |
| `Invariance` | `Spec => []IInv` |
| `ReturnIsClean`, `DeregisterFirst`, `GivesUpInTime`, `DelayHolds` | `CleanReturn`, `DeregisterBeforeTeardown`, `GiveUpBound`, `DelayIsRight` |
| `EventsInOrder` | `EventOrder` |

The invariant says, for each place in `Run`, which of session, watcher and `Serve` exist
(`SessionInv`), which event came last (`EventInv`), and how `attempt` and the failures count
together (`CountInv`: one apart, or two after a lost session). The backoff theorem goes by
induction over attempts, from the least attempt at which it would fail (`Least`).

### RateLimit

In `TunnelClientProofs`, which extends `RateLimit` beside the client that waits for its hints (so
the limiter's specification is `LimiterSpec`, its steps `LimiterNext`). Any keys and callers, any integers `Max` and `MaxKeys`, any window and any stall
shorter than it (`LimitAssumption`).

| Theorem | States |
|---|---|
| `HintsExact` | `RetryHintExact` |
| `MemoryBounded` | `Bounded` |
| `BudgetHolds` | `WindowBudget` |

- `trim` cuts a prefix off a list that need not be sorted, because callers reach the mutex in
  another order than they read the clock. `FreshDrops` and `FreshFacts` say what that leaves:
  everything up to the first sample that is inside the window is old, and nothing is dropped when the
  oldest entry is inside.
- A hint stays exact because the window stays as full as it was and its first sample is the
  one the hint was computed from, until that sample leaves (`Promise`, in `HintInv`).
- The cap counts keys: a new key comes in only where there is room, or where a prune or an
  eviction made some (`DomainStep`, `CapInv`).
- The budget is a statement about every moment inside the window less a stall: since then no
  more was admitted than has left a sample that young or was taken back (`Sound`, in
  `BudgetInv`). For the present window alone this is not inductive, since the window moves with the
  clock. `Recent` allows for the stall: the sample of an admission may be older than the
  admission. `BudgetShape` sorts the steps by what they do to the history and the samples of a key, and
  there is a lemma for each (`SoundTrim`, `SoundAdmit`, `SoundRefund`, `SoundForgotten`,
  `SoundAged`).

The proof is what put `Max > 0` into `WindowBudget`: with a negative `Max` the limiter admits
everything, and the bound read as arithmetic is false. The facts about sizes of finite sets
(`Counting` and what follows it) are hypotheses of the lemmas and proved from the library at the end of the module.

### CertManager and Obtain

`CertManagerProofs`: any finite set of callers, any names, any cap on orders.

| Theorem | States |
|---|---|
| `Invariance` | `Spec => []IInv` |
| `NoTokenLost`, `OneOrder`, `NilIsServed`, `MisfitExplained` | `SlotsMatchOrders`, `OneOrderPerName`, `EnsuredIsServed`, `PairsFit` |

One order per name is the singleflight invariant: a flight is led by a call that works on
its name, and a call past its second look at the disk leads the flight of its name
(`FlightInv`). That a token is never lost counts the callers in an order (`SlotStep`). A pair
that does not fit is explained by what a save finds half way through (`Halfway`): what it
wrote before, unless its name is `torn` (`SaveInv`).

`ObtainProofs`: any callers and names, any non-empty list of name servers, any number of crashes.

| Theorem | States |
|---|---|
| `Invariance` | `Spec => []IInv` |
| `AccountsMatch`, `OneAccountOnly`, `PresentWaits` | `AccountMatches`, `OneAccount`, `ValidatesFresh` |

Unless two orders raced for the first key, one order at most is making it, everyone past that
has the key that is on disk, and only that key is registered (`AccountInv`); a crash keeps this,
because the key is written before it is registered. While an order polls, its record is in
the zone and on every server it has confirmed (`DnsInv`), as long as no other order for the name
is there to take it away (`NameInv` says that such an order is in `clash`).

### CertStore

In `ObtainProofs`, which extends `CertStore` (its specification is `StoreSpec`). Any labels and ports, and any
`Layout` of the directory in which a file's certificate has at least one name.

| Theorem | States |
|---|---|
| `ServesLoaded` | `IndexSound` |
| `ShowsCovering` | `HandshakeCovered`, when no name is in two files (`NamesApart`) |

`addEntry` first removes what the index has of the certificate it replaces, then enters the
new names; `AddEntryFacts` says what that leaves, and `IndexSound` is inductive with the types of
the maps (`StoreInv`). That a handshake finds a covering certificate needs every name of every
loaded certificate to lead to it (`Indexed`), which is inductive only when no name is in two files:
otherwise the later file takes the name over, and its removal leaves the name to nobody.
`NamesApart` holds of the layouts in the run `index` and of what the certificate manager
writes, one file per host with names of that host; an operator who provisions certificates by
hand can break it.

### Edge

`EdgeProofs`, for any command lines, clients, files, bundles and integers a request
may name, from the assumptions that specs are well-formed texts and that `None` is not a
Boolean or a CA.

| Theorem | States |
|---|---|
| `EdgeInvariance` | `Spec => []EInv` |
| `PortGateHolds` | `PortGate` |
| `GuardedHolds` | `Guarded` |
| `ProxyBehindMtlsHolds` | `ProxyBehindMtls` |
| `PolicyHolds` | `PolicyMeansSpec` |
| `HupSpares` | `HupSparesListeners` |

`PolicyOfSpec` is the lemma about the parser: for every spec that is not `Malformed`, `Parse`
and `Permits` allow exactly the ports it covers. `EInv` adds to the gates what makes them
inductive: the live policy is the `PortSet` of a spec that parsed, and what the flags name is
loaded (`Booted`); SIGHUP is armed from `listen` on (`Armed`); how a connection came in is fixed by its
handshake (`CameIn`); the current answer of a gate is among the answers a waiting request has
seen (`UpToDate`). `PortGate` then follows when `route` decides, because the answer it
acts on is one of those.

### Only model-checked

The liveness properties: `ClosedHandlerReturns`, `RegisterSettles`, `Settles`, `HupApplied`,
`ObtainReturns`, `StopsOnCancel`, `EnsureReturns`. Fairness and `ENABLED` are beyond the prover.
Every other property of a passing run is stated by a theorem above.

## 6. Not modelled

- Data plane: the reverse proxy and stream copying, identity headers; bytes and deadlines of
  `net/http`; the splitting of host names.
- Frame encoding and limits (`internal/control`), cryptography, certificate generation
  (`internal/mtls/ca.go`, `subcmds.go`): conversions without shared state.
- The client's identity file: one read or one write at start. A crash inside the write leaves
  a file no later start parses; there is no second actor to interleave with.
- The client's flags, version, sub-command output: one-shot code.
- The DNS wildcard probe: it only logs.
- The fake server and the echo example: not part of the running system.

## 7. Running

In this directory, for a run `R` of module `M`:

    tlc -workers 2 -config M_R.cfg M        # e.g. MCTunneld_safety.cfg MCTunneld

Each of the modules with proofs is checked alone, in one to five minutes (ten for
`TunnelClientProofs`, which also has those of `RateLimit`):

    tlapm TunneldProofs.tla                 # likewise TunneldBudgets, TunneldImplements,
                                            # TunnelSystemProofs, TunnelClientProofs,
                                            # CertManagerProofs, ObtainProofs, EdgeProofs
