------------------------------- MODULE Obtain -------------------------------
(***************************************************************************)
(* What one obtain() of the ACME manager does before it has a certificate: *)
(* the account key and account.json, which are written in place, and the   *)
(* DNS-01 challenge, whose Present waits until every authoritative name    *)
(* server shows the record.  CertManager has what comes before and after.  *)
(*                                                                         *)
(* A key is the number of its generation, and a registration is the number *)
(* of the key it was made with.  The TXT value of an order is the actor    *)
(* that placed it: values of earlier orders never match again.             *)
(***************************************************************************)
EXTENDS Integers, Sequences

CONSTANTS
  Callers,    \* leaders of EnsureName flights; at boot one of them is Ensure
  Loners,     \* the renewer, which orders outside any flight (so does a run
              \* of --ensure-cert)
  Names,      \* base names, each with its own challenge FQDN
  Servers,    \* the sequence of authoritative name servers LookupNS returns
  MaxCrashes, \* bound: crashes
  Absent,     \* no such file, no key, no registration, no name
  Torn        \* a file that was truncated and not written to its end

ASSUME ServersAssumption == Servers \in Seq(STRING) /\ Servers # <<>>

ASSUME ValueAssumption ==
  /\ Absent \notin Nat \cup Names /\ Torn \notin Nat /\ Absent # Torn
  /\ MaxCrashes \in Nat

NameServers == {Servers[i] : i \in 1 .. Len(Servers)}

VARIABLES
  up,         \* the daemon has passed Ensure
  keyFile,    \* account.key
  metaFile,   \* account.json
  accounts,   \* accounts the CA has, by key
  keys,       \* keys generated so far
  pc,         \* where each obtain is
  name,       \* the name it is for
  user,       \* acmeUser: its key and its registration
  server,     \* how many name servers have confirmed
  failed,     \* the order has failed; what remains is CleanUp
  zone,       \* TXT values the DNS provider has for each name
  served,     \* TXT values each name server answers with
  raced,      \* history: two obtains found no key at the same time
  clash,      \* history: orders that overlapped another for the same name
  crashes     \* bound: crashes so far

accountVars == <<keyFile, metaFile, accounts, keys, raced>>
dnsVars == <<zone, served>>
orderVars == <<name, user, server, failed, clash>>
vars == <<up, accountVars, pc, orderVars, dnsVars, crashes>>

Actors == Callers \cup Loners

NoUser == [key |-> Absent, reg |-> Absent]

Goto(a, to) == pc' = [pc EXCEPT ![a] = to]

Ready(a, at) == pc[a] = at /\ UNCHANGED <<up, crashes>>

KeepOrder == UNCHANGED <<name, user, server, failed, clash>>

\* obtain returns an error before any record was written; at boot it is an
\* os.Exit, and a later start tries again.
Fail(a) ==
  /\ Goto(a, "idle")
  /\ name' = [name EXCEPT ![a] = Absent]
  /\ user' = [user EXCEPT ![a] = NoUser]
  /\ clash' = clash \ {a}
  /\ UNCHANGED <<server, failed>>

----------------------------------------------------------------------------
(* Who orders.                                                             *)

\* Before Ensure has returned nothing else runs; a flight has one leader.
MayStart(a, n) ==
  /\ ~up => a \in Callers /\ \A b \in Actors : pc[b] = "idle"
  /\ a \in Callers => \A b \in Callers : name[b] # n

Start(a, n) ==
  /\ Ready(a, "idle") /\ MayStart(a, n)
  /\ Goto(a, "readKey")
  /\ name' = [name EXCEPT ![a] = n]
  /\ LET rivals == {b \in Actors : name[b] = n} IN
     clash' = IF rivals = {} THEN clash ELSE clash \cup rivals \cup {a}
  /\ UNCHANGED <<accountVars, user, server, failed, dnsVars>>

----------------------------------------------------------------------------
(* loadOrCreateUser and saveUser.                                          *)

\* Mutant: a boot that finds no registration starts over with a new key.
MutReadKey(a) ==
  /\ Ready(a, "readKey")
  /\ LET over == keyFile = Absent \/ (~up /\ metaFile = Absent) IN
     \/ over /\ Goto(a, "makeKey") /\ KeepOrder
     \/ keyFile = Torn /\ ~over /\ Fail(a)
     \/ /\ keyFile # Torn /\ ~over
        /\ user' = [user EXCEPT ![a].key = keyFile]
        /\ Goto(a, "readMeta")
        /\ UNCHANGED <<name, server, failed, clash>>
  /\ raced' = (raced \/ (keyFile = Absent /\ \E b \in Actors \ {a} : pc[b] = "makeKey"))
  /\ UNCHANGED <<keyFile, metaFile, accounts, keys, dnsVars>>

\* The key on disk is used; a key that does not parse is an error.
ReadKey(a) ==
  /\ Ready(a, "readKey")
  /\ \/ keyFile = Absent /\ Goto(a, "makeKey") /\ KeepOrder
     \/ keyFile = Torn /\ Fail(a)
     \/ /\ keyFile \notin {Absent, Torn}
        /\ user' = [user EXCEPT ![a].key = keyFile]
        /\ Goto(a, "readMeta")
        /\ UNCHANGED <<name, server, failed, clash>>
  /\ raced' = (raced \/ (keyFile = Absent /\ \E b \in Actors \ {a} : pc[b] = "makeKey"))
  /\ UNCHANGED <<keyFile, metaFile, accounts, keys, dnsVars>>

\* ecdsa.GenerateKey; os.WriteFile opens the file with O_TRUNC ...
MakeKey(a) ==
  /\ Ready(a, "makeKey")
  /\ keys' = keys + 1
  /\ keyFile' = Torn
  /\ user' = [user EXCEPT ![a].key = keys + 1]
  /\ Goto(a, "writeKey")
  /\ UNCHANGED <<metaFile, accounts, raced, name, server, failed, clash, dnsVars>>

\* Mutant: the error of os.WriteFile is not looked at.
MutWriteKey(a) ==
  /\ Ready(a, "writeKey")
  /\ keyFile' \in {user[a].key, keyFile}
  /\ Goto(a, "readMeta")
  /\ KeepOrder /\ UNCHANGED <<metaFile, accounts, keys, raced, dnsVars>>

\* ... and writes it, or fails with what is there by then.
WriteKey(a) ==
  /\ Ready(a, "writeKey")
  /\ \/ keyFile' = user[a].key /\ Goto(a, "readMeta") /\ KeepOrder
     \/ UNCHANGED keyFile /\ Fail(a)
  /\ UNCHANGED <<metaFile, accounts, keys, raced, dnsVars>>

\* Without account.json the account is to be registered; one that does not
\* parse is an error.  lego's client and the DNS provider are set up, too.
ReadMeta(a) ==
  /\ Ready(a, "readMeta")
  /\ \/ Fail(a)
     \/ metaFile = Absent /\ Goto(a, "register") /\ KeepOrder
     \/ /\ metaFile \notin {Absent, Torn}
        /\ user' = [user EXCEPT ![a].reg = metaFile]
        /\ Goto(a, "order")
        /\ UNCHANGED <<name, server, failed, clash>>
  /\ UNCHANGED <<accountVars, dnsVars>>

\* Registration.Register: a key the CA knows gets the account it has.
Register(a) ==
  /\ Ready(a, "register")
  /\ \/ /\ accounts' = accounts \cup {user[a].key}
        /\ user' = [user EXCEPT ![a].reg = user[a].key]
        /\ Goto(a, "saveUser")
        /\ UNCHANGED <<name, server, failed, clash>>
     \/ UNCHANGED accounts /\ Fail(a)
  /\ UNCHANGED <<keyFile, metaFile, keys, raced, dnsVars>>

\* saveUser: os.WriteFile truncates account.json ...
SaveUser(a) ==
  /\ Ready(a, "saveUser")
  /\ metaFile' = Torn
  /\ Goto(a, "writeMeta")
  /\ KeepOrder /\ UNCHANGED <<keyFile, accounts, keys, raced, dnsVars>>

\* ... and writes it, or fails.
WriteMeta(a) ==
  /\ Ready(a, "writeMeta")
  /\ \/ metaFile' = user[a].reg /\ Goto(a, "order") /\ KeepOrder
     \/ UNCHANGED metaFile /\ Fail(a)
  /\ UNCHANGED <<keyFile, accounts, keys, raced, dnsVars>>

----------------------------------------------------------------------------
(* Certificate.Obtain: the order and its DNS-01 challenge.                 *)

\* The CA takes an order signed by the key of the account it names, within its
\* limits.
Order(a) ==
  /\ Ready(a, "order")
  /\ \/ Fail(a)
     \/ user[a].key = user[a].reg /\ Goto(a, "present") /\ KeepOrder
  /\ UNCHANGED <<accountVars, dnsVars>>

\* An order that has failed still runs CleanUp.
Abandon(a) ==
  /\ Goto(a, "cleanUp")
  /\ failed' = [failed EXCEPT ![a] = TRUE]
  /\ UNCHANGED <<name, user, server, clash>>

\* Present: the inner provider writes the record, or fails; LookupNS lists the
\* name servers, or fails.
Present(a) ==
  /\ Ready(a, "present")
  /\ \/ /\ zone' = [zone EXCEPT ![name[a]] = @ \cup {a}]
        /\ Goto(a, "poll")
        /\ server' = [server EXCEPT ![a] = 0]
        /\ UNCHANGED <<name, user, failed, clash>>
     \/ zone' \in {zone, [zone EXCEPT ![name[a]] = @ \cup {a}]} /\ Abandon(a)
  /\ UNCHANGED <<accountVars, served>>

\* Mutant: waitAuthoritative is content with the first name server.
MutPoll(a) ==
  /\ Ready(a, "poll")
  /\ a \in served[Servers[server[a] + 1]][name[a]]
  /\ server' = [server EXCEPT ![a] = @ + 1]
  /\ Goto(a, "validate")
  /\ UNCHANGED <<accountVars, name, user, failed, clash, dnsVars>>

\* waitOneNS sees the value on the server it is at, and the next one's turn
\* comes; a query that does not show it is tried again.
Poll(a) ==
  /\ Ready(a, "poll")
  /\ a \in served[Servers[server[a] + 1]][name[a]]
  /\ server' = [server EXCEPT ![a] = @ + 1]
  /\ Goto(a, IF server[a] + 1 = Len(Servers) THEN "validate" ELSE "poll")
  /\ UNCHANGED <<accountVars, name, user, failed, clash, dnsVars>>

\* Mutant: waitOneNS goes on polling when ctx is done.
MutDeadline(a) == FALSE

\* The one deadline waitAuthoritative sets for all servers passes.
Deadline(a) == Ready(a, "poll") /\ Abandon(a) /\ UNCHANGED <<accountVars, dnsVars>>

\* The CA asks one of the name servers.
Validate(a) ==
  /\ Ready(a, "validate")
  /\ \E i \in 1 .. Len(Servers) :
       \/ a \in served[Servers[i]][name[a]] /\ Goto(a, "cleanUp") /\ KeepOrder
       \/ a \notin served[Servers[i]][name[a]] /\ Abandon(a)
  /\ UNCHANGED <<accountVars, dnsVars>>

\* The provider deletes the TXT records of the FQDN, whoever wrote them, or
\* fails.  Then obtain returns; at boot with a certificate Ensure does, too.
CleanUp(a) ==
  /\ pc[a] = "cleanUp"
  /\ zone' \in {[zone EXCEPT ![name[a]] = {}], [zone EXCEPT ![name[a]] = @ \ {a}]}
  /\ served' = [s \in DOMAIN served |-> [served[s] EXCEPT ![name[a]] = @ \ {a}]]
  /\ up' = (up \/ ~failed[a])
  /\ failed' = [failed EXCEPT ![a] = FALSE]
  /\ user' = [user EXCEPT ![a] = NoUser]
  /\ server' = [server EXCEPT ![a] = 0]
  /\ name' = [name EXCEPT ![a] = Absent]
  /\ clash' = clash \ {a}
  /\ Goto(a, "idle")
  /\ UNCHANGED <<accountVars, crashes>>

----------------------------------------------------------------------------
(* DNS, boot and crashes.                                                  *)

\* A name server takes over what the provider has.
Sync(s, n) ==
  /\ served[s][n] # zone[n]
  /\ served' = [served EXCEPT ![s][n] = zone[n]]
  /\ UNCHANGED <<up, accountVars, pc, orderVars, zone, crashes>>

\* The process dies and is started again; fresh says whether Ensure then finds
\* the apex certificate of an earlier boot fresh.  No record of an earlier
\* order matches again.
Crash(fresh) ==
  /\ crashes < MaxCrashes /\ (fresh => up)
  /\ crashes' = crashes + 1
  /\ up' = fresh
  /\ pc' = [a \in Actors |-> "idle"]
  /\ user' = [a \in Actors |-> NoUser]
  /\ server' = [a \in Actors |-> 0]
  /\ failed' = [a \in Actors |-> FALSE]
  /\ clash' = {}
  /\ zone' = [n \in Names |-> {}]
  /\ served' = [s \in DOMAIN served |-> [n \in Names |-> {}]]
  /\ name' = [a \in Actors |-> Absent]
  /\ UNCHANGED accountVars

\* A fresh state directory, or a fresh account directory (it is named after the
\* CA and the email) beside a certificate the daemon already has.
Init ==
  /\ up \in BOOLEAN
  /\ keyFile = Absent /\ metaFile = Absent /\ accounts = {} /\ keys = 0
  /\ pc = [a \in Actors |-> "idle"]
  /\ name = [a \in Actors |-> Absent]
  /\ user = [a \in Actors |-> NoUser]
  /\ server = [a \in Actors |-> 0]
  /\ failed = [a \in Actors |-> FALSE]
  /\ zone = [n \in Names |-> {}]
  /\ served = [s \in NameServers |-> [n \in Names |-> {}]]
  /\ raced = FALSE /\ clash = {} /\ crashes = 0

Work(a) ==
  \/ ReadKey(a) \/ MakeKey(a) \/ WriteKey(a) \/ ReadMeta(a) \/ Register(a)
  \/ SaveUser(a) \/ WriteMeta(a) \/ Order(a) \/ Present(a) \/ Poll(a) \/ Deadline(a)
  \/ Validate(a) \/ CleanUp(a)

Next ==
  \/ \E a \in Actors : Work(a) \/ \E n \in Names : Start(a, n)
  \/ \E s \in DOMAIN served, n \in Names : Sync(s, n)
  \/ \E fresh \in BOOLEAN : Crash(fresh)

Spec == Init /\ [][Next]_vars

\* Goroutines are scheduled, calls to the CA and the provider return, and a
\* deadline passes; name servers owe nothing.
FairSpec == Spec /\ \A a \in Actors : WF_vars(Work(a))

----------------------------------------------------------------------------
(* Properties.                                                             *)

\* Every variable keeps its shape; in particular a file cut short never passes
\* for a key or a registration (loadOrCreateUser).
TypeOK ==
  LET Ids == 1 .. keys IN
  /\ up \in BOOLEAN /\ raced \in BOOLEAN /\ crashes \in 0 .. MaxCrashes
  /\ {keyFile, metaFile} \subseteq Ids \cup {Absent, Torn}
  /\ accounts \subseteq Ids /\ keys \in Nat
  /\ pc \in [Actors -> {"idle", "readKey", "makeKey", "writeKey", "readMeta", "register",
                       "saveUser", "writeMeta", "order", "present", "poll", "validate",
                       "cleanUp"}]
  /\ name \in [Actors -> Names \cup {Absent}]
  /\ user \in [Actors -> [key : Ids \cup {Absent}, reg : Ids \cup {Absent}]]
  /\ server \in [Actors -> 0 .. Len(Servers)] /\ failed \in [Actors -> BOOLEAN]
  /\ zone \in [Names -> SUBSET Actors]
  /\ served \in [NameServers -> [Names -> SUBSET Actors]]
  /\ clash \subseteq Actors

\* account.key and account.json belong together, and so do the key and the
\* registration an order goes out with, whatever crashes and failed writes
\* interrupt loadOrCreateUser and saveUser.  Two obtains that both found no
\* key are the one exception.
AccountMatches ==
  ~raced =>
    /\ metaFile \in {Absent, Torn, keyFile}
    /\ \A a \in Actors : pc[a] \in {"order", "present"} => user[a].reg = user[a].key

\* The CA ever sees one account: a key is on disk before it is registered, so
\* a daemon that dies in between registers the same key again.
OneAccount == ~raced => \A k, l \in accounts : k = l

\* "we only return from Present when every authoritative NS for the apex
\* returns the TXT we just wrote": when the CA is told to validate, every name
\* server answers with the value.  Another order for the same name, whose
\* CleanUp takes the record away, is the one exception.
ValidatesFresh ==
  \A a \in Actors : pc[a] = "validate" /\ a \notin clash =>
    \A s \in DOMAIN served : a \in served[s][name[a]]

\* Every obtain returns, and with it the order slot and the flight: a name
\* server that never shows the record holds Present up only to the deadline.
ObtainReturns == \A a \in Actors : pc[a] # "idle" ~> pc[a] = "idle"
=============================================================================
