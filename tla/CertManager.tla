---------------------------- MODULE CertManager ----------------------------
(***************************************************************************)
(* The ACME certificate manager: EnsureName calls from Register handlers,  *)
(* coalesced per name and capped in number, the daily renewal pass, the    *)
(* SIGHUP rescan of the certificate directory, and crashes between the     *)
(* renames that put a new certificate and its key on disk.                 *)
(*                                                                         *)
(* A certificate is the number of the order that issued it; a .crt and a   *)
(* .key file fit together when they hold the same number.                  *)
(***************************************************************************)
EXTENDS Integers, FiniteSets

CONSTANTS
  Callers,   \* concurrent EnsureName calls
  Names,     \* base names
  Slots,     \* SetOrderLimit's concurrent; <= 0 is no cap
  MaxOrders, \* bound: certificates ever issued
  None

ASSUME CertAssumption ==
  /\ Slots \in Int /\ MaxOrders \in Nat
  /\ IsFiniteSet(Callers)
  /\ None \notin Callers \cup Names \cup {"renewer", "loader"}
  /\ {"renewer", "loader"} \cap Callers = {}

VARIABLES
  pc,      \* where each call, the renewer and the loader are
  name,    \* the name each of them is at
  got,     \* the certificate it holds
  todo,    \* entries the renewer and the loader have yet to look at
  files,   \* what is under the .crt and .key paths, 0 when nothing is
  tmp,     \* what is under their .tmp paths
  table,   \* certStore.entries, 0 when the name has none
  flight,  \* issueGroup: the leader of each name's flight
  slots,   \* tokens in orderSlots
  issued,  \* orders the CA has completed
  due,     \* certificates within renewBefore of their expiry
  torn     \* history: names with a save cut short or overlapped

diskVars == <<files, tmp>>
caVars == <<issued, due>>
vars == <<pc, name, got, todo, diskVars, table, flight, slots, caVars, torn>>

Actors == Callers \cup {"renewer", "loader"}

\* saveResource: the .crt file, then the .key file, each written to its .tmp
\* path and moved; after that the certificate goes into the table.
Step == [crt |-> [write |-> "writeCrt", move |-> "moveCrt", next |-> "writeKey"],
         key |-> [write |-> "writeKey", move |-> "moveKey", next |-> "serve"]]

Saving == {Step[f].write : f \in DOMAIN Step} \cup {Step[f].move : f \in DOMAIN Step}

\* Inside the flight, with a token of orderSlots.
Ordering == {"limit", "obtain", "serve"} \cup Saving

Rest == {"idle", "ok", "err"}

Goto(a, to) == pc' = [pc EXCEPT ![a] = to]

Leads(a) == \E n \in Names : flight[n] = a

HoldsSlot(a) == Slots > 0 /\ a \in Callers /\ pc[a] \in Ordering

Pair(n) == files["crt"][n] = files["key"][n]

\* Mutant: an order that failed keeps its token.
MutExit(a, r) ==
  /\ pc' = [b \in Actors |->
              IF b = a THEN IF a \in Callers THEN r ELSE "scan"
              ELSE IF Leads(a) /\ pc[b] = "join" /\ name[b] = name[a] THEN r
              ELSE pc[b]]
  /\ flight' = [n \in Names |-> IF flight[n] = a THEN None ELSE flight[n]]
  /\ slots' = IF HoldsSlot(a) /\ r = "ok" THEN slots - 1 ELSE slots
  /\ got' = [got EXCEPT ![a] = 0]

\* Mutant: callers that joined the flight are not woken.
MutExitAlone(a, r) ==
  /\ Goto(a, IF a \in Callers THEN r ELSE "scan")
  /\ flight' = [n \in Names |-> IF flight[n] = a THEN None ELSE flight[n]]
  /\ slots' = IF HoldsSlot(a) THEN slots - 1 ELSE slots
  /\ got' = [got EXCEPT ![a] = 0]

\* An actor is done with its name.  A call returns r; the leader of a flight
\* gives its token back, ends the flight and hands r to whoever joined it.
\* The renewer and the loader log an error and go on to the next name.
Exit(a, r) ==
  /\ pc' = [b \in Actors |->
              IF b = a THEN IF a \in Callers THEN r ELSE "scan"
              ELSE IF Leads(a) /\ pc[b] = "join" /\ name[b] = name[a] THEN r
              ELSE pc[b]]
  /\ flight' = [n \in Names |-> IF flight[n] = a THEN None ELSE flight[n]]
  /\ slots' = IF HoldsSlot(a) THEN slots - 1 ELSE slots
  /\ got' = [got EXCEPT ![a] = 0]

----------------------------------------------------------------------------
(* Reading a pair: loadCertFile, which reads two files one after the other.*)

ReadCrt(a) ==
  /\ pc[a] = "readCrt"
  /\ got' = [got EXCEPT ![a] = files["crt"][name[a]]]
  /\ Goto(a, "readKey")
  /\ UNCHANGED <<name, todo, diskVars, table, flight, slots, caVars, torn>>

\* What follows depends on who reads: a call takes a fresh pair, and turns to
\* the flight or, in the flight, to the CA when there is none; the loader takes
\* any pair that fits.
ReadKey(a) ==
  /\ pc[a] = "readKey"
  /\ LET fits == got[a] = files["key"][name[a]]
         takes == got[a] # 0 /\ fits /\ (a \in Callers => got[a] \notin due) IN
     \/ /\ takes
        /\ Goto(a, "publish")
        /\ UNCHANGED <<got, flight, slots>>
     \/ /\ a \in Callers /\ ~takes /\ (got[a] = 0 \/ fits)
        /\ Goto(a, IF Leads(a) THEN "slot" ELSE "flight")
        /\ got' = [got EXCEPT ![a] = 0]
        /\ UNCHANGED <<flight, slots>>
     \/ /\ IF got[a] = 0 THEN a = "loader" ELSE ~fits
        /\ Exit(a, "err")
  /\ UNCHANGED <<name, todo, diskVars, table, caVars, torn>>

\* Mutant: the fast path forgets store.addEntry.
MutPublish(a) ==
  /\ pc[a] \in {"publish", "serve"}
  /\ table' = IF pc[a] = "publish" THEN table ELSE [table EXCEPT ![name[a]] = got[a]]
  /\ Exit(a, "ok")
  /\ UNCHANGED <<name, todo, diskVars, caVars, torn>>

\* store.addEntry, after a read or after an order.
Publish(a) ==
  /\ pc[a] \in {"publish", "serve"}
  /\ table' = [table EXCEPT ![name[a]] = got[a]]
  /\ Exit(a, "ok")
  /\ UNCHANGED <<name, todo, diskVars, caVars, torn>>

----------------------------------------------------------------------------
(* EnsureName.                                                             *)

EnsureName(c, n) ==
  /\ pc[c] \in Rest
  /\ name' = [name EXCEPT ![c] = n]
  /\ Goto(c, "readCrt")
  /\ UNCHANGED <<got, todo, diskVars, table, flight, slots, caVars, torn>>

\* Mutant: every call is a flight of its own.
MutFlight(c) ==
  /\ pc[c] = "flight"
  /\ flight' = [flight EXCEPT ![name[c]] = c]
  /\ Goto(c, "readCrt")
  /\ UNCHANGED <<name, got, todo, diskVars, table, slots, caVars, torn>>

\* issueGroup.Do: the first caller leads, the others wait for its result.
Flight(c) ==
  /\ pc[c] = "flight"
  /\ LET n == name[c] IN
     \/ /\ flight[n] = None
        /\ flight' = [flight EXCEPT ![n] = c]
        /\ Goto(c, "readCrt")
     \/ /\ flight[n] # None
        /\ Goto(c, "join")
        /\ UNCHANGED flight
  /\ UNCHANGED <<name, got, todo, diskVars, table, slots, caVars, torn>>

\* A token of orderSlots, or ErrOrderLimit at once.
TakeSlot(c) ==
  /\ pc[c] = "slot"
  /\ \/ /\ Slots <= 0 \/ slots < Slots
        /\ slots' = IF Slots > 0 THEN slots + 1 ELSE slots
        /\ Goto(c, "limit")
        /\ UNCHANGED <<got, flight>>
     \/ /\ Slots > 0 /\ slots >= Slots
        /\ Exit(c, "err")
  /\ UNCHANGED <<name, todo, diskVars, table, caVars, torn>>

\* orderLimit.Allow("global") admits the order, or ErrOrderLimit.
OrderLimit(c) ==
  /\ pc[c] = "limit"
  /\ \/ /\ Goto(c, "obtain")
        /\ UNCHANGED <<got, flight, slots>>
     \/ Exit(c, "err")
  /\ UNCHANGED <<name, todo, diskVars, table, caVars, torn>>

----------------------------------------------------------------------------
(* obtain, for a flight's leader or for the renewer.                       *)

\* The account is loaded, the DNS-01 challenge answered, the CA issues.
ObtainOK(a) ==
  /\ pc[a] = "obtain" /\ issued < MaxOrders
  /\ issued' = issued + 1
  /\ got' = [got EXCEPT ![a] = issued + 1]
  /\ Goto(a, Step.crt.write)
  /\ torn' = IF \E b \in Actors \ {a} : pc[b] \in Saving /\ name[b] = name[a]
             THEN torn \cup {name[a]} ELSE torn
  /\ UNCHANGED <<name, todo, diskVars, table, flight, slots, due>>

ObtainFails(a) ==
  /\ pc[a] = "obtain"
  /\ Exit(a, "err")
  /\ UNCHANGED <<name, todo, diskVars, table, caVars, torn>>

\* writeAtomic: os.WriteFile to path.tmp ...
WriteTmp(a, f) ==
  /\ pc[a] = Step[f].write
  /\ tmp' = [tmp EXCEPT ![f][name[a]] = got[a]]
  /\ Goto(a, Step[f].move)
  /\ UNCHANGED <<name, got, todo, files, table, flight, slots, caVars, torn>>

\* Mutant: the key file is never moved into place.
MutMove(a, f) ==
  /\ pc[a] = Step[f].move
  /\ files' = IF f = "crt" THEN [files EXCEPT ![f][name[a]] = tmp[f][name[a]]] ELSE files
  /\ tmp' = [tmp EXCEPT ![f][name[a]] = 0]
  /\ Goto(a, Step[f].next)
  /\ UNCHANGED <<name, got, todo, table, flight, slots, caVars, torn>>

\* ... and os.Rename, of whatever is there by now.
Move(a, f) ==
  /\ pc[a] = Step[f].move
  /\ LET n == name[a] IN
     \/ /\ tmp[f][n] # 0
        /\ files' = [files EXCEPT ![f][n] = tmp[f][n]]
        /\ tmp' = [tmp EXCEPT ![f][n] = 0]
        /\ Goto(a, Step[f].next)
        /\ UNCHANGED <<got, flight, slots>>
     \/ /\ tmp[f][n] = 0
        /\ Exit(a, "err")
        /\ UNCHANGED diskVars
  /\ UNCHANGED <<name, todo, table, caVars, torn>>

\* One of the four file operations fails: "save cert", and what was moved
\* before stays.
SaveFails(a) ==
  /\ pc[a] \in Saving
  /\ torn' = IF Pair(name[a]) THEN torn ELSE torn \cup {name[a]}
  /\ Exit(a, "err")
  /\ UNCHANGED <<name, todo, diskVars, table, caVars>>

----------------------------------------------------------------------------
(* checkAndRenew and loadAllFromDir.                                       *)

\* Every 24 hours: store.snapshot().
Renew ==
  /\ pc["renewer"] = "idle"
  /\ todo' = [todo EXCEPT !["renewer"] = {<<n, table[n]>> : n \in {m \in Names : table[m] # 0}}]
  /\ Goto("renewer", "scan")
  /\ UNCHANGED <<name, got, diskVars, table, flight, slots, caVars, torn>>

\* SIGHUP: the .crt files of the directory.
Rescan ==
  /\ pc["loader"] = "idle"
  /\ todo' = [todo EXCEPT !["loader"] = {<<n, 0>> : n \in {m \in Names : files["crt"][m] # 0}}]
  /\ Goto("loader", "scan")
  /\ UNCHANGED <<name, got, diskVars, table, flight, slots, caVars, torn>>

\* The next entry of the pass, or its end.  The renewer passes over those that
\* are not due.
Scan(a) ==
  /\ pc[a] = "scan"
  /\ \/ \E e \in todo[a] :
          /\ name' = [name EXCEPT ![a] = e[1]]
          /\ todo' = [todo EXCEPT ![a] = @ \ {e}]
          /\ Goto(a, IF a = "loader" THEN "readCrt"
                     ELSE IF e[2] \in due THEN "obtain" ELSE "scan")
     \/ /\ todo[a] = {}
        /\ name' = [name EXCEPT ![a] = None]
        /\ Goto(a, "idle")
        /\ UNCHANGED todo
  /\ UNCHANGED <<got, diskVars, table, flight, slots, caVars, torn>>

----------------------------------------------------------------------------
(* Time and crashes.                                                       *)

\* A certificate comes within renewBefore of its expiry.
Age(g) ==
  /\ g \in 1 .. issued /\ g \notin due
  /\ due' = due \cup {g}
  /\ UNCHANGED <<pc, name, got, todo, diskVars, table, flight, slots, issued, torn>>

\* The daemon stops at any point; at boot LoadAllFromDisk loads every pair
\* that fits.
Restart ==
  /\ pc' = [a \in Actors |-> "idle"]
  /\ name' = [a \in Actors |-> None]
  /\ got' = [a \in Actors |-> 0]
  /\ todo' = [a \in Actors |-> {}]
  /\ table' = [n \in Names |-> IF Pair(n) THEN files["crt"][n] ELSE 0]
  /\ flight' = [n \in Names |-> None]
  /\ slots' = 0
  /\ torn' = torn \cup {n \in Names : ~Pair(n)}
  /\ UNCHANGED <<diskVars, caVars>>

----------------------------------------------------------------------------

Init ==
  /\ pc = [a \in Actors |-> "idle"]
  /\ name = [a \in Actors |-> None]
  /\ got = [a \in Actors |-> 0]
  /\ todo = [a \in Actors |-> {}]
  /\ files = [f \in DOMAIN Step |-> [n \in Names |-> 0]]
  /\ tmp = [f \in DOMAIN Step |-> [n \in Names |-> 0]]
  /\ table = [n \in Names |-> 0]
  /\ flight = [n \in Names |-> None]
  /\ slots = 0
  /\ issued = 0
  /\ due = {}
  /\ torn = {}

\* What an actor does once it has begun.
Work(a) ==
  \/ ReadCrt(a) \/ ReadKey(a) \/ Publish(a)
  \/ Flight(a) \/ TakeSlot(a) \/ OrderLimit(a)
  \/ ObtainOK(a) \/ ObtainFails(a) \/ SaveFails(a) \/ Scan(a)
  \/ \E f \in DOMAIN Step : WriteTmp(a, f) \/ Move(a, f)

Next ==
  \/ \E a \in Actors : Work(a)
  \/ \E c \in Callers, n \in Names : EnsureName(c, n)
  \/ Renew \/ Rescan \/ Restart
  \/ \E g \in 1 .. MaxOrders : Age(g)

Spec == Init /\ [][Next]_vars

\* Every goroutine is scheduled, and an order ends one way or the other.
FairSpec == Spec /\ \A a \in Actors : WF_vars(Work(a))

----------------------------------------------------------------------------
(* Properties.                                                             *)

Certs == 0 .. MaxOrders

\* Every variable keeps its shape; in particular a missing file never reads as
\* a certificate, and only a caller leads a flight (issueGroup).
TypeOK ==
  /\ pc \in [Actors -> Rest \cup Ordering \cup {"readCrt", "readKey", "publish",
                                                "flight", "join", "slot", "scan"}]
  /\ name \in [Actors -> Names \cup {None}]
  /\ got \in [Actors -> Certs]
  /\ todo \in [Actors -> SUBSET (Names \X Certs)]
  /\ files \in [{"crt", "key"} -> [Names -> Certs]]
  /\ tmp \in [{"crt", "key"} -> [Names -> Certs]]
  /\ table \in [Names -> Certs]
  /\ flight \in [Names -> Callers \cup {None}]
  /\ slots \in Nat
  /\ issued \in Certs /\ due \subseteq Certs
  /\ torn \subseteq Names

\* EnsureName returns nil, to the leader of a flight and to those who joined
\* it, only when the table has a certificate for the name: handleRegister
\* inserts the row on the strength of it.
EnsuredIsServed ==
  \A c \in Callers : pc[c] = "ok" => table[name[c]] # 0

\* "retries during in-flight cert issuance don't fire parallel ACME flows":
\* two calls never have orders for one name at once.
OneOrderPerName ==
  \A c, d \in Callers :
    pc[c] \in Ordering /\ pc[d] \in Ordering /\ name[c] = name[d] => c = d

\* The tokens out are those of the orders running: none is lost on an error
\* path, which would refuse every order from then on, and the cap holds.
SlotsMatchOrders ==
  Slots > 0 =>
    /\ slots = Cardinality({c \in Callers : pc[c] \in Ordering})
    /\ slots <= Slots

\* A .crt and a .key on disk that do not fit together are being written right
\* now, or come from a save that was cut short or that overlapped another.
PairsFit ==
  \A n \in Names :
    \/ Pair(n) \/ n \in torn
    \/ \E a \in Actors : pc[a] \in Saving /\ name[a] = n

\* Every EnsureName call returns; a caller that joined a flight is not left
\* waiting when the leader fails.
EnsureReturns == \A c \in Callers : pc[c] \notin Rest ~> pc[c] \in Rest

----------------------------------------------------------------------------
(* What a comment says, and the code does not ensure.                      *)

\* manager.go: LoadAllFromDisk overwrites "certs already loaded ... with the
\* latest disk state", so an entry that already has the disk's certificate
\* still has it after a rescan.
RescanPublishesDisk ==
  [][pc["loader"] = "publish" /\ pc'["loader"] = "scan" =>
       LET n == name["loader"] IN
       Pair(n) /\ table[n] = files["crt"][n] => table'[n] = files["crt"][n]]_vars
=============================================================================
