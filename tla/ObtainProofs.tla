---------------------------- MODULE ObtainProofs ----------------------------
(***************************************************************************)
(* Proofs about Obtain, for any number of orders, names, authoritative     *)
(* name servers and crashes: the account key and the registration belong   *)
(* together, the CA sees one account, and a challenge is handed to the CA  *)
(* only when every name server answers it.                                 *)
(*                                                                         *)
(* The last part is about CertStore, the table the certificates are served *)
(* from: any labels, any certificates, any order of scans and replacements.*)
(***************************************************************************)
EXTENDS Obtain, CertStore, TLAPS

\* A leaf may take the SMT solver a minute; Zenon tries what it leaves.
USE SMTT(60), Zenon

----------------------------------------------------------------------------
(* The inductive invariant.                                                *)

Making == {"makeKey", "writeKey"}

Registered == {"saveUser", "writeMeta", "order", "present"}

PastKey == {"readMeta", "register"} \cup Registered

\* Unless two orders found no key at the same time, one order at most is
\* making the key, everyone past that has the key on disk, and what is
\* registered is that key.
AccountInv ==
  /\ metaFile \in {Absent, Torn, keyFile}
  /\ accounts \subseteq {keyFile}
  /\ \A a, b \in Actors : pc[a] \in Making /\ pc[b] \in Making => a = b
  /\ \A a \in Actors : pc[a] = "makeKey" => keyFile = Absent
  /\ \A a \in Actors : pc[a] = "writeKey" => keyFile = Torn
  /\ \A a \in Actors : pc[a] \in PastKey => keyFile \in Nat /\ user[a].key = keyFile
  /\ \A a \in Actors : pc[a] \in Registered => user[a].reg = user[a].key

\* Who has made or read a key has one.
KeyInv == \A a \in Actors : pc[a] \in {"writeKey"} \cup PastKey => user[a].key # Absent

\* An order that runs is for a name, and two for one name are in clash.
NameInv ==
  /\ \A a \in Actors : pc[a] # "idle" => name[a] \in Names
  /\ \A a, b \in Actors : a # b /\ name[a] = name[b] /\ name[a] # Absent => a \in clash

\* While an order polls, its record stands in the zone and on the servers that
\* have confirmed it.
Shown(a) ==
  /\ a \in zone[name[a]]
  /\ \A i \in 1 .. server[a] : a \in served[Servers[i]][name[a]]

DnsInv ==
  /\ \A a \in Actors : pc[a] = "poll" => server[a] < Len(Servers)
  /\ \A a \in Actors : pc[a] = "validate" => server[a] = Len(Servers)
  /\ \A a \in Actors : pc[a] \in {"poll", "validate"} => a \in clash \/ Shown(a)

IInv == TypeOK /\ KeyInv /\ NameInv /\ DnsInv /\ (~raced => AccountInv)

----------------------------------------------------------------------------
(* What a step leaves alone.                                               *)

Places == {"idle", "readKey", "makeKey", "writeKey", "readMeta", "register", "saveUser",
           "writeMeta", "order", "present", "poll", "validate", "cleanUp"}

Ids == 1 .. keys

\* The types of one order's variables, in the form the proofs use.
LEMMA Typed ==
  ASSUME TypeOK
  PROVE  /\ pc \in [Actors -> Places] /\ name \in [Actors -> Names \cup {Absent}]
         /\ user \in [Actors -> [key : Ids \cup {Absent}, reg : Ids \cup {Absent}]]
         /\ server \in [Actors -> 0 .. Len(Servers)] /\ failed \in [Actors -> BOOLEAN]
         /\ keyFile \in Ids \cup {Absent, Torn} /\ metaFile \in Ids \cup {Absent, Torn}
         /\ accounts \subseteq Ids /\ keys \in Nat /\ clash \subseteq Actors
         /\ zone \in [Names -> SUBSET Actors]
         /\ served \in [NameServers -> [Names -> SUBSET Actors]]
BY DEF TypeOK, Places, Ids

\* An order that ends before it has a record.
LEMMA FailFacts ==
  ASSUME TypeOK, NEW a \in Actors, Fail(a)
  PROVE  /\ pc'[a] = "idle" /\ name'[a] = Absent
         /\ \A b \in Actors \ {a} : pc'[b] = pc[b] /\ name'[b] = name[b] /\ user'[b] = user[b]
         /\ server' = server /\ failed' = failed
         /\ clash' \subseteq clash /\ \A b \in Actors \ {a} : b \in clash => b \in clash'
         /\ pc' \in [Actors -> Places] /\ name' \in [Actors -> Names \cup {Absent}]
         /\ user' \in [Actors -> [key : Ids \cup {Absent}, reg : Ids \cup {Absent}]]
<1>1. pc' \in [Actors -> Places] /\ name' \in [Actors -> Names \cup {Absent}]
  BY Typed DEF Fail, Goto, Places
<1>2. NoUser \in [key : Ids \cup {Absent}, reg : Ids \cup {Absent}]
  BY DEF NoUser
<1>3. user' \in [Actors -> [key : Ids \cup {Absent}, reg : Ids \cup {Absent}]]
  BY <1>2, Typed DEF Fail
<1>4. QED
  BY <1>1, <1>3, Typed DEF Fail, Goto

\* Going on changes one entry of pc.
LEMMA GotoFacts ==
  ASSUME TypeOK, NEW a \in Actors, NEW to \in Places, Goto(a, to)
  PROVE  /\ pc' \in [Actors -> Places]
         /\ pc'[a] = to /\ \A b \in Actors \ {a} : pc'[b] = pc[b]
BY Typed DEF Goto

\* An order that fails after it may have a record.
LEMMA AbandonFacts ==
  ASSUME TypeOK, NEW a \in Actors, Abandon(a)
  PROVE  /\ pc'[a] = "cleanUp" /\ \A b \in Actors \ {a} : pc'[b] = pc[b]
         /\ pc' \in [Actors -> Places] /\ failed' \in [Actors -> BOOLEAN]
         /\ UNCHANGED <<name, user, server, clash>>
<1>1. failed' \in [Actors -> BOOLEAN]
  BY Typed DEF Abandon
<1>2. QED
  BY <1>1, GotoFacts DEF Abandon, Places

\* An actor's step does not touch another's order.
LEMMA Frame ==
  ASSUME TypeOK, NEW a \in Actors, Work(a), NEW b \in Actors \ {a}
  PROVE  /\ pc'[b] = pc[b] /\ name'[b] = name[b] /\ user'[b] = user[b] /\ server'[b] = server[b]
         /\ b \in clash <=> b \in clash'
<1> USE Typed DEF Goto, KeepOrder, Fail, Abandon, Ready
<1>1. CASE ReadKey(a)
  BY <1>1 DEF ReadKey
<1>2. CASE MakeKey(a)
  BY <1>2 DEF MakeKey
<1>3. CASE WriteKey(a)
  BY <1>3 DEF WriteKey
<1>4. CASE ReadMeta(a)
  BY <1>4 DEF ReadMeta
<1>5. CASE Register(a)
  BY <1>5 DEF Register
<1>6. CASE SaveUser(a) \/ WriteMeta(a)
  BY <1>6 DEF SaveUser, WriteMeta
<1>7. CASE Order(a)
  BY <1>7 DEF Order
<1>8. CASE Present(a)
  BY <1>8 DEF Present
<1>9. CASE Poll(a) \/ Deadline(a) \/ Validate(a)
  BY <1>9 DEF Poll, Deadline, Validate
<1>10. CASE CleanUp(a)
  BY <1>10 DEF CleanUp
<1>11. QED
  BY <1>1, <1>2, <1>3, <1>4, <1>5, <1>6, <1>7, <1>8, <1>9, <1>10, Zenon DEF Work

----------------------------------------------------------------------------
(* Types.                                                                  *)

\* Every step keeps every variable's type.
LEMMA TypeStep ==
  ASSUME TypeOK, KeyInv, DnsInv, Next
  PROVE  TypeOK'
<1> DEFINE User == [Actors -> [key : Ids \cup {Absent}, reg : Ids \cup {Absent}]]
           Files == Ids \cup {Absent, Torn}
<1>0. up \in BOOLEAN /\ raced \in BOOLEAN /\ crashes \in 0 .. MaxCrashes
  BY DEF TypeOK
<1>s. ASSUME up' \in BOOLEAN, raced' \in BOOLEAN, crashes' \in 0 .. MaxCrashes,
             keyFile' \in Files', metaFile' \in Files', accounts' \subseteq Ids', keys' \in Nat,
             pc' \in [Actors -> Places], name' \in [Actors -> Names \cup {Absent}],
             user' \in User', server' \in [Actors -> 0 .. Len(Servers)],
             failed' \in [Actors -> BOOLEAN], zone' \in [Names -> SUBSET Actors],
             served' \in [NameServers -> [Names -> SUBSET Actors]], clash' \subseteq Actors
      PROVE  TypeOK'
  BY <1>s DEF TypeOK, Places, Ids
<1>k. keys' = keys => Ids' = Ids
  BY DEF Ids
<1>1. ASSUME NEW a \in Actors, Work(a)
      PROVE  TypeOK'
  <2>f. Fail(a) => /\ pc' \in [Actors -> Places] /\ name' \in [Actors -> Names \cup {Absent}]
                   /\ user' \in User /\ clash' \subseteq Actors /\ server' = server /\ failed' = failed
    BY FailFacts, Typed
  <2>g. \A to \in Places : Goto(a, to) => pc' \in [Actors -> Places]
    BY GotoFacts
  <2>u. /\ {"readKey", "makeKey", "writeKey", "readMeta", "register", "saveUser", "writeMeta",
            "order", "present", "poll", "validate", "cleanUp", "idle"} \subseteq Places
        /\ \A k \in Ids : /\ [user EXCEPT ![a].key = k] \in User
                          /\ [user EXCEPT ![a].reg = k] \in User
    BY Typed DEF Places
  <2>z. ASSUME NEW z \in [Names -> SUBSET Actors], NEW n
        PROVE  /\ [z EXCEPT ![n] = @ \cup {a}] \in [Names -> SUBSET Actors]
               /\ [z EXCEPT ![n] = @ \ {a}] \in [Names -> SUBSET Actors]
               /\ [z EXCEPT ![n] = {}] \in [Names -> SUBSET Actors]
    BY Zenon, Typed
  <2>w. /\ [zone EXCEPT ![name[a]] = @ \cup {a}] \in [Names -> SUBSET Actors]
        /\ [zone EXCEPT ![name[a]] = @ \ {a}] \in [Names -> SUBSET Actors]
        /\ [zone EXCEPT ![name[a]] = {}] \in [Names -> SUBSET Actors]
        /\ zone \in [Names -> SUBSET Actors]
    BY <2>z, Typed
  <2>1. CASE ReadKey(a)
    <3>1. raced' \in BOOLEAN
      BY <2>1, Zenon DEF ReadKey
    <3>2. UNCHANGED <<up, crashes, keyFile, metaFile, accounts, keys, zone, served>>
      BY <2>1 DEF ReadKey, Ready, dnsVars
    <3>3. keyFile \notin {Absent, Torn} => keyFile \in Ids
      BY Typed
    <3>4. /\ pc' \in [Actors -> Places] /\ name' \in [Actors -> Names \cup {Absent}]
          /\ user' \in User /\ clash' \subseteq Actors /\ server' = server /\ failed' = failed
      <4>1. CASE Fail(a)
        BY <2>f, <4>1
      <4>2. CASE Goto(a, "makeKey") /\ KeepOrder
        BY <2>g, <2>u, <4>2, Typed DEF KeepOrder
      <4>3. CASE /\ keyFile \in Ids /\ user' = [user EXCEPT ![a].key = keyFile]
                 /\ Goto(a, "readMeta") /\ UNCHANGED <<name, server, failed, clash>>
        BY <2>g, <2>u, <4>3, Typed
      <4>4. QED
        BY <2>1, <3>3, <4>1, <4>2, <4>3 DEF ReadKey
    <3>5. QED
      BY <1>0, <1>s, <1>k, <3>1, <3>2, <3>4, Typed
  <2>2. CASE MakeKey(a)
    <3>1. keys' = keys + 1 /\ keys + 1 \in Ids' /\ Ids \subseteq Ids' /\ keys' \in Nat
      BY <2>2, Typed DEF MakeKey, Ids
    <3>2. user' \in User'
      <4>1. user' = [user EXCEPT ![a].key = keys + 1]
        BY <2>2 DEF MakeKey
      <4>2. user \in [Actors -> [key : Ids' \cup {Absent}, reg : Ids' \cup {Absent}]]
        BY <3>1, Typed
      <4>3. QED
        BY <3>1, <4>1, <4>2
    <3>3. pc' \in [Actors -> Places]
      BY <2>2, <2>g, <2>u DEF MakeKey
    <3>4. /\ UNCHANGED <<up, crashes, metaFile, accounts, raced, name, server, failed, clash, zone, served>>
          /\ keyFile' = Torn
      BY <2>2 DEF MakeKey, Ready, dnsVars
    <3>5. QED
      BY <1>0, <1>s, <3>1, <3>2, <3>3, <3>4, Typed
  <2>3. CASE WriteKey(a)
    <3>1. UNCHANGED <<up, crashes, metaFile, accounts, keys, raced, zone, served>>
      BY <2>3 DEF WriteKey, Ready, dnsVars
    <3>2. user[a].key \in Ids \cup {Absent}
      BY Typed
    <3>3. keyFile' \in Files
      BY <2>3, <3>2, Typed DEF WriteKey
    <3>4. /\ pc' \in [Actors -> Places] /\ name' \in [Actors -> Names \cup {Absent}]
          /\ user' \in User /\ clash' \subseteq Actors /\ server' = server /\ failed' = failed
      BY <2>3, <2>f, <2>g, <2>u, Typed DEF WriteKey, KeepOrder
    <3>5. QED
      BY <1>0, <1>s, <1>k, <3>1, <3>3, <3>4, Typed
  <2>4. CASE ReadMeta(a)
    <3>1. UNCHANGED <<up, crashes, keyFile, metaFile, accounts, keys, raced, zone, served>>
      BY <2>4 DEF ReadMeta, Ready, accountVars, dnsVars
    <3>3. metaFile \notin {Absent, Torn} => metaFile \in Ids
      BY Typed
    <3>4. /\ pc' \in [Actors -> Places] /\ name' \in [Actors -> Names \cup {Absent}]
          /\ user' \in User /\ clash' \subseteq Actors /\ server' = server /\ failed' = failed
      <4>1. CASE Fail(a)
        BY <2>f, <4>1
      <4>2. CASE Goto(a, "register") /\ KeepOrder
        BY <2>g, <2>u, <4>2, Typed DEF KeepOrder
      <4>3. CASE /\ metaFile \in Ids /\ user' = [user EXCEPT ![a].reg = metaFile]
                 /\ Goto(a, "order") /\ UNCHANGED <<name, server, failed, clash>>
        BY <2>g, <2>u, <4>3, Typed
      <4>4. QED
        BY <2>4, <3>3, <4>1, <4>2, <4>3 DEF ReadMeta
    <3>5. QED
      BY <1>0, <1>s, <1>k, <3>1, <3>4, Typed
  <2>5. CASE Register(a)
    <3>1. UNCHANGED <<up, crashes, keyFile, metaFile, keys, raced, zone, served>>
      BY <2>5 DEF Register, Ready, dnsVars
    <3>2. user[a].key \in Ids \cup {Absent}
      BY Typed
    <3>3. user' = [user EXCEPT ![a].reg = user[a].key] => user' \in User
      BY <3>2, Typed
    <3>4. /\ pc' \in [Actors -> Places] /\ name' \in [Actors -> Names \cup {Absent}]
          /\ user' \in User /\ clash' \subseteq Actors /\ server' = server /\ failed' = failed
      BY <2>5, <2>f, <2>g, <2>u, <3>3, Typed DEF Register
    <3>7. user[a].key \in Ids
      BY <2>5, <3>2 DEF Register, Ready, KeyInv, PastKey
    <3>5. accounts' \subseteq Ids
      BY <2>5, <3>7, Typed DEF Register
    <3>6. QED
      BY <1>0, <1>s, <1>k, <3>1, <3>4, <3>5, Typed
  <2>6. CASE SaveUser(a) \/ WriteMeta(a)
    <3>1. UNCHANGED <<up, crashes, keyFile, accounts, keys, raced, zone, served>>
      BY <2>6 DEF SaveUser, WriteMeta, Ready, dnsVars
    <3>2. user[a].reg \in Ids \cup {Absent}
      BY Typed
    <3>3. metaFile' \in Files
      BY <2>6, <3>2, Typed DEF SaveUser, WriteMeta
    <3>4. /\ pc' \in [Actors -> Places] /\ name' \in [Actors -> Names \cup {Absent}]
          /\ user' \in User /\ clash' \subseteq Actors /\ server' = server /\ failed' = failed
      BY <2>6, <2>f, <2>g, <2>u, Typed DEF SaveUser, WriteMeta, KeepOrder
    <3>5. QED
      BY <1>0, <1>s, <1>k, <3>1, <3>3, <3>4, Typed
  <2>7. CASE Order(a)
    <3>1. UNCHANGED <<up, crashes, keyFile, metaFile, accounts, keys, raced, zone, served>>
      BY <2>7 DEF Order, Ready, accountVars, dnsVars
    <3>2. /\ pc' \in [Actors -> Places] /\ name' \in [Actors -> Names \cup {Absent}]
          /\ user' \in User /\ clash' \subseteq Actors /\ server' = server /\ failed' = failed
      BY <2>7, <2>f, <2>g, <2>u, Typed DEF Order, KeepOrder
    <3>3. QED
      BY <1>0, <1>s, <1>k, <3>1, <3>2, Typed
  <2>8. CASE Present(a) \/ Poll(a) \/ Deadline(a) \/ Validate(a)
    <3>1. UNCHANGED <<up, crashes, keyFile, metaFile, accounts, keys, raced, served, name, user, clash>>
      BY <2>8 DEF Present, Poll, Deadline, Validate, Ready, accountVars, dnsVars, Abandon, KeepOrder
    <3>2. zone' \in [Names -> SUBSET Actors]
      BY <2>8, <2>w DEF Present, Poll, Deadline, Validate, dnsVars
    <3>3. pc' \in [Actors -> Places]
      BY <2>8, <2>g, <2>u, AbandonFacts DEF Present, Poll, Deadline, Validate
    <3>4. failed' \in [Actors -> BOOLEAN]
      BY <2>8, AbandonFacts, Typed DEF Present, Poll, Deadline, Validate, KeepOrder
    <3>5. Len(Servers) \in Nat /\ (pc[a] = "poll" => server[a] + 1 \in 0 .. Len(Servers))
      BY ServersAssumption, Typed DEF DnsInv
    <3>6. server' \in [Actors -> 0 .. Len(Servers)]
      <4>1. \/ server' = server \/ server' = [server EXCEPT ![a] = 0]
            \/ pc[a] = "poll" /\ server' = [server EXCEPT ![a] = server[a] + 1]
        BY Zenon, <2>8 DEF Present, Poll, Deadline, Validate, Ready, Abandon, KeepOrder
      <4>2. server \in [Actors -> 0 .. Len(Servers)] /\ 0 \in 0 .. Len(Servers)
        BY <3>5, Typed
      <4>3. QED
        BY <3>5, <4>1, <4>2
    <3>7. QED
      BY <1>0, <1>s, <1>k, <3>1, <3>2, <3>3, <3>4, <3>6, Typed
  <2>9. CASE CleanUp(a)
    <3>1. UNCHANGED <<crashes, keyFile, metaFile, accounts, keys, raced>>
      BY <2>9 DEF CleanUp, accountVars
    <3>2. zone' \in [Names -> SUBSET Actors]
      BY <2>9, <2>w DEF CleanUp
    <3>9. served' \in [NameServers -> [Names -> SUBSET Actors]]
      BY <2>9, <2>z, Typed DEF CleanUp
    <3>3. pc' \in [Actors -> Places] /\ name' \in [Actors -> Names \cup {Absent}]
      BY <2>9, <2>g, <2>u, Typed DEF CleanUp
    <3>4. user' \in User
      BY <2>9, Typed DEF CleanUp, NoUser
    <3>5. up' \in BOOLEAN
      BY <2>9, Zenon DEF CleanUp
    <3>6. failed' \in [Actors -> BOOLEAN]
      BY <2>9, Typed DEF CleanUp
    <3>7. server' \in [Actors -> 0 .. Len(Servers)] /\ clash' \subseteq Actors
      BY <2>9, Typed, ServersAssumption DEF CleanUp
    <3>8. QED
      BY <1>0, <1>s, <1>k, <3>1, <3>2, <3>3, <3>4, <3>5, <3>6, <3>7, <3>9, Typed
  <2>10. QED
    BY <1>1, <2>1, <2>2, <2>3, <2>4, <2>5, <2>6, <2>7, <2>8, <2>9, Zenon DEF Work
<1>2. ASSUME NEW a \in Actors, NEW n \in Names, Start(a, n)
      PROVE  TypeOK'
  <2>1. UNCHANGED <<up, crashes, keyFile, metaFile, accounts, keys, raced, user, server, failed, zone, served>>
    BY <1>2 DEF Start, Ready, accountVars, dnsVars
  <2>2. pc' \in [Actors -> Places] /\ name' \in [Actors -> Names \cup {Absent}]
    BY <1>2, Typed, GotoFacts DEF Start, Places
  <2>3. clash' \subseteq Actors
    BY <1>2, Typed DEF Start
  <2>4. QED
    BY <1>0, <1>s, <1>k, <2>1, <2>2, <2>3, Typed
<1>3. ASSUME NEW s \in DOMAIN served, NEW n \in Names, Sync(s, n)
      PROVE  TypeOK'
  <2>1. UNCHANGED <<up, accountVars, pc, orderVars, zone, crashes>>
    BY <1>3 DEF Sync
  <2>2. served' \in [NameServers -> [Names -> SUBSET Actors]]
    BY <1>3, Typed DEF Sync
  <2>3. QED
    BY <1>0, <1>s, <1>k, <2>1, <2>2, Typed DEF accountVars, orderVars
<1>4. ASSUME NEW fresh \in BOOLEAN, Crash(fresh)
      PROVE  TypeOK'
  <2>1. UNCHANGED <<keyFile, metaFile, accounts, keys, raced>>
    BY <1>4 DEF Crash, accountVars
  <2>2. crashes' \in 0 .. MaxCrashes
    BY <1>0, <1>4, ValueAssumption DEF Crash
  <2>3. up' \in BOOLEAN
    BY <1>4, Zenon DEF Crash
  <2>4. failed' \in [Actors -> BOOLEAN]
    BY <1>4 DEF Crash
  <2>5. pc' \in [Actors -> Places] /\ name' \in [Actors -> Names \cup {Absent}] /\ clash' \subseteq Actors
    BY <1>4 DEF Crash, Places
  <2>6. user' \in User /\ server' \in [Actors -> 0 .. Len(Servers)]
    BY <1>4, ServersAssumption DEF Crash, NoUser
  <2>7. zone' \in [Names -> SUBSET Actors] /\ served' \in [NameServers -> [Names -> SUBSET Actors]]
    BY <1>4, Typed DEF Crash
  <2>8. QED
    BY <1>s, <1>k, <2>1, <2>2, <2>3, <2>4, <2>5, <2>6, <2>7, <1>0, Typed
<1>5. QED
  BY <1>1, <1>2, <1>3, <1>4 DEF Next

----------------------------------------------------------------------------
(* Keys and names.                                                         *)

\* Every step keeps a key with whoever is past making or reading it.
LEMMA KeyStep ==
  ASSUME TypeOK, KeyInv, Next
  PROVE  KeyInv'
<1>t. \A b \in Actors : pc[b] \in {"writeKey"} \cup PastKey => user[b].key # Absent
  BY DEF KeyInv
<1>1. ASSUME NEW a \in Actors, Work(a)
      PROVE  KeyInv'
  <2>1. pc'[a] \in {"writeKey"} \cup PastKey => user'[a].key # Absent
    <3> USE Typed, GotoFacts, FailFacts, AbandonFacts DEF PastKey, Registered, Places
    <3>1. CASE ReadKey(a)
      BY <3>1 DEF ReadKey
    <3>2. CASE MakeKey(a)
      BY <3>2, ValueAssumption DEF MakeKey
    <3>3. CASE WriteKey(a)
      BY <1>t, <3>3 DEF WriteKey, Ready, KeepOrder
    <3>4. CASE ReadMeta(a)
      BY <1>t, <3>4 DEF ReadMeta, Ready, KeepOrder
    <3>5. CASE Register(a)
      BY <1>t, <3>5 DEF Register, Ready
    <3>6. CASE SaveUser(a) \/ WriteMeta(a)
      BY <1>t, <3>6 DEF SaveUser, WriteMeta, Ready, KeepOrder
    <3>7. CASE Order(a)
      BY Zenon, <1>t, <3>7 DEF Order, Ready, KeepOrder
    <3>8. CASE Present(a) \/ Poll(a) \/ Deadline(a) \/ Validate(a)
      BY <3>8 DEF Present, Poll, Deadline, Validate
    <3>9. CASE CleanUp(a)
      BY Zenon, <3>9 DEF CleanUp
    <3>10. QED
      BY <1>1, <3>1, <3>2, <3>3, <3>4, <3>5, <3>6, <3>7, <3>8, <3>9, Zenon DEF Work
  <2>2. QED
    BY <1>1, <1>t, <2>1, Frame DEF KeyInv
<1>2. ASSUME NEW a \in Actors, NEW n \in Names, Start(a, n)
      PROVE  KeyInv'
  BY <1>2, <1>t, GotoFacts DEF Start, KeyInv, PastKey, Registered, Places
<1>3. ASSUME NEW s \in DOMAIN served, NEW n \in Names, Sync(s, n)
      PROVE  KeyInv'
  BY <1>3, <1>t DEF Sync, KeyInv, orderVars
<1>4. ASSUME NEW fresh \in BOOLEAN, Crash(fresh)
      PROVE  KeyInv'
  BY <1>4 DEF Crash, KeyInv, PastKey, Registered
<1>5. QED
  BY <1>1, <1>2, <1>3, <1>4 DEF Next

\* What an actor's step does to the name of its own order.
LEMMA NameKept ==
  ASSUME TypeOK, NEW a \in Actors, Work(a)
  PROVE  /\ pc[a] # "idle"
         /\ \/ pc'[a] = "idle" /\ name'[a] = Absent
            \/ name'[a] = name[a] /\ (a \in clash => a \in clash')
<1> USE Typed, FailFacts DEF Ready
<1>1. CASE ReadKey(a) \/ MakeKey(a) \/ WriteKey(a)
  BY <1>1 DEF ReadKey, MakeKey, WriteKey, KeepOrder
<1>2. CASE ReadMeta(a) \/ Register(a) \/ SaveUser(a) \/ WriteMeta(a) \/ Order(a)
  BY <1>2 DEF ReadMeta, Register, SaveUser, WriteMeta, Order, KeepOrder
<1>3. CASE Present(a) \/ Poll(a) \/ Deadline(a) \/ Validate(a)
  BY <1>3 DEF Present, Poll, Deadline, Validate, KeepOrder, Abandon
<1>4. CASE CleanUp(a)
  BY <1>4 DEF CleanUp, Goto
<1>5. QED
  BY <1>1, <1>2, <1>3, <1>4, Zenon DEF Work

\* Every step keeps two orders for one name in clash.
LEMMA NameStep ==
  ASSUME TypeOK, NameInv, Next
  PROVE  NameInv'
<1>t. /\ \A b \in Actors : pc[b] # "idle" => name[b] \in Names
      /\ \A b, d \in Actors : b # d /\ name[b] = name[d] /\ name[b] # Absent => b \in clash
  BY DEF NameInv
<1>1. ASSUME NEW a \in Actors, Work(a)
      PROVE  NameInv'
  <2>1. /\ \/ pc'[a] = "idle" /\ name'[a] = Absent
           \/ name'[a] = name[a] /\ (a \in clash => a \in clash')
        /\ name'[a] # Absent => name[a] \in Names
    BY <1>1, <1>t, NameKept
  <2>2. \A b \in Actors \ {a} : pc'[b] = pc[b] /\ name'[b] = name[b] /\ (b \in clash => b \in clash')
    BY <1>1, Frame
  <2>3. \A b \in Actors : pc'[b] # "idle" => name'[b] \in Names
    BY <1>1, <1>t, <2>1, <2>2, NameKept
  <2>4. \A b, d \in Actors : b # d /\ name'[b] = name'[d] /\ name'[b] # Absent => b \in clash'
    BY <1>t, <2>1, <2>2
  <2>5. QED
    BY <2>3, <2>4 DEF NameInv
<1>2. ASSUME NEW a \in Actors, NEW n \in Names, Start(a, n)
      PROVE  NameInv'
  <2>1. /\ pc'[a] = "readKey" /\ \A b \in Actors \ {a} : pc'[b] = pc[b]
        /\ name'[a] = n /\ \A b \in Actors \ {a} : name'[b] = name[b]
    BY <1>2, GotoFacts, Typed DEF Start, Places
  <2>2. /\ clash \subseteq clash'
        /\ \A b \in Actors : name[b] = n => b \in clash' /\ a \in clash'
    BY <1>2 DEF Start
  <2>3. \A b, d \in Actors : b # d /\ name'[b] = name'[d] /\ name'[b] # Absent => b \in clash'
    BY <1>t, <2>1, <2>2
  <2>4. \A b \in Actors : pc'[b] # "idle" => name'[b] \in Names
    BY <1>t, <2>1
  <2>5. QED
    BY Zenon, <2>3, <2>4 DEF NameInv
<1>3. ASSUME NEW s \in DOMAIN served, NEW n \in Names, Sync(s, n)
      PROVE  NameInv'
  BY <1>3, <1>t DEF Sync, NameInv, orderVars
<1>4. ASSUME NEW fresh \in BOOLEAN, Crash(fresh)
      PROVE  NameInv'
  BY <1>4 DEF Crash, NameInv
<1>5. QED
  BY <1>1, <1>2, <1>3, <1>4 DEF Next

----------------------------------------------------------------------------
(* The challenge's record.                                                 *)

\* An actor's step leaves another's record alone, unless they are for one name.
LEMMA RecordKept ==
  ASSUME TypeOK, NEW a \in Actors, Work(a), NEW b \in Actors \ {a},
         name[a] # name[b], name[b] \in Names
  PROVE  /\ b \in zone[name[b]] => b \in zone'[name[b]]
         /\ \A i \in 1 .. Len(Servers) :
              b \in served[Servers[i]][name[b]] => b \in served'[Servers[i]][name[b]]
<1> USE Typed
<1>1. CASE ReadKey(a) \/ MakeKey(a) \/ WriteKey(a)
  BY <1>1 DEF ReadKey, MakeKey, WriteKey, dnsVars
<1>2. CASE ReadMeta(a) \/ Register(a) \/ SaveUser(a) \/ WriteMeta(a) \/ Order(a)
  BY Zenon, <1>2 DEF ReadMeta, Register, SaveUser, WriteMeta, Order, dnsVars
<1>3. CASE Poll(a) \/ Deadline(a) \/ Validate(a)
  BY Zenon, <1>3 DEF Poll, Deadline, Validate, dnsVars
<1>4. CASE Present(a)
  BY <1>4 DEF Present
<1>5. CASE CleanUp(a)
  <2>1. zone'[name[b]] = zone[name[b]]
    BY <1>5 DEF CleanUp
  <2>2. \A s \in NameServers : served'[s][name[b]] = served[s][name[b]]
    BY <1>5 DEF CleanUp
  <2>3. QED
    BY Zenon, <2>1, <2>2 DEF NameServers
<1>6. QED
  BY <1>1, <1>2, <1>3, <1>4, <1>5, Zenon DEF Work

\* Every step keeps the record where it was confirmed.
LEMMA DnsStep ==
  ASSUME TypeOK, NameInv, DnsInv, Next
  PROVE  DnsInv'
<1> DEFINE Waits(b) ==
      /\ pc[b] = "poll" => server[b] < Len(Servers)
      /\ pc[b] = "validate" => server[b] = Len(Servers)
      /\ pc[b] \in {"poll", "validate"} => b \in clash \/ Shown(b)
<1>t. \A b \in Actors : Waits(b)
  BY DEF DnsInv
<1>l. Len(Servers) \in Nat /\ Len(Servers) > 0
  BY ServersAssumption
<1>s. ASSUME \A b \in Actors : Waits(b)'
      PROVE  DnsInv'
  BY <1>s DEF DnsInv
<1> HIDE DEF Waits
<1>1. ASSUME NEW a \in Actors, Work(a)
      PROVE  DnsInv'
  <2>1. ASSUME NEW b \in Actors \ {a}
        PROVE  Waits(b)'
    <3>1. /\ pc'[b] = pc[b] /\ name'[b] = name[b] /\ server'[b] = server[b]
          /\ b \in clash <=> b \in clash'
      BY <1>1, Frame
    <3>2. CASE pc[b] \notin {"poll", "validate"}
      BY <3>1, <3>2 DEF Waits
    <3>3. CASE pc[b] \in {"poll", "validate"} /\ b \in clash
      BY <1>t, <3>1, <3>3 DEF Waits
    <3>4. CASE pc[b] \in {"poll", "validate"} /\ b \notin clash
      <4>1. name[b] \in Names /\ name[a] # name[b]
        BY <3>4, ValueAssumption DEF NameInv
      <4>2. Shown(b) /\ server[b] \in 0 .. Len(Servers)
        BY <1>t, <3>4, Typed DEF Waits
      <4>3. Shown(b)'
        <5>1. /\ b \in zone[name[b]] => b \in zone'[name[b]]
              /\ \A i \in 1 .. Len(Servers) :
                   b \in served[Servers[i]][name[b]] => b \in served'[Servers[i]][name[b]]
          BY Zenon, <1>1, <4>1, RecordKept
        <5>2. \A i \in 1 .. server[b] : i \in 1 .. Len(Servers)
          BY <1>l, <4>2
        <5>3. QED
          BY Zenon, <3>1, <4>2, <5>1, <5>2 DEF Shown
      <4>4. QED
        BY <1>t, <3>1, <4>3 DEF Waits
    <3>5. QED
      BY <3>2, <3>3, <3>4
  <2>2. Waits(a)'
    <3>1. CASE Present(a)
      <4>1. CASE zone' = [zone EXCEPT ![name[a]] = @ \cup {a}] /\ server' = [server EXCEPT ![a] = 0]
                 /\ name' = name
        <5>1. name[a] \in Names
          BY <3>1 DEF Present, Ready, NameInv
        <5>2. a \in zone'[name'[a]] /\ server'[a] = 0
          BY <4>1, <5>1, Typed
        <5>0. 1 .. 0 = {}
          OBVIOUS
        <5>3. Shown(a)'
          BY Zenon, <5>0, <5>2 DEF Shown
        <5>4. pc'[a] # "validate"
          BY <3>1, GotoFacts, AbandonFacts DEF Present, Places
        <5>5. QED
          BY <1>l, <5>2, <5>3, <5>4 DEF Waits
      <4>2. CASE Abandon(a)
        BY <4>2, AbandonFacts DEF Waits
      <4>3. QED
        BY <3>1, <4>1, <4>2 DEF Present
    <3>2. CASE Poll(a)
      <4>1. /\ pc[a] = "poll" /\ a \in served[Servers[server[a] + 1]][name[a]]
            /\ server'[a] = server[a] + 1 /\ server[a] \in Nat
            /\ UNCHANGED <<name, clash, zone, served>>
        BY <3>2, Typed DEF Poll, Ready, dnsVars
      <4>2. pc'[a] = (IF server[a] + 1 = Len(Servers) THEN "validate" ELSE "poll")
        BY <3>2, GotoFacts DEF Poll, Places
      <4>3. server[a] < Len(Servers) /\ (a \in clash \/ Shown(a))
        BY <1>t, <4>1 DEF Waits
      <4>4. Shown(a) => Shown(a)'
        BY <4>1 DEF Shown
      <4>5. QED
        BY <1>l, <4>1, <4>2, <4>3, <4>4 DEF Waits
    <3>3. CASE ~Present(a) /\ ~Poll(a)
      <4> USE GotoFacts, FailFacts, AbandonFacts DEF Places
      <4>1. pc'[a] \notin {"poll", "validate"}
        <5>1. CASE ReadKey(a) \/ MakeKey(a) \/ WriteKey(a)
          BY <5>1 DEF ReadKey, MakeKey, WriteKey
        <5>2. CASE ReadMeta(a) \/ Register(a) \/ SaveUser(a) \/ WriteMeta(a) \/ Order(a)
          BY Zenon, <5>2 DEF ReadMeta, Register, SaveUser, WriteMeta, Order
        <5>3. CASE Deadline(a) \/ Validate(a) \/ CleanUp(a)
          BY <5>3 DEF Deadline, Validate, CleanUp
        <5>4. QED
          BY <1>1, <3>3, <5>1, <5>2, <5>3, Zenon DEF Work
      <4>2. QED
        BY <4>1 DEF Waits
    <3>4. QED
      BY <3>1, <3>2, <3>3
  <2>3. QED
    BY <1>s, <2>1, <2>2
<1>2. ASSUME NEW a \in Actors, NEW n \in Names, Start(a, n)
      PROVE  DnsInv'
  <2>1. /\ pc'[a] = "readKey" /\ \A b \in Actors \ {a} : pc'[b] = pc[b] /\ name'[b] = name[b]
        /\ clash \subseteq clash' /\ UNCHANGED <<server, zone, served>>
    BY <1>2, GotoFacts, Typed DEF Start, Places, dnsVars
  <2>2. \A b \in Actors \ {a} : Shown(b) => Shown(b)'
    BY <2>1 DEF Shown
  <2>3. \A b \in Actors : Waits(b)'
    BY <1>t, <2>1, <2>2 DEF Waits
  <2>4. QED
    BY Zenon, <1>s, <2>3
<1>3. ASSUME NEW s \in DOMAIN served, NEW n \in Names, Sync(s, n)
      PROVE  DnsInv'
  <2>1. UNCHANGED <<pc, name, server, clash, zone>>
    BY <1>3 DEF Sync, orderVars
  <2>2. \A r \in NameServers, m \in Names : served'[r][m] = served[r][m] \/ served'[r][m] = zone[m]
    BY <1>3, Typed DEF Sync
  <2>3. ASSUME NEW b \in Actors, pc[b] \in {"poll", "validate"}, Shown(b)
        PROVE  Shown(b)'
    <3>1. name[b] \in Names /\ server[b] \in 0 .. Len(Servers)
      BY <2>3, Typed DEF NameInv
    <3>2. \A i \in 1 .. server[b] : Servers[i] \in NameServers
      BY <1>l, <3>1 DEF NameServers
    <3>3. QED
      BY <2>1, <2>2, <2>3, <3>1, <3>2 DEF Shown
  <2>4. \A b \in Actors : Waits(b)'
    BY <1>t, <2>1, <2>3 DEF Waits
  <2>5. QED
    BY <1>s, <2>4
<1>4. ASSUME NEW fresh \in BOOLEAN, Crash(fresh)
      PROVE  DnsInv'
  BY <1>4 DEF Crash, DnsInv
<1>5. QED
  BY <1>1, <1>2, <1>3, <1>4 DEF Next

----------------------------------------------------------------------------
(* The account.                                                            *)

\* Unless two orders race for the key, every step keeps the key, the
\* registration and the account together.
LEMMA AccountStep ==
  ASSUME TypeOK, KeyInv, ~raced, AccountInv, Next, ~raced'
  PROVE  AccountInv'
<1> DEFINE Has(b) == /\ pc[b] = "makeKey" => keyFile = Absent
                     /\ pc[b] = "writeKey" => keyFile = Torn
                     /\ pc[b] \in PastKey => keyFile \in Nat /\ user[b].key = keyFile
                     /\ pc[b] \in Registered => user[b].reg = user[b].key
<1>t. /\ metaFile \in {Absent, Torn, keyFile} /\ accounts \subseteq {keyFile}
      /\ \A b, d \in Actors : pc[b] \in Making /\ pc[d] \in Making => b = d
      /\ \A b \in Actors : Has(b)
  BY DEF AccountInv
<1>v. Absent \notin Nat /\ Torn \notin Nat /\ Absent # Torn
  BY ValueAssumption
<1>i. Ids \subseteq Nat
  BY Typed DEF Ids
<1>s. ASSUME metaFile' \in {Absent, Torn, keyFile'}, accounts' \subseteq {keyFile'},
             \A b, d \in Actors : pc'[b] \in Making /\ pc'[d] \in Making => b = d,
             \A b \in Actors : Has(b)'
      PROVE  AccountInv'
  BY Zenon, <1>s DEF AccountInv
<1> HIDE DEF Has
\* The files stay, and nobody begins to make a key.
<1>q. ASSUME NEW a \in Actors, UNCHANGED <<keyFile, metaFile, accounts>>,
             \A b \in Actors \ {a} : pc'[b] = pc[b] /\ user'[b] = user[b],
             pc'[a] \notin Making, Has(a)'
      PROVE  AccountInv'
  <2>1. \A b \in Actors \ {a} : Has(b)'
    BY Zenon, <1>t, <1>q DEF Has
  <2>2. QED
    BY <1>s, <1>t, <1>q, <2>1
\* Someone stops, and the files stay.
<1>f. ASSUME NEW a \in Actors, Fail(a), UNCHANGED <<keyFile, metaFile, accounts>>
      PROVE  AccountInv'
  <2>1. pc'[a] = "idle" /\ \A b \in Actors \ {a} : pc'[b] = pc[b] /\ user'[b] = user[b]
    BY <1>f, FailFacts
  <2>2. Has(a)'
    BY <2>1 DEF Has, PastKey, Registered
  <2>3. QED
    BY <1>f, <1>q, <2>1, <2>2 DEF Making
<1>1. ASSUME NEW a \in Actors, Work(a)
      PROVE  AccountInv'
  <2>b. \A b \in Actors \ {a} : pc'[b] = pc[b] /\ user'[b] = user[b]
    BY <1>1, Frame
  <2>1. CASE ReadKey(a)
    <3>1. UNCHANGED <<keyFile, metaFile, accounts>> /\ pc[a] = "readKey"
      BY <2>1 DEF ReadKey, Ready
    <3>2. CASE Fail(a)
      BY <1>f, <3>1, <3>2
    <3>3. CASE keyFile = Absent /\ Goto(a, "makeKey")
      <4>1. \A b \in Actors \ {a} : pc[b] # "makeKey"
        BY Zenon, <2>1, <3>3 DEF ReadKey
      <4>2. \A b \in Actors \ {a} : pc[b] \notin Making
        BY <1>t, <1>v, <3>3, <4>1 DEF Has, Making
      <4>3. pc'[a] = "makeKey"
        BY <3>3, GotoFacts DEF Places
      <4>4. \A b \in Actors : Has(b)'
        BY <1>t, <2>b, <3>1, <3>3, <4>3 DEF Has, PastKey, Registered
      <4>5. QED
        BY <1>s, <1>t, <2>b, <3>1, <4>2, <4>4
    <3>4. CASE keyFile \notin {Absent, Torn} /\ Goto(a, "readMeta") /\ user' = [user EXCEPT ![a].key = keyFile]
      <4>1. pc'[a] = "readMeta" /\ user'[a].key = keyFile /\ keyFile \in Nat
        BY <1>i, <3>4, GotoFacts, Typed DEF Places
      <4>2. Has(a)'
        BY <3>1, <4>1 DEF Has, PastKey, Registered
      <4>3. QED
        BY <1>q, <2>b, <3>1, <4>1, <4>2 DEF Making
    <3>5. QED
      BY <2>1, <3>2, <3>3, <3>4 DEF ReadKey
  <2>2. CASE MakeKey(a)
    <3>1. /\ keyFile' = Torn /\ UNCHANGED <<metaFile, accounts>> /\ pc[a] = "makeKey"
      BY <2>2 DEF MakeKey, Ready
    <3>2. pc'[a] = "writeKey"
      BY <2>2, GotoFacts DEF MakeKey, Places
    <3>3. keyFile = Absent /\ \A b \in Actors \ {a} : pc[b] \notin Making \cup PastKey
      BY <1>t, <1>v, <3>1 DEF Has, Making
    <3>4. accounts = {} /\ metaFile \in {Absent, Torn}
      BY Zenon, <1>t, <1>i, <1>v, <3>3, Typed
    <3>5. \A b \in Actors : Has(b)'
      BY <2>b, <3>1, <3>2, <3>3 DEF Has, Making, PastKey, Registered
    <3>6. QED
      BY <1>s, <2>b, <3>1, <3>3, <3>4, <3>5
  <2>3. CASE WriteKey(a)
    <3>1. UNCHANGED <<metaFile, accounts>> /\ pc[a] = "writeKey"
      BY <2>3 DEF WriteKey, Ready
    <3>2. CASE Fail(a) /\ UNCHANGED keyFile
      BY <1>f, <3>1, <3>2
    <3>3. CASE keyFile' = user[a].key /\ Goto(a, "readMeta") /\ user' = user
      <4>1. pc'[a] = "readMeta"
        BY <3>3, GotoFacts DEF Places
      <4>2. keyFile' \in Nat
        BY Zenon, <1>i, <3>1, <3>3, Typed DEF KeyInv
      <4>3. keyFile = Torn /\ \A b \in Actors \ {a} : pc[b] \notin Making \cup PastKey
        BY <1>t, <1>v, <3>1 DEF Has, Making
      <4>4. accounts = {} /\ metaFile \in {Absent, Torn}
        BY Zenon, <1>t, <1>i, <1>v, <4>3, Typed
      <4>5. \A b \in Actors : Has(b)'
        BY <2>b, <3>3, <4>1, <4>2, <4>3 DEF Has, Making, PastKey, Registered
      <4>6. QED
        BY <1>s, <2>b, <3>1, <4>1, <4>3, <4>4, <4>5 DEF Making
    <3>4. QED
      BY <2>3, <3>2, <3>3 DEF WriteKey, KeepOrder
  <2>4. CASE ReadMeta(a)
    <3>1. UNCHANGED <<keyFile, metaFile, accounts>> /\ pc[a] = "readMeta"
      BY <2>4 DEF ReadMeta, Ready, accountVars
    <3>2. keyFile \in Nat /\ user[a].key = keyFile
      BY <1>t, <3>1 DEF Has, PastKey
    <3>3. CASE Fail(a)
      BY <1>f, <3>1, <3>3
    <3>4. CASE Goto(a, "register") /\ user' = user
      <4>1. pc'[a] = "register"
        BY <3>4, GotoFacts DEF Places
      <4>2. Has(a)'
        BY <3>1, <3>2, <3>4, <4>1 DEF Has, PastKey, Registered
      <4>3. QED
        BY <1>q, <2>b, <3>1, <4>1, <4>2 DEF Making
    <3>5. CASE metaFile \notin {Absent, Torn} /\ Goto(a, "order") /\ user' = [user EXCEPT ![a].reg = metaFile]
      <4>1. pc'[a] = "order" /\ user'[a].key = user[a].key /\ user'[a].reg = metaFile
        BY <3>5, GotoFacts, Typed DEF Places
      <4>2. Has(a)'
        BY <1>t, <3>1, <3>2, <3>5, <4>1 DEF Has, PastKey, Registered
      <4>3. QED
        BY <1>q, <2>b, <3>1, <4>1, <4>2 DEF Making
    <3>6. QED
      BY <2>4, <3>3, <3>4, <3>5 DEF ReadMeta, KeepOrder
  <2>5. CASE Register(a)
    <3>1. UNCHANGED <<keyFile, metaFile>> /\ pc[a] = "register"
      BY <2>5 DEF Register, Ready
    <3>2. keyFile \in Nat /\ user[a].key = keyFile
      BY <1>t, <3>1 DEF Has, PastKey
    <3>3. CASE Fail(a) /\ UNCHANGED accounts
      BY <1>f, <3>1, <3>3
    <3>4. CASE /\ accounts' = accounts \cup {user[a].key} /\ Goto(a, "saveUser")
               /\ user' = [user EXCEPT ![a].reg = user[a].key]
      <4>1. pc'[a] = "saveUser" /\ user'[a].key = user[a].key /\ user'[a].reg = user[a].key
        BY <3>4, GotoFacts, Typed DEF Places
      <4>2. \A b \in Actors : Has(b)'
        BY <1>t, <2>b, <3>1, <3>2, <4>1 DEF Has, PastKey, Registered
      <4>3. QED
        BY <1>s, <1>t, <2>b, <3>1, <3>2, <3>4, <4>1, <4>2 DEF Making
    <3>5. QED
      BY <2>5, <3>3, <3>4 DEF Register
  <2>6. CASE SaveUser(a) \/ WriteMeta(a)
    <3>1. UNCHANGED <<keyFile, accounts>> /\ pc[a] \in {"saveUser", "writeMeta"}
      BY <2>6 DEF SaveUser, WriteMeta, Ready
    <3>2. keyFile \in Nat /\ user[a].key = keyFile /\ user[a].reg = keyFile
      BY <1>t, <3>1 DEF Has, PastKey, Registered
    <3>3. CASE Fail(a) /\ UNCHANGED metaFile
      BY Zenon, <1>f, <3>1, <3>3
    <3>4. CASE /\ metaFile' \in {Torn, user[a].reg} /\ user' = user
               /\ \E to \in {"writeMeta", "order"} : Goto(a, to)
      <4>1. pc'[a] \in {"writeMeta", "order"}
        BY <3>4, GotoFacts DEF Places
      <4>2. \A b \in Actors : Has(b)'
        BY <1>t, <2>b, <3>1, <3>2, <3>4, <4>1 DEF Has, PastKey, Registered
      <4>3. QED
        BY <1>s, <1>t, <2>b, <3>1, <3>2, <3>4, <4>1, <4>2 DEF Making
    <3>5. QED
      BY Zenon, <2>6, <3>3, <3>4 DEF SaveUser, WriteMeta, KeepOrder
  <2>7. CASE Order(a)
    <3>1. UNCHANGED <<keyFile, metaFile, accounts>> /\ pc[a] = "order"
      BY <2>7 DEF Order, Ready, accountVars
    <3>2. CASE Fail(a)
      BY <1>f, <3>1, <3>2
    <3>3. CASE Goto(a, "present") /\ user' = user
      <4>1. pc'[a] = "present"
        BY <3>3, GotoFacts DEF Places
      <4>2. Has(a)'
        BY <1>t, <3>1, <3>3, <4>1 DEF Has, PastKey, Registered
      <4>3. QED
        BY <1>q, <2>b, <3>1, <4>1, <4>2 DEF Making
    <3>4. QED
      BY <2>7, <3>2, <3>3 DEF Order, KeepOrder
  <2>8. CASE Present(a) \/ Poll(a) \/ Deadline(a) \/ Validate(a) \/ CleanUp(a)
    <3>1. UNCHANGED <<keyFile, metaFile, accounts>>
      BY Zenon, <2>8 DEF Present, Poll, Deadline, Validate, CleanUp, accountVars
    <3>2. pc'[a] \in {"poll", "validate", "cleanUp", "idle"}
      BY <2>8, GotoFacts, AbandonFacts DEF Present, Poll, Deadline, Validate, CleanUp, Places
    <3>3. Has(a)'
      BY <3>2 DEF Has, PastKey, Registered
    <3>4. QED
      BY <1>q, <2>b, <3>1, <3>2, <3>3 DEF Making
  <2>9. QED
    BY <1>1, <2>1, <2>2, <2>3, <2>4, <2>5, <2>6, <2>7, <2>8, Zenon DEF Work
<1>2. ASSUME NEW a \in Actors, NEW n \in Names, Start(a, n)
      PROVE  AccountInv'
  <2>1. /\ UNCHANGED <<keyFile, metaFile, accounts, user>>
        /\ pc'[a] = "readKey" /\ \A b \in Actors \ {a} : pc'[b] = pc[b]
    BY <1>2, GotoFacts DEF Start, accountVars, Places
  <2>2. Has(a)'
    BY <2>1 DEF Has, PastKey, Registered
  <2>3. QED
    BY <1>q, <2>1, <2>2 DEF Making
<1>3. ASSUME NEW s \in DOMAIN served, NEW n \in Names, Sync(s, n)
      PROVE  AccountInv'
  BY Zenon, <1>3 DEF Sync, AccountInv, accountVars, orderVars
<1>4. ASSUME NEW fresh \in BOOLEAN, Crash(fresh)
      PROVE  AccountInv'
  BY <1>4 DEF Crash, AccountInv, accountVars, Making, PastKey, Registered
<1>5. QED
  BY <1>1, <1>2, <1>3, <1>4 DEF Next

----------------------------------------------------------------------------
(* The theorems.                                                           *)

\* The inductive invariant holds initially.
LEMMA InitInv == Init => IInv
<1> SUFFICES ASSUME Init PROVE IInv
  OBVIOUS
<1>1. up \in BOOLEAN /\ raced \in BOOLEAN /\ failed \in [Actors -> BOOLEAN]
  BY Zenon DEF Init
<1>2. user \in [Actors -> [key : Ids \cup {Absent}, reg : Ids \cup {Absent}]]
  BY DEF Init, NoUser
<1>3. /\ pc \in [Actors -> Places] /\ name \in [Actors -> Names \cup {Absent}]
      /\ zone \in [Names -> SUBSET Actors]
      /\ served \in [NameServers -> [Names -> SUBSET Actors]] /\ clash \subseteq Actors
  BY DEF Init, Places
<1>4. /\ server \in [Actors -> 0 .. Len(Servers)] /\ crashes \in 0 .. MaxCrashes
      /\ keys \in Nat /\ accounts \subseteq Ids
      /\ {keyFile, metaFile} \subseteq Ids \cup {Absent, Torn}
  BY ServersAssumption, ValueAssumption DEF Init
<1>5. TypeOK
  BY <1>1, <1>2, <1>3, <1>4 DEF TypeOK, Places, Ids
<1>6. KeyInv /\ NameInv /\ DnsInv
  BY DEF Init, KeyInv, NameInv, DnsInv, PastKey, Registered
<1>7. AccountInv
  BY DEF Init, AccountInv, Making, PastKey, Registered
<1>8. QED
  BY <1>5, <1>6, <1>7 DEF IInv

\* A race for the key is never forgotten.
LEMMA RacedStays == Next => (raced => raced')
<1>1. ASSUME NEW a \in Actors, Work(a), raced
      PROVE  raced'
  BY <1>1, Zenon DEF Work, ReadKey, MakeKey, WriteKey, ReadMeta, Register, SaveUser, WriteMeta,
     Order, Present, Poll, Deadline, Validate, CleanUp, accountVars
<1>2. QED
  BY <1>1, Zenon DEF Next, Start, Sync, Crash, accountVars

\* Every step keeps it.
LEMMA Inductive == IInv /\ [Next]_vars => IInv'
<1>1. ASSUME IInv, UNCHANGED vars
      PROVE  IInv'
  <2>1. TypeOK' /\ KeyInv' /\ NameInv' /\ DnsInv'
    BY Zenon, <1>1 DEF IInv, vars, accountVars, orderVars, dnsVars, TypeOK, KeyInv, NameInv, DnsInv, Shown
  <2>2. ~raced' => AccountInv'
    BY <1>1 DEF IInv, vars, accountVars, orderVars, AccountInv
  <2>3. QED
    BY Zenon, <2>1, <2>2 DEF IInv
<1>2. ASSUME IInv, Next
      PROVE  IInv'
  <2>1. TypeOK' /\ KeyInv' /\ NameInv' /\ DnsInv'
    BY <1>2, TypeStep, KeyStep, NameStep, DnsStep, Zenon DEF IInv
  <2>2. ~raced' => AccountInv'
    BY <1>2, AccountStep, RacedStays, Zenon DEF IInv
  <2>3. QED
    BY <2>1, <2>2, Zenon DEF IInv
<1>3. QED
  BY <1>1, <1>2

\* Whatever the orders, the name servers and the crashes do, the inductive
\* invariant holds.
THEOREM Invariance == Spec => []IInv
BY InitInv, Inductive, PTL DEF Spec

\* Unless two orders race for the key, account.json is of the key in
\* account.key, and so is the registration an order goes out with.
THEOREM AccountsMatch == Spec => []AccountMatches
<1>1. IInv => AccountMatches
  BY DEF IInv, AccountInv, AccountMatches, Registered
<1>2. QED
  BY <1>1, Invariance, PTL

\* Unless two orders race for the key, the CA ever sees one account.
THEOREM OneAccountOnly == Spec => []OneAccount
<1>1. IInv => OneAccount
  BY DEF IInv, AccountInv, OneAccount
<1>2. QED
  BY <1>1, Invariance, PTL

\* The CA is asked to validate only what every authoritative name server
\* shows, unless an order for the same name overlapped.
THEOREM PresentWaits == Spec => []ValidatesFresh
<1>1. ASSUME IInv PROVE ValidatesFresh
  <2>1. SUFFICES ASSUME NEW a \in Actors, pc[a] = "validate", a \notin clash, NEW s \in DOMAIN served
                 PROVE  a \in served[s][name[a]]
    BY DEF ValidatesFresh
  <2>2. Shown(a) /\ server[a] = Len(Servers)
    BY <1>1, <2>1 DEF IInv, DnsInv
  <2>3. \E i \in 1 .. Len(Servers) : s = Servers[i]
    BY <1>1, Typed DEF IInv, NameServers
  <2>4. QED
    BY <2>2, <2>3 DEF Shown
<1>2. QED
  BY <1>1, Invariance, PTL

----------------------------------------------------------------------------
(* The certificate table.                                                  *)

\* No two files hold certificates with a name in common.
NamesApart ==
  \A b, c \in Bases : \A x \in Layout(b), y \in Layout(c) : b = c \/ x \cap y = {}

\* The maps of certStore and the files, and what is true of the maps at all
\* times: what is indexed is a loaded entry, under a name of its certificate.
StoreInv ==
  /\ disk \in [Bases -> SUBSET Sans]
  /\ entries \in [Bases -> SUBSET Sans]
  /\ index \in [Sans -> {None} \cup [base : Bases, sans : SUBSET Sans]]
  /\ todo \subseteq Bases
  /\ IndexSound

\* Every name of every loaded certificate leads to it: what getCertificate
\* needs, and what the index has as long as no name is in two files.
Indexed ==
  /\ \A b \in Bases : disk[b] \in Layout(b) \cup {{}} /\ entries[b] \in Layout(b) \cup {{}}
  /\ \A b \in Bases : \A s \in entries[b] : index[s] = Entry(b, entries[b])

\* addEntry touches one entry, and of the index what the old and the new
\* certificate of that entry have.
LEMMA AddEntryFacts ==
  ASSUME StoreInv, NEW b \in Bases, NEW x \in SUBSET Sans, addEntry(b, x)
  PROVE  /\ entries' \in [Bases -> SUBSET Sans]
         /\ entries'[b] = x /\ \A c \in Bases \ {b} : entries'[c] = entries[c]
         /\ index' \in [Sans -> {None} \cup [base : Bases, sans : SUBSET Sans]]
         /\ \A s \in Sans :
              index'[s] = IF s \in x THEN Entry(b, x)
                          ELSE IF index[s] = Entry(b, entries[b]) THEN None
                          ELSE index[s]
<1>1. /\ entries' \in [Bases -> SUBSET Sans]
      /\ entries'[b] = x /\ \A c \in Bases \ {b} : entries'[c] = entries[c]
  BY DEF addEntry, StoreInv
<1>2. Entry(b, x) \in [base : Bases, sans : SUBSET Sans]
  BY DEF Entry
<1>3. index' \in [Sans -> {None} \cup [base : Bases, sans : SUBSET Sans]]
  BY <1>2, Zenon DEF addEntry, StoreInv
<1>4. QED
  BY <1>1, <1>3, Zenon DEF addEntry

\* Its two halves.
LEMMA AddEntryEntries ==
  ASSUME StoreInv, NEW b \in Bases, NEW x \in SUBSET Sans, addEntry(b, x)
  PROVE  entries'[b] = x /\ \A c \in Bases \ {b} : entries'[c] = entries[c]
  BY AddEntryFacts

LEMMA AddEntryIndex ==
  ASSUME StoreInv, NEW b \in Bases, NEW x \in SUBSET Sans, addEntry(b, x)
  PROVE  \A s \in Sans :
           index'[s] = IF s \in x THEN Entry(b, x)
                       ELSE IF index[s] = Entry(b, entries[b]) THEN None
                       ELSE index[s]
  BY AddEntryFacts

\* It leaves nothing of the certificate it replaces in the index.
LEMMA AddEntrySound ==
  ASSUME StoreInv, NEW b \in Bases, NEW x \in SUBSET Sans, addEntry(b, x)
  PROVE  IndexSound'
<1> SUFFICES ASSUME NEW s \in Sans, index'[s] # None
             PROVE  s \in index'[s].sans /\ entries'[index'[s].base] = index'[s].sans
  BY DEF IndexSound
<1>1. CASE s \in x
  <2>1. index'[s] = Entry(b, x) /\ entries'[b] = x
    BY <1>1, AddEntryFacts
  <2>2. index'[s].base = b /\ index'[s].sans = x
    BY <2>1 DEF Entry
  <2>3. QED
    BY <1>1, <2>1, <2>2, Zenon
<1>2. CASE s \notin x
  <2>1. index'[s] = index[s] /\ index[s] # Entry(b, entries[b])
    <3>1. index'[s] = IF index[s] = Entry(b, entries[b]) THEN None ELSE index[s]
      BY Zenon, <1>2, AddEntryIndex
    <3>2. QED
      BY Zenon, <3>1
  <2>2. s \in index[s].sans /\ entries[index[s].base] = index[s].sans
    BY <2>1 DEF StoreInv, IndexSound
  <2>3. index[s] \in [base : Bases, sans : SUBSET Sans]
    BY <2>1 DEF StoreInv
  <2>4. index[s].base # b
    BY <2>1, <2>2, <2>3 DEF Entry
  <2>5. QED
    <3>1. index[s].base \in Bases \ {b}
      BY Zenon, <2>3, <2>4
    <3>2. entries'[index[s].base] = entries[index[s].base]
      BY Zenon, <3>1, AddEntryEntries
    <3>3. QED
      BY Zenon, <2>1, <2>2, <3>2
<1>3. QED
  BY <1>1, <1>2

\* What a step does to the table and the files: it loads the file of one host,
\* leaves the table alone while the operator is at work, or empties it.
LEMMA StoreShape ==
  ASSUME StoreInv, StoreNext
  PROVE  /\ todo' \subseteq Bases
         /\ \/ UNCHANGED <<disk, entries, index>>
            \/ \E b \in Bases :
                 disk[b] # {} /\ addEntry(b, disk[b]) /\ UNCHANGED disk
            \/ \E b \in Bases : \E x \in Layout(b) \cup {{}} :
                 disk' = [disk EXCEPT ![b] = x] /\ UNCHANGED <<entries, index>>
            \/ /\ entries' = [b \in Bases |-> {}]
               /\ index' = [s \in Sans |-> None]
               /\ UNCHANGED disk
<1>1. ASSUME NEW l \in Labels, EnsureName(l)
      PROVE  /\ todo' = todo /\ disk' = disk
             /\ \/ UNCHANGED <<entries, index>>
                \/ disk[<<l>>] # {} /\ addEntry(<<l>>, disk[<<l>>])
  BY <1>1, Zenon DEF EnsureName
<1>2. \A l \in Labels : <<l>> \in Bases
  BY DEF Bases
<1>3. CASE \E l \in Labels : EnsureName(l)
  BY <1>1, <1>2, <1>3, Zenon DEF StoreInv
<1>4. CASE Rescan
  BY <1>4, Zenon DEF Rescan
<1>5. CASE \E b \in Bases : LoadFile(b)
  BY <1>5, Zenon DEF LoadFile, StoreInv
<1>6. CASE \E b \in Bases : Unprovision(b)
  BY <1>6, Zenon DEF Unprovision, StoreInv
<1>7. CASE \E b \in Bases : \E x \in Layout(b) : Provision(b, x)
  BY <1>7, Zenon DEF Provision, StoreInv
<1>8. CASE Restart
  BY <1>8, Zenon DEF Restart
<1>9. QED
  BY <1>3, <1>4, <1>5, <1>6, <1>7, <1>8, Zenon DEF StoreNext

\* StoreInv holds initially and every step keeps it.
LEMMA StoreInductive == (StoreInit => StoreInv) /\ (StoreInv /\ [StoreNext]_storeVars => StoreInv')
<1>1. StoreInit => StoreInv
  BY DEF StoreInit, StoreInv, IndexSound
<1>2. ASSUME StoreInv, UNCHANGED <<disk, entries, index>>, todo' \subseteq Bases
      PROVE  StoreInv'
  BY <1>2, Zenon DEF StoreInv, IndexSound
<1>3. ASSUME StoreInv, todo' \subseteq Bases, NEW b \in Bases,
             addEntry(b, disk[b]), UNCHANGED disk
      PROVE  StoreInv'
  <2>1. disk[b] \in SUBSET Sans
    BY <1>3 DEF StoreInv
  <2>2. /\ entries' \in [Bases -> SUBSET Sans]
        /\ index' \in [Sans -> {None} \cup [base : Bases, sans : SUBSET Sans]]
    BY <1>3, <2>1, AddEntryFacts, Zenon
  <2>3. IndexSound'
    BY <1>3, <2>1, AddEntrySound, Zenon
  <2>4. QED
    BY <1>3, <2>2, <2>3, Zenon DEF StoreInv
<1>4. ASSUME StoreInv, todo' \subseteq Bases, NEW b \in Bases, NEW x \in Layout(b) \cup {{}},
             disk' = [disk EXCEPT ![b] = x], UNCHANGED <<entries, index>>
      PROVE  StoreInv'
  <2>1. x \in SUBSET Sans
    BY <1>4, LayoutAssumption
  <2>2. disk' \in [Bases -> SUBSET Sans]
    BY <1>4, <2>1 DEF StoreInv
  <2>3. QED
    BY <1>4, <2>2, Zenon DEF StoreInv, IndexSound
<1>5. ASSUME StoreInv, todo' \subseteq Bases, entries' = [b \in Bases |-> {}],
             index' = [s \in Sans |-> None], UNCHANGED disk
      PROVE  StoreInv'
  <2>1. IndexSound'
    BY <1>5, Zenon DEF IndexSound
  <2>2. QED
    BY <1>5, <2>1, Zenon DEF StoreInv
<1>6. ASSUME StoreInv, StoreNext
      PROVE  StoreInv'
  BY <1>2, <1>3, <1>4, <1>5, <1>6, StoreShape, Zenon
<1>7. ASSUME StoreInv, UNCHANGED storeVars
      PROVE  StoreInv'
  BY <1>7, Zenon DEF storeVars, StoreInv, IndexSound
<1>8. QED
  BY <1>1, <1>6, <1>7, Zenon

\* The files of two hosts share no name.
LEMMA ApartFiles ==
  ASSUME NamesApart, NEW b \in Bases, NEW c \in Bases, b # c,
         NEW x \in Layout(b), NEW y \in Layout(c)
  PROVE  x \cap y = {}
  BY DEF NamesApart

\* Indexed too, when no name is in two files: nobody else's addEntry takes a
\* name away.
LEMMA IndexedInductive ==
  ASSUME NamesApart
  PROVE  /\ StoreInit => Indexed
         /\ StoreInv /\ Indexed /\ [StoreNext]_storeVars => Indexed'
<1>1. StoreInit => Indexed
  BY DEF StoreInit, Indexed
<1>2. ASSUME Indexed, UNCHANGED <<disk, entries, index>>
      PROVE  Indexed'
  BY <1>2, Zenon DEF Indexed
<1>3. ASSUME StoreInv, Indexed, NEW b \in Bases, disk[b] # {},
             addEntry(b, disk[b]), UNCHANGED disk
      PROVE  Indexed'
  <2>1. disk[b] \in SUBSET Sans /\ disk[b] \in Layout(b)
    BY Zenon, <1>3 DEF StoreInv, Indexed
  <2>2. entries'[b] = disk[b] /\ \A c \in Bases \ {b} : entries'[c] = entries[c]
    BY Zenon, <1>3, <2>1, AddEntryEntries
  <2>a. \A s \in Sans :
          index'[s] = IF s \in disk[b] THEN Entry(b, disk[b])
                      ELSE IF index[s] = Entry(b, entries[b]) THEN None
                      ELSE index[s]
    BY Zenon, <1>3, <2>1, AddEntryIndex
  <2>3. \A c \in Bases : entries'[c] \in Layout(c) \cup {{}}
    BY Zenon, <1>3, <2>1, <2>2 DEF Indexed
  <2>4. \A s \in entries'[b] : index'[s] = Entry(b, entries'[b])
    BY Zenon, <2>1, <2>2, <2>a
  <2>5. ASSUME NEW c \in Bases \ {b}, NEW s \in entries'[c]
        PROVE  index'[s] = Entry(c, entries'[c])
    <3>1. s \in entries[c] /\ index[s] = Entry(c, entries[c]) /\ s \in Sans
      BY <1>3, <2>2, <2>5 DEF Indexed, StoreInv
    <3>2. s \notin disk[b]
      <4>1. entries[c] \in Layout(c)
        BY <1>3, <3>1 DEF Indexed
      <4>2. QED
        <5>1. b # c /\ c \in Bases /\ disk[b] \in Layout(b)
          BY Zenon, <2>1, <2>5
        <5>2. disk[b] \cap entries[c] = {}
          BY Zenon, <4>1, <5>1, ApartFiles
        <5>3. QED
          BY Zenon, <3>1, <5>2
    <3>3. index[s] # Entry(b, entries[b])
      BY <2>5, <3>1 DEF Entry
    <3>4. index'[s] = index[s]
      BY Zenon, <2>a, <3>1, <3>2, <3>3
    <3>5. QED
      BY <2>2, <3>1, <3>4, Zenon
  <2>6. QED
    BY <1>3, <2>3, <2>4, <2>5, Zenon DEF Indexed
<1>4. ASSUME StoreInv, Indexed, NEW b \in Bases, NEW x \in Layout(b) \cup {{}},
             disk' = [disk EXCEPT ![b] = x], UNCHANGED <<entries, index>>
      PROVE  Indexed'
  <2>1. \A c \in Bases : disk'[c] = IF c = b THEN x ELSE disk[c]
    BY <1>4 DEF StoreInv
  <2>2. QED
    BY <1>4, <2>1, Zenon DEF Indexed
<1>5. ASSUME Indexed, entries' = [b \in Bases |-> {}], UNCHANGED disk
      PROVE  Indexed'
  BY <1>5, Zenon DEF Indexed
<1>6. ASSUME StoreInv, Indexed, StoreNext
      PROVE  Indexed'
  BY <1>2, <1>3, <1>4, <1>5, <1>6, StoreShape, Zenon
<1>7. ASSUME Indexed, UNCHANGED storeVars
      PROVE  Indexed'
  BY <1>7, Zenon DEF storeVars, Indexed
<1>8. QED
  BY <1>1, <1>6, <1>7, Zenon

\* Whatever certificates are put under whatever names, and whenever the
\* directory is scanned, a handshake is served from loaded entries only, each
\* under a name of its certificate.
THEOREM ServesLoaded == StoreSpec => []IndexSound
<1>1. StoreInv => IndexSound
  BY Zenon DEF StoreInv
<1>2. QED
  BY <1>1, StoreInductive, PTL DEF StoreSpec

\* When no name is in two files, a client whose host some loaded certificate
\* covers is shown a certificate that covers it.
THEOREM ShowsCovering ==
  ASSUME NamesApart
  PROVE  StoreSpec => []HandshakeCovered
<1>1. ASSUME StoreInv, Indexed, NEW h \in Hosts, NEW b \in Bases,
             Covers(entries[b], h)
      PROVE  getCertificate(h) # None /\ Covers(getCertificate(h).sans, h)
  <2>1. \A s \in entries[b] : s \in Sans /\ index[s] # None
    <3>1. \A s \in entries[b] : s \in Sans /\ index[s] = Entry(b, entries[b])
      BY <1>1 DEF StoreInv, Indexed
    <3>2. Entry(b, entries[b]) # None
      <4>1. entries[b] \in SUBSET Sans
        BY <1>1 DEF StoreInv
      <4>2. QED
        BY <4>1, NoneAssumption DEF Entry
    <3>3. QED
      BY <3>1, <3>2, Zenon
  <2>2. Exact(h) \in entries[b] \/ (h # Apex /\ Wildcard(Tail(h)) \in entries[b])
    BY <1>1, Zenon DEF Covers
  <2>3. \A s : At(s) # None => s \in At(s).sans
    BY <1>1, Zenon DEF At, StoreInv, IndexSound
  <2>4. CASE At(Exact(h)) # None
    BY <2>3, <2>4, Zenon DEF getCertificate, Covers
  <2>5. CASE At(Exact(h)) = None
    <3>1. h # Apex /\ At(Wildcard(Tail(h))) # None
      BY <2>1, <2>2, <2>5, Zenon DEF At
    <3>2. Above(h) = At(Wildcard(Tail(h)))
      BY <3>1, Zenon DEF Above
    <3>3. getCertificate(h) = At(Wildcard(Tail(h)))
      BY <2>5, <3>1, <3>2, Zenon DEF getCertificate
    <3>4. QED
      BY <2>3, <3>1, <3>3, Zenon DEF Covers
  <2>6. QED
    BY <2>4, <2>5, Zenon
<1>2. StoreInv /\ Indexed => HandshakeCovered
  BY <1>1, Zenon DEF HandshakeCovered
<1>3. QED
  BY <1>2, StoreInductive, IndexedInductive, PTL DEF StoreSpec
=============================================================================
