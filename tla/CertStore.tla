----------------------------- MODULE CertStore ------------------------------
(***************************************************************************)
(* The certificate table behind every TLS handshake (certStore) and the    *)
(* --no-acme StaticLoader on top of it: an operator drops, replaces and    *)
(* removes certificate files, SIGHUP rescans the directory, and a Register *)
(* asks whether a label is provisioned.                                    *)
(*                                                                         *)
(* A host is the sequence of its labels left of the apex: <<>> is the apex *)
(* itself, <<l>> a tunnel and <<p, l>> a port of it.  A certificate is the *)
(* set of its names; a file is called after a host ("_." + host).          *)
(***************************************************************************)
EXTENDS Sequences, FiniteSets

CONSTANTS
  Labels,      \* tunnel labels
  Ports,       \* port labels
  Layout(_),   \* the certificates an operator may provision under a file name
  None

Apex == <<>>

Bases == {Apex} \cup {<<l>> : l \in Labels}

Hosts == Bases \cup {<<p, l>> : p \in Ports, l \in Labels}

\* A DNS name of a certificate: host, or "*." + host.
Sans == [wild : BOOLEAN, host : Hosts]

Exact(h) == [wild |-> FALSE, host |-> h]

Wildcard(h) == [wild |-> TRUE, host |-> h]

ASSUME LayoutAssumption == \A b \in Bases : Layout(b) \subseteq (SUBSET Sans) \ {{}}

\* nil is no entry.
ASSUME NoneAssumption == None \notin [base : Bases, sans : SUBSET Sans]

VARIABLES
  disk,     \* the names of the certificate in each file, {} when there is none
  entries,  \* certStore.entries, {} when the base name is not loaded
  index,    \* the exact and wildcard maps: name -> entry
  todo,     \* files a directory scan has yet to load
  booting,  \* the scan is the one before serving
  answer    \* what the last EnsureName of each label returned

storeVars == <<disk, entries, index, todo, booting, answer>>

----------------------------------------------------------------------------
(* certStore.                                                              *)

Entry(b, sans) == [base |-> b, sans |-> sans]

\* Mutant: the names of the certificate that is replaced stay indexed.
MutAddEntry(b, sans) ==
  /\ entries' = [entries EXCEPT ![b] = sans]
  /\ index' = [s \in Sans |-> IF s \in sans THEN Entry(b, sans) ELSE index[s]]

\* addEntry: drop what the index has of the entry replaced, then enter every
\* name of the new one, whoever had it.
addEntry(b, sans) ==
  /\ entries' = [entries EXCEPT ![b] = sans]
  /\ index' = [s \in Sans |->
                 IF s \in sans THEN Entry(b, sans)
                 ELSE IF index[s] = Entry(b, entries[b]) THEN None
                 ELSE index[s]]

\* The index entry under a name; there is none to the left of the apex.
At(s) == IF s \in Sans THEN index[s] ELSE None

Above(h) == IF h = Apex THEN None ELSE At(Wildcard(Tail(h)))

\* Mutant: the fallback comes before the wildcard.
MutGetCertificate(sni) ==
  IF At(Exact(sni)) # None THEN At(Exact(sni))
  ELSE IF At(Exact(Apex)) # None THEN At(Exact(Apex))
  ELSE IF Above(sni) # None THEN Above(sni)
  ELSE At(Wildcard(Apex))

\* getCertificate: exact, one-level wildcard, then the apex certificate.
getCertificate(sni) ==
  IF At(Exact(sni)) # None THEN At(Exact(sni))
  ELSE IF Above(sni) # None THEN Above(sni)
  ELSE IF At(Exact(Apex)) # None THEN At(Exact(Apex))
  ELSE At(Wildcard(Apex))

has(h) == At(Exact(h)) # None \/ Above(h) # None

----------------------------------------------------------------------------
(* StaticLoader.                                                           *)

\* EnsureName: loaded already, or a last look at the label's own file.
EnsureName(l) ==
  /\ ~booting
  /\ LET parent == <<l>> IN
     \/ /\ has(parent)
        /\ answer' = [answer EXCEPT ![l] = "ok"]
        /\ UNCHANGED <<entries, index>>
     \/ /\ ~has(parent) /\ disk[parent] # {}
        /\ addEntry(parent, disk[parent])
        /\ answer' = [answer EXCEPT ![l] = "ok"]
     \/ /\ ~has(parent) /\ disk[parent] = {}
        /\ answer' = [answer EXCEPT ![l] = "cert not provisioned"]
        /\ UNCHANGED <<entries, index>>
  /\ UNCHANGED <<disk, todo, booting>>

\* SIGHUP: loadAllFromDir lists the directory ...
Rescan ==
  /\ ~booting /\ todo = {}
  /\ todo' = {b \in Bases : disk[b] # {}}
  /\ UNCHANGED <<disk, entries, index, booting, answer>>

\* ... and loads the files one by one; one that has gone is passed over.  The
\* order of their names is left open.
LoadFile(b) ==
  /\ b \in todo
  /\ todo' = todo \ {b}
  /\ booting' = (booting /\ todo' # {})
  /\ \/ disk[b] # {} /\ addEntry(b, disk[b])
     \/ disk[b] = {} /\ UNCHANGED <<entries, index>>
  /\ UNCHANGED <<disk, answer>>

----------------------------------------------------------------------------
(* The operator.                                                           *)

Provision(b, sans) ==
  /\ disk' = [disk EXCEPT ![b] = sans]
  /\ UNCHANGED <<entries, index, todo, booting, answer>>

Unprovision(b) ==
  /\ disk[b] # {}
  /\ disk' = [disk EXCEPT ![b] = {}]
  /\ UNCHANGED <<entries, index, todo, booting, answer>>

\* The daemon is restarted; it scans the directory before it serves.
Restart ==
  /\ entries' = [b \in Bases |-> {}]
  /\ index' = [s \in Sans |-> None]
  /\ todo' = {b \in Bases : disk[b] # {}}
  /\ booting' = (todo' # {})
  /\ answer' = [l \in Labels |-> None]
  /\ UNCHANGED disk

StoreInit ==
  /\ disk = [b \in Bases |-> {}]
  /\ entries = [b \in Bases |-> {}]
  /\ index = [s \in Sans |-> None]
  /\ todo = {}
  /\ booting = FALSE
  /\ answer = [l \in Labels |-> None]

StoreNext ==
  \/ \E l \in Labels : EnsureName(l)
  \/ Rescan \/ \E b \in Bases : LoadFile(b)
  \/ \E b \in Bases : Unprovision(b) \/ \E sans \in Layout(b) : Provision(b, sans)
  \/ Restart

StoreSpec == StoreInit /\ [][StoreNext]_storeVars

----------------------------------------------------------------------------
(* Properties.                                                             *)

\* Every variable keeps its shape; the index is defined for every name, also
\* right after a restart (newCertStore).
StoreTypeOK ==
  /\ disk \in [Bases -> SUBSET Sans]
  /\ entries \in [Bases -> SUBSET Sans]
  /\ index \in [Sans -> {None} \cup [base : Bases, sans : SUBSET Sans]]
  /\ todo \subseteq Bases
  /\ booting \in BOOLEAN
  /\ answer \in [Labels -> {None, "ok", "cert not provisioned"}]

\* A TLS client verifies a host against the names of a certificate like this.
Covers(sans, h) == Exact(h) \in sans \/ (h # Apex /\ Wildcard(Tail(h)) \in sans)

\* What a handshake serves is loaded: however certificates are replaced and
\* their names change hands, the index holds current entries only, each under
\* a name its certificate has.
IndexSound ==
  \A s \in Sans : index[s] # None =>
    s \in index[s].sans /\ entries[index[s].base] = index[s].sans

\* getCertificate against its reference: a client whose host some loaded
\* certificate covers is shown a certificate that covers it.
HandshakeCovered ==
  \A h \in Hosts :
    (\E b \in Bases : Covers(entries[b], h)) =>
      getCertificate(h) # None /\ Covers(getCertificate(h).sans, h)

----------------------------------------------------------------------------
(* What comments and documentation say, and the code does not ensure.      *)

\* store.go: addEntry "rebuilds the per-SAN indexes", so every name of every
\* loaded certificate is indexed.
IndexComplete == \A b \in Bases : \A s \in entries[b] : index[s] # None

\* docs/manual-certs.md: "On a Register for label `X` whose cert isn't on disk,
\* the server replies `Deny{reason="cert not provisioned"}`".
UnprovisionedDenied ==
  [][\A l \in Labels :
       answer'[l] = "ok" /\ answer[l] # "ok" => disk[<<l>>] # {}
                                                \/ entries[<<l>>] # {}]_storeVars
=============================================================================
