------------------------- MODULE CertManagerProofs --------------------------
(***************************************************************************)
(* Proofs about CertManager, for any number of EnsureName calls and names, *)
(* any cap on concurrent orders and any number of certificates: one order  *)
(* per name, no lost order slot, a served certificate behind every nil     *)
(* that EnsureName returns, and where a .crt and a .key that do not fit    *)
(* together come from.                                                     *)
(***************************************************************************)
EXTENDS CertManager, TLAPS

\* A leaf may take the SMT solver a minute; Zenon tries what it leaves.
USE SMTT(60), Zenon

----------------------------------------------------------------------------
(* The inductive invariant.                                                *)

\* Where a call that leads a flight may be.
Leading == {"readCrt", "readKey", "publish", "slot"} \cup Ordering

\* Who is where: calls never scan, the renewer only orders and the loader only
\* reads; and whoever is at work is at some name.
PlaceInv ==
  /\ \A c \in Callers : pc[c] # "scan"
  /\ pc["renewer"] \in {"idle", "scan", "obtain", "serve"} \cup Saving
  /\ pc["loader"] \in {"idle", "scan", "readCrt", "readKey", "publish"}
  /\ \A a \in Actors : pc[a] \notin {"idle", "scan"} => name[a] \in Names

\* A flight is led by a call that is at its name and still at work, and a call
\* past the second look at the disk leads the flight of its name.
FlightInv ==
  /\ \A n \in Names : flight[n] # None =>
       pc[flight[n]] \in Leading /\ name[flight[n]] = n
  /\ \A c \in Callers : pc[c] \in Ordering \cup {"slot"} => flight[name[c]] = c

\* Whoever saves or publishes a certificate has one.
GotInv == \A a \in Actors : pc[a] \in {"publish", "serve"} \cup Saving => got[a] # 0

\* What is on disk half way through a save.
Halfway(a) ==
  /\ pc[a] = "moveCrt" => tmp["crt"][name[a]] = got[a]
  /\ pc[a] \in {"writeKey", "moveKey"} => files["crt"][name[a]] = got[a]
  /\ pc[a] = "moveKey" => tmp["key"][name[a]] = got[a]

\* Two saves of one name at the same time mark it torn, and a save of a name
\* that is not torn finds on disk what it wrote before.
SaveInv ==
  /\ \A a, b \in Actors :
       pc[a] \in Saving /\ pc[b] \in Saving /\ name[a] = name[b] => a = b \/ name[a] \in torn
  /\ \A a \in Actors : pc[a] \in Saving => name[a] \in torn \/ Halfway(a)

IInv ==
  /\ TypeOK /\ PlaceInv /\ FlightInv /\ SlotsMatchOrders
  /\ GotInv /\ EnsuredIsServed /\ SaveInv /\ PairsFit

----------------------------------------------------------------------------
(* The shapes of a step: what it does to pc, name, flight and slots.       *)

\* The steps of saveResource, spelled out.
LEMMA StepFacts ==
  /\ DOMAIN Step = {"crt", "key"}
  /\ Step["crt"].write = "writeCrt" /\ Step["crt"].move = "moveCrt" /\ Step["crt"].next = "writeKey"
  /\ Step["key"].write = "writeKey" /\ Step["key"].move = "moveKey" /\ Step["key"].next = "serve"
  /\ Step.crt.write = "writeCrt"
<1>1. DOMAIN Step = {"crt", "key"}
  BY DEF Step
<1>2. /\ Step["crt"].write = "writeCrt" /\ Step["crt"].move = "moveCrt" /\ Step["crt"].next = "writeKey"
      /\ Step["key"].write = "writeKey" /\ Step["key"].move = "moveKey" /\ Step["key"].next = "serve"
      /\ Step.crt.write = "writeCrt"
  BY DEF Step
<1>3. QED
  BY <1>1, <1>2

\* The places where a certificate is being saved.
LEMMA SavingIs == Saving = {"writeCrt", "moveCrt", "writeKey", "moveKey"}
BY StepFacts DEF Saving

\* An actor goes on to its next step, and nobody else is concerned.
Turns(a, to) ==
  /\ Goto(a, to) /\ UNCHANGED <<flight, slots>>
  /\ \/ pc[a] \in {"readCrt", "readKey"} /\ to \in {"readKey", "publish"}
     \/ pc[a] = "readKey" /\ a \in Callers /\ to = (IF Leads(a) THEN "slot" ELSE "flight")
     \/ pc[a] \in Ordering /\ to \in Ordering \ {"limit"}

\* A leader gets its token.
Takes(a) ==
  /\ pc[a] = "slot" /\ Goto(a, "limit") /\ UNCHANGED flight
  /\ Slots <= 0 \/ slots < Slots
  /\ slots' = IF Slots > 0 THEN slots + 1 ELSE slots

\* What an actor does has one of five shapes.
LEMMA WorkShape ==
  ASSUME NEW a \in Actors, Work(a)
  PROVE  \/ Flight(a) \/ Scan(a)
         \/ /\ name' = name
            /\ \/ Takes(a)
               \/ pc[a] \in Leading /\ \E r \in {"ok", "err"} : Exit(a, r)
               \/ \E to \in Ordering \cup {"readKey", "publish", "slot", "flight"} : Turns(a, to)
<1>1. CASE ReadCrt(a)
  BY <1>1 DEF ReadCrt, Turns
<1>2. CASE ReadKey(a)
  BY <1>2 DEF ReadKey, Turns, Leading
<1>3. CASE Publish(a)
  BY <1>3 DEF Publish, Leading, Ordering
<1>4. CASE TakeSlot(a)
  BY <1>4 DEF TakeSlot, Takes, Leading
<1>5. CASE OrderLimit(a)
  BY <1>5 DEF OrderLimit, Turns, Leading, Ordering
<1>6. CASE ObtainOK(a)
  BY <1>6, StepFacts, SavingIs DEF ObtainOK, Turns, Ordering
<1>7. CASE ObtainFails(a)
  BY <1>7 DEF ObtainFails, Leading, Ordering
<1>8. CASE SaveFails(a)
  BY <1>8 DEF SaveFails, Leading, Ordering
<1>9. ASSUME NEW f \in DOMAIN Step, WriteTmp(a, f)
      PROVE  name' = name /\ \E to \in Ordering : Turns(a, to)
  BY <1>9, StepFacts, SavingIs DEF WriteTmp, Turns, Ordering
<1>10. ASSUME NEW f \in DOMAIN Step, Move(a, f)
       PROVE  /\ name' = name
              /\ \/ pc[a] \in Leading /\ Exit(a, "err")
                 \/ \E to \in Ordering : Turns(a, to)
  BY <1>10, StepFacts, SavingIs DEF Move, Turns, Ordering, Leading
<1>11. QED
  BY <1>1, <1>2, <1>3, <1>4, <1>5, <1>6, <1>7, <1>8, <1>9, <1>10 DEF Work

\* Exit, actor by actor.
LEMMA ExitFacts ==
  ASSUME TypeOK, PlaceInv, NEW a \in Actors, NEW r \in {"ok", "err"}, Exit(a, r)
  PROVE  /\ pc'[a] = (IF a \in Callers THEN r ELSE "scan")
         /\ \A b \in Actors \ {a} :
              \/ pc'[b] = pc[b]
              \/ pc[b] = "join" /\ b \in Callers /\ pc'[b] = r /\ name[b] = name[a] /\ Leads(a)
         /\ \A n \in Names : flight'[n] = (IF flight[n] = a THEN None ELSE flight[n])
         /\ slots' = IF HoldsSlot(a) THEN slots - 1 ELSE slots
         /\ got'[a] = 0 /\ \A b \in Actors \ {a} : got'[b] = got[b]
<1>1. \A b \in Actors : pc[b] = "join" => b \in Callers
  BY SavingIs DEF PlaceInv, Actors
<1>2. QED
  BY <1>1 DEF Exit, TypeOK

\* Of the others only those who joined move.
LEMMA ExitOthers ==
  ASSUME TypeOK, PlaceInv, NEW a \in Actors, NEW r \in {"ok", "err"}, Exit(a, r)
  PROVE  \A b \in Actors \ {a} : pc'[b] = pc[b] \/ pc[b] = "join"
  BY ExitFacts

\* The part of it that is about places.
LEMMA ExitMoves ==
  ASSUME TypeOK, PlaceInv, NEW a \in Actors, NEW r \in {"ok", "err"}, Exit(a, r)
  PROVE  /\ pc'[a] = (IF a \in Callers THEN r ELSE "scan")
         /\ \A b \in Actors \ {a} : \/ pc'[b] = pc[b]
                                    \/ pc[b] = "join" /\ b \in Callers /\ pc'[b] = r
  BY ExitFacts

\* Going on changes one entry of pc.
LEMMA GotoFacts ==
  ASSUME TypeOK, NEW a \in Actors, NEW to, Goto(a, to)
  PROVE  pc'[a] = to /\ \A b \in Actors \ {a} : pc'[b] = pc[b]
BY DEF Goto, TypeOK

\* The pass of the renewer and the loader.
LEMMA ScanFacts ==
  ASSUME TypeOK, PlaceInv, NEW a \in Actors, Scan(a)
  PROVE  /\ a \in {"renewer", "loader"} /\ pc[a] = "scan"
         /\ \A b \in Actors \ {a} : pc'[b] = pc[b] /\ name'[b] = name[b]
         /\ \/ a = "loader" /\ pc'[a] = "readCrt" /\ name'[a] \in Names
            \/ a = "renewer" /\ pc'[a] \in {"obtain", "scan"} /\ name'[a] \in Names
            \/ pc'[a] = "idle"
         /\ name' \in [Actors -> Names \cup {None}]
         /\ todo' \in [Actors -> SUBSET (Names \X Certs)]
         /\ UNCHANGED <<flight, slots>>
<1>1. a \in {"renewer", "loader"} /\ pc[a] = "scan"
  BY DEF Scan, PlaceInv, Actors
<1>2. CASE todo[a] = {} /\ name' = [name EXCEPT ![a] = None] /\ Goto(a, "idle") /\ UNCHANGED todo
  BY <1>1, <1>2, GotoFacts DEF Scan, TypeOK
<1>3. ASSUME NEW e \in todo[a],
             name' = [name EXCEPT ![a] = e[1]],
             todo' = [todo EXCEPT ![a] = @ \ {e}],
             Goto(a, IF a = "loader" THEN "readCrt"
                     ELSE IF e[2] \in due THEN "obtain" ELSE "scan")
      PROVE  /\ \A b \in Actors \ {a} : pc'[b] = pc[b] /\ name'[b] = name[b]
             /\ \/ a = "loader" /\ pc'[a] = "readCrt" /\ name'[a] \in Names
                \/ a = "renewer" /\ pc'[a] \in {"obtain", "scan"} /\ name'[a] \in Names
             /\ name' \in [Actors -> Names \cup {None}]
             /\ todo' \in [Actors -> SUBSET (Names \X Certs)]
  <2>1. e[1] \in Names /\ todo[a] \ {e} \in SUBSET (Names \X Certs)
    BY <1>3 DEF TypeOK
  <2>2. name' \in [Actors -> Names \cup {None}] /\ todo' \in [Actors -> SUBSET (Names \X Certs)]
    BY <1>3, <2>1 DEF TypeOK
  <2>3. name'[a] \in Names /\ \A b \in Actors \ {a} : name'[b] = name[b]
    BY <1>3, <2>1 DEF TypeOK
  <2>4. QED
    BY <1>1, <1>3, <2>2, <2>3, GotoFacts
<1>4. QED
  BY <1>1, <1>2, <1>3, Zenon DEF Scan

----------------------------------------------------------------------------
(* The files.                                                              *)

\* Every step keeps what a save leaves on disk half way, and the pairs whole.
LEMMA SaveStep ==
  ASSUME TypeOK, PlaceInv, GotInv, SaveInv, PairsFit, Next
  PROVE  SaveInv' /\ PairsFit'
<1> USE SavingIs
<1>t. /\ \A a, b \in Actors : pc[a] \in Saving /\ pc[b] \in Saving /\ name[a] = name[b]
                              => a = b \/ name[a] \in torn
      /\ \A a \in Actors : pc[a] \in Saving => name[a] \in torn \/ Halfway(a)
      /\ \A n \in Names : Pair(n) \/ n \in torn \/ \E a \in Actors : pc[a] \in Saving /\ name[a] = n
  BY DEF SaveInv, PairsFit
<1>q. ASSUME files' = files, tmp' = tmp, torn' = torn,
             \A b \in Actors : pc[b] \in Saving \/ pc'[b] \in Saving =>
               pc'[b] = pc[b] /\ name'[b] = name[b] /\ got'[b] = got[b]
      PROVE  SaveInv' /\ PairsFit'
  <2>1. \A a \in Actors : pc'[a] \in Saving /\ Halfway(a) => Halfway(a)'
    BY <1>q DEF Halfway
  <2>2. SaveInv'
    BY <1>t, <1>q, <2>1 DEF SaveInv
  <2>3. PairsFit'
    BY <1>t, <1>q DEF PairsFit, Pair
  <2>4. QED
    BY <2>2, <2>3
<1>g. ASSUME NEW a \in Actors, NEW to, Goto(a, to), pc[a] \notin Saving, to \notin Saving,
             files' = files, tmp' = tmp, torn' = torn,
             \A b \in Actors \ {a} : name'[b] = name[b] /\ got'[b] = got[b]
      PROVE  SaveInv' /\ PairsFit'
  BY <1>g, <1>q, GotoFacts
<1>e. ASSUME NEW a \in Actors, NEW r \in {"ok", "err"}, Exit(a, r), pc[a] \notin Saving, name' = name,
             files' = files, tmp' = tmp, torn' = torn
      PROVE  SaveInv' /\ PairsFit'
  <2>1. \A b \in Actors : pc[b] \in Saving \/ pc'[b] \in Saving => pc'[b] = pc[b] /\ got'[b] = got[b]
    BY <1>e, ExitFacts
  <2>2. QED
    BY <1>e, <1>q, <2>1
<1>1. ASSUME NEW a \in Actors, Work(a)
      PROVE  SaveInv' /\ PairsFit'
  <2>n. pc[a] \notin {"idle", "scan"} => name[a] \in Names
    BY DEF PlaceInv
  <2>1. CASE ReadCrt(a)
    BY <1>g, <2>1 DEF ReadCrt, TypeOK, diskVars
  <2>2. CASE ReadKey(a)
    <3>1. /\ pc[a] \notin Saving /\ name' = name /\ files' = files /\ tmp' = tmp /\ torn' = torn
          /\ \A b \in Actors \ {a} : Exit(a, "err") \/ got'[b] = got[b]
          /\ Exit(a, "err") \/ \E to \in {"publish", "slot", "flight"} : Goto(a, to)
      BY <2>2 DEF ReadKey, TypeOK, diskVars
    <3>2. QED
      BY <1>g, <1>e, <3>1
  <2>3. CASE Publish(a) \/ ObtainFails(a)
    BY <1>e, <2>3 DEF Publish, ObtainFails, diskVars
  <2>4. CASE Flight(a)
    BY <1>g, <2>4 DEF Flight, diskVars
  <2>5. CASE TakeSlot(a)
    BY <1>g, <1>e, <2>5 DEF TakeSlot, diskVars
  <2>6. CASE OrderLimit(a)
    BY <1>g, <1>e, <2>6 DEF OrderLimit, diskVars
  <2>7. CASE ObtainOK(a)
    <3>1. /\ pc[a] = "obtain" /\ pc'[a] = "writeCrt" /\ \A b \in Actors \ {a} : pc'[b] = pc[b]
      BY <2>7, GotoFacts, StepFacts DEF ObtainOK
    <3>2. name' = name /\ files' = files /\ tmp' = tmp /\ \A b \in Actors \ {a} : got'[b] = got[b]
      BY <2>7 DEF ObtainOK, TypeOK, diskVars
    <3>3. /\ torn \subseteq torn'
          /\ \A b \in Actors \ {a} : pc[b] \in Saving /\ name[b] = name[a] => name[a] \in torn'
      BY <2>7 DEF ObtainOK
    <3>4. \A b, d \in Actors : pc'[b] \in Saving /\ pc'[d] \in Saving /\ name[b] = name[d]
                               => b = d \/ name[b] \in torn'
      BY <1>t, <3>1, <3>3
    <3>5. \A b \in Actors : pc'[b] \in Saving => name[b] \in torn' \/ Halfway(b)'
      <4>1. Halfway(a)'
        BY <3>1 DEF Halfway
      <4>2. \A b \in Actors \ {a} : Halfway(b) => Halfway(b)'
        BY <3>1, <3>2 DEF Halfway
      <4>3. QED
        BY <1>t, <3>1, <3>3, <4>1, <4>2
    <3>6. \A n \in Names : Pair(n) \/ n \in torn' \/ \E b \in Actors : pc'[b] \in Saving /\ name[b] = n
      <4>1. \A b \in Actors : pc[b] \in Saving => pc'[b] \in Saving
        BY <3>1
      <4>2. \A n \in torn : n \in torn'
        BY <3>3
      <4>3. QED
        BY <1>t, <4>1, <4>2
    <3>7. QED
      BY <3>2, <3>4, <3>5, <3>6 DEF SaveInv, PairsFit, Pair
  <2>8. CASE SaveFails(a)
    <3>1. /\ pc[a] \in Saving /\ name' = name /\ files' = files /\ tmp' = tmp /\ torn \subseteq torn'
          /\ Pair(name[a]) \/ name[a] \in torn'
      BY <2>8 DEF SaveFails, diskVars
    <3>2. \A b \in Actors : pc'[b] \in Saving => b # a /\ pc'[b] = pc[b] /\ got'[b] = got[b]
      BY <2>8, ExitFacts DEF SaveFails
    <3>3. \A b \in Actors \ {a} : pc[b] \in Saving => pc'[b] \in Saving
      BY <2>8, ExitFacts DEF SaveFails
    <3>4. \A b \in Actors : pc'[b] \in Saving => name[b] \in torn' \/ Halfway(b)'
      BY <1>t, <3>1, <3>2 DEF Halfway
    <3>5. SaveInv'
      BY <1>t, <3>1, <3>2, <3>4 DEF SaveInv
    <3>6. \A n \in Names :
            Pair(n) \/ n \in torn' \/ \E b \in Actors : pc'[b] \in Saving /\ name[b] = n
      BY <1>t, <3>1, <3>3
    <3>8. PairsFit'
      BY <3>1, <3>6 DEF PairsFit, Pair
    <3>7. QED
      BY <3>5, <3>8
  <2>9. CASE Scan(a)
    <3>1. \E to \in {"readCrt", "obtain", "scan", "idle"} : Goto(a, to)
      BY <2>9 DEF Scan
    <3>2. pc[a] \notin Saving /\ got' = got /\ files' = files /\ tmp' = tmp /\ torn' = torn
      BY <2>9 DEF Scan, diskVars
    <3>3. \A b \in Actors \ {a} : name'[b] = name[b]
      BY <2>9, ScanFacts
    <3>4. QED
      BY <1>g, <3>1, <3>2, <3>3
  <2>10. ASSUME NEW f \in DOMAIN Step, WriteTmp(a, f)
         PROVE  SaveInv' /\ PairsFit'
    <3>0. f \in {"crt", "key"} /\ pc[a] = Step[f].write /\ pc[a] \in Saving /\ name[a] \in Names
      BY <2>10, <2>n, StepFacts DEF WriteTmp
    <3>1. /\ pc'[a] = Step[f].move /\ pc'[a] \in Saving /\ \A b \in Actors \ {a} : pc'[b] = pc[b]
      BY <2>10, <3>0, GotoFacts, StepFacts DEF WriteTmp
    <3>2. name' = name /\ files' = files /\ got' = got /\ torn' = torn
      BY <2>10 DEF WriteTmp
    <3>3. /\ tmp'[f][name[a]] = got[a]
          /\ \A h \in {"crt", "key"}, n \in Names : n # name[a] => tmp'[h][n] = tmp[h][n]
      BY Zenon, <2>10, <3>0 DEF WriteTmp, TypeOK
    <3>4. Halfway(a) => Halfway(a)'
      BY <3>0, <3>1, <3>2, <3>3, StepFacts DEF Halfway
    <3>5. \A b \in Actors \ {a} : pc[b] \in Saving => name[b] \in Names /\ (name[b] = name[a] => name[b] \in torn)
      BY Zenon, <1>t, <3>0 DEF PlaceInv
    <3>6. \A b \in Actors \ {a} : pc[b] \in Saving /\ Halfway(b) => name[b] \in torn \/ Halfway(b)'
      BY <3>1, <3>2, <3>3, <3>5 DEF Halfway
    <3>7. \A b \in Actors : pc'[b] \in Saving <=> pc[b] \in Saving
      BY <3>0, <3>1
    <3>8. SaveInv'
      BY <1>t, <3>2, <3>4, <3>6, <3>7 DEF SaveInv
    <3>9. PairsFit'
      BY <1>t, <3>2, <3>7 DEF PairsFit, Pair
    <3>10. QED
      BY <3>8, <3>9
  <2>11. ASSUME NEW f \in DOMAIN Step, Move(a, f)
         PROVE  SaveInv' /\ PairsFit'
    <3>0. f \in {"crt", "key"} /\ pc[a] = Step[f].move /\ pc[a] \in Saving /\ name[a] \in Names
      BY <2>11, <2>n, StepFacts DEF Move
    <3>1. name' = name /\ torn' = torn
      BY <2>11 DEF Move
    <3>2. got[a] # 0
      BY <3>0 DEF GotInv
    <3>5. \A b \in Actors \ {a} : pc[b] \in Saving => name[b] \in Names /\ (name[b] = name[a] => name[b] \in torn)
      BY <1>t, <3>0 DEF PlaceInv
    <3>3. CASE /\ files' = [files EXCEPT ![f][name[a]] = tmp[f][name[a]]]
               /\ tmp' = [tmp EXCEPT ![f][name[a]] = 0]
               /\ Goto(a, Step[f].next) /\ got' = got
      <4>1. /\ pc'[a] = Step[f].next /\ \A b \in Actors \ {a} : pc'[b] = pc[b]
        BY <3>3, GotoFacts
      <4>2. \A h \in {"crt", "key"}, n \in Names : n # name[a] => tmp'[h][n] = tmp[h][n] /\ files'[h][n] = files[h][n]
        BY <3>0, <3>3 DEF TypeOK
      <4>3. /\ files'[f][name[a]] = tmp[f][name[a]]
            /\ \A h \in {"crt", "key"} : h # f => files'[h][name[a]] = files[h][name[a]]
        BY <3>0, <3>3 DEF TypeOK
      <4>4. \A b \in Actors \ {a} : pc[b] \in Saving /\ Halfway(b) => name[b] \in torn \/ Halfway(b)'
        BY <3>1, <3>3, <3>5, <4>1, <4>2 DEF Halfway
      <4>5. pc'[a] \in Saving /\ Halfway(a) => Halfway(a)'
        BY <3>0, <3>1, <3>3, <4>1, <4>3, StepFacts DEF Halfway
      <4>6. pc'[a] \notin Saving /\ Halfway(a) => Pair(name[a])'
        BY <3>0, <3>1, <4>1, <4>3, StepFacts DEF Halfway, Pair
      <4>7. \A b \in Actors : pc'[b] \in Saving => pc[b] \in Saving
        BY <3>0, <4>1
      <4>8. SaveInv'
        BY <1>t, <3>1, <4>4, <4>5, <4>7 DEF SaveInv
      <4>9. \A n \in Names \ {name[a]} : Pair(n) => Pair(n)'
        BY <4>2 DEF Pair
      <4>10. \A n \in Names \ {name[a]} :
               Pair(n)' \/ n \in torn \/ \E b \in Actors : pc'[b] \in Saving /\ name[b] = n
        BY <1>t, <4>1, <4>9
      <4>11. Pair(name[a])' \/ name[a] \in torn \/ pc'[a] \in Saving
        BY <1>t, <3>0, <4>6
      <4>12. PairsFit'
        BY <3>1, <4>10, <4>11 DEF PairsFit
      <4>13. QED
        BY <4>8, <4>12
    <3>4. CASE tmp[f][name[a]] = 0 /\ Exit(a, "err") /\ UNCHANGED diskVars
      <4>1. name[a] \in torn
        BY <1>t, <3>0, <3>2, <3>4, StepFacts DEF Halfway
      <4>2. \A b \in Actors : pc'[b] \in Saving => b # a /\ pc'[b] = pc[b] /\ got'[b] = got[b]
        BY <3>4, ExitFacts
      <4>3. \A b \in Actors \ {a} : pc[b] \in Saving => pc'[b] \in Saving
        BY <3>4, ExitFacts
      <4>4. \A b \in Actors : pc'[b] \in Saving => name[b] \in torn \/ Halfway(b)'
        BY <1>t, <3>1, <3>4, <4>2 DEF Halfway, diskVars
      <4>5. SaveInv'
        BY <1>t, <3>1, <4>2, <4>4 DEF SaveInv
      <4>6. PairsFit'
        BY <1>t, <3>1, <3>4, <4>1, <4>3 DEF PairsFit, Pair, diskVars
      <4>7. QED
        BY <4>5, <4>6
    <3>6. QED
      BY <2>11, <3>3, <3>4 DEF Move
  <2>12. QED
    BY <1>1, <2>1, <2>2, <2>3, <2>4, <2>5, <2>6, <2>7, <2>8, <2>9, <2>10, <2>11, Zenon DEF Work
<1>2. ASSUME NEW c \in Callers, NEW n \in Names, EnsureName(c, n)
      PROVE  SaveInv' /\ PairsFit'
  <2>1. \A b \in Actors \ {c} : name'[b] = name[b]
    BY <1>2 DEF EnsureName, TypeOK
  <2>2. QED
    BY <1>2, <1>g, <2>1 DEF EnsureName, Actors, Rest, diskVars
<1>3. CASE Renew
  BY <1>3, <1>g DEF Renew, Actors, diskVars
<1>4. CASE Rescan
  BY <1>4, <1>g DEF Rescan, Actors, diskVars
<1>5. CASE Restart
  BY <1>5 DEF Restart, SaveInv, PairsFit, Pair, diskVars
<1>6. CASE \E g \in 1 .. MaxOrders : Age(g)
  BY <1>6, <1>q DEF Age, diskVars
<1>7. QED
  BY <1>1, <1>2, <1>3, <1>4, <1>5, <1>6 DEF Next

----------------------------------------------------------------------------
(* Certificates in hand and in the table.                                  *)

Holding == {"publish", "serve"} \cup Saving

\* Every step keeps a certificate with whoever is about to save or to publish
\* it, and in the table for whoever was told that it is there.
LEMMA ServedStep ==
  ASSUME TypeOK, PlaceInv, GotInv, EnsuredIsServed, Next
  PROVE  GotInv' /\ EnsuredIsServed'
<1> USE SavingIs
<1>t. /\ \A b \in Actors : pc[b] \in Holding => got[b] # 0
      /\ \A c \in Callers : pc[c] = "ok" => table[name[c]] # 0
  BY DEF GotInv, EnsuredIsServed, Holding
<1>s. ASSUME \A b \in Actors : pc'[b] \in Holding => got'[b] # 0,
             \A c \in Callers : pc'[c] = "ok" => table'[name'[c]] # 0
      PROVE  GotInv' /\ EnsuredIsServed'
  BY <1>s DEF GotInv, EnsuredIsServed, Holding
<1>g. ASSUME NEW a \in Actors, NEW to, Goto(a, to), to # "ok", table' = table,
             to \in Holding => got'[a] # 0,
             \A b \in Actors \ {a} : name'[b] = name[b] /\ got'[b] = got[b]
      PROVE  GotInv' /\ EnsuredIsServed'
  <2>1. pc'[a] = to /\ \A b \in Actors \ {a} : pc'[b] = pc[b]
    BY <1>g, GotoFacts
  <2>2. \A b \in Actors : pc'[b] \in Holding => got'[b] # 0
    BY <1>t, <1>g, <2>1
  <2>3. \A c \in Callers : pc'[c] = "ok" => table'[name'[c]] # 0
    BY <1>t, <1>g, <2>1 DEF Actors
  <2>4. QED
    BY <1>s, <2>2, <2>3
<1>e. ASSUME NEW a \in Actors, Exit(a, "err"), table' = table, name' = name
      PROVE  GotInv' /\ EnsuredIsServed'
  <2>1. \A b \in Actors : pc'[b] \in Holding => b # a /\ pc'[b] = pc[b] /\ got'[b] = got[b]
    BY <1>e, ExitFacts DEF Holding
  <2>2. \A c \in Callers : pc'[c] = "ok" => pc[c] = "ok"
    BY <1>e, ExitFacts DEF Actors
  <2>3. QED
    BY <1>t, <1>s, <1>e, <2>1, <2>2
<1>1. ASSUME NEW a \in Actors, Work(a)
      PROVE  GotInv' /\ EnsuredIsServed'
  <2>n. pc[a] \notin {"idle", "scan"} => name[a] \in Names
    BY DEF PlaceInv
  <2>1. CASE ReadCrt(a)
    BY <1>g, <2>1 DEF ReadCrt, Holding, TypeOK
  <2>2. CASE ReadKey(a)
    <3>1. CASE Exit(a, "err")
      BY Zenon, <1>e, <2>2, <3>1 DEF ReadKey
    <3>2. CASE Goto(a, "publish") /\ got[a] # 0 /\ got' = got
      BY <1>g, <2>2, <3>2 DEF ReadKey
    <3>3. CASE Goto(a, IF Leads(a) THEN "slot" ELSE "flight") /\ got' = [got EXCEPT ![a] = 0]
      BY Zenon, <1>g, <2>2, <3>3 DEF ReadKey, Holding, TypeOK
    <3>4. QED
      BY Zenon, <2>2, <3>1, <3>2, <3>3 DEF ReadKey
  <2>3. CASE Publish(a)
    <3>1. name' = name /\ got[a] # 0 /\ name[a] \in Names /\ Exit(a, "ok")
      BY <1>t, <2>3, <2>n DEF Publish, Holding
    <3>2. table'[name[a]] # 0 /\ \A n \in Names : table'[n] = table[n] \/ table'[n] = got[a]
      BY Zenon, <2>3, <3>1 DEF Publish, TypeOK
    <3>3. \A b \in Actors : pc'[b] \in Holding => b # a /\ pc'[b] = pc[b] /\ got'[b] = got[b]
      BY <3>1, ExitFacts DEF Holding
    <3>4. \A c \in Callers : pc'[c] = "ok" => name[c] = name[a] \/ pc[c] = "ok"
      BY <3>1, ExitFacts DEF Actors
    <3>5. \A c \in Callers : pc[c] = "ok" => name[c] \in Names
      BY DEF PlaceInv, Actors
    <3>6. \A c \in Callers : pc'[c] = "ok" => table'[name[c]] # 0
      BY <1>t, <3>1, <3>2, <3>4, <3>5
    <3>7. QED
      BY <1>t, <1>s, <3>1, <3>3, <3>6
  <2>4. CASE Flight(a)
    BY <1>g, <2>4 DEF Flight, Holding
  <2>5. CASE TakeSlot(a)
    BY <1>g, <1>e, <2>5 DEF TakeSlot, Holding
  <2>6. CASE OrderLimit(a)
    BY <1>g, <1>e, <2>6 DEF OrderLimit, Holding
  <2>7. CASE ObtainOK(a)
    <3>1. got'[a] = issued + 1 /\ issued \in Nat /\ \A b \in Actors \ {a} : got'[b] = got[b]
      BY <2>7, CertAssumption DEF ObtainOK, TypeOK, Certs
    <3>2. QED
      BY <1>g, <2>7, <3>1, StepFacts DEF ObtainOK
  <2>8. CASE ObtainFails(a) \/ SaveFails(a)
    BY <1>e, <2>8 DEF ObtainFails, SaveFails
  <2>9. CASE Scan(a)
    <3>1. \E to : Goto(a, to) /\ to \in {"readCrt", "obtain", "scan", "idle"}
      BY <2>9 DEF Scan
    <3>2. table' = table /\ got' = got
      BY <2>9 DEF Scan
    <3>3. \A b \in Actors \ {a} : name'[b] = name[b]
      BY <2>9, ScanFacts
    <3>4. QED
      BY <1>g, <3>1, <3>2, <3>3 DEF Holding
  <2>10. ASSUME NEW f \in DOMAIN Step, WriteTmp(a, f)
         PROVE  GotInv' /\ EnsuredIsServed'
    <3>1. /\ pc[a] \in Holding /\ Goto(a, Step[f].move) /\ Step[f].move # "ok"
          /\ got' = got /\ name' = name /\ table' = table
      BY <2>10, StepFacts DEF WriteTmp, Holding
    <3>2. QED
      BY <1>t, <1>g, <3>1
  <2>11. ASSUME NEW f \in DOMAIN Step, Move(a, f)
         PROVE  GotInv' /\ EnsuredIsServed'
    <3>1. pc[a] \in Holding /\ name' = name /\ table' = table
      BY <2>11, StepFacts DEF Move, Holding
    <3>2. CASE Goto(a, Step[f].next) /\ got' = got
      <4>1. Step[f].next # "ok"
        BY StepFacts
      <4>2. QED
        BY <1>t, <1>g, <3>1, <3>2, <4>1
    <3>3. CASE Exit(a, "err")
      BY <1>e, <3>1, <3>3
    <3>4. QED
      BY <2>11, <3>2, <3>3 DEF Move
  <2>12. QED
    BY <1>1, <2>1, <2>2, <2>3, <2>4, <2>5, <2>6, <2>7, <2>8, <2>9, <2>10, <2>11, Zenon DEF Work
<1>2. ASSUME NEW c \in Callers, NEW n \in Names, EnsureName(c, n)
      PROVE  GotInv' /\ EnsuredIsServed'
  <2>1. \A b \in Actors \ {c} : name'[b] = name[b]
    BY <1>2 DEF EnsureName, TypeOK
  <2>2. QED
    BY <1>2, <1>g, <2>1 DEF EnsureName, Holding, Actors
<1>3. CASE Renew
  BY <1>3, <1>g DEF Renew, Holding, Actors
<1>4. CASE Rescan
  BY <1>4, <1>g DEF Rescan, Holding, Actors
<1>5. CASE Restart
  BY <1>5, <1>s DEF Restart, Holding, Actors
<1>6. CASE \E g \in 1 .. MaxOrders : Age(g)
  BY <1>6, <1>t, <1>s DEF Age
<1>7. QED
  BY <1>1, <1>2, <1>3, <1>4, <1>5, <1>6 DEF Next

----------------------------------------------------------------------------
(* Types.                                                                  *)

Places == Rest \cup Ordering
          \cup {"readCrt", "readKey", "publish", "flight", "join", "slot", "scan"}

\* No certificate is one of the values a file may have.
LEMMA NoCert == 0 \in Certs
  BY CertAssumption DEF Certs

\* Writing one file keeps the type of the directory.
LEMMA FilesTyped ==
  ASSUME NEW d \in [{"crt", "key"} -> [Names -> Certs]], NEW f \in {"crt", "key"},
         NEW n, NEW x \in Certs
  PROVE  [d EXCEPT ![f][n] = x] \in [{"crt", "key"} -> [Names -> Certs]]
  BY Zenon

\* Going on and ending keep the types of what they change.
LEMMA PcTypes ==
  ASSUME TypeOK, NEW a \in Actors
  PROVE  /\ \A to \in Places : Goto(a, to) => pc' \in [Actors -> Places]
         /\ \A r \in {"ok", "err"} : Exit(a, r) =>
              /\ pc' \in [Actors -> Places]
              /\ flight' \in [Names -> Callers \cup {None}]
              /\ got' \in [Actors -> Certs]
<1>1. pc \in [Actors -> Places] /\ {"ok", "err", "scan"} \subseteq Places
  BY DEF TypeOK, Places, Rest
<1>2. ASSUME NEW to \in Places, Goto(a, to)
      PROVE  pc' \in [Actors -> Places]
  BY <1>1, <1>2 DEF Goto
<1>3. ASSUME NEW r \in {"ok", "err"}, Exit(a, r)
      PROVE  /\ pc' \in [Actors -> Places]
             /\ flight' \in [Names -> Callers \cup {None}]
             /\ got' \in [Actors -> Certs]
  <2>1. pc' \in [Actors -> Places]
    BY <1>1, <1>3 DEF Exit
  <2>2. flight' \in [Names -> Callers \cup {None}]
    BY <1>3 DEF Exit, TypeOK
  <2>3. got' \in [Actors -> Certs]
    BY <1>3, CertAssumption DEF Exit, TypeOK, Certs
  <2>4. QED
    BY <2>1, <2>2, <2>3
<1>4. QED
  BY <1>2, <1>3

\* Every step keeps every variable's type.
LEMMA TypeStep ==
  ASSUME TypeOK, PlaceInv, slots' \in Nat, Next
  PROVE  TypeOK'
<1> USE SavingIs
<1>p. pc' \in [Actors -> Places] <=>
        pc' \in [Actors -> Rest \cup Ordering \cup {"readCrt", "readKey", "publish",
                                                    "flight", "join", "slot", "scan"}]
  BY DEF Places
<1>1. ASSUME NEW a \in Actors, Work(a)
      PROVE  TypeOK'
  <2>p. {"readCrt", "readKey", "publish", "flight", "join", "slot"} \cup Ordering \subseteq Places
    BY DEF Places
  <2>o. {"limit", "obtain", "serve"} \cup Saving \subseteq Places
    BY DEF Places, Ordering
  <2>n. pc[a] \notin {"idle", "scan"} => name[a] \in Names
    BY DEF PlaceInv
  <2>1. CASE ReadCrt(a)
    <3>1. name[a] \in Names /\ files["crt"][name[a]] \in Certs
      BY <2>1, <2>n DEF ReadCrt, TypeOK
    <3>2. pc' \in [Actors -> Places] /\ got' \in [Actors -> Certs]
      BY <2>1, <2>p, <3>1, PcTypes DEF ReadCrt, TypeOK
    <3>3. QED
      BY <1>p, <2>1, <3>2 DEF ReadCrt, TypeOK, diskVars, caVars
  <2>2. CASE ReadKey(a)
    <3>1. /\ pc' \in [Actors -> Places] /\ got' \in [Actors -> Certs]
          /\ flight' \in [Names -> Callers \cup {None}]
      <4>1. CASE Exit(a, "err")
        BY Zenon, <4>1, PcTypes
      <4>2. CASE \E to \in Places : Goto(a, to) /\ flight' = flight
                                   /\ (got' = got \/ got' = [got EXCEPT ![a] = 0])
        <5>1. pc' \in [Actors -> Places] /\ flight' = flight
          BY Zenon, <4>2, PcTypes
        <5>2. 0 \in Certs /\ got \in [Actors -> Certs] /\ flight \in [Names -> Callers \cup {None}]
          BY Zenon, NoCert DEF TypeOK
        <5>3. got' = got \/ got' = [got EXCEPT ![a] = 0]
          BY Zenon, <4>2
        <5>4. got' \in [Actors -> Certs]
          BY Zenon, <5>2, <5>3
        <5>5. QED
          BY Zenon, <5>1, <5>2, <5>4
      <4>3. {"publish", "slot", "flight"} \subseteq Places
        BY DEF Places
      <4>4. QED
        BY <2>2, <4>1, <4>2, <4>3 DEF ReadKey
    <3>2. QED
      BY Zenon, <1>p, <2>2, <3>1 DEF ReadKey, TypeOK, diskVars, caVars
  <2>3. CASE Publish(a)
    <3>1. /\ pc' \in [Actors -> Places] /\ got' \in [Actors -> Certs]
          /\ flight' \in [Names -> Callers \cup {None}]
      BY <2>3, PcTypes DEF Publish
    <3>2. table' \in [Names -> Certs]
      BY Zenon, <2>3 DEF Publish, TypeOK
    <3>3. QED
      BY Zenon, <1>p, <2>3, <3>1, <3>2 DEF Publish, TypeOK, diskVars, caVars
  <2>4. CASE Flight(a)
    <3>1. a \in Callers
      BY Zenon, <2>4 DEF Flight, PlaceInv, Actors
    <3>2. pc' \in [Actors -> Places]
      BY <2>4, <2>p, PcTypes DEF Flight
    <3>3. flight' \in [Names -> Callers \cup {None}]
      BY <2>4, <3>1 DEF Flight, TypeOK
    <3>4. QED
      BY <1>p, <2>4, <3>2, <3>3 DEF Flight, TypeOK, diskVars, caVars
  <2>5. CASE TakeSlot(a) \/ OrderLimit(a) \/ ObtainFails(a)
    <3>1. /\ pc' \in [Actors -> Places] /\ got' \in [Actors -> Certs]
          /\ flight' \in [Names -> Callers \cup {None}]
      BY <2>5, <2>o, PcTypes DEF TakeSlot, OrderLimit, ObtainFails, TypeOK
    <3>2. QED
      BY <1>p, <2>5, <3>1 DEF TakeSlot, OrderLimit, ObtainFails, TypeOK, diskVars, caVars
  <2>6. CASE ObtainOK(a)
    <3>1. issued + 1 \in Certs
      BY <2>6, CertAssumption DEF ObtainOK, TypeOK, Certs
    <3>2. got' \in [Actors -> Certs] /\ issued' \in Certs
      BY <2>6, <3>1 DEF ObtainOK, TypeOK
    <3>3. pc' \in [Actors -> Places]
      BY <2>6, <2>o, PcTypes, StepFacts DEF ObtainOK
    <3>4. torn' \subseteq Names
      BY <2>6, <2>n DEF ObtainOK, TypeOK
    <3>5. QED
      BY <1>p, <2>6, <3>2, <3>3, <3>4 DEF ObtainOK, TypeOK, diskVars
  <2>7. CASE SaveFails(a)
    <3>1. /\ pc' \in [Actors -> Places] /\ got' \in [Actors -> Certs]
          /\ flight' \in [Names -> Callers \cup {None}]
      BY Zenon, <2>7, PcTypes DEF SaveFails
    <3>2. torn' \subseteq Names
      BY <2>7, <2>n DEF SaveFails, TypeOK
    <3>3. QED
      BY <1>p, <2>7, <3>1, <3>2 DEF SaveFails, TypeOK, diskVars, caVars
  <2>8. CASE Scan(a)
    <3>1. /\ name' \in [Actors -> Names \cup {None}]
          /\ todo' \in [Actors -> SUBSET (Names \X Certs)]
      BY <2>8, ScanFacts
    <3>2. \E to \in Places : Goto(a, to)
      BY <2>8 DEF Scan, Places, Ordering, Rest
    <3>3. pc' \in [Actors -> Places]
      BY Zenon, <3>2, PcTypes
    <3>4. QED
      BY <1>p, <2>8, <3>1, <3>3 DEF Scan, TypeOK, diskVars, caVars
  <2>9. ASSUME NEW f \in DOMAIN Step, WriteTmp(a, f)
        PROVE  TypeOK'
    <3>1. pc' \in [Actors -> Places]
      BY <2>9, <2>o, PcTypes, StepFacts DEF WriteTmp
    <3>2. tmp' \in [{"crt", "key"} -> [Names -> Certs]]
      BY Zenon, <2>9 DEF WriteTmp, TypeOK
    <3>3. QED
      BY <1>p, <2>9, <3>1, <3>2 DEF WriteTmp, TypeOK, caVars
  <2>10. ASSUME NEW f \in DOMAIN Step, Move(a, f)
         PROVE  TypeOK'
    <3>1. /\ pc' \in [Actors -> Places] /\ got' \in [Actors -> Certs]
          /\ flight' \in [Names -> Callers \cup {None}]
      BY Zenon, <2>10, <2>o, PcTypes, StepFacts DEF Move, TypeOK
    <3>2. name[a] \in Names /\ tmp[f][name[a]] \in Certs
      BY Zenon, <2>10, <2>n, StepFacts DEF Move, TypeOK
    <3>0. /\ files' = files \/ files' = [files EXCEPT ![f][name[a]] = tmp[f][name[a]]]
          /\ tmp' = tmp \/ tmp' = [tmp EXCEPT ![f][name[a]] = 0]
      BY Zenon, <2>10 DEF Move, diskVars
    <3>3. files' \in [{"crt", "key"} -> [Names -> Certs]]
      <4>1. files \in [{"crt", "key"} -> [Names -> Certs]] /\ f \in {"crt", "key"}
        BY Zenon, <2>10, StepFacts DEF TypeOK
      <4>2. QED
        <5>1. [files EXCEPT ![f][name[a]] = tmp[f][name[a]]] \in [{"crt", "key"} -> [Names -> Certs]]
          BY Zenon, <3>2, <4>1, FilesTyped
        <5>2. QED
          BY Zenon, <3>0, <4>1, <5>1
    <3>4. tmp' \in [{"crt", "key"} -> [Names -> Certs]]
      <4>1. 0 \in Certs /\ tmp \in [{"crt", "key"} -> [Names -> Certs]] /\ f \in {"crt", "key"}
        BY Zenon, <2>10, NoCert, StepFacts DEF TypeOK
      <4>2. QED
        <5>1. [tmp EXCEPT ![f][name[a]] = 0] \in [{"crt", "key"} -> [Names -> Certs]]
          BY Zenon, <4>1, FilesTyped
        <5>2. QED
          BY Zenon, <3>0, <4>1, <5>1
    <3>5. QED
      BY Zenon, <1>p, <2>10, <3>1, <3>3, <3>4 DEF Move, TypeOK, caVars
  <2>11. QED
    BY <1>1, <2>1, <2>2, <2>3, <2>4, <2>5, <2>6, <2>7, <2>8, <2>9, <2>10, Zenon DEF Work
<1>2. ASSUME NEW c \in Callers, NEW n \in Names, EnsureName(c, n)
      PROVE  TypeOK'
  <2>1. pc' \in [Actors -> Places] /\ name' \in [Actors -> Names \cup {None}]
    BY <1>2, PcTypes DEF EnsureName, TypeOK, Places, Actors
  <2>2. QED
    BY <1>2, <1>p, <2>1 DEF EnsureName, TypeOK, diskVars, caVars
<1>3. CASE Renew
  <2>1. pc' \in [Actors -> Places]
    BY <1>3, PcTypes DEF Renew, Places, Actors
  <2>2. {<<n, table[n]>> : n \in {m \in Names : table[m] # 0}} \in SUBSET (Names \X Certs)
    BY DEF TypeOK
  <2>3. todo' \in [Actors -> SUBSET (Names \X Certs)]
    BY Zenon, <1>3, <2>2 DEF Renew, TypeOK
  <2>4. QED
    BY <1>3, <1>p, <2>1, <2>3 DEF Renew, TypeOK, diskVars, caVars
<1>4. CASE Rescan
  <2>1. pc' \in [Actors -> Places]
    BY <1>4, PcTypes DEF Rescan, Places, Actors
  <2>2. {<<n, 0>> : n \in {m \in Names : files["crt"][m] # 0}} \in SUBSET (Names \X Certs)
    BY CertAssumption DEF Certs
  <2>3. todo' \in [Actors -> SUBSET (Names \X Certs)]
    BY Zenon, <1>4, <2>2 DEF Rescan, TypeOK
  <2>4. QED
    BY <1>4, <1>p, <2>1, <2>3 DEF Rescan, TypeOK, diskVars, caVars
<1>5. CASE Restart
  <2>1. pc' \in [Actors -> Places] /\ name' \in [Actors -> Names \cup {None}]
    BY Zenon, <1>5 DEF Restart, Places, Rest
  <2>0. 0 \in Certs
    BY CertAssumption DEF Certs
  <2>2. /\ got' \in [Actors -> Certs] /\ table' \in [Names -> Certs]
        /\ todo' \in [Actors -> SUBSET (Names \X Certs)]
    BY Zenon, <1>5, <2>0 DEF Restart, TypeOK
  <2>3. flight' \in [Names -> Callers \cup {None}] /\ torn' \subseteq Names
    BY <1>5 DEF Restart, TypeOK
  <2>4. QED
    BY <1>5, <1>p, <2>1, <2>2, <2>3 DEF Restart, TypeOK, diskVars, caVars
<1>6. ASSUME NEW g \in 1 .. MaxOrders, Age(g)
      PROVE  TypeOK'
  <2>1. due' \subseteq Certs
    BY <1>6 DEF Age, TypeOK, Certs
  <2>2. QED
    BY <1>6, <2>1 DEF Age, TypeOK, diskVars
<1>7. QED
  BY <1>1, <1>2, <1>3, <1>4, <1>5, <1>6 DEF Next

----------------------------------------------------------------------------
(* Flights.                                                                *)

\* Only calls lead, and the leader of a flight is at the flight's name.
LEMMA LeaderFacts ==
  ASSUME TypeOK, FlightInv, NEW a \in Actors
  PROVE  /\ Leads(a) => a \in Callers /\ flight[name[a]] = a /\ pc[a] \in Leading
         /\ \A n \in Names : flight[n] = a => name[a] = n /\ pc[a] \in Leading
         /\ \A n \in Names : flight[n] # None => flight[n] \in Callers
BY CertAssumption DEF Leads, TypeOK, FlightInv, Actors

\* Every step keeps the flights and their leaders together.
LEMMA FlightStep ==
  ASSUME TypeOK, PlaceInv, FlightInv, Next
  PROVE  FlightInv'
<1> USE SavingIs, CertAssumption DEF Actors
<1>t. /\ \A n \in Names : flight[n] \in Callers \cup {None}
      /\ \A n \in Names : flight[n] # None => pc[flight[n]] \in Leading /\ name[flight[n]] = n
      /\ \A c \in Callers : pc[c] \in Ordering \cup {"slot"} => flight[name[c]] = c
  BY DEF TypeOK, FlightInv
<1>p. \A c \in Callers : pc[c] \in Ordering \cup {"slot"} => name[c] \in Names
  BY DEF PlaceInv, Ordering
<1>1. ASSUME NEW a \in Actors, Work(a)
      PROVE  FlightInv'
  <2>1. CASE Flight(a)
    <3>0. a \in Callers /\ pc[a] = "flight" /\ name' = name /\ name[a] \in Names
      BY <2>1 DEF Flight, PlaceInv
    <3>1. CASE flight[name[a]] = None /\ flight' = [flight EXCEPT ![name[a]] = a] /\ Goto(a, "readCrt")
      <4>1. pc'[a] = "readCrt" /\ \A b \in Actors \ {a} : pc'[b] = pc[b]
        BY <3>1, GotoFacts
      <4>2. flight'[name[a]] = a /\ \A n \in Names \ {name[a]} : flight'[n] = flight[n]
        BY <3>0, <3>1 DEF TypeOK
      <4>3. pc[a] \notin Leading
        BY <3>0 DEF Leading, Ordering
      <4>4. \A n \in Names : flight'[n] # None => pc'[flight'[n]] \in Leading /\ name'[flight'[n]] = n
        BY <1>t, <3>0, <4>1, <4>2, <4>3 DEF Leading
      <4>5. \A c \in Callers : pc'[c] \in Ordering \cup {"slot"} => flight'[name'[c]] = c
        <5> SUFFICES ASSUME NEW c \in Callers, pc'[c] \in Ordering \cup {"slot"}
                     PROVE  flight'[name'[c]] = c
          BY Zenon
        <5>1. "readCrt" \notin Ordering \cup {"slot"} /\ c \in Actors
          BY SavingIs DEF Ordering, Actors
        <5>2. c # a /\ pc'[c] = pc[c]
          BY Zenon, <4>1, <5>1
        <5>3. flight[name[c]] = c /\ name[c] \in Names /\ c # None
          BY Zenon, <1>t, <1>p, <5>2, CertAssumption
        <5>4. name[c] # name[a]
          BY Zenon, <3>1, <5>3
        <5>5. QED
          BY Zenon, <3>0, <4>2, <5>3, <5>4
      <4>6. QED
        BY <4>4, <4>5 DEF FlightInv
    <3>2. CASE flight[name[a]] # None /\ Goto(a, "join") /\ UNCHANGED flight
      <4>1. pc'[a] = "join" /\ \A b \in Actors \ {a} : pc'[b] = pc[b]
        BY <3>2, GotoFacts
      <4>3. pc[a] \notin Leading
        BY <3>0 DEF Leading, Ordering
      <4>4. \A n \in Names : flight[n] # None => pc'[flight[n]] \in Leading
        BY <1>t, <3>0, <4>1, <4>3
      <4>5. \A c \in Callers : pc'[c] \in Ordering \cup {"slot"} => pc[c] \in Ordering \cup {"slot"}
        BY <4>1 DEF Ordering
      <4>6. QED
        BY <1>t, <3>0, <3>2, <4>4, <4>5 DEF FlightInv
    <3>3. QED
      BY <2>1, <3>1, <3>2 DEF Flight
  <2>2. CASE Scan(a)
    <3>1. a \notin Callers /\ UNCHANGED flight
      BY <2>2, ScanFacts
    <3>2. \A c \in Callers : pc'[c] = pc[c] /\ name'[c] = name[c]
      BY <2>2, <3>1, ScanFacts
    <3>3. QED
      BY <1>t, <3>1, <3>2 DEF FlightInv
  <2>3. CASE name' = name /\ Takes(a)
    <3>1. /\ pc'[a] = "limit" /\ pc[a] = "slot" /\ flight' = flight
          /\ \A b \in Actors \ {a} : pc'[b] = pc[b]
      BY <2>3, GotoFacts DEF Takes
    <3>2. QED
      BY <1>t, <2>3, <3>1 DEF FlightInv, Leading, Ordering
  <2>4. ASSUME name' = name, pc[a] \in Leading, NEW r \in {"ok", "err"}, Exit(a, r)
        PROVE  FlightInv'
    <3>1. \A n \in Names : flight'[n] # None => flight'[n] = flight[n] /\ flight[n] # a
      BY <2>4, ExitFacts
    <3>o. \A b \in Actors \ {a} : pc'[b] = pc[b] \/ pc[b] = "join"
      BY Zenon, <2>4, ExitOthers
    <3>2. \A b \in Actors : b # a /\ pc[b] \in Leading => pc'[b] = pc[b]
      BY <3>o DEF Leading, Ordering
    <3>3. \A c \in Callers : pc'[c] \in Ordering \cup {"slot"} => c # a /\ pc[c] = pc'[c]
      BY <2>4, ExitFacts DEF Ordering
    <3>4. \A n \in Names : flight[n] # a => flight'[n] = flight[n]
      BY <2>4, ExitFacts
    <3>5. \A n \in Names : flight'[n] # None => pc'[flight'[n]] \in Leading /\ name[flight'[n]] = n
      BY <1>t, <3>1, <3>2
    <3>6. \A c \in Callers : pc'[c] \in Ordering \cup {"slot"} => flight'[name[c]] = c
      BY <1>t, <1>p, <3>3, <3>4
    <3>7. QED
      BY <2>4, <3>5, <3>6 DEF FlightInv
  <2>5. ASSUME name' = name, NEW to \in Ordering \cup {"readKey", "publish", "slot", "flight"}, Turns(a, to)
        PROVE  FlightInv'
    <3>1. pc'[a] = to /\ flight' = flight /\ \A b \in Actors \ {a} : pc'[b] = pc[b]
      BY <2>5, GotoFacts DEF Turns
    <3>2. Leads(a) => to \in Leading
      BY <2>5 DEF Turns, Leading, Ordering
    <3>3. to \in Ordering \cup {"slot"} /\ a \in Callers => pc[a] \in Ordering \/ Leads(a)
      BY <2>5 DEF Turns, Ordering
    <3>4. \A n \in Names : flight[n] # None => pc'[flight[n]] \in Leading /\ name[flight[n]] = n
      BY <1>t, <3>1, <3>2 DEF Leads
    <3>5. \A c \in Callers : pc'[c] \in Ordering \cup {"slot"} => flight[name[c]] = c
      BY <1>t, <3>1, <3>3, LeaderFacts
    <3>6. QED
      BY <2>5, <3>1, <3>4, <3>5 DEF FlightInv
  <2>6. QED
    BY <1>1, <2>1, <2>2, <2>3, <2>4, <2>5, WorkShape, Zenon
<1>2. ASSUME NEW c \in Callers, NEW n \in Names, EnsureName(c, n)
      PROVE  FlightInv'
  <2>1. pc'[c] = "readCrt" /\ \A b \in Actors \ {c} : pc'[b] = pc[b]
    BY <1>2, GotoFacts DEF EnsureName
  <2>2. flight' = flight /\ name'[c] = n /\ \A b \in Actors \ {c} : name'[b] = name[b]
    BY <1>2 DEF EnsureName, TypeOK
  <2>3. pc[c] \notin Leading
    BY Zenon, <1>2 DEF EnsureName, Rest, Leading, Ordering
  <2>4. \A m \in Names : flight[m] # c
    BY <1>t, <2>3
  <2>5. QED
    BY <1>t, <2>1, <2>2, <2>4 DEF FlightInv, Ordering
<1>3. ASSUME Renew \/ Rescan
      PROVE  FlightInv'
  <2>1. name' = name /\ flight' = flight /\ \A c \in Callers : pc'[c] = pc[c]
    BY Zenon, <1>3 DEF Renew, Rescan, Goto, TypeOK
  <2>2. QED
    BY <1>t, <2>1 DEF FlightInv
<1>5. CASE Restart
  BY <1>5 DEF Restart, FlightInv, Ordering
<1>6. CASE \E g \in 1 .. MaxOrders : Age(g)
  BY <1>6, <1>t DEF Age, FlightInv
<1>7. QED
  BY <1>1, <1>2, <1>3, <1>5, <1>6 DEF Next

----------------------------------------------------------------------------
(* Who is where.                                                           *)

\* Every step keeps the places.
LEMMA PlaceStep ==
  ASSUME TypeOK, PlaceInv, Next
  PROVE  PlaceInv'
<1> USE SavingIs DEF Actors
<1>1. ASSUME NEW a \in Actors, Work(a)
      PROVE  PlaceInv'
  <2>1. CASE Flight(a)
    <3>1. PICK to \in {"readCrt", "join"} : Goto(a, to)
      BY <2>1 DEF Flight
    <3>2. pc[a] = "flight" /\ name' = name
      BY <2>1 DEF Flight
    <3>3. QED
      BY <3>1, <3>2, GotoFacts DEF PlaceInv
  <2>2. CASE Scan(a)
    BY <2>2, ScanFacts DEF PlaceInv
  <2>3. CASE name' = name /\ Takes(a)
    <3>1. pc'[a] = "limit" /\ pc[a] = "slot" /\ \A b \in Actors \ {a} : pc'[b] = pc[b]
      BY <2>3, GotoFacts DEF Takes
    <3>2. QED
      BY <2>3, <3>1 DEF PlaceInv
  <2>4. ASSUME name' = name, pc[a] \in Leading, NEW r \in {"ok", "err"}, Exit(a, r)
        PROVE  PlaceInv'
    <3>1. pc[a] \notin {"idle", "scan"}
      BY <2>4 DEF Leading, Ordering
    <3>2. name[a] \in Names
      BY Zenon, <3>1 DEF PlaceInv
    <3>o. /\ pc'[a] = (IF a \in Callers THEN r ELSE "scan")
          /\ \A b \in Actors \ {a} : \/ pc'[b] = pc[b]
                                     \/ pc[b] = "join" /\ b \in Callers /\ pc'[b] = r
      BY Zenon, <2>4, ExitMoves
    <3>3. \A c \in Callers : pc'[c] # "scan"
      BY <3>o DEF PlaceInv
    <3>4. \A b \in {"renewer", "loader"} : pc'[b] = pc[b] \/ pc'[b] = "scan"
      BY <3>o, CertAssumption
    <3>5. \A b \in Actors : pc'[b] \notin {"idle", "scan"} => name[b] \in Names
      <4>1. \A b \in Actors \ {a} : pc'[b] \notin {"idle", "scan"} => pc[b] \notin {"idle", "scan"}
        BY <3>o
      <4>2. QED
        BY Zenon, <3>2, <4>1 DEF PlaceInv
    <3>6. QED
      BY <2>4, <3>3, <3>4, <3>5 DEF PlaceInv
  <2>5. ASSUME name' = name, NEW to \in Ordering \cup {"readKey", "publish", "slot", "flight"}, Turns(a, to)
        PROVE  PlaceInv'
    <3>1. pc'[a] = to /\ \A b \in Actors \ {a} : pc'[b] = pc[b]
      BY <2>5, GotoFacts DEF Turns
    <3>2. QED
      BY <2>5, <3>1, CertAssumption DEF PlaceInv, Turns, Ordering
  <2>6. QED
    BY <1>1, <2>1, <2>2, <2>3, <2>4, <2>5, WorkShape, Zenon
<1>2. ASSUME NEW c \in Callers, NEW n \in Names, EnsureName(c, n)
      PROVE  PlaceInv'
  <2>1. pc'[c] = "readCrt" /\ \A b \in Actors \ {c} : pc'[b] = pc[b]
    BY <1>2, GotoFacts DEF EnsureName
  <2>2. name'[c] = n /\ \A b \in Actors \ {c} : name'[b] = name[b]
    BY <1>2 DEF EnsureName, TypeOK
  <2>3. QED
    BY <2>1, <2>2, CertAssumption DEF PlaceInv
<1>3. CASE Renew
  BY <1>3, GotoFacts, CertAssumption DEF Renew, PlaceInv
<1>4. CASE Rescan
  BY Zenon, <1>4, GotoFacts, CertAssumption DEF Rescan, PlaceInv
<1>5. CASE Restart
  BY <1>5 DEF Restart, PlaceInv
<1>6. CASE \E g \in 1 .. MaxOrders : Age(g)
  BY <1>6 DEF Age, PlaceInv
<1>7. QED
  BY <1>1, <1>2, <1>3, <1>4, <1>5, <1>6 DEF Next

----------------------------------------------------------------------------
(* Tokens.                                                                 *)

Orders == {c \in Callers : pc[c] \in Ordering}

FS == INSTANCE FiniteSetTheorems

\* The library's facts about finite sets and how many elements they have.
LEMMA Counting ==
  /\ IsFiniteSet({}) /\ Cardinality({}) = 0
  /\ \A S : IsFiniteSet(S) =>
       /\ Cardinality(S) \in Nat
       /\ \A T \in SUBSET S : IsFiniteSet(T)
       /\ \A x : x \notin S => Cardinality(S \cup {x}) = Cardinality(S) + 1
       /\ \A x \in S : Cardinality(S \ {x}) = Cardinality(S) - 1
<1>1. \A S : IsFiniteSet(S) <=> FS!IsFiniteSet(S)
  BY DEF IsFiniteSet, FS!IsFiniteSet
<1>2. \A S : Cardinality(S) = FS!Cardinality(S)
  BY Zenon DEF Cardinality, FS!Cardinality
<1>3. FS!IsFiniteSet({}) /\ FS!Cardinality({}) = 0
  BY FS!FS_EmptySet
<1>4. ASSUME NEW S, FS!IsFiniteSet(S)
      PROVE  /\ FS!Cardinality(S) \in Nat
             /\ \A T \in SUBSET S : FS!IsFiniteSet(T)
             /\ \A x : x \notin S => FS!Cardinality(S \cup {x}) = FS!Cardinality(S) + 1
             /\ \A x \in S : FS!Cardinality(S \ {x}) = FS!Cardinality(S) - 1
  <2>1. FS!Cardinality(S) \in Nat
    BY <1>4, FS!FS_CardinalityType
  <2>2. \A T \in SUBSET S : FS!IsFiniteSet(T)
    BY <1>4, FS!FS_Subset
  <2>3. \A x : x \notin S => FS!Cardinality(S \cup {x}) = FS!Cardinality(S) + 1
    BY <1>4, FS!FS_AddElement
  <2>4. \A x \in S : FS!Cardinality(S \ {x}) = FS!Cardinality(S) - 1
    BY <1>4, FS!FS_RemoveElement
  <2>5. QED
    BY <2>1, <2>2, <2>3, <2>4
<1>5. QED
  BY <1>1, <1>2, <1>3, <1>4

\* The running orders are finitely many.
LEMMA OrdersFinite == IsFiniteSet(Orders) /\ Cardinality(Orders) \in Nat
<1>1. IsFiniteSet(Orders)
  BY CertAssumption, Counting DEF Orders
<1>2. QED
  BY <1>1, Counting

\* Every step keeps the tokens out equal to the orders running.
LEMMA SlotStep ==
  ASSUME TypeOK, PlaceInv, SlotsMatchOrders, Next
  PROVE  slots' \in Nat /\ SlotsMatchOrders'
<1> USE SavingIs, CertAssumption DEF Actors
<1>t. /\ slots \in Nat
      /\ Slots > 0 => slots = Cardinality(Orders) /\ slots <= Slots
  BY DEF TypeOK, SlotsMatchOrders, Orders
<1>s. ASSUME slots' \in Nat, Slots > 0 => slots' = Cardinality(Orders') /\ slots' <= Slots
      PROVE  slots' \in Nat /\ SlotsMatchOrders'
  BY <1>s DEF SlotsMatchOrders, Orders
<1>u. ASSUME slots' = slots, Orders' = Orders
      PROVE  slots' \in Nat /\ SlotsMatchOrders'
  BY <1>t, <1>u DEF SlotsMatchOrders, Orders
<1>1. ASSUME NEW a \in Actors, Work(a)
      PROVE  slots' \in Nat /\ SlotsMatchOrders'
  <2>1. CASE Flight(a)
    <3>1. PICK to \in {"readCrt", "join"} : Goto(a, to)
      BY <2>1 DEF Flight
    <3>2. pc[a] = "flight" /\ slots' = slots
      BY <2>1 DEF Flight
    <3>3. Orders' = Orders
      BY <3>1, <3>2, GotoFacts DEF Orders, Ordering
    <3>4. QED
      BY <1>u, <3>2, <3>3
  <2>2. CASE Scan(a)
    <3>1. a \notin Callers /\ slots' = slots
      BY Zenon, <2>2, ScanFacts
    <3>2. Orders' = Orders
      BY <2>2, <3>1, ScanFacts DEF Orders
    <3>3. QED
      BY <1>u, <3>1, <3>2
  <2>3. CASE name' = name /\ Takes(a)
    <3>1. /\ a \in Callers /\ pc'[a] = "limit" /\ pc[a] = "slot"
          /\ \A b \in Actors \ {a} : pc'[b] = pc[b]
      BY <2>3, GotoFacts DEF Takes, PlaceInv
    <3>2. Orders' = Orders \cup {a} /\ a \notin Orders
      BY <3>1 DEF Orders, Ordering
    <3>3. Cardinality(Orders \cup {a}) = Cardinality(Orders) + 1
      BY <3>2, OrdersFinite, Counting
    <3>4. QED
      BY <1>t, <1>s, <2>3, <3>2, <3>3, OrdersFinite DEF Takes
  <2>4. ASSUME NEW r \in {"ok", "err"}, Exit(a, r)
        PROVE  slots' \in Nat /\ SlotsMatchOrders'
    <3>1. slots' = IF HoldsSlot(a) THEN slots - 1 ELSE slots
      BY <2>4, ExitFacts
    <3>2. Orders' = Orders \ {a}
      BY <2>4, ExitFacts DEF Orders, Ordering
    <3>3. CASE a \in Orders
      <4>1. Cardinality(Orders \ {a}) = Cardinality(Orders) - 1 /\ IsFiniteSet(Orders \ {a})
        BY <3>3, OrdersFinite, Counting
      <4>4. Cardinality(Orders \ {a}) \in Nat
        BY <4>1, Counting
      <4>2. Slots > 0 <=> HoldsSlot(a)
        BY <3>3 DEF HoldsSlot, Orders
      <4>3. QED
        BY <1>t, <1>s, <3>1, <3>2, <4>1, <4>2, <4>4
    <3>4. CASE a \notin Orders
      BY <1>u, <3>1, <3>2, <3>4 DEF HoldsSlot, Orders
    <3>5. QED
      BY Zenon, <3>3, <3>4
  <2>5. ASSUME NEW to \in Ordering \cup {"readKey", "publish", "slot", "flight"}, Turns(a, to)
        PROVE  slots' \in Nat /\ SlotsMatchOrders'
    <3>1. pc'[a] = to /\ slots' = slots /\ \A b \in Actors \ {a} : pc'[b] = pc[b]
      BY <2>5, GotoFacts DEF Turns
    <3>2. to \in Ordering <=> pc[a] \in Ordering
      BY <2>5 DEF Turns, Ordering
    <3>3. Orders' = Orders
      BY <3>1, <3>2 DEF Orders
    <3>4. QED
      BY <1>u, <3>1, <3>3
  <2>6. QED
    BY <1>1, <2>1, <2>2, <2>3, <2>4, <2>5, WorkShape, Zenon
<1>2. ASSUME NEW c \in Callers, NEW n \in Names, EnsureName(c, n)
      PROVE  slots' \in Nat /\ SlotsMatchOrders'
  <2>1. pc[c] \in Rest /\ slots' = slots /\ Goto(c, "readCrt")
    BY <1>2 DEF EnsureName
  <2>2. Orders' = Orders
    BY <2>1, GotoFacts DEF Orders, Ordering, Rest
  <2>3. QED
    BY <1>u, <2>1, <2>2
<1>3. ASSUME Renew \/ Rescan
      PROVE  slots' \in Nat /\ SlotsMatchOrders'
  <2>1. slots' = slots /\ \A c \in Callers : pc'[c] = pc[c]
    BY <1>3 DEF Renew, Rescan, Goto, TypeOK
  <2>2. QED
    BY Zenon, <1>u, <2>1 DEF Orders
<1>5. CASE Restart
  <2>1. slots' = 0 /\ Orders' = {}
    BY <1>5 DEF Restart, Orders, Ordering
  <2>2. QED
    BY <1>s, <2>1, Counting
<1>6. CASE \E g \in 1 .. MaxOrders : Age(g)
  BY <1>6, <1>u DEF Age, Orders
<1>7. QED
  BY <1>1, <1>2, <1>3, <1>5, <1>6 DEF Next

----------------------------------------------------------------------------
(* The theorems.                                                           *)

\* The inductive invariant holds initially.
LEMMA InitInv == Init => IInv
<1>0. Slots > 0 => 0 <= Slots
  BY CertAssumption
<1> SUFFICES ASSUME Init PROVE IInv
  BY Zenon
<1> USE SavingIs, CertAssumption DEF Init
<1>1. TypeOK
  <2>1. "idle" \in Rest /\ 0 \in Certs /\ DOMAIN Step = {"crt", "key"} /\ slots \in Nat
    BY NoCert, StepFacts DEF Rest
  <2>2. /\ pc \in [Actors -> Rest] /\ name \in [Actors -> Names \cup {None}]
        /\ got \in [Actors -> Certs] /\ todo \in [Actors -> SUBSET (Names \X Certs)]
    BY Zenon, <2>1
  <2>3. /\ files \in [{"crt", "key"} -> [Names -> Certs]]
        /\ tmp \in [{"crt", "key"} -> [Names -> Certs]]
    BY Zenon, <2>1
  <2>4. /\ table \in [Names -> Certs] /\ flight \in [Names -> Callers \cup {None}]
        /\ issued \in Certs /\ due \subseteq Certs /\ torn \subseteq Names
    BY Zenon, <2>1
  <2>5. pc \in [Actors -> Rest \cup Ordering \cup {"readCrt", "readKey", "publish",
                                                   "flight", "join", "slot", "scan"}]
    BY Zenon, <2>2
  <2>6. QED
    BY Zenon, <2>1, <2>2, <2>3, <2>4, <2>5 DEF TypeOK
<1>2. PlaceInv /\ GotInv /\ SaveInv
  BY DEF PlaceInv, GotInv, SaveInv, Actors
<1>3. FlightInv /\ EnsuredIsServed
  BY DEF FlightInv, EnsuredIsServed, Ordering, Actors
<1>4. Orders = {} /\ slots = 0
  BY DEF Orders, Ordering, Actors
<1>5. SlotsMatchOrders
  <2>1. Cardinality(Orders) = 0
    BY <1>4, Counting, Zenon
  <2>2. QED
    BY <1>4, <1>0, <2>1, Zenon DEF SlotsMatchOrders, Orders
<1>6. PairsFit
  BY StepFacts DEF PairsFit, Pair
<1>7. QED
  BY <1>1, <1>2, <1>3, <1>5, <1>6 DEF IInv

\* Every step keeps it.
LEMMA Inductive == IInv /\ [Next]_vars => IInv'
<1>1. CASE UNCHANGED vars
  <2>1. IInv => TypeOK' /\ PlaceInv' /\ FlightInv' /\ SlotsMatchOrders'
    BY <1>1 DEF IInv, vars, diskVars, caVars, TypeOK, PlaceInv, FlightInv, SlotsMatchOrders
  <2>2. IInv => GotInv' /\ EnsuredIsServed' /\ SaveInv' /\ PairsFit'
    BY Zenon, <1>1 DEF IInv, vars, diskVars, GotInv, EnsuredIsServed, SaveInv, Halfway, PairsFit, Pair
  <2>3. QED
    BY Zenon, <2>1, <2>2 DEF IInv
<1>2. ASSUME IInv, Next
      PROVE  IInv'
  <2>1. slots' \in Nat /\ SlotsMatchOrders'
    BY <1>2, SlotStep, Zenon DEF IInv
  <2>2. TypeOK' /\ PlaceInv' /\ FlightInv'
    BY <1>2, <2>1, TypeStep, PlaceStep, FlightStep, Zenon DEF IInv
  <2>3. GotInv' /\ EnsuredIsServed' /\ SaveInv' /\ PairsFit'
    BY <1>2, ServedStep, SaveStep, Zenon DEF IInv
  <2>4. QED
    BY <2>1, <2>2, <2>3, Zenon DEF IInv
<1>3. QED
  BY <1>1, <1>2

\* Whatever the calls, the renewal pass, the rescans and the crashes, the
\* inductive invariant holds.
THEOREM Invariance == Spec => []IInv
BY InitInv, Inductive, PTL DEF Spec

\* Every token of orderSlots that is out belongs to an order that runs, and no
\* more than Slots run: no error path of EnsureName loses a token.
THEOREM NoTokenLost == Spec => []SlotsMatchOrders
<1>1. IInv => SlotsMatchOrders
  BY Zenon DEF IInv
<1>2. QED
  BY <1>1, Invariance, PTL

\* issueGroup lets two calls never have orders for one name at once.
THEOREM OneOrder == Spec => []OneOrderPerName
<1>1. IInv => OneOrderPerName
  BY Zenon DEF IInv, FlightInv, OneOrderPerName
<1>2. QED
  BY <1>1, Invariance, PTL

\* When EnsureName has returned nil the table serves a certificate for the
\* name, for the leader of the flight and for those who joined it.
THEOREM NilIsServed == Spec => []EnsuredIsServed
<1>1. IInv => EnsuredIsServed
  BY Zenon DEF IInv
<1>2. QED
  BY <1>1, Invariance, PTL

\* A .crt and a .key that do not fit are being saved now, or were left by a
\* save that was cut short or overlapped.
THEOREM MisfitExplained == Spec => []PairsFit
<1>1. IInv => PairsFit
  BY Zenon DEF IInv
<1>2. QED
  BY <1>1, Invariance, PTL
=============================================================================
