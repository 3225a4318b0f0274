--------------------------- MODULE TunneldBudgets ---------------------------
(***************************************************************************)
(* Proofs about Tunneld's rate budgets, for any number of connections and  *)
(* any limits.  A sample is spent when it is taken; a refund gives it back *)
(* later, one lock at a time, and other handlers run in between.  So the   *)
(* invariants count, beside what was admitted, the handlers between a      *)
(* sample and its row, and between a draw on the refund budget and the     *)
(* sample it gives back.                                                   *)
(***************************************************************************)
EXTENDS TunneldProofs

\* A leaf may take the SMT solver a minute; Zenon tries what it leaves.
USE SMTT(60), Zenon

----------------------------------------------------------------------------
\* A handler that took a sample of its key's window and has neither inserted a
\* row for it nor given it back.
Holding == {"grace", "ensure", "put", "refundIp", "refundKey"}

\* A handler that drew on the refund budget and has yet to give its address's
\* sample back.
Pending == {"refundSkew", "refundIp"}

KeyHolders(k) == {c \in Conns : pc[c] \in Holding /\ req[c].key = k}

IpHolders(i) == {c \in Conns : pc[c] \in Pending /\ req[c].ip = i}

\* Rows and handlers that may still insert one are covered by samples.
KeyBudget ==
  KeyMax > 0 => \A k \in Keys :
    /\ claims[k] + Cardinality(KeyHolders(k)) <= keyUsed[k]
    /\ keyUsed[k] <= KeyMax

\* Registers let through and refunds under way are covered by samples, of the
\* address's window and of its refund window.
IpBudget ==
  /\ IpMax > 0 => \A i \in Ips :
       /\ admitted[i] + Cardinality(IpHolders(i)) <= ipUsed[i] + refundUsed[i]
       /\ ipUsed[i] <= IpMax
  /\ \A i \in Ips : refundUsed[i] <= IF RefundMax > 0 THEN RefundMax ELSE 0

\* The other handlers keep their positions and requests.
Aside(c) == \A d \in Conns \ {c} : pc'[d] = pc[d] /\ req'[d] = req[d]

\* The step takes no sample, gives none back and leaves the handler nothing to
\* give back that it did not have.
Neutral(c) ==
  /\ UNCHANGED budgetVars
  /\ pc'[c] \in Pending => pc[c] \in Pending /\ req'[c] = req[c]
  /\ pc'[c] \in Holding => pc[c] \in Holding /\ req'[c] = req[c]

\* ipLimiter.Allow lets a Register through.
TakesIp(c, i) ==
  /\ Admits(IpMax, ipUsed[i])
  /\ ipUsed' = [ipUsed EXCEPT ![i] = Sample(IpMax, @)]
  /\ admitted' = [admitted EXCEPT ![i] = Sample(IpMax, @)]
  /\ pc'[c] = "verify"
  /\ UNCHANGED <<keyUsed, refundUsed, claims>>

\* pubkeyLimiter.Allow lets a claim through.
TakesKey(c) ==
  /\ Admits(KeyMax, keyUsed[req[c].key])
  /\ keyUsed' = [keyUsed EXCEPT ![req[c].key] = Sample(KeyMax, @)]
  /\ pc[c] = "keyLimit" /\ pc'[c] = "grace" /\ req'[c] = req[c]
  /\ UNCHANGED <<ipUsed, refundUsed, admitted, claims>>

\* mayRefund lets a refund through.
TakesRefund(c) ==
  /\ mayRefund(req[c].ip)
  /\ refundUsed' = [refundUsed EXCEPT ![req[c].ip] = Sample(RefundMax, @)]
  /\ pc[c] \notin Pending \cup {"idle", "read"} /\ pc'[c] \in Pending /\ req'[c] = req[c]
  /\ pc'[c] \in Holding => pc[c] \in Holding
  /\ UNCHANGED <<ipUsed, keyUsed, admitted, claims>>

\* The address's sample is given back.
GivesIp(c) ==
  /\ ipUsed' = [ipUsed EXCEPT ![req[c].ip] = CancelLatest(IpMax, @)]
  /\ pc[c] \in Pending /\ pc'[c] \notin Pending
  /\ pc'[c] \in Holding => pc[c] \in Holding /\ req'[c] = req[c]
  /\ UNCHANGED <<keyUsed, refundUsed, admitted, claims>>

\* The key's sample is given back.
GivesKey(c) ==
  /\ keyUsed' = [keyUsed EXCEPT ![req[c].key] = CancelLatest(KeyMax, @)]
  /\ pc[c] = "refundKey" /\ pc'[c] = "idle"
  /\ UNCHANGED <<ipUsed, refundUsed, admitted, claims>>

\* A row is inserted.
Inserts(c) ==
  /\ claims' = [claims EXCEPT ![req[c].key] = Sample(KeyMax, @)]
  /\ pc[c] = "put" /\ pc'[c] = "add"
  /\ UNCHANGED <<ipUsed, keyUsed, refundUsed, admitted>>

\* As far as the budgets are concerned, a handler's step is one of these.
LEMMA BudgetShape ==
  ASSUME TypeOK, NEW c \in Conns, Progress(c) \/ Peer(c)
  PROVE  /\ Aside(c)
         /\ \/ Neutral(c) \/ (\E i \in Ips : TakesIp(c, i)) \/ TakesKey(c)
            \/ TakesRefund(c) \/ GivesIp(c) \/ GivesKey(c) \/ Inserts(c)
<1> USE DEF At, KeepLocals
<1>r. ASSUME Return(c)
      PROVE  Aside(c) /\ pc'[c] = "idle" /\ (UNCHANGED budgetVars => Neutral(c))
  BY <1>r DEF Return, Goto, TypeOK, Aside, Neutral, Holding, Pending
<1>g. ASSUME NEW to, Goto(c, to)
      PROVE  /\ pc'[c] = to /\ (req' = req => Aside(c) /\ req'[c] = req[c])
  BY <1>g DEF Goto, TypeOK, Aside
<1>q. ASSUME NEW to, Goto(c, to), UNCHANGED <<req, budgetVars>>, to \notin Pending,
             to \in Holding => pc[c] \in Holding
      PROVE  Aside(c) /\ Neutral(c)
  BY <1>q, <1>g DEF Neutral
<1>1. CASE Progress(c)
  <2>1. CASE ReadFails(c) \/ VerifyFails(c) \/ StoreFails(c)
             \/ EnsurePermanent(c) \/ ChallengeFails(c)
    BY Zenon, <2>1, <1>r
       DEF ReadFails, VerifyFails, StoreFails, EnsurePermanent, ChallengeFails, KeepShared
  <2>2. CASE VerifyOK(c) \/ SendChallenge(c) \/ DeleteFails(c) \/ LoopEnds(c) \/ Closed(c)
    BY <2>2, <1>q DEF VerifyOK, SendChallenge, DeleteFails, LoopEnds, Closed, KeepShared,
                      Holding, Pending
  <2>3. CASE Rotate(c) \/ Delete(c) \/ CloseSession(c)
    BY <2>3, <1>q DEF Rotate, Delete, CloseSession, Holding, Pending
  <2>4. CASE GraceElapses(c) \/ EnsureOK(c)
    BY <2>4, <1>q DEF GraceElapses, EnsureOK, KeepShared, Holding, Pending
  <2>5. CASE Gate(c) \/ Reget(c)
    <3>1. "get" \notin Holding \cup Pending /\ "add" \notin Holding \cup Pending
      BY DEF Holding, Pending
    <3> QED BY Zenon, <2>5, <3>1, <1>q, <1>r DEF Gate, Reget, KeepShared
  <2>6. CASE Get(c) \/ Reply(c)
    BY <2>6, <1>q DEF Get, Reply, KeepShared, Holding, Pending
  <2>7. CASE KeyLimit(c)
    <3>1. CASE Return(c) /\ keyUsed' = keyUsed
      BY <2>7, <3>1, <1>r DEF KeyLimit, budgetVars
    <3>2. CASE /\ Admits(KeyMax, keyUsed[req[c].key])
               /\ keyUsed' = [keyUsed EXCEPT ![req[c].key] = Sample(KeyMax, @)]
               /\ Goto(c, "grace") /\ KeepLocals
      BY <2>7, <3>2, <1>g DEF KeyLimit, TakesKey
    <3> QED BY Zenon, <2>7, <3>1, <3>2 DEF KeyLimit
  <2>8. CASE ClockSkewed(c) \/ GraceAborted(c) \/ EnsureTransient(c)
    <3>1. PICK to \in Pending : RefundOrReturn(c, to) /\ (to \in Holding => pc[c] \in Holding)
      BY <2>8 DEF ClockSkewed, GraceAborted, EnsureTransient, Pending, Holding
    <3>2. /\ pc[c] \notin Pending \cup {"idle", "read"}
          /\ UNCHANGED <<ipUsed, keyUsed, admitted, claims>>
      BY <2>8 DEF ClockSkewed, GraceAborted, EnsureTransient, Pending
    <3>3. CASE Return(c) /\ refundUsed' = refundUsed
      BY <3>2, <3>3, <1>r DEF budgetVars
    <3>4. CASE /\ mayRefund(req[c].ip)
               /\ refundUsed' = [refundUsed EXCEPT ![req[c].ip] = Sample(RefundMax, @)]
               /\ Goto(c, to) /\ KeepLocals
      BY <3>1, <3>2, <3>4, <1>g DEF TakesRefund
    <3> QED BY Zenon, <3>1, <3>3, <3>4 DEF RefundOrReturn
  <2>9. CASE RefundSkew(c)
    BY <2>9, <1>r DEF RefundSkew, GivesIp, Pending, Holding
  <2>10. CASE RefundIp(c)
    BY <2>10, <1>g DEF RefundIp, GivesIp, Pending, Holding
  <2>11. CASE RefundKey(c)
    BY <2>11, <1>r DEF RefundKey, GivesKey
  <2>12. CASE Put(c)
    <3>1. CASE Goto(c, "reget") /\ UNCHANGED claims
      BY <2>12, <3>1, <1>q DEF Put, budgetVars, Holding, Pending
    <3>2. CASE Goto(c, "add") /\ claims' = [claims EXCEPT ![req[c].key] = Sample(KeyMax, @)]
      BY <2>12, <3>2, <1>g DEF Put, Inserts
    <3> QED BY Zenon, <2>12, <3>1, <3>2 DEF Put
  <2>13. CASE Add(c)
    <3>1. "reply" \notin Holding \cup Pending
      BY DEF Holding, Pending
    <3> QED BY Zenon, <2>13, <3>1, <1>q, <1>r DEF Add
  <2>14. CASE Remove(c)
    BY Zenon, <2>14, <1>r DEF Remove
  <2> QED BY Zenon, <1>1, <2>1, <2>2, <2>3, <2>4, <2>5, <2>6, <2>7, <2>8, <2>9, <2>10,
             <2>11, <2>12, <2>13, <2>14 DEF Progress
<1>2. CASE Peer(c)
  <2>1. CASE Accept(c) \/ Deregister(c) \/ ControlEOF(c)
    BY <2>1, <1>q DEF Accept, Deregister, ControlEOF, KeepShared, Holding, Pending
  <2>2. ASSUME NEW i \in Ips, NEW u \in Uniques, NEW k \in Keys, ReadRegister(c, i, u, k)
        PROVE  Aside(c) /\ (Neutral(c) \/ \E j \in Ips : TakesIp(c, j))
    <3>1. CASE Return(c) /\ UNCHANGED <<ipUsed, admitted>>
      BY <2>2, <3>1, <1>r DEF ReadRegister, budgetVars
    <3>2. CASE /\ Admits(IpMax, ipUsed[i])
               /\ ipUsed' = [ipUsed EXCEPT ![i] = Sample(IpMax, @)]
               /\ admitted' = [admitted EXCEPT ![i] = Sample(IpMax, @)]
               /\ req' = [req EXCEPT ![c] = [ip |-> i, unique |-> u, key |-> k]]
               /\ Goto(c, "verify")
      <4>1. Aside(c) /\ pc'[c] = "verify"
        BY <3>2 DEF Goto, TypeOK, Aside
      <4> QED BY Zenon, <2>2, <3>2, <4>1 DEF ReadRegister, TakesIp
    <3> QED BY Zenon, <2>2, <3>1, <3>2 DEF ReadRegister
  <2>3. ASSUME NEW p \in Keys, Proof(c, p) PROVE Aside(c) /\ Neutral(c)
    <3>1. "rotate" \notin Holding \cup Pending
      BY DEF Holding, Pending
    <3> QED BY Zenon, <2>3, <3>1, <1>q, <1>r DEF Proof, KeepShared
  <2>4. CASE PeerGone(c)
    <3>1. UNCHANGED <<pc, req, budgetVars>>
      BY <2>4 DEF PeerGone
    <3> QED BY <3>1 DEF Aside, Neutral
  <2> QED BY Zenon, <1>2, <2>1, <2>2, <2>3, <2>4 DEF Peer
<1> QED BY <1>1, <1>2

FS == INSTANCE FiniteSetTheorems

\* What is needed of finite sets: how the size changes with one element.
LEMMA Counts ==
  ASSUME NEW S, IsFiniteSet(S)
  PROVE  /\ Cardinality(S) \in Nat
         /\ \A T \in SUBSET S : IsFiniteSet(T) /\ Cardinality(T) <= Cardinality(S)
         /\ \A x : x \notin S => Cardinality(S \cup {x}) = Cardinality(S) + 1
         /\ \A x \in S : Cardinality(S \ {x}) = Cardinality(S) - 1
<1>1. \A T : IsFiniteSet(T) <=> FS!IsFiniteSet(T)
  BY DEF IsFiniteSet, FS!IsFiniteSet
<1>2. \A T : Cardinality(T) = FS!Cardinality(T)
  BY Zenon DEF Cardinality, FS!Cardinality
<1>3. FS!Cardinality(S) \in Nat
  BY <1>1, FS!FS_CardinalityType
<1>4. \A T \in SUBSET S : FS!IsFiniteSet(T) /\ FS!Cardinality(T) <= FS!Cardinality(S)
  BY <1>1, FS!FS_Subset
<1>5. \A x : x \notin S => FS!Cardinality(S \cup {x}) = FS!Cardinality(S) + 1
  BY <1>1, FS!FS_AddElement
<1>6. \A x \in S : FS!Cardinality(S \ {x}) = FS!Cardinality(S) - 1
  BY <1>1, FS!FS_RemoveElement
<1> QED BY <1>1, <1>2, <1>3, <1>4, <1>5, <1>6

\* A set of handlers that changes by one handler.
LEMMA OneChanges ==
  ASSUME NEW S \in SUBSET Conns, NEW T \in SUBSET Conns, NEW c \in Conns,
         \A d \in Conns \ {c} : d \in T <=> d \in S
  PROVE  /\ Cardinality(S) \in Nat /\ Cardinality(T) \in Nat
         /\ c \in T => c \in S \/ Cardinality(T) = Cardinality(S) + 1
         /\ (c \in T => c \in S) => Cardinality(T) <= Cardinality(S)
         /\ c \in S /\ c \notin T => Cardinality(T) = Cardinality(S) - 1
<1>1. IsFiniteSet(S) /\ IsFiniteSet(T)
  BY ConnsAssumption, Counts
<1>2. Cardinality(S) \in Nat /\ Cardinality(T) \in Nat
  BY <1>1, Counts
<1>3. CASE c \in T /\ c \notin S
  <2>1. T = S \cup {c}
    BY <1>3
  <2> QED BY <1>1, <1>2, <1>3, <2>1, Counts
<1>4. CASE c \in S /\ c \notin T
  <2>1. T = S \ {c}
    BY <1>4
  <2>2. Cardinality(T) = Cardinality(S) - 1
    BY <1>1, <1>4, <2>1, Counts
  <2> QED BY <1>2, <1>4, <2>2
<1>5. CASE c \in S <=> c \in T
  <2>1. T = S
    BY <1>5
  <2> QED BY <1>2, <1>5, <2>1
<1> QED BY <1>3, <1>4, <1>5

\* A handler's step keeps the key budget.
LEMMA KeyStep ==
  ASSUME TypeOK, KeyBudget, NEW c \in Conns, Progress(c) \/ Peer(c)
  PROVE  KeyBudget'
<1> SUFFICES ASSUME KeyMax > 0, NEW k \in Keys
             PROVE  /\ claims'[k] + Cardinality(KeyHolders(k)') <= keyUsed'[k]
                    /\ keyUsed'[k] <= KeyMax
  BY DEF KeyBudget
<1> DEFINE H == KeyHolders(k)
           N == KeyHolders(k)'
<1>a. H \in SUBSET Conns /\ N \in SUBSET Conns
  BY DEF KeyHolders
<1>b. \A d \in Conns \ {c} : d \in N <=> d \in H
  BY BudgetShape DEF Aside, KeyHolders
<1>c. /\ c \in H <=> pc[c] \in Holding /\ req[c].key = k
      /\ c \in N <=> pc'[c] \in Holding /\ req'[c].key = k
  BY DEF KeyHolders
<1>t. /\ claims[k] \in Nat /\ keyUsed[k] \in Nat /\ KeyMax \in Int
      /\ claims \in [Keys -> Nat] /\ keyUsed \in [Keys -> Nat]
      /\ claims[k] + Cardinality(H) <= keyUsed[k] /\ keyUsed[k] <= KeyMax
  BY MaxAssumption DEF TypeOK, KeyBudget
<1> HIDE DEF H, N
<1>n. /\ Cardinality(H) \in Nat /\ Cardinality(N) \in Nat
      /\ c \in N => c \in H \/ Cardinality(N) = Cardinality(H) + 1
      /\ (c \in N => c \in H) => Cardinality(N) <= Cardinality(H)
      /\ c \in H /\ c \notin N => Cardinality(N) = Cardinality(H) - 1
  BY <1>a, <1>b, OneChanges
<1>s. SUFFICES claims'[k] + Cardinality(N) <= keyUsed'[k] /\ keyUsed'[k] <= KeyMax
  BY DEF N
<1>1. ASSUME UNCHANGED <<keyUsed, claims>>, c \in N => c \in H
      PROVE  claims'[k] + Cardinality(N) <= keyUsed'[k] /\ keyUsed'[k] <= KeyMax
  BY <1>1, <1>t, <1>n
<1>2. CASE Neutral(c) \/ TakesRefund(c) \/ GivesIp(c)
  BY <1>1, <1>2, <1>c DEF Neutral, TakesRefund, GivesIp, budgetVars
<1>3. CASE \E i \in Ips : TakesIp(c, i)
  BY <1>1, <1>3, <1>c DEF TakesIp, Holding
<1>4. CASE TakesKey(c)
  <2>1. CASE req[c].key = k
    <3>1. c \notin H /\ c \in N
      BY <1>4, <1>c, <2>1 DEF TakesKey, Holding
    <3>2. keyUsed'[k] = keyUsed[k] + 1 /\ keyUsed[k] < KeyMax /\ claims' = claims
      BY <1>4, <1>t, <2>1 DEF TakesKey, Sample, Admits
    <3> QED BY <1>t, <1>n, <3>1, <3>2
  <2>2. CASE req[c].key # k
    <3>1. c \notin N
      BY <1>4, <1>c, <2>2 DEF TakesKey
    <3>2. keyUsed'[k] = keyUsed[k] /\ claims' = claims
      BY <1>4, <1>t, <2>2 DEF TakesKey
    <3> QED BY <1>t, <1>n, <3>1, <3>2
  <2> QED BY <2>1, <2>2
<1>5. CASE GivesKey(c)
  <2>0. c \notin N /\ claims' = claims
    BY <1>5, <1>c DEF GivesKey, Holding
  <2>1. CASE req[c].key = k
    <3>1. c \in H
      BY <1>5, <1>c, <2>1 DEF GivesKey, Holding
    <3>2. keyUsed'[k] = IF keyUsed[k] = 0 THEN keyUsed[k] ELSE keyUsed[k] - 1
      BY <1>5, <1>t, <2>1 DEF GivesKey, CancelLatest
    <3> QED BY <1>t, <1>n, <2>0, <3>1, <3>2
  <2>2. CASE req[c].key # k
    <3>1. keyUsed'[k] = keyUsed[k]
      BY <1>5, <1>t, <2>2 DEF GivesKey
    <3> QED BY <1>t, <1>n, <2>0, <3>1
  <2> QED BY <2>1, <2>2
<1>6. CASE Inserts(c)
  <2>0. c \notin N /\ keyUsed' = keyUsed
    BY <1>6, <1>c DEF Inserts, Holding
  <2>1. CASE req[c].key = k
    <3>1. c \in H
      BY <1>6, <1>c, <2>1 DEF Inserts, Holding
    <3>2. claims'[k] = claims[k] + 1
      BY <1>6, <1>t, <2>1 DEF Inserts, Sample
    <3> QED BY <1>t, <1>n, <2>0, <3>1, <3>2
  <2>2. CASE req[c].key # k
    <3>1. claims'[k] = claims[k]
      BY <1>6, <1>t, <2>2 DEF Inserts
    <3> QED BY <1>t, <1>n, <2>0, <3>1
  <2> QED BY <2>1, <2>2
<1> QED BY Zenon, <1>2, <1>3, <1>4, <1>5, <1>6, BudgetShape

\* A handler's step keeps the address budget.
LEMMA IpStep ==
  ASSUME TypeOK, IpBudget, NEW c \in Conns, Progress(c) \/ Peer(c)
  PROVE  IpBudget'
<1> DEFINE Refunds == IF RefundMax > 0 THEN RefundMax ELSE 0
<1>r. \A i \in Ips : refundUsed'[i] <= Refunds
  <2>0. refundUsed \in [Ips -> Nat] /\ RefundMax \in Int /\ \A i \in Ips : refundUsed[i] <= Refunds
    BY MaxAssumption DEF TypeOK, IpBudget
  <2>1. CASE refundUsed' = refundUsed
    BY <2>0, <2>1
  <2>2. CASE TakesRefund(c)
    BY <2>0, <2>2 DEF TakesRefund, mayRefund, Admits, Sample
  <2> QED BY Zenon, <2>1, <2>2, BudgetShape
             DEF Neutral, TakesIp, TakesKey, GivesIp, GivesKey, Inserts, budgetVars
<1> SUFFICES ASSUME IpMax > 0, NEW i \in Ips
             PROVE  /\ admitted'[i] + Cardinality(IpHolders(i)') <= ipUsed'[i] + refundUsed'[i]
                    /\ ipUsed'[i] <= IpMax
  BY <1>r DEF IpBudget
<1> DEFINE H == IpHolders(i)
           N == IpHolders(i)'
<1>a. H \in SUBSET Conns /\ N \in SUBSET Conns
  BY DEF IpHolders
<1>b. \A d \in Conns \ {c} : d \in N <=> d \in H
  BY BudgetShape DEF Aside, IpHolders
<1>c. /\ c \in H <=> pc[c] \in Pending /\ req[c].ip = i
      /\ c \in N <=> pc'[c] \in Pending /\ req'[c].ip = i
  BY DEF IpHolders
<1>t. /\ admitted[i] \in Nat /\ ipUsed[i] \in Nat /\ refundUsed[i] \in Nat
      /\ IpMax \in Int /\ RefundMax \in Int
      /\ admitted \in [Ips -> Nat] /\ ipUsed \in [Ips -> Nat] /\ refundUsed \in [Ips -> Nat]
      /\ admitted[i] + Cardinality(H) <= ipUsed[i] + refundUsed[i] /\ ipUsed[i] <= IpMax
  BY MaxAssumption DEF TypeOK, IpBudget
<1> HIDE DEF H, N
<1>n. /\ Cardinality(H) \in Nat /\ Cardinality(N) \in Nat
      /\ c \in N => c \in H \/ Cardinality(N) = Cardinality(H) + 1
      /\ (c \in N => c \in H) => Cardinality(N) <= Cardinality(H)
      /\ c \in H /\ c \notin N => Cardinality(N) = Cardinality(H) - 1
  BY <1>a, <1>b, OneChanges
<1>s. SUFFICES admitted'[i] + Cardinality(N) <= ipUsed'[i] + refundUsed'[i] /\ ipUsed'[i] <= IpMax
  BY DEF N
<1>1. ASSUME UNCHANGED <<admitted, ipUsed, refundUsed>>, c \in N => c \in H
      PROVE  admitted'[i] + Cardinality(N) <= ipUsed'[i] + refundUsed'[i] /\ ipUsed'[i] <= IpMax
  BY <1>1, <1>t, <1>n
<1>2. CASE Neutral(c)
  BY <1>1, <1>2, <1>c DEF Neutral, budgetVars
<1>3. CASE TakesKey(c) \/ GivesKey(c) \/ Inserts(c)
  BY <1>1, <1>3, <1>c DEF TakesKey, GivesKey, Inserts, Pending
<1>4. ASSUME NEW j \in Ips, TakesIp(c, j)
      PROVE  admitted'[i] + Cardinality(N) <= ipUsed'[i] + refundUsed'[i] /\ ipUsed'[i] <= IpMax
  <2>1. c \notin N /\ refundUsed' = refundUsed
    BY <1>4, <1>c DEF TakesIp, Pending
  <2>2. CASE i = j
    <3>1. ipUsed'[i] = ipUsed[i] + 1 /\ admitted'[i] = admitted[i] + 1 /\ ipUsed[i] < IpMax
      BY <1>4, <1>t, <2>2 DEF TakesIp, Sample, Admits
    <3> QED BY <1>t, <1>n, <2>1, <3>1
  <2>3. CASE i # j
    <3>1. ipUsed'[i] = ipUsed[i] /\ admitted'[i] = admitted[i]
      BY <1>4, <1>t, <2>3 DEF TakesIp
    <3> QED BY <1>t, <1>n, <2>1, <3>1
  <2> QED BY <2>2, <2>3
<1>5. CASE TakesRefund(c)
  <2>0. UNCHANGED <<admitted, ipUsed>>
    BY <1>5 DEF TakesRefund
  <2>1. CASE req[c].ip = i
    <3>1. c \notin H /\ c \in N
      BY <1>5, <1>c, <2>1 DEF TakesRefund
    <3>2. refundUsed'[i] = refundUsed[i] + 1
      BY <1>5, <1>t, <2>1 DEF TakesRefund, mayRefund, Sample
    <3> QED BY <1>t, <1>n, <2>0, <3>1, <3>2
  <2>2. CASE req[c].ip # i
    <3>1. c \notin N /\ refundUsed'[i] = refundUsed[i]
      BY <1>5, <1>c, <1>t, <2>2 DEF TakesRefund
    <3> QED BY <1>t, <1>n, <2>0, <3>1
  <2> QED BY <2>1, <2>2
<1>6. CASE GivesIp(c)
  <2>0. c \notin N /\ UNCHANGED <<admitted, refundUsed>>
    BY <1>6, <1>c DEF GivesIp
  <2>1. CASE req[c].ip = i
    <3>1. c \in H
      BY <1>6, <1>c, <2>1 DEF GivesIp
    <3>2. ipUsed'[i] = IF ipUsed[i] = 0 THEN ipUsed[i] ELSE ipUsed[i] - 1
      BY <1>6, <1>t, <2>1 DEF GivesIp, CancelLatest
    <3> QED BY <1>t, <1>n, <2>0, <3>1, <3>2
  <2>2. CASE req[c].ip # i
    <3>1. ipUsed'[i] = ipUsed[i]
      BY <1>6, <1>t, <2>2 DEF GivesIp
    <3> QED BY <1>t, <1>n, <2>0, <3>1
  <2> QED BY <2>1, <2>2
<1> QED BY Zenon, <1>2, <1>3, <1>4, <1>5, <1>6, BudgetShape

\* The empty set has size 0.
LEMMA EmptyCounts == Cardinality({}) = 0
<1>1. FS!Cardinality({}) = 0
  BY FS!FS_EmptySet
<1>2. Cardinality({}) = FS!Cardinality({})
  BY Zenon DEF Cardinality, FS!Cardinality
<1> QED BY <1>1, <1>2

\* Nothing is spent when the daemon starts.
LEMMA BudgetInit == Init => KeyBudget /\ IpBudget
<1> SUFFICES ASSUME Init PROVE KeyBudget /\ IpBudget
  OBVIOUS
<1>1. \A k \in Keys : KeyHolders(k) = {} /\ claims[k] = 0 /\ keyUsed[k] = 0
  BY DEF Init, Boot, KeyHolders, Holding
<1>2. \A i \in Ips : /\ IpHolders(i) = {} /\ admitted[i] = 0
                     /\ ipUsed[i] = 0 /\ refundUsed[i] = 0
  BY DEF Init, Boot, IpHolders, Pending
<1>3. KeyBudget
  BY EmptyCounts, <1>1, MaxAssumption DEF KeyBudget
<1>4. IpBudget
  BY EmptyCounts, <1>2, MaxAssumption DEF IpBudget
<1> QED BY <1>3, <1>4

\* Every step of the daemon, its peers and the operator keeps both.
LEMMA BudgetStep ==
  ASSUME TypeOK, KeyBudget, IpBudget, [Next]_vars
  PROVE  KeyBudget' /\ IpBudget'
<1>q. ASSUME UNCHANGED <<pc, req, budgetVars>> PROVE KeyBudget' /\ IpBudget'
  BY <1>q DEF KeyBudget, IpBudget, KeyHolders, IpHolders, budgetVars
<1>1. ASSUME NEW c \in Conns, Progress(c) \/ Peer(c) PROVE KeyBudget' /\ IpBudget'
  BY <1>1, KeyStep, IpStep
<1>2. CASE Revoke
  BY Zenon, <1>q, <1>2 DEF Revoke, Snapshot, RevokeDone, CloseVictim, connVars
<1>3. ASSUME NEW S \in SUBSET Keys, Reload(S) PROVE KeyBudget' /\ IpBudget'
  BY Zenon, <1>q, <1>3 DEF Reload, connVars
<1>4. ASSUME NEW u \in Uniques, IdentityDelete(u) \/ PurgeCert(u)
      PROVE  KeyBudget' /\ IpBudget'
  BY Zenon, <1>q, <1>4 DEF IdentityDelete, PurgeCert, connVars
<1>5. ASSUME NEW S \in AllowSets, Restart(S) PROVE KeyBudget' /\ IpBudget'
  <2>1. \A k \in Keys : KeyHolders(k)' = {} /\ claims'[k] = 0 /\ keyUsed'[k] = 0
    BY <1>5 DEF Restart, KeyHolders, Holding
  <2>2. \A i \in Ips : /\ IpHolders(i)' = {} /\ admitted'[i] = 0
                       /\ ipUsed'[i] = 0 /\ refundUsed'[i] = 0
    BY <1>5 DEF Restart, IpHolders, Pending
  <2>3. KeyBudget'
    BY EmptyCounts, <2>1, MaxAssumption DEF KeyBudget
  <2>4. IpBudget'
    BY EmptyCounts, <2>2, MaxAssumption DEF IpBudget
  <2> QED BY <2>3, <2>4
<1>6. CASE UNCHANGED vars
  BY Zenon, <1>q, <1>6 DEF vars, connVars
<1> QED BY Zenon, <1>1, <1>2, <1>3, <1>4, <1>5, <1>6 DEF Next, Operator

\* The budgets hold in every reachable state.
LEMMA BudgetInvariance == Spec => [](KeyBudget /\ IpBudget)
<1>1. ASSUME IInv, KeyBudget /\ IpBudget, [Next]_vars PROVE (KeyBudget /\ IpBudget)'
  BY <1>1, BudgetStep DEF IInv
<1> QED BY <1>1, BudgetInit, Invariance, PTL DEF Spec

\* The per-pubkey limit: in one window no key inserts more rows than the limit,
\* however its claims overlap, fail and are refunded.
THEOREM ClaimsBounded == Spec => []ClaimBudget
<1>1. ASSUME IInv, KeyBudget PROVE ClaimBudget
  <2> SUFFICES ASSUME KeyMax > 0, NEW k \in Keys PROVE claims[k] <= KeyMax
    BY DEF ClaimBudget
  <2>1. IsFiniteSet(KeyHolders(k))
    BY ConnsAssumption, Counts DEF KeyHolders
  <2>2. Cardinality(KeyHolders(k)) \in Nat
    BY <2>1, Counts
  <2>3. claims[k] \in Nat /\ keyUsed[k] \in Nat /\ KeyMax \in Int
    BY <1>1, MaxAssumption DEF IInv, TypeOK
  <2>4. claims[k] + Cardinality(KeyHolders(k)) <= keyUsed[k] /\ keyUsed[k] <= KeyMax
    BY <1>1 DEF KeyBudget
  <2> QED BY <2>2, <2>3, <2>4
<1> QED BY <1>1, Invariance, BudgetInvariance, PTL

\* The per-address limit: refunds let an address past it no more often than the
\* refund budget says.
THEOREM AttemptsBounded == Spec => []AttemptBudget
<1>1. ASSUME IInv, IpBudget PROVE AttemptBudget
  <2> SUFFICES ASSUME IpMax > 0, NEW i \in Ips
               PROVE  admitted[i] <= IpMax + (IF RefundMax > 0 THEN RefundMax ELSE 0)
    BY DEF AttemptBudget
  <2>1. IsFiniteSet(IpHolders(i))
    BY ConnsAssumption, Counts DEF IpHolders
  <2>2. Cardinality(IpHolders(i)) \in Nat
    BY <2>1, Counts
  <2>3. /\ admitted[i] \in Nat /\ ipUsed[i] \in Nat /\ refundUsed[i] \in Nat
        /\ IpMax \in Int /\ RefundMax \in Int
    BY <1>1, MaxAssumption DEF IInv, TypeOK
  <2>4. /\ admitted[i] + Cardinality(IpHolders(i)) <= ipUsed[i] + refundUsed[i]
        /\ ipUsed[i] <= IpMax
        /\ refundUsed[i] <= IF RefundMax > 0 THEN RefundMax ELSE 0
    BY <1>1 DEF IpBudget
  <2> QED BY <2>2, <2>3, <2>4
<1> QED BY <1>1, Invariance, BudgetInvariance, PTL
=============================================================================
