------------------------- MODULE TunnelClientProofs -------------------------
(***************************************************************************)
(* Proofs about TunnelClient, for any backoff configuration, any limit on  *)
(* attempts and any retry hints: the order of the supervisor's events,     *)
(* what Run leaves behind, when it tears a session down, when it gives up  *)
(* and how long it waits between two attempts.                             *)
(*                                                                         *)
(* The last part is about RateLimit, from which the hints come that Run    *)
(* waits for: any keys, any limits, any interleaving of calls and readings.*)
(* A hint of RetryAfter is exact, the memory stays bounded, and a window   *)
(* admits no more than Max events and those that were taken back.          *)
(***************************************************************************)
EXTENDS TunnelClient, RateLimit, TLAPS, WellFoundedInduction

\* A leaf may take the SMT solver a minute; Zenon tries what it leaves.
USE SMTT(60), Zenon

----------------------------------------------------------------------------
(* The inductive invariant.                                                *)

\* Where Run has a session and its goroutines: none outside of a connection,
\* no Serve before Connect has returned, and the client itself closes the
\* session only once it has called cancelServe.
SessionInv ==
  /\ pc \in {"start", "connect", "dial", "lost", "sleep", "done"} =>
       conn = "none" /\ closer = None /\ serving = "off" /\ watching # "waiting"
  /\ pc \in {"register", "proof", "connected"} => conn # "none" /\ serving = "off"
  /\ pc \in {"serve", "deregister", "await", "stop", "join"} =>
       conn # "none" /\ serving # "off" /\ watching # "waiting"
  /\ pc \in {"serve", "deregister", "await", "stop"} => ~stopServe
  /\ closer = "self" => pc = "join"

\* The last event and the result, by where Run is.
EventInv ==
  /\ pc = "start" => last = None
  /\ pc = "connect" => last \in {"starting", "reconnecting"}
  /\ pc \in {"dial", "register", "proof"} => last = "connecting"
  /\ pc \in {"connected", "serve", "deregister", "await"} => last = "register_ok"
  /\ pc \in {"stop", "join"} => last \in {"register_ok", "deregister_ok"}
  /\ pc = "lost" => last = "disconnected"
  /\ pc = "sleep" => last = "reconnecting"
  /\ pc \in {"deregister", "await"} => ctxDone
  /\ pc # "done" => result = None
  /\ pc = "done" => (result \in {"permanent", "gaveUp"} <=> last = "fatal")

\* Attempts count the failures since the last session, and one more when there
\* was one; before the last attempt the failures are fewer than MaxAttempts.
CountInv ==
  /\ pc \in {"serve", "deregister", "await", "stop", "join", "lost"} =>
       attempt = 1 /\ fails = 0
  /\ MaxAttempts > 0 /\ pc # "done" =>
       /\ fails < MaxAttempts
       /\ attempt = fails + 1 \/ attempt = fails + 2
       /\ attempt <= MaxAttempts \/ fails = 0

IInv ==
  /\ TypeOK /\ SessionInv /\ EventInv /\ CountInv /\ GiveUpBound /\ DelayIsRight

----------------------------------------------------------------------------
(* The backoff schedule.                                                   *)

\* Every non-empty set of natural numbers has a least element, which is how the
\* proofs below go by induction over the number of attempts.
LEMMA Least ==
  ASSUME NEW T \in SUBSET Nat, T # {}
  PROVE  \E x \in T : \A y \in T : x <= y
<1>1. \A x, y \in Nat : y < x => <<y, x>> \in OpToRel(<, Nat)
  BY DEF OpToRel
<1>2. \E R : IsWellFoundedOn(R, Nat) /\ \A x, y \in Nat : y < x => <<y, x>> \in R
  BY <1>1, NatLessThanWellFounded, Zenon
<1>3. PICK R : IsWellFoundedOn(R, Nat) /\ \A x, y \in Nat : y < x => <<y, x>> \in R
  BY <1>2, Zenon
<1>4. PICK x \in T : \A y \in T : <<y, x>> \notin R
  BY <1>3, WFMin, Zenon
<1>5. \A y \in T : ~(y < x)
  BY <1>3, <1>4, Zenon
<1> QED BY <1>5

\* There is a schedule for every number of attempts, so the recursion of
\* backoffDuration defines one.
LEMMA BackoffRecursion ==
  backoffDuration = [n \in 1 .. AttemptCap |->
                       IF n = 1 THEN BackoffMin ELSE Capped(2 * backoffDuration[n - 1])]
<1> DEFINE Fits(g, k) ==
             g = [n \in 1 .. k |-> IF n = 1 THEN BackoffMin ELSE Capped(2 * g[n - 1])]
           T == {k \in 1 .. AttemptCap : ~ \E g : Fits(g, k)}
<1>1. T = {}
  <2> SUFFICES ASSUME T # {} PROVE FALSE
    OBVIOUS
  <2>1. PICK k \in T : \A j \in T : k <= j
    <3>1. T \in SUBSET Nat
      BY BackoffAssumption
    <3> QED BY <3>1, Least, Zenon
  <2>2. CASE k = 1
    <3> DEFINE g == [n \in 1 .. 1 |-> BackoffMin]
    <3>1. Fits(g, k)
      BY <2>2
    <3> QED BY Zenon, <3>1, <2>1
  <2>3. CASE k > 1
    <3>0. k - 1 \in 1 .. AttemptCap
      BY <2>3, BackoffAssumption
    <3>1. k - 1 \notin T
      <4>1. ~(k <= k - 1)
        BY <2>3, BackoffAssumption
      <4> QED BY <4>1, <2>1, Zenon
    <3>2. PICK g : Fits(g, k - 1)
      BY <3>0, <3>1, Zenon
    <3> DEFINE h == [n \in 1 .. k |-> IF n = k THEN Capped(2 * g[k - 1]) ELSE g[n]]
    <3>3. ASSUME NEW n \in 1 .. k
          PROVE  h[n] = IF n = 1 THEN BackoffMin ELSE Capped(2 * h[n - 1])
      BY <2>3, <3>2, BackoffAssumption
    <3>4. Fits(h, k)
      BY <3>3
    <3> QED BY Zenon, <3>4, <2>1
  <2> QED BY <2>1, <2>2, <2>3, BackoffAssumption
<1>2. \E g : Fits(g, AttemptCap)
  <2>1. AttemptCap \in 1 .. AttemptCap
    BY BackoffAssumption
  <2> QED BY <1>1, <2>1, Zenon
<1> QED BY <1>2, Zenon DEF backoffDuration

\* ... and so does the recursion of the schedule without a cap.
LEMMA ExponentialRecursion ==
  Exponential = [n \in 0 .. AttemptCap |->
                   IF n = 0 THEN BackoffMin ELSE 2 * Exponential[n - 1]]
<1> DEFINE Fits(g, k) ==
             g = [n \in 0 .. k |-> IF n = 0 THEN BackoffMin ELSE 2 * g[n - 1]]
           T == {k \in 0 .. AttemptCap : ~ \E g : Fits(g, k)}
<1>1. T = {}
  <2> SUFFICES ASSUME T # {} PROVE FALSE
    OBVIOUS
  <2>1. PICK k \in T : \A j \in T : k <= j
    <3>1. T \in SUBSET Nat
      BY BackoffAssumption
    <3> QED BY <3>1, Least, Zenon
  <2>2. CASE k = 0
    <3> DEFINE g == [n \in 0 .. 0 |-> BackoffMin]
    <3>1. Fits(g, k)
      BY <2>2
    <3> QED BY Zenon, <3>1, <2>1
  <2>3. CASE k > 0
    <3>0. k - 1 \in 0 .. AttemptCap
      BY <2>3, BackoffAssumption
    <3>1. k - 1 \notin T
      <4>1. ~(k <= k - 1)
        BY <2>3, BackoffAssumption
      <4> QED BY <4>1, <2>1, Zenon
    <3>2. PICK g : Fits(g, k - 1)
      BY <3>0, <3>1, Zenon
    <3> DEFINE h == [n \in 0 .. k |-> IF n = k THEN 2 * g[k - 1] ELSE g[n]]
    <3>3. ASSUME NEW n \in 0 .. k
          PROVE  h[n] = IF n = 0 THEN BackoffMin ELSE 2 * h[n - 1]
      BY <2>3, <3>2, BackoffAssumption
    <3>4. Fits(h, k)
      BY <3>3
    <3> QED BY Zenon, <3>4, <2>1
  <2> QED BY <2>1, <2>2, <2>3, BackoffAssumption
<1>2. \E g : Fits(g, AttemptCap)
  <2>1. AttemptCap \in 0 .. AttemptCap
    BY BackoffAssumption
  <2> QED BY <1>1, <2>1, Zenon
<1> QED BY <1>2, Zenon DEF Exponential

\* backoffDuration, which doubles and stops at the cap, waits BackoffMin first
\* and then the exponential cut off at the cap, for any number of attempts and
\* whichever of BackoffMin and BackoffMax is larger.
THEOREM BackoffIsCappedExponential ==
  \A n \in 1 .. AttemptCap :
    /\ backoffDuration[n] \in Nat /\ Exponential[n - 1] \in Nat
    /\ backoffDuration[n] = Scheduled(n)
<1> DEFINE Good(n) == /\ backoffDuration[n] \in Nat /\ Exponential[n - 1] \in Nat
                      /\ backoffDuration[n] = Scheduled(n)
           T == {n \in 1 .. AttemptCap : ~Good(n)}
<1> SUFFICES ASSUME T # {} PROVE FALSE
  OBVIOUS
<1>1. PICK n \in T : \A m \in T : n <= m
  <2>1. T \in SUBSET Nat
    BY BackoffAssumption
  <2> QED BY <2>1, Least, Zenon
<1>2. CASE n = 1
  <2>1. backoffDuration[1] = BackoffMin
    BY BackoffRecursion, BackoffAssumption
  <2>2. Exponential[0] = BackoffMin
    BY ExponentialRecursion, BackoffAssumption
  <2> QED BY <1>2, <2>1, <2>2, BackoffAssumption DEF Scheduled
<1>3. CASE n > 1
  <2>1. n - 1 \in 1 .. AttemptCap
    BY <1>3, BackoffAssumption
  <2>2. Good(n - 1)
    <3>1. ~(n <= n - 1)
      BY <1>3, BackoffAssumption
    <3> QED BY <1>1, <2>1, <3>1, Zenon
  <2>3. backoffDuration[n] = Capped(2 * backoffDuration[n - 1])
    BY <1>3, BackoffRecursion, BackoffAssumption
  <2>4. Exponential[n - 1] = 2 * Exponential[n - 1 - 1]
    BY <1>3, ExponentialRecursion, BackoffAssumption
  <2>5. Exponential[n - 1] \in Nat /\ backoffDuration[n] \in Nat
    BY <2>2, <2>3, <2>4, BackoffAssumption DEF Capped
  <2>6. backoffDuration[n] = Capped(Exponential[n - 1])
    <3>1. CASE n - 1 = 1
      <4>1. Exponential[n - 1 - 1] = BackoffMin
        BY <3>1, ExponentialRecursion, BackoffAssumption
      <4> QED BY <2>2, <2>3, <2>4, <3>1, <4>1 DEF Scheduled
    <3>2. CASE n - 1 # 1
      <4>1. backoffDuration[n - 1] = Capped(Exponential[n - 1 - 1])
        BY <2>2, <3>2 DEF Scheduled
      <4> QED BY <2>2, <2>3, <2>4, <4>1, BackoffAssumption DEF Capped
    <3> QED BY <3>1, <3>2
  <2>7. Good(n)
    BY <1>3, <2>5, <2>6 DEF Scheduled
  <2> QED BY <1>1, <2>7
<1> QED BY <1>1, <1>2, <1>3, BackoffAssumption

----------------------------------------------------------------------------
(* Every step keeps the invariant.                                         *)

\* No event, closer or result is None.
LEMMA NoneDiffers ==
  \A x \in {"starting", "connecting", "register_ok", "disconnected", "reconnecting",
            "deregister_ok", "fatal", "peer", "watcher", "self", "nil", "permanent",
            "gaveUp"} : x # None
  BY NoneAssumption DEF Events, Closers, Results

\* The delay and the attempt of a reconnecting event: the delay is the one of
\* the attempt just made, and the counter moves on.
LEMMA DelayStep ==
  ASSUME TypeOK, NEW r, NEW h \in Nat,
         delay' = DelayAfter(r, h),
         limited' = IF IsRateLimit(r) THEN h ELSE None,
         attempt' = NextAttempt
  PROVE  /\ delay' \in Nat /\ limited' \in Nat \cup {None} /\ attempt' \in 1 .. AttemptCap
         /\ DelayIsRight'
<1> DEFINE d == backoffDuration[attempt]
<1>1. attempt \in 1 .. AttemptCap
  BY DEF TypeOK
<1>2. d \in Nat /\ d = Scheduled(attempt)
  BY <1>1, BackoffIsCappedExponential, Zenon
<1>3. attempt' \in 1 .. AttemptCap
  BY <1>1, BackoffAssumption DEF NextAttempt
<1>4. delay' = IF ~IsRateLimit(r) THEN d ELSE IF h > 0 THEN h
               ELSE IF d < RateLimitFloor THEN RateLimitFloor ELSE d
  BY DEF DelayAfter
<1> HIDE DEF d
<1>5. delay' \in Nat /\ limited' \in Nat \cup {None}
  BY <1>2, <1>4, BackoffAssumption
<1>6. ASSUME attempt' < AttemptCap
      PROVE  d = Scheduled(attempt' - 1)
  <2>1. attempt' - 1 = attempt
    BY <1>1, <1>6, BackoffAssumption DEF NextAttempt
  <2> QED BY <1>2, <2>1
<1>7. DelayIsRight'
  <2> SUFFICES ASSUME attempt' < AttemptCap
               PROVE  CASE limited' = None -> delay' = d
                        [] limited' = 0 -> delay' >= d /\ delay' >= RateLimitFloor
                        [] OTHER -> delay' = limited'
    BY <1>6 DEF DelayIsRight
  <2>1. CASE ~IsRateLimit(r)
    BY <2>1, <1>4, NoneAssumption
  <2>2. CASE IsRateLimit(r) /\ h = 0
    BY <2>2, <1>2, <1>4, NoneAssumption, BackoffAssumption
  <2>3. CASE IsRateLimit(r) /\ h > 0
    BY <2>3, <1>4, NoneAssumption
  <2> QED BY <2>1, <2>2, <2>3
<1> QED BY <1>3, <1>5, <1>7

\* A failed connect leaves no session behind, counts a failure, and Run sleeps,
\* returns nil or gives up with a fatal event.
LEMMA ConnectFailsKeeps ==
  ASSUME IInv, NEW r, NEW h \in Nat, pc \in {"dial", "register", "proof"},
         ConnectFails(r, h)
  PROVE  IInv'
<1>0. /\ conn' = "none" /\ closer' = None /\ watching' = "off"
      /\ UNCHANGED <<ctxDone, serving, stopServe, revoked>>
  BY DEF ConnectFails
<1>1. CASE ctxDone
  <2>1. pc' = "done" /\ result' = "nil" /\ UNCHANGED <<attempt, delay, limited, fails, last>>
    BY <1>1 DEF ConnectFails, Return, retryVars
  <2>2. TypeOK'
    BY <2>1, <1>0 DEF IInv, TypeOK, Events, Closers, Results
  <2>3. SessionInv'
    BY <2>1, <1>0, NoneDiffers DEF IInv, SessionInv
  <2>4. EventInv'
    BY <2>1, <1>0 DEF IInv, EventInv
  <2>5. CountInv' /\ DelayIsRight' /\ GiveUpBound'
    BY <2>1 DEF IInv, CountInv, DelayIsRight, GiveUpBound
  <2> QED BY <2>2, <2>3, <2>4, <2>5 DEF IInv
<1>2. CASE ~ctxDone /\ IsPermanent(r)
  <2>1. /\ pc' = "done" /\ result' = "permanent" /\ last' = "fatal"
        /\ UNCHANGED <<attempt, delay, limited, fails>>
    BY <1>2 DEF ConnectFails, Return, Emit, retryVars
  <2>2. TypeOK'
    BY <2>1, <1>0 DEF IInv, TypeOK, Events, Closers, Results
  <2>3. SessionInv'
    BY <2>1, <1>0, NoneDiffers DEF IInv, SessionInv
  <2>4. EventInv'
    BY <2>1, <1>0 DEF IInv, EventInv
  <2>5. CountInv' /\ DelayIsRight' /\ GiveUpBound'
    BY <2>1 DEF IInv, CountInv, DelayIsRight, GiveUpBound
  <2> QED BY <2>2, <2>3, <2>4, <2>5 DEF IInv
<1>3. CASE ~ctxDone /\ ~IsPermanent(r) /\ MaxAttempts > 0 /\ attempt >= MaxAttempts
  <2>1. /\ pc' = "done" /\ result' = "gaveUp" /\ last' = "fatal" /\ fails' = fails + 1
        /\ UNCHANGED <<attempt, delay, limited>>
    BY <1>3 DEF ConnectFails, Return, Emit
  <2>2. /\ fails \in Nat /\ attempt \in Nat /\ fails < MaxAttempts
        /\ attempt = fails + 1 \/ attempt = fails + 2
    BY <1>3 DEF IInv, TypeOK, CountInv
  <2>3. TypeOK'
    BY <2>1, <1>0, <2>2, BackoffAssumption DEF IInv, TypeOK, Events, Closers, Results
  <2>4. SessionInv'
    BY <2>1, <1>0, NoneDiffers DEF IInv, SessionInv
  <2>5. EventInv'
    BY <2>1, <1>0 DEF IInv, EventInv
  <2>6. CountInv' /\ DelayIsRight'
    BY <2>1 DEF CountInv, DelayIsRight
  <2>7. GiveUpBound'
    BY <1>3, <2>1, <2>2, BackoffAssumption DEF GiveUpBound
  <2> QED BY <2>3, <2>4, <2>5, <2>6, <2>7 DEF IInv
<1>4. CASE ~ctxDone /\ ~IsPermanent(r) /\ ~(MaxAttempts > 0 /\ attempt >= MaxAttempts)
  <2>1. /\ pc' = "sleep" /\ result' = result /\ last' = "reconnecting"
        /\ fails' = IF fails < AttemptCap THEN fails + 1 ELSE fails
        /\ delay' = DelayAfter(r, h)
        /\ limited' = IF IsRateLimit(r) THEN h ELSE None
        /\ attempt' = NextAttempt
    BY <1>4 DEF ConnectFails, Return, Emit
  <2>2. /\ delay' \in Nat /\ limited' \in Nat \cup {None} /\ attempt' \in 1 .. AttemptCap
        /\ DelayIsRight'
    BY <2>1, DelayStep DEF IInv
  <2>3. fails' \in 0 .. AttemptCap
    BY <2>1, <1>0, BackoffAssumption DEF IInv, TypeOK, Events, Closers, Results
  <2>4. TypeOK'
    BY <2>1, <1>0, <2>2, <2>3 DEF IInv, TypeOK, Events, Closers, Results
  <2>5. SessionInv'
    BY <2>1, <1>0, NoneDiffers DEF IInv, SessionInv
  <2>6. EventInv'
    BY <2>1, <1>0 DEF IInv, EventInv
  <2>7. ASSUME MaxAttempts > 0
        PROVE  /\ fails' < MaxAttempts
               /\ attempt' = fails' + 1 \/ attempt' = fails' + 2
               /\ attempt' <= MaxAttempts
    <3>0. fails \in Nat /\ attempt \in Nat
      BY BackoffAssumption DEF IInv, TypeOK, Events, Closers, Results
    <3>1. /\ fails < MaxAttempts /\ attempt < MaxAttempts
          /\ attempt = fails + 1 \/ attempt = fails + 2
      BY <1>4, <2>7, <3>0, BackoffAssumption DEF IInv, CountInv
    <3>2. fails' = fails + 1 /\ attempt' = attempt + 1
      BY <2>1, <3>0, <3>1, BackoffAssumption DEF NextAttempt
    <3> QED BY <3>0, <3>1, <3>2, BackoffAssumption
  <2>8. CountInv' /\ GiveUpBound'
    <3>1. fails' \in Int /\ MaxAttempts \in Int /\ result' = None
      BY <2>1, <1>0, <2>3, BackoffAssumption DEF IInv, EventInv
    <3> QED BY <2>1, <2>7, <3>1, NoneDiffers DEF CountInv, GiveUpBound
  <2> QED BY <2>2, <2>4, <2>5, <2>6, <2>8 DEF IInv
<1> QED BY <1>1, <1>2, <1>3, <1>4

\* Up to a session, and its end.
LEMMA ConnectKeeps ==
  ASSUME IInv, Start \/ Connecting \/ DialOK \/ Challenged \/ RegisterOK \/ ConnectReturns
  PROVE  IInv'
<1> USE DEF IInv, TypeOK, Events, Closers, Results, SessionInv, EventInv, CountInv,
            GiveUpBound, DelayIsRight, sessionVars, retryVars
<1>1. CASE Start
  BY <1>1, NoneDiffers, BackoffAssumption DEF Start, Emit
<1>2. CASE Connecting
  BY <1>2, NoneDiffers, BackoffAssumption DEF Connecting, Emit
<1>3. CASE DialOK
  BY <1>3, NoneDiffers, BackoffAssumption DEF DialOK
<1>4. CASE Challenged
  BY <1>4, NoneDiffers, BackoffAssumption DEF Challenged
<1>5. CASE RegisterOK
  BY <1>5, NoneDiffers, BackoffAssumption DEF RegisterOK, Emit
<1>6. CASE ConnectReturns
  <2> USE DEF ConnectReturns
  <2>1. TypeOK'
    <3>1. 1 \in 1 .. AttemptCap /\ 0 \in 0 .. AttemptCap
      BY BackoffAssumption
    <3> QED BY <1>6, <3>1, Zenon
  <2>2. SessionInv'
    BY <1>6
  <2>3. EventInv'
    BY <1>6
  <2>4. CountInv' /\ DelayIsRight'
    BY <1>6, BackoffAssumption
  <2>5. GiveUpBound'
    <3>1. fails' = 0 /\ result' = None
      BY <1>6
    <3> QED BY <3>1, NoneDiffers, BackoffAssumption
  <2> QED BY <2>1, <2>2, <2>3, <2>4, <2>5
<1> QED BY <1>1, <1>2, <1>3, <1>4, <1>5, <1>6

\* The graceful shutdown.
LEMMA ShutdownKeeps ==
  ASSUME IInv, Cancelled \/ SendDeregister \/ DeregisterOK \/ DeregisterFails \/ StopServe \/ Join
  PROVE  IInv'
<1> USE DEF IInv, TypeOK, Events, Closers, Results, SessionInv, EventInv, CountInv,
            GiveUpBound, DelayIsRight, sessionVars, retryVars
<1>1. CASE Cancelled
  BY <1>1, NoneDiffers, BackoffAssumption DEF Cancelled
<1>2. CASE SendDeregister
  BY <1>2, NoneDiffers, BackoffAssumption DEF SendDeregister
<1>3. CASE DeregisterOK
  BY <1>3, NoneDiffers, BackoffAssumption DEF DeregisterOK, Emit
<1>4. CASE DeregisterFails
  BY <1>4, NoneDiffers, BackoffAssumption DEF DeregisterFails
<1>5. CASE StopServe
  BY <1>5, NoneDiffers, BackoffAssumption DEF StopServe
<1>6. CASE Join
  BY <1>6, NoneDiffers, BackoffAssumption DEF Join, Return
<1> QED BY <1>1, <1>2, <1>3, <1>4, <1>5, <1>6

\* The lost session but for its reconnecting event, the sleep, the other goroutines and the
\* environment.
LEMMA OthersKeep ==
  ASSUME IInv, Disconnected \/ Interrupted \/ Wakes \/ WatcherCloses \/ WatcherExits \/ ServeEnds
         \/ Signal \/ PeerGone \/ RevokeKey
  PROVE  IInv'
<1> USE DEF IInv, TypeOK, Events, Closers, Results, SessionInv, EventInv, CountInv,
            GiveUpBound, DelayIsRight, sessionVars, retryVars
<1>1. CASE Disconnected
  BY <1>1, NoneDiffers, BackoffAssumption DEF Disconnected, Emit
<1>2. CASE Interrupted
  BY <1>2, NoneDiffers, BackoffAssumption DEF Interrupted, Return
<1>3. CASE Wakes
  BY <1>3, NoneDiffers, BackoffAssumption DEF Wakes
<1>4. CASE WatcherCloses
  BY <1>4, NoneDiffers, BackoffAssumption DEF WatcherCloses
<1>5. CASE WatcherExits
  BY <1>5, NoneDiffers, BackoffAssumption DEF WatcherExits
<1>6. CASE ServeEnds
  BY <1>6, NoneDiffers, BackoffAssumption DEF ServeEnds
<1>7. CASE Signal
  BY <1>7, NoneDiffers, BackoffAssumption DEF Signal
<1>8. CASE PeerGone
  BY <1>8, NoneDiffers, BackoffAssumption DEF PeerGone
<1>9. CASE RevokeKey
  BY <1>9, NoneDiffers, BackoffAssumption DEF RevokeKey
<1> QED BY Zenon, <1>1, <1>2, <1>3, <1>4, <1>5, <1>6, <1>7, <1>8, <1>9

\* The reconnecting event after a lost session.
LEMMA ReconnectingKeeps ==
  ASSUME IInv, Reconnecting
  PROVE  IInv'
<1>1. /\ pc = "lost" /\ pc' = "sleep" /\ last' = "reconnecting"
      /\ limited' = None /\ attempt' = NextAttempt
      /\ UNCHANGED <<ctxDone, conn, closer, watching, serving, stopServe, fails, revoked,
                     result>>
  BY DEF Reconnecting, Emit, sessionVars
<1>2. delay' = DelayAfter("network", 0) /\ ~IsRateLimit("network")
  BY DEF Reconnecting, DelayAfter, IsRateLimit
<1>3. /\ delay' \in Nat /\ limited' \in Nat \cup {None} /\ attempt' \in 1 .. AttemptCap
      /\ DelayIsRight'
  BY <1>1, <1>2, DelayStep DEF IInv
<1>4. TypeOK'
  BY <1>1, <1>3 DEF IInv, TypeOK, Events
<1>5. SessionInv' /\ EventInv'
  BY <1>1 DEF IInv, SessionInv, EventInv
<1>6. attempt' = 2 /\ fails' = 0
  BY <1>1, BackoffAssumption DEF IInv, CountInv, NextAttempt
<1>7. CountInv' /\ GiveUpBound'
  BY <1>1, <1>6, BackoffAssumption DEF IInv, CountInv, GiveUpBound
<1> QED BY <1>3, <1>4, <1>5, <1>7 DEF IInv

\* The invariant holds at the start, and every step keeps it.
LEMMA Inductive == (Init => IInv) /\ (IInv /\ [Next]_vars => IInv')
<1>1. Init => IInv
  <2> SUFFICES ASSUME Init PROVE IInv
    OBVIOUS
  <2>1. TypeOK
    <3>1. 1 \in 1 .. AttemptCap /\ 0 \in 0 .. AttemptCap /\ 0 \in Nat
      BY BackoffAssumption
    <3> QED BY <3>1, Zenon DEF Init, TypeOK
  <2>2. SessionInv /\ EventInv
    BY NoneDiffers DEF Init, SessionInv, EventInv
  <2>3. CountInv /\ GiveUpBound /\ DelayIsRight
    BY NoneDiffers, BackoffAssumption DEF Init, CountInv, GiveUpBound, DelayIsRight
  <2> QED BY <2>1, <2>2, <2>3 DEF IInv
<1>2. ASSUME IInv, Next PROVE IInv'
  <2>1. CASE Run
    <3>1. CASE DialFails
      BY <1>2, <3>1, ConnectFailsKeeps DEF DialFails
    <3>2. CASE TLSFails
      BY <1>2, <3>2, ConnectFailsKeeps DEF TLSFails
    <3>3. CASE ReadFails
      BY <1>2, <3>3, ConnectFailsKeeps DEF ReadFails
    <3> QED BY <1>2, <2>1, <3>1, <3>2, <3>3, ConnectKeeps, ShutdownKeeps, OthersKeep,
               ReconnectingKeeps DEF Run
  <2>2. CASE \E r \in Reasons, h \in RetryHints \cup {0} : Denied(r, h)
    <3>1. PICK r \in Reasons, h \in RetryHints \cup {0} : Denied(r, h)
      BY <2>2
    <3>2. h \in Nat /\ pc \in {"dial", "register", "proof"} /\ ConnectFails(r, h)
      BY <3>1, BackoffAssumption DEF Denied
    <3> QED BY <1>2, <3>2, ConnectFailsKeeps
  <2> QED BY <1>2, <2>1, <2>2, ConnectKeeps, ShutdownKeeps, OthersKeep
          DEF Next, Answer, Watcher
<1>3. ASSUME IInv, UNCHANGED vars PROVE IInv'
  BY <1>3 DEF vars, sessionVars, retryVars, IInv, TypeOK, SessionInv, EventInv, CountInv,
              GiveUpBound, DelayIsRight
<1> QED BY <1>1, <1>2, <1>3

----------------------------------------------------------------------------
(* The theorems.                                                           *)

\* The invariant of these proofs holds in every behaviour of Run.
THEOREM Invariance == Spec => []IInv
  BY Inductive, PTL DEF Spec

\* Run returns an error exactly when fatal was its last event, and it leaves no
\* session, no waiting watcher and no Serve goroutine behind.
THEOREM ReturnIsClean == Spec => []CleanReturn
<1>1. IInv => CleanReturn
  BY DEF IInv, SessionInv, EventInv, CleanReturn
<1> QED BY <1>1, Invariance, PTL

\* While the Deregister round trip runs, cancelServe has not been called and the
\* client has not closed the session, so Deregister still has its stream.
THEOREM DeregisterFirst == Spec => []DeregisterBeforeTeardown
<1>1. IInv => DeregisterBeforeTeardown
  BY DEF IInv, SessionInv, DeregisterBeforeTeardown
<1> QED BY <1>1, Invariance, PTL

\* A client gives up after MaxAttempts failed connects in a row, or one fewer
\* when a session was lost before them.
THEOREM GivesUpInTime == Spec => []GiveUpBound
<1>1. IInv => GiveUpBound
  BY DEF IInv
<1> QED BY <1>1, Invariance, PTL

\* Every delay is the exponential schedule cut off at its cap, or what a rate
\* limit asks for, for any backoff configuration.
THEOREM DelayHolds == Spec => []DelayIsRight
<1>1. IInv => DelayIsRight
  BY DEF IInv
<1> QED BY <1>1, Invariance, PTL

\* Who emits which event.
LEMMA EventStep ==
  ASSUME Next
  PROVE  \/ last' = last
         \/ pc = "start" /\ last' = "starting"
         \/ pc = "connect" /\ last' = "connecting"
         \/ pc \in {"dial", "register", "proof"} /\ last' \in {"reconnecting", "fatal"}
         \/ pc \in {"register", "proof"} /\ last' = "register_ok"
         \/ pc = "await" /\ last' = "deregister_ok"
         \/ pc = "serve" /\ last' = "disconnected"
         \/ pc = "lost" /\ last' = "reconnecting"
<1>1. \A r, h : ConnectFails(r, h) => last' = last \/ last' \in {"reconnecting", "fatal"}
  BY DEF ConnectFails, Emit
<1>2. CASE Run
  BY <1>1, <1>2 DEF Run, Start, Connecting, DialOK, DialFails, TLSFails, ReadFails,
       ConnectReturns, Cancelled, SendDeregister, DeregisterFails, StopServe, Join,
       Disconnected, Reconnecting, Interrupted, Wakes, Emit
<1>3. CASE Answer
  BY <1>1, <1>3 DEF Answer, RegisterOK, DeregisterOK, Denied, Emit
<1>4. CASE Challenged \/ Watcher \/ ServeEnds \/ Signal \/ PeerGone \/ RevokeKey
  BY <1>4 DEF Challenged, Watcher, WatcherCloses, WatcherExits, ServeEnds, Signal, PeerGone,
       RevokeKey
<1> QED BY <1>2, <1>3, <1>4 DEF Next

\* The events come in the order the supervisor protocol promises its parent
\* process, whatever server, network and signals do.
THEOREM EventsInOrder == Spec => EventOrder
<1> DEFINE Ordered ==
      CASE last = None -> last' = "starting"
        [] last \in {"starting", "reconnecting"} -> last' = "connecting"
        [] last = "connecting" -> last' \in {"register_ok", "reconnecting", "fatal"}
        [] last = "register_ok" -> (last' = "disconnected"
                                    \/ (last' = "deregister_ok" /\ ctxDone))
        [] last = "disconnected" -> last' = "reconnecting"
        [] OTHER -> FALSE
<1>1. ASSUME IInv, Next, last' # last PROVE Ordered
  <2>1. EventInv
    BY <1>1 DEF IInv
  <2>2. \/ last = None /\ last' = "starting"
        \/ last \in {"starting", "reconnecting"} /\ last' = "connecting"
        \/ last = "connecting" /\ last' \in {"register_ok", "reconnecting", "fatal"}
        \/ last = "register_ok" /\ (last' = "disconnected"
                                    \/ (last' = "deregister_ok" /\ ctxDone))
        \/ last = "disconnected" /\ last' = "reconnecting"
    BY <1>1, <2>1, EventStep DEF EventInv
  <2> QED BY <2>2, NoneDiffers
<1>2. IInv /\ [Next]_vars => [last' # last => Ordered]_vars
  BY <1>1
<1> QED BY <1>2, Invariance, PTL DEF Spec, EventOrder


----------------------------------------------------------------------------
(* The rate limiter.                                                       *)

\* The samples of every tracked key, no more than Max.
SeenInv == \A k \in DOMAIN seen : seen[k] \in Seq(Int) /\ Len(seen[k]) <= Max

\* What makes a hint of RetryAfter exact: the window is as full as it was then
\* and its oldest sample leaves it at the hinted time, or that time has come.
Promise(k) ==
  \/ Len(Samples(k)) = Max /\ Max > 0 /\ hint[k] = Samples(k)[1] + Window
  \/ Len(Samples(k)) < Max /\ now >= hint[k]

HintInv ==
  /\ now \in Int /\ hint \in [Keys -> {Nil} \cup Int]
  /\ \A k \in Keys : hint[k] # Nil => Promise(k)

\* Fresh drops a prefix of old samples, and stops at one that is not old.
LEMMA FreshDrops ==
  ASSUME NEW s \in Seq(Int), NEW t \in Int
  PROVE  \E c \in 0 .. Len(s) : /\ \A j \in 1 .. c : s[j] <= t - Window
                                /\ c < Len(s) => s[c + 1] > t - Window
                                /\ Fresh(s, t) = SubSeq(s, c + 1, Len(s))
<1> DEFINE P(i) == /\ \A j \in 1 .. i : s[j] <= t - Window
                   /\ i < Len(s) => s[i + 1] > t - Window
           T == {i \in Nat : i <= Len(s) /\ (i < Len(s) => s[i + 1] > t - Window)}
           c == CHOOSE i \in 0 .. Len(s) : P(i)
<1>0. Window \in Int /\ Len(s) \in Nat /\ \A j \in 1 .. Len(s) : s[j] \in Int
  BY LimitAssumption
<1>1. \E i \in 0 .. Len(s) : P(i)
  <2>1. Len(s) \in T
    BY <1>0
  <2>2. PICK i \in T : \A y \in T : i <= y
    BY Zenon, <2>1, Least
  <2>3. ASSUME NEW j \in 1 .. i
        PROVE  s[j] <= t - Window
    <3>0. i \in Nat /\ i <= Len(s)
      BY <2>2
    <3>1. j - 1 \in Nat /\ j - 1 < i /\ j - 1 < Len(s) /\ (j - 1) + 1 = j /\ j \in 1 .. Len(s)
      BY <1>0, <2>3, <3>0
    <3>n. j - 1 \notin T
      <4> HIDE DEF T
      <4> QED BY <2>2, <3>0, <3>1
    <3>2. ~(s[j] > t - Window)
      BY <1>0, <3>1, <3>n
    <3>3. s[j] \in Int /\ t - Window \in Int
      BY <1>0, <3>1
    <3>4. QED
      BY <3>2, <3>3
  <2>4. QED
    BY <1>0, <2>2, <2>3
<1>2. c \in 0 .. Len(s) /\ P(c)
  BY <1>1, Zenon
<1>3. Fresh(s, t) = SubSeq(s, c + 1, Len(s))
  BY Zenon DEF Fresh
<1> HIDE DEF c
<1>4. QED
  BY <1>2, <1>3, Zenon

\* It drops nothing when the oldest sample is inside the window, and at least
\* that one when it is not.
LEMMA FreshFacts ==
  ASSUME NEW s \in Seq(Int), NEW t \in Int
  PROVE  /\ Fresh(s, t) \in Seq(Int) /\ Len(Fresh(s, t)) <= Len(s)
         /\ Len(s) > 0 /\ s[1] > t - Window => Fresh(s, t) = s
         /\ Len(s) > 0 /\ s[1] <= t - Window => Len(Fresh(s, t)) < Len(s)
         /\ Len(s) = 0 => Fresh(s, t) = s
<1>0. Window \in Int /\ Len(s) \in Nat /\ \A j \in 1 .. Len(s) : s[j] \in Int
  BY LimitAssumption
<1>1. PICK c \in 0 .. Len(s) : /\ \A j \in 1 .. c : s[j] <= t - Window
                               /\ c < Len(s) => s[c + 1] > t - Window
                               /\ Fresh(s, t) = SubSeq(s, c + 1, Len(s))
  BY FreshDrops, Zenon
<1>4. Fresh(s, t) \in Seq(Int) /\ Len(Fresh(s, t)) = Len(s) - c
  BY <1>0, <1>1
<1>5. c = 0 => Fresh(s, t) = s
  BY <1>0, <1>1
<1>6. Len(s) > 0 /\ s[1] > t - Window => c = 0
  BY <1>0, <1>1
<1>7. Len(s) > 0 /\ s[1] <= t - Window => c > 0
  BY <1>0, <1>1
<1>8. QED
  BY <1>0, <1>1, <1>4, <1>5, <1>6, <1>7

LEMMA FreshEmpty ==
  ASSUME NEW t \in Int
  PROVE  Fresh(<<>>, t) = <<>>
<1>1. <<>> \in Seq(Int) /\ Len(<<>>) = 0
  OBVIOUS
<1>2. QED
  BY <1>1, FreshFacts, Zenon

\* Deleting a key from a map.
LEMMA DropFacts ==
  ASSUME NEW m, NEW k
  PROVE  /\ DOMAIN Drop(m, k) = DOMAIN m \ {k}
         /\ \A j \in DOMAIN m \ {k} : Drop(m, k)[j] = m[j]
BY DEF Drop

\* pruneLocked drops keys with nothing fresh and trims the others.
LEMMA PrunedFacts ==
  ASSUME NEW t
  PROVE  /\ DOMAIN pruned(t) = {j \in DOMAIN seen : Fresh(seen[j], t) # <<>>}
         /\ \A j \in DOMAIN pruned(t) : pruned(t)[j] = Fresh(seen[j], t)
BY DEF pruned


\* The list a call looks at.
LEMMA SampleFacts ==
  ASSUME SeenInv, NEW k
  PROVE  /\ Samples(k) \in Seq(Int) /\ Len(Samples(k)) \in Nat
         /\ Max \in Int /\ Max > 0 => Len(Samples(k)) <= Max
         /\ Len(Samples(k)) > 0 => k \in DOMAIN seen
<1>1. CASE k \in DOMAIN seen
  BY <1>1 DEF SeenInv, Samples
<1>2. CASE k \notin DOMAIN seen
  BY <1>2 DEF Samples
<1>3. QED
  BY <1>1, <1>2


\* Shorter lists are within the bound.
LEMMA Shrinks ==
  ASSUME SeenInv, DOMAIN seen' \subseteq DOMAIN seen,
         \A j \in DOMAIN seen' : seen'[j] \in Seq(Int) /\ Len(seen'[j]) <= Len(seen[j])
  PROVE  SeenInv'
<1>1. ASSUME NEW j \in DOMAIN seen'
      PROVE  Len(seen'[j]) <= Max
  <2>1. seen[j] \in Seq(Int) /\ Len(seen[j]) <= Max
    BY <1>1, Zenon DEF SeenInv
  <2>2. QED
    BY <1>1, <2>1, LimitAssumption
<1>2. QED
  BY <1>1, Zenon DEF SeenInv

\* The three ways to make room for a key.
LEMMA RoomCases ==
  ASSUME NEW k, NEW t, NEW m \in Rooms(k, t)
  PROVE  \/ /\ m = seen
            /\ k \in DOMAIN seen \/ MaxKeys <= 0 \/ Cardinality(DOMAIN seen) < MaxKeys
         \/ /\ m = pruned(t)
            /\ ~(MaxKeys <= 0) /\ k \notin DOMAIN seen
            /\ Cardinality(DOMAIN pruned(t)) < MaxKeys
         \/ /\ \E j \in DOMAIN pruned(t) : m = Drop(pruned(t), j)
            /\ ~(MaxKeys <= 0) /\ k \notin DOMAIN seen
BY Zenon DEF Rooms

\* Making room trims or drops other keys.
LEMMA RoomFacts ==
  ASSUME NEW k, NEW t, NEW m \in Rooms(k, t)
  PROVE  /\ DOMAIN m \subseteq DOMAIN seen
         /\ \A j \in DOMAIN m : m[j] = seen[j] \/ m[j] = Fresh(seen[j], t)
<1>1. /\ DOMAIN pruned(t) \subseteq DOMAIN seen
      /\ \A j \in DOMAIN pruned(t) : pruned(t)[j] = Fresh(seen[j], t)
  BY PrunedFacts, Zenon
<1>2. ASSUME NEW j \in DOMAIN pruned(t), m = Drop(pruned(t), j)
      PROVE  /\ DOMAIN m \subseteq DOMAIN seen
             /\ \A i \in DOMAIN m : m[i] = seen[i] \/ m[i] = Fresh(seen[i], t)
  <2>1. /\ DOMAIN m = DOMAIN pruned(t) \ {j}
        /\ \A i \in DOMAIN pruned(t) \ {j} : m[i] = pruned(t)[i]
    BY <1>2, DropFacts, Zenon
  <2>2. QED
    BY <1>1, <2>1, Zenon
<1>3. QED
  BY <1>1, <1>2, RoomCases, Zenon

\* An admission puts one sample behind the fresh ones of its key.
LEMMA AdmitKeeps ==
  ASSUME SeenInv, NEW c, NEW k, NEW t \in Int, Admit(c, k, t)
  PROVE  SeenInv'
<1> DEFINE s == Fresh(Samples(k), t)
<1>1. PICK m \in Rooms(k, t) : seen' = Put(m, k, Append(s, t))
  BY Zenon DEF Admit
<1>2. s \in Seq(Int) /\ Len(s) < Max
  BY FreshFacts, SampleFacts DEF Admit, Admits
<1> HIDE DEF s
<1>3. Append(s, t) \in Seq(Int) /\ Len(Append(s, t)) <= Max
  BY <1>2, LimitAssumption
<1> DEFINE x == Append(s, t)
<1>x. seen' = Put(m, k, x)
  BY <1>1, Zenon
<1>4. DOMAIN seen' = DOMAIN m \cup {k} /\ seen'[k] = x /\ \A j \in DOMAIN m \ {k} : seen'[j] = m[j]
  <2> HIDE DEF x
  <2> QED BY <1>x, Zenon DEF Put
<1>5. ASSUME NEW j \in DOMAIN m \ {k}
      PROVE  seen'[j] \in Seq(Int) /\ Len(seen'[j]) <= Max
  <2>1. j \in DOMAIN seen /\ (m[j] = seen[j] \/ m[j] = Fresh(seen[j], t))
    BY RoomFacts, Zenon
  <2>2. seen[j] \in Seq(Int) /\ Len(seen[j]) <= Max /\ Max \in Int
    BY <2>1, Zenon, LimitAssumption DEF SeenInv
  <2>3. Fresh(seen[j], t) \in Seq(Int) /\ Len(Fresh(seen[j], t)) <= Len(seen[j])
    BY <2>2, FreshFacts
  <2>4. QED
    BY <1>4, <2>1, <2>2, <2>3
<1>6. QED
  BY <1>3, <1>4, <1>5, Zenon DEF SeenInv

\* Readings are times, none later than the clock and none older than a stall.
LEMMA ReadingFacts ==
  ASSUME now \in Int, NEW t \in Readings
  PROVE  t \in Int /\ t <= now /\ t >= now - Stall
BY LimitAssumption DEF Readings

\* A denial and a hint trim one list that is there, and a trimmed list that is
\* not there stays away.
LEMMA TrimKeeps ==
  ASSUME SeenInv, NEW k, NEW t \in Int, Max > 0,
         \/ Deny(k, t) \/ RetryAfter(k, t)
  PROVE  /\ SeenInv' /\ DOMAIN seen' \subseteq DOMAIN seen
         /\ \A j : Samples(j)' = IF j = k THEN Fresh(Samples(j), t) ELSE Samples(j)
<1> DEFINE s == Fresh(Samples(k), t)
<1>0. s \in Seq(Int) /\ Len(s) <= Len(Samples(k)) /\ Samples(k) \in Seq(Int)
  BY FreshFacts, SampleFacts
<1>1. k \notin DOMAIN seen => Samples(k) = <<>> /\ s = <<>>
  <2>1. Fresh(<<>>, t) = <<>>
    BY FreshEmpty, Zenon
  <2>2. QED
    BY <2>1, Zenon DEF Samples
<1>2. \/ k \in DOMAIN seen /\ seen' = Put(seen, k, s)
      \/ s = Samples(k) /\ seen' = seen
  <2>1. CASE Deny(k, t)
    <3>1. seen' = Put(seen, k, s) /\ ~(Len(s) < Max)
      BY <2>1, Zenon DEF Deny, Admits
    <3>2. s # <<>>
      BY <3>1, LimitAssumption
    <3>3. QED
      BY <1>1, <3>1, <3>2, Zenon
  <2>2. CASE RetryAfter(k, t)
    <3>1. seen' = IF s # Samples(k) THEN Put(seen, k, s) ELSE seen
      BY <2>2, Zenon DEF RetryAfter
    <3>2. QED
      BY <1>1, <3>1, Zenon
  <2>3. QED
    BY <2>1, <2>2
<1> HIDE DEF s
<1>3. CASE k \in DOMAIN seen /\ seen' = Put(seen, k, s)
  <2>0. /\ DOMAIN seen' = DOMAIN seen \cup {k} /\ seen'[k] = s
        /\ \A j \in DOMAIN seen \ {k} : seen'[j] = seen[j]
    BY <1>3, Zenon DEF Put
  <2>1. /\ DOMAIN seen' = DOMAIN seen /\ seen'[k] = s
        /\ \A j \in DOMAIN seen \ {k} : seen'[j] = seen[j]
    BY <1>3, <2>0
  <2>2. Samples(k) = seen[k]
    BY <1>3 DEF Samples
  <2>3. \A j \in DOMAIN seen' : seen'[j] \in Seq(Int) /\ Len(seen'[j]) <= Len(seen[j])
    <3>1. \A j \in DOMAIN seen \ {k} : seen'[j] = seen[j] /\ seen[j] \in Seq(Int) /\ Len(seen[j]) \in Nat
      BY <2>1 DEF SeenInv
    <3>2. \A n \in Nat : n <= n
      OBVIOUS
    <3>3. QED
      BY <1>0, <2>1, <2>2, <3>1, <3>2, Zenon
  <2>4. SeenInv'
    BY <2>1, <2>3, Shrinks, Zenon
  <2>5. \A j : Samples(j)' = IF j = k THEN s ELSE Samples(j)
    BY <1>3, <2>1, Zenon DEF Samples
  <2>6. QED
    BY <2>1, <2>4, <2>5, Zenon DEF s
<1>4. CASE s = Samples(k) /\ seen' = seen
  BY <1>4, Zenon DEF s, Samples, SeenInv
<1>5. QED
  BY <1>2, <1>3, <1>4, Zenon

\* So does the pruner, for all keys at once.
LEMMA PruneKeeps ==
  ASSUME SeenInv, NEW t \in Int, Prune(t)
  PROVE  SeenInv' /\ \A j : Samples(j)' = Fresh(Samples(j), t)
<1>1. /\ DOMAIN seen' = {j \in DOMAIN seen : Fresh(seen[j], t) # <<>>}
      /\ \A j \in DOMAIN seen' : seen'[j] = Fresh(seen[j], t)
  BY PrunedFacts, Zenon DEF Prune
<1>2. Fresh(<<>>, t) = <<>>
  BY FreshEmpty, Zenon
<1>3. \A j : Samples(j)' = Fresh(Samples(j), t)
  BY <1>1, <1>2, Zenon DEF Samples
<1>4. DOMAIN seen' \subseteq DOMAIN seen
  BY <1>1, Zenon
<1>5. ASSUME NEW j \in DOMAIN seen'
      PROVE  seen'[j] \in Seq(Int) /\ Len(seen'[j]) <= Len(seen[j])
  <2>1. seen[j] \in Seq(Int)
    BY <1>4, Zenon DEF SeenInv
  <2>2. QED
    BY <1>1, <2>1, FreshFacts, Zenon
<1>6. QED
  BY <1>3, <1>4, <1>5, Shrinks, Zenon

\* A refund takes the last sample of one key, and the key with the last one.
LEMMA CancelKeeps ==
  ASSUME SeenInv, NEW c, CancelLatest(c)
  PROVE  /\ SeenInv' /\ DOMAIN seen' \subseteq DOMAIN seen
         /\ \A j : j # calls[c].key => Samples(j)' = Samples(j)
<1> DEFINE k == calls[c].key
           s == Samples(k)
<1>0. s \in Seq(Int) /\ Len(s) \in Nat /\ (Len(s) > 0 => k \in DOMAIN seen)
  BY SampleFacts
<1>1. seen' = IF Len(s) = 0 THEN seen
              ELSE IF Len(s) = 1 THEN Drop(seen, k)
              ELSE Put(seen, k, SubSeq(s, 1, Len(s) - 1))
  BY Zenon DEF CancelLatest
<1>2. s = IF k \in DOMAIN seen THEN seen[k] ELSE <<>>
  BY DEF Samples
<1>s. \A j \in DOMAIN seen : seen[j] \in Seq(Int) /\ Len(seen[j]) <= Len(seen[j])
  BY DEF SeenInv
<1> HIDE DEF s, k
<1>3. CASE Len(s) = 0
  <2>1. seen' = seen
    BY <1>1, <1>3, Zenon
  <2>2. QED
    BY <2>1, Zenon DEF Samples, SeenInv
<1>4. CASE Len(s) = 1
  <2>1. seen' = Drop(seen, k)
    BY <1>1, <1>4
  <2>2. /\ DOMAIN seen' = DOMAIN seen \ {k}
        /\ \A j \in DOMAIN seen \ {k} : seen'[j] = seen[j]
    BY <2>1, DropFacts, Zenon
  <2>3. /\ DOMAIN seen' \subseteq DOMAIN seen
        /\ \A j \in DOMAIN seen' : seen'[j] \in Seq(Int) /\ Len(seen'[j]) <= Len(seen[j])
    BY <1>s, <2>2, Zenon
  <2>4. QED
    BY <2>2, <2>3, Shrinks, Zenon DEF k, Samples
<1>5. CASE Len(s) > 1
  <2> DEFINE x == SubSeq(s, 1, Len(s) - 1)
  <2>n. \A n \in Nat : n > 1 => n # 0 /\ n # 1 /\ n > 0
    OBVIOUS
  <2>0. Len(s) # 0 /\ Len(s) # 1 /\ k \in DOMAIN seen
    BY <1>0, <1>5, <2>n, Zenon
  <2>1. seen' = Put(seen, k, x) /\ k \in DOMAIN seen
    BY <1>1, <2>0, Zenon
  <2>2. x \in Seq(Int) /\ Len(x) <= Len(s)
    BY <1>0, <1>5
  <2> HIDE DEF x
  <2>p. /\ DOMAIN seen' = DOMAIN seen \cup {k} /\ seen'[k] = x
        /\ \A j \in DOMAIN seen \ {k} : seen'[j] = seen[j]
    BY <2>1, Zenon DEF Put
  <2>3. /\ DOMAIN seen' = DOMAIN seen /\ seen'[k] = x
        /\ \A j \in DOMAIN seen \ {k} : seen'[j] = seen[j]
    BY <2>1, <2>p
  <2>4. \A j \in DOMAIN seen' : seen'[j] \in Seq(Int) /\ Len(seen'[j]) <= Len(seen[j])
    BY <1>2, <1>s, <2>1, <2>2, <2>3, Zenon
  <2>5. QED
    BY <2>3, <2>4, Shrinks, Zenon DEF k, Samples
<1>6. Len(s) = 0 \/ Len(s) = 1 \/ Len(s) > 1
  <2>1. \A n \in Nat : n = 0 \/ n = 1 \/ n > 1
    OBVIOUS
  <2>2. QED
    BY <1>0, <2>1, Zenon
<1>7. QED
  BY <1>3, <1>4, <1>5, <1>6, Zenon

\* Trimming a list keeps the promise made for it.
LEMMA PromiseKept ==
  ASSUME SeenInv, now \in Int, now' \in Int, now' >= now,
         NEW k, hint[k] \in Int, Promise(k), hint'[k] = hint[k], NEW t \in Readings,
         Samples(k)' = Samples(k) \/ Samples(k)' = Fresh(Samples(k), t)
  PROVE  Promise(k)'
<1> DEFINE s == Samples(k)
           f == Fresh(s, t)
<1>1. /\ t \in Int /\ t <= now /\ Max \in Int /\ Window \in Int
      /\ s \in Seq(Int) /\ Len(s) \in Nat /\ (Len(s) > 0 => s[1] \in Int)
  BY ReadingFacts, SampleFacts, LimitAssumption
<1>2. /\ f \in Seq(Int) /\ Len(f) \in Nat /\ Len(f) <= Len(s)
      /\ Len(s) > 0 /\ s[1] > t - Window => f = s
      /\ Len(s) > 0 /\ s[1] <= t - Window => Len(f) < Len(s)
  BY <1>1, FreshFacts
<1>3. \/ Len(s) = Max /\ Max > 0 /\ hint[k] = s[1] + Window
      \/ Len(s) < Max /\ now >= hint[k]
  BY Zenon DEF Promise
<1> HIDE DEF f, s
<1>4. ASSUME NEW r, r = s \/ r = f
      PROVE  \/ Len(r) = Max /\ Max > 0 /\ hint[k] = r[1] + Window
             \/ Len(r) < Max /\ now' >= hint[k]
  <2>1. CASE Len(s) = Max /\ Max > 0 /\ hint[k] = s[1] + Window
    <3>1. CASE r = s
      BY <2>1, <3>1, Zenon
    <3>2. CASE r = f /\ s[1] > t - Window
      BY <1>2, <2>1, <3>2
    <3>3. CASE r = f /\ s[1] <= t - Window
      BY <1>1, <1>2, <2>1, <3>3
    <3>4. QED
      BY <1>1, <1>4, <2>1, <3>1, <3>2, <3>3
  <2>2. CASE Len(s) < Max /\ now >= hint[k]
    <3>1. Len(r) \in Nat /\ Len(r) <= Len(s)
      <4>1. Len(s) <= Len(s)
        BY <1>1
      <4>2. QED
        BY <1>1, <1>2, <1>4, <4>1, Zenon
    <3>2. now' >= hint[k]
      BY <2>2
    <3>3. Len(r) < Max
      <4>1. ASSUME NEW m \in Nat, NEW n \in Nat, m <= n, n < Max
            PROVE  m < Max
        BY <4>1, LimitAssumption
      <4>2. QED
        BY <1>1, <2>2, <3>1, <4>1, Zenon
    <3>4. QED
      BY <3>2, <3>3, Zenon
  <2>3. QED
    BY <1>3, <2>1, <2>2, Zenon
<1>5. ASSUME \/ Len(Samples(k)') = Max /\ Max > 0 /\ hint[k] = Samples(k)'[1] + Window
             \/ Len(Samples(k)') < Max /\ now' >= hint[k]
      PROVE  Promise(k)'
  BY <1>5, Zenon DEF Promise
<1>6. QED
  BY <1>4, <1>5, Zenon DEF s, f

\* The history an admission of k leaves when the keys in gone lose theirs.
Logged(k, gone) ==
  log' = [j \in Keys |-> IF j \in gone THEN Note(j, "evict", now)[j]
                         ELSE IF j = k THEN Note(j, "admit", now)[j]
                         ELSE log[j]]

\* What an admission with reading t does to the other keys: the ones gone lose
\* their hint and their history, the others at most their old samples.
Elsewhere(k, t, gone) ==
  /\ hint' = [j \in Keys |-> IF j \in gone \cup {k} THEN Nil ELSE hint[j]]
  /\ k \notin gone /\ Logged(k, gone)
  /\ \A j : j \notin gone \cup {k} =>
       Samples(j)' = Samples(j) \/ Samples(j)' = Fresh(Samples(j), t)

LEMMA AdmitElsewhere ==
  ASSUME SeenInv, NEW c, NEW k, NEW t \in Int, Admit(c, k, t)
  PROVE  \E gone : Elsewhere(k, t, gone)
<1> DEFINE x == Append(Fresh(Samples(k), t), t)
           gone(m) == {j \in DOMAIN seen \ DOMAIN m : Fresh(seen[j], t) # <<>>}
<1>1. PICK m \in Rooms(k, t) :
        /\ seen' = Put(m, k, x)
        /\ hint' = [j \in Keys |-> IF j \in gone(m) \cup {k} THEN Nil ELSE hint[j]]
        /\ Logged(k, gone(m))
  BY Zenon DEF Admit, Logged
<1>2. /\ DOMAIN m \subseteq DOMAIN seen
      /\ \A j \in DOMAIN m : m[j] = seen[j] \/ m[j] = Fresh(seen[j], t)
  BY RoomFacts, Zenon
<1>k. k \notin gone(m)
  <2>1. m = seen \/ k \notin DOMAIN seen
    BY RoomCases, Zenon
  <2>2. QED
    BY <2>1, Zenon
<1> HIDE DEF x
<1>3. /\ DOMAIN seen' = DOMAIN m \cup {k}
      /\ \A j \in DOMAIN m \ {k} : seen'[j] = m[j]
  BY <1>1, Zenon DEF Put
<1>4. ASSUME NEW j, j \notin gone(m) \cup {k}
      PROVE  Samples(j)' = Samples(j) \/ Samples(j)' = Fresh(Samples(j), t)
  <2>1. CASE j \in DOMAIN m
    <3>1. seen'[j] = m[j] /\ j \in DOMAIN seen' /\ j \in DOMAIN seen
      BY <1>2, <1>3, <1>4, <2>1, Zenon
    <3>2. QED
      BY <1>2, <2>1, <3>1, Zenon DEF Samples
  <2>2. CASE j \notin DOMAIN m /\ j \in DOMAIN seen
    <3>1. Fresh(seen[j], t) = <<>> /\ j \notin DOMAIN seen'
      BY <1>3, <1>4, <2>2, Zenon
    <3>2. QED
      BY <2>2, <3>1, Zenon DEF Samples
  <2>3. CASE j \notin DOMAIN m /\ j \notin DOMAIN seen
    BY <1>3, <1>4, <2>3, Zenon DEF Samples
  <2>4. QED
    BY <2>1, <2>2, <2>3, Zenon
<1>5. Elsewhere(k, t, gone(m))
  <2> HIDE DEF gone
  <2> QED BY <1>1, <1>k, <1>4, Zenon DEF Elsewhere
<1>6. QED
  BY <1>5, Zenon

\* Every step keeps the promises behind the hints.
LEMMA HintStep ==
  ASSUME SeenInv, HintInv, LimiterNext
  PROVE  SeenInv' /\ HintInv'
<1>0. now \in Int /\ now >= now /\ hint \in [Keys -> {Nil} \cup Int]
  BY DEF HintInv
<1>k. ASSUME NEW k \in Keys, NEW t \in Readings, now' = now, hint'[k] = hint[k], hint'[k] # Nil,
             Samples(k)' = Samples(k) \/ Samples(k)' = Fresh(Samples(k), t)
      PROVE  Promise(k)'
  <2>1. hint[k] \in Int /\ Promise(k)
    BY <1>k, Zenon DEF HintInv
  <2>2. QED
    BY <1>0, <1>k, <2>1, PromiseKept, Zenon
<1>i. ASSUME now' = now, hint' \in [Keys -> {Nil} \cup Int],
             \A k \in Keys : hint'[k] # Nil => Promise(k)'
      PROVE  HintInv'
  BY <1>0, <1>i, Zenon DEF HintInv
<1>1. ASSUME NEW c \in Callers, NEW k \in Keys, NEW t \in Readings, Admit(c, k, t)
      PROVE  SeenInv' /\ HintInv'
  <2>1. t \in Int /\ now' = now
    BY <1>0, <1>1, ReadingFacts, Zenon DEF Admit
  <2>2. PICK gone : Elsewhere(k, t, gone)
    BY <1>1, <2>1, AdmitElsewhere, Zenon
  <2>3. \A j \in Keys : hint'[j] # Nil => hint'[j] = hint[j] /\ j \notin gone \cup {k}
    BY <2>2, Zenon DEF Elsewhere
  <2>4. hint' \in [Keys -> {Nil} \cup Int]
    BY <1>0, <2>2, Zenon DEF Elsewhere
  <2>5. \A j \in Keys : hint'[j] # Nil => Promise(j)'
    BY <1>k, <2>1, <2>2, <2>3, Zenon DEF Elsewhere
  <2>6. SeenInv'
    BY <1>1, <2>1, AdmitKeeps, Zenon
  <2>7. QED
    BY <1>i, <2>1, <2>4, <2>5, <2>6, Zenon
<1>2. ASSUME NEW k \in Keys, NEW t \in Readings, Deny(k, t)
      PROVE  SeenInv' /\ HintInv'
  <2>1. t \in Int /\ now' = now /\ hint' = hint /\ Max > 0
    BY <1>0, <1>2, ReadingFacts, Zenon DEF Deny
  <2>2. /\ SeenInv'
        /\ \A j : Samples(j)' = IF j = k THEN Fresh(Samples(j), t) ELSE Samples(j)
    BY <1>2, <2>1, TrimKeeps, Zenon
  <2>3. \A j \in Keys : hint'[j] # Nil => Promise(j)'
    BY <1>k, <2>1, <2>2, Zenon
  <2>4. QED
    BY <1>0, <1>i, <2>1, <2>2, <2>3, Zenon
<1>3. ASSUME NEW k \in Keys, NEW t \in Readings, RetryAfter(k, t)
      PROVE  SeenInv' /\ HintInv'
  <2> DEFINE s == Fresh(Samples(k), t)
  <2>1. t \in Int /\ now' = now /\ Max > 0
    BY <1>0, <1>3, ReadingFacts, Zenon DEF RetryAfter
  <2>h. hint' = IF Len(s) < Max THEN hint ELSE [hint EXCEPT ![k] = t + (s[1] + Window - t)]
    BY <1>3, Zenon DEF RetryAfter
  <2>2. /\ SeenInv'
        /\ \A j : Samples(j)' = IF j = k THEN Fresh(Samples(j), t) ELSE Samples(j)
    BY <1>3, <2>1, TrimKeeps, Zenon
  <2>3. CASE Len(s) < Max
    <3>1. hint' = hint
      BY <2>h, <2>3, Zenon
    <3>2. \A j \in Keys : hint'[j] # Nil => Promise(j)'
      BY <1>k, <2>1, <2>2, <3>1, Zenon
    <3>3. QED
      BY <1>0, <1>i, <2>1, <2>2, <3>1, <3>2, Zenon
  <2>4. CASE ~(Len(s) < Max)
    <3>1. /\ s \in Seq(Int) /\ Len(s) <= Len(Samples(k)) /\ Len(Samples(k)) <= Max
          /\ Len(Samples(k)) \in Nat /\ Max \in Int /\ Window \in Int
      BY <2>1, FreshFacts, SampleFacts, LimitAssumption
    <3>s. Samples(k)' = s
      BY <2>2, Zenon
    <3> HIDE DEF s
    <3>2. Len(s) = Max /\ s[1] \in Int /\ t + (s[1] + Window - t) = s[1] + Window
      BY <2>1, <2>4, <3>1
    <3>w. s[1] + Window \in Int
      BY <3>1, <3>2
    <3>3. hint' = [hint EXCEPT ![k] = s[1] + Window] /\ s[1] + Window \in Int
      BY <2>h, <2>4, <3>2, <3>w, Zenon
    <3>4. hint' \in [Keys -> {Nil} \cup Int]
      BY <1>0, <3>3, Zenon
    <3>5. hint'[k] = s[1] + Window /\ \A j \in Keys \ {k} : hint'[j] = hint[j]
      BY <1>0, <3>3, Zenon
    <3>6. Promise(k)'
      BY <2>1, <3>s, <3>2, <3>5, Zenon DEF Promise
    <3>7. \A j \in Keys \ {k} : hint'[j] # Nil => Promise(j)'
      BY <1>k, <2>1, <2>2, <3>5, Zenon
    <3>8. QED
      BY <1>i, <2>1, <2>2, <3>4, <3>6, <3>7, Zenon
  <2>5. QED
    BY <2>3, <2>4, Zenon
<1>4. ASSUME NEW c \in Callers, CancelLatest(c)
      PROVE  SeenInv' /\ HintInv'
  <2>1. now' = now /\ hint' = [hint EXCEPT ![calls[c].key] = Nil]
    BY <1>4, Zenon DEF CancelLatest
  <2>2. SeenInv' /\ \A j : j # calls[c].key => Samples(j)' = Samples(j)
    BY <1>4, CancelKeeps, Zenon
  <2>3. /\ hint' \in [Keys -> {Nil} \cup Int]
        /\ \A j \in Keys : hint'[j] # Nil => hint'[j] = hint[j] /\ j # calls[c].key
    BY <1>0, <2>1, Zenon
  <2>4. ASSUME NEW j \in Keys, hint'[j] # Nil
        PROVE  Promise(j)'
    <3>1. hint'[j] = hint[j] /\ Samples(j)' = Samples(j) /\ Promise(j)
      BY <2>2, <2>3, <2>4, Zenon DEF HintInv
    <3>2. QED
      BY <2>1, <3>1, Zenon DEF Promise
  <2>5. QED
    BY <1>i, <2>1, <2>2, <2>3, <2>4, Zenon
<1>5. ASSUME UNCHANGED <<seen, hint>>, now' = now \/ now' = now + 1
      PROVE  SeenInv' /\ HintInv'
  <2>1. now' \in Int /\ now' >= now
    BY <1>0, <1>5
  <2>2. SeenInv' /\ \A j : Samples(j)' = Samples(j)
    BY <1>5, Zenon DEF SeenInv, Samples
  <2>3. ASSUME NEW j \in Keys, hint'[j] # Nil
        PROVE  Promise(j)'
    <3>1. hint[j] \in Int /\ hint'[j] = hint[j] /\ Promise(j)
      BY <1>0, <1>5, <2>3, Zenon DEF HintInv
    <3>2. now >= hint[j] => now' >= hint[j]
      BY <1>0, <2>1, <3>1
    <3>3. QED
      BY <2>2, <3>1, <3>2, Zenon DEF Promise
  <2>4. QED
    BY <1>0, <1>5, <2>1, <2>2, <2>3, Zenon DEF HintInv
<1>6. ASSUME NEW t \in Readings, Prune(t)
      PROVE  SeenInv' /\ HintInv'
  <2>1. t \in Int /\ now' = now /\ hint' = hint
    BY <1>0, <1>6, ReadingFacts, Zenon DEF Prune
  <2>2. SeenInv' /\ \A j : Samples(j)' = Fresh(Samples(j), t)
    BY <1>6, <2>1, PruneKeeps, Zenon
  <2>3. \A j \in Keys : hint'[j] # Nil => Promise(j)'
    BY <1>k, <2>1, <2>2, Zenon
  <2>4. QED
    BY <1>0, <1>i, <2>1, <2>2, <2>3, Zenon
<1>7. ASSUME NEW c \in Callers, Settle(c)
      PROVE  SeenInv' /\ HintInv'
  BY <1>5, <1>7, Zenon DEF Settle
<1>8. ASSUME Tick
      PROVE  SeenInv' /\ HintInv'
  BY <1>5, <1>8, Zenon DEF Tick
<1>9. QED
  BY <1>1, <1>2, <1>3, <1>4, <1>6, <1>7, <1>8, Zenon DEF LimiterNext

\* The two invariants hold initially and forever.
LEMMA LimiterInvariance == LimiterSpec => [](SeenInv /\ HintInv)
<1>1. LimiterInit => SeenInv /\ HintInv
  <2> SUFFICES ASSUME LimiterInit PROVE SeenInv /\ HintInv
    OBVIOUS
  <2>1. DOMAIN seen = {} /\ hint = [k \in Keys |-> Nil] /\ now = 0
    BY DEF LimiterInit
  <2>3. SeenInv
    BY <2>1, Zenon DEF SeenInv
  <2>4. HintInv
    BY <2>1 DEF HintInv
  <2>5. QED
    BY <2>3, <2>4
<1>2. SeenInv /\ HintInv /\ [LimiterNext]_limiterVars => SeenInv' /\ HintInv'
  <2>1. ASSUME SeenInv, HintInv, UNCHANGED limiterVars
        PROVE  SeenInv' /\ HintInv'
    BY <2>1, Zenon DEF limiterVars, SeenInv, HintInv, Bounded, Promise, Samples
  <2>2. QED
    BY <2>1, HintStep, Zenon
<1>3. QED
  BY <1>1, <1>2, PTL DEF LimiterSpec

\* A RetryAfter hint is exact, however the methods' clock readings and their
\* turns at the mutex interleave.
THEOREM HintsExact == LimiterSpec => []RetryHintExact
<1>1. ASSUME SeenInv, HintInv, NEW k \in Keys, hint[k] # Nil, NEW t \in Readings
      PROVE  /\ Admits(k, t) => now >= hint[k]
             /\ t >= hint[k] => Admits(k, t)
  <2> DEFINE s == Samples(k)
             f == Fresh(s, t)
  <2>1. /\ t \in Int /\ t <= now /\ now \in Int /\ Max \in Int /\ Window \in Int
        /\ s \in Seq(Int) /\ Len(s) \in Nat /\ (Len(s) > 0 => s[1] \in Int)
    BY <1>1, ReadingFacts, SampleFacts, LimitAssumption DEF HintInv
  <2>2. /\ f \in Seq(Int) /\ Len(f) \in Nat /\ Len(f) <= Len(s)
        /\ Len(s) > 0 /\ s[1] > t - Window => f = s
        /\ Len(s) > 0 /\ s[1] <= t - Window => Len(f) < Len(s)
    BY <2>1, FreshFacts
  <2>3. hint[k] \in Int /\ Promise(k)
    BY <1>1, Zenon DEF HintInv
  <2>4. \/ Len(s) = Max /\ Max > 0 /\ hint[k] = s[1] + Window
        \/ Len(s) < Max /\ now >= hint[k]
    BY <2>3, Zenon DEF Promise
  <2>5. Admits(k, t) <=> Len(f) < Max
    BY Zenon DEF Admits
  <2> HIDE DEF f, s
  <2>6. CASE Len(s) = Max /\ Max > 0 /\ hint[k] = s[1] + Window
    <3>1. CASE s[1] > t - Window
      BY <2>1, <2>2, <2>5, <2>6, <3>1
    <3>2. CASE s[1] <= t - Window
      BY <2>1, <2>2, <2>5, <2>6, <3>2
    <3>3. QED
      BY <2>1, <2>6, <3>1, <3>2
  <2>7. CASE Len(s) < Max /\ now >= hint[k]
    BY <2>1, <2>2, <2>5, <2>7
  <2>8. QED
    BY <2>4, <2>6, <2>7, Zenon
<1>2. SeenInv /\ HintInv => RetryHintExact
  BY <1>1, Zenon DEF RetryHintExact
<1>3. QED
  BY <1>2, LimiterInvariance, PTL

\* How the set of tracked keys changes: it shrinks, but for an admission of a
\* key that is new, which stays within MaxKeys.
Grows(k, D) ==
  /\ DOMAIN seen' = D \cup {k} /\ D \subseteq DOMAIN seen
  /\ \/ k \in DOMAIN seen \/ MaxKeys <= 0
     \/ Cardinality(D) < MaxKeys
     \/ \E P \in SUBSET DOMAIN seen : \E j \in P : D = P \ {j}

LEMMA DomainStep ==
  ASSUME SeenInv, now \in Int, LimiterNext
  PROVE  DOMAIN seen' \subseteq DOMAIN seen \/ \E k, D : Grows(k, D)
<1>1. ASSUME NEW c, NEW k, NEW t, Admit(c, k, t)
      PROVE  \E D : Grows(k, D)
  <2> DEFINE x == Append(Fresh(Samples(k), t), t)
  <2>1. PICK m \in Rooms(k, t) : seen' = Put(m, k, x)
    BY <1>1, Zenon DEF Admit
  <2> HIDE DEF x
  <2>2. DOMAIN seen' = DOMAIN m \cup {k}
    BY <2>1, Zenon DEF Put
  <2>3. DOMAIN m \subseteq DOMAIN seen
    BY RoomFacts, Zenon
  <2>4. \A j : DOMAIN Drop(pruned(t), j) = DOMAIN pruned(t) \ {j}
    BY DropFacts, Zenon
  <2>5. DOMAIN pruned(t) \in SUBSET DOMAIN seen
    BY PrunedFacts, Zenon
  <2> DEFINE Evicts == \E P \in SUBSET DOMAIN seen : \E j \in P : DOMAIN m = P \ {j}
  <2>e. (\E j \in DOMAIN pruned(t) : m = Drop(pruned(t), j)) => Evicts
    BY <2>4, <2>5, Zenon
  <2>6. k \in DOMAIN seen \/ MaxKeys <= 0 \/ Cardinality(DOMAIN m) < MaxKeys \/ Evicts
    <3>0. \/ /\ m = seen
             /\ k \in DOMAIN seen \/ MaxKeys <= 0 \/ Cardinality(DOMAIN seen) < MaxKeys
          \/ m = pruned(t) /\ Cardinality(DOMAIN pruned(t)) < MaxKeys
          \/ \E j \in DOMAIN pruned(t) : m = Drop(pruned(t), j)
      BY RoomCases
    <3> HIDE DEF Evicts
    <3>1. CASE /\ m = seen
               /\ k \in DOMAIN seen \/ MaxKeys <= 0 \/ Cardinality(DOMAIN seen) < MaxKeys
      BY <3>1, Zenon
    <3>2. CASE m = pruned(t) /\ Cardinality(DOMAIN pruned(t)) < MaxKeys
      BY <3>2, Zenon
    <3>3. QED
      BY <2>e, <3>0, <3>1, <3>2, Zenon
  <2>7. QED
    BY <2>2, <2>3, <2>6, Zenon DEF Grows
<1>2. ASSUME NEW k, NEW t \in Readings, Deny(k, t) \/ RetryAfter(k, t)
      PROVE  DOMAIN seen' \subseteq DOMAIN seen
  <2>1. t \in Int /\ Max > 0
    BY <1>2, ReadingFacts, Zenon DEF Deny, RetryAfter
  <2>2. QED
    BY <1>2, <2>1, TrimKeeps, Zenon
<1>3. ASSUME NEW c, CancelLatest(c)
      PROVE  DOMAIN seen' \subseteq DOMAIN seen
  BY <1>3, CancelKeeps, Zenon
<1>4. ASSUME NEW t, Prune(t)
      PROVE  DOMAIN seen' \subseteq DOMAIN seen
  BY <1>4, PrunedFacts, Zenon DEF Prune
<1>5. ASSUME seen' = seen
      PROVE  DOMAIN seen' \subseteq DOMAIN seen
  BY <1>5, Zenon
<1>6. QED
  BY <1>1, <1>2, <1>3, <1>4, <1>5, Zenon DEF LimiterNext, Settle, Tick

----------------------------------------------------------------------------
(* What was admitted and what was taken back.                              *)

\* The admissions and the refunds of k that the history still has.
Admissions(k) == log[k]["admit"]
Refunds(k) == log[k]["cancel"]

\* A history with one more event.
Grown(events, n) == events \cup {Another(events, n)}

\* What a step does to the history and to the samples of k.  Quiet: at most
\* old samples go.
Quiet(k) ==
  /\ now' = now /\ Admissions(k)' = Admissions(k) /\ Refunds(k)' = Refunds(k)
  /\ \/ Samples(k)' = Samples(k)
     \/ \E t \in Readings : Samples(k)' = Fresh(Samples(k), t)

\* The budget of k is gone, and its history with it.
Forgotten(k) == now' = now /\ Admissions(k)' = {} /\ Refunds(k)' \in {{}, Refunds(k)}

\* One sample more.
Admitted(k) ==
  /\ now' = now /\ Refunds(k)' = Refunds(k)
  /\ Admissions(k)' = Admissions(k) \/ Admissions(k)' = Grown(Admissions(k), now)
  /\ \E t \in Readings : Samples(k)' = Append(Fresh(Samples(k), t), t)

\* One sample less, if there was one.
Refunded(k) ==
  /\ now' = now /\ Admissions(k)' = Admissions(k)
  /\ Refunds(k)' = Grown(Refunds(k), now)
  /\ Samples(k)' = IF Len(Samples(k)) = 0 THEN Samples(k)
                     ELSE SubSeq(Samples(k), 1, Len(Samples(k)) - 1)

\* Time passes.
Aged(k) ==
  /\ now' = now + 1 /\ Samples(k)' = Samples(k)
  /\ Admissions(k)' = After(Admissions(k), now' - Window)
  /\ Refunds(k)' = After(Refunds(k), now' - Window)

\* The history has its shape, callers name keys, and an evicted key no admissions in it.
LogShape ==
  /\ calls \in [Callers -> {Nil} \cup [key : Keys, at : Int]]
  /\ DOMAIN log = Keys
  /\ \A k \in Keys : /\ DOMAIN log[k] = Kinds
                     /\ log[k]["evict"] # {} => Admissions(k) = {}

\* What Note does to the history of one key.
Noted(l, k, kind, t) ==
  /\ DOMAIN l = Keys /\ \A j \in Keys \ {k} : l[j] = log[j]
  /\ DOMAIN l[k] = Kinds /\ \A i \in Kinds \ {kind} : l[k][i] = log[k][i]
  /\ l[k][kind] = IF log[k]["evict"] # {} THEN log[k][kind]
                  ELSE Grown(log[k][kind], t)

\* What a note does to the log.
LEMMA NoteFacts ==
  ASSUME LogShape, NEW k \in Keys, NEW t, NEW kind \in Kinds \ {"evict"}
  PROVE  Noted(Note(k, kind, t), k, kind, t)
<1> DEFINE new == Grown(log[k][kind], t)
<1>1. Note(k, kind, t) = IF log[k]["evict"] # {} THEN log
                           ELSE [log EXCEPT ![k][kind] = new]
  BY Zenon DEF Note, Grown
<1> HIDE DEF new
<1>2. DOMAIN log = Keys /\ DOMAIN log[k] = Kinds
  BY Zenon DEF LogShape
<1>3. CASE log[k]["evict"] # {}
  BY <1>1, <1>2, <1>3, Zenon DEF Noted
<1>4. CASE log[k]["evict"] = {}
  <2>1. Note(k, kind, t) = [log EXCEPT ![k][kind] = new]
    BY <1>1, <1>4, Zenon
  <2>2. /\ DOMAIN Note(k, kind, t) = Keys
        /\ \A j \in Keys \ {k} : Note(k, kind, t)[j] = log[j]
        /\ Note(k, kind, t)[k] = [log[k] EXCEPT ![kind] = new]
    BY <1>2, <2>1, Zenon
  <2>3. QED
    BY <1>2, <1>4, <2>2, Zenon DEF new, Noted
<1>5. QED
  BY <1>3, <1>4, Zenon

\* The kinds there are.
LEMMA KindFacts ==
  /\ "admit" \in Kinds /\ "cancel" \in Kinds /\ "evict" \in Kinds
  /\ "admit" \in Kinds \ {"evict"} /\ "cancel" \in Kinds \ {"evict"}
  /\ "spent" \in Kinds \ {"evict"}
  /\ "evict" # "admit" /\ "cancel" # "admit" /\ "cancel" # "evict" /\ "spent" # "admit"
  /\ "spent" # "cancel" /\ "spent" # "evict"
  BY DEF Kinds

\* An eviction leaves nothing but itself.
LEMMA EvictFacts ==
  ASSUME LogShape, NEW k \in Keys, NEW t
  PROVE  /\ DOMAIN Note(k, "evict", t)[k] = Kinds
         /\ Note(k, "evict", t)[k]["admit"] = {} /\ Note(k, "evict", t)[k]["cancel"] = {}
<1>1. Note(k, "evict", t)[k] =
        [j \in Kinds |-> IF j = "evict" THEN {Another({}, t)} ELSE {}]
  BY Zenon DEF Note, LogShape
<1>2. QED
  BY <1>1, KindFacts, Zenon

\* A refund takes the last sample of its key.
LEMMA CancelTakes ==
  ASSUME SeenInv, NEW c, NEW k, k = calls[c].key, CancelLatest(c)
  PROVE  Samples(k)' = IF Len(Samples(k)) = 0 THEN Samples(k)
                         ELSE SubSeq(Samples(k), 1, Len(Samples(k)) - 1)
<1> DEFINE s == Samples(k)
           x == SubSeq(s, 1, Len(s) - 1)
           r == IF k \in DOMAIN seen' THEN seen'[k] ELSE <<>>
<1>0. s \in Seq(Int) /\ Len(s) \in Nat /\ (Len(s) > 0 => k \in DOMAIN seen)
  BY SampleFacts
<1>1. seen' = IF Len(s) = 0 THEN seen
              ELSE IF Len(s) = 1 THEN Drop(seen, k)
              ELSE Put(seen, k, x)
  BY Zenon DEF CancelLatest
<1>2. r = IF Len(s) = 0 THEN s ELSE x
  <2>1. CASE Len(s) = 0
    BY <1>1, <2>1, Zenon DEF Samples
  <2>2. CASE Len(s) # 0 /\ Len(s) = 1
    <3>0. seen' = Drop(seen, k)
      BY <1>1, <2>2, Zenon
    <3>d. DOMAIN seen' = DOMAIN seen \ {k}
      BY <3>0, DropFacts, Zenon
    <3>1. k \notin DOMAIN seen'
      BY <3>d
    <3>2. x = <<>>
      BY <1>0, <2>2
    <3>3. QED
      BY <2>2, <3>1, <3>2, Zenon
  <2>3. CASE Len(s) # 0 /\ Len(s) # 1
    <3> HIDE DEF x
    <3>1. seen' = Put(seen, k, x)
      BY <1>1, <2>3, Zenon
    <3>2. k \in DOMAIN seen' /\ seen'[k] = x
      BY <3>1, Zenon DEF Put
    <3>3. QED
      BY <2>3, <3>2, Zenon
  <2>4. QED
    BY <2>1, <2>2, <2>3, Zenon
<1> HIDE DEF x
<1>4. QED
  BY <1>2, Zenon DEF Samples, x

\* Every step is one of these for each key.
LEMMA BudgetShape ==
  ASSUME SeenInv, now \in Int, LogShape, LimiterNext
  PROVE  /\ LogShape'
         /\ \A k \in Keys : Quiet(k) \/ Forgotten(k) \/ Admitted(k) \/ Refunded(k) \/ Aged(k)
<1>l. /\ calls \in [Callers -> {Nil} \cup [key : Keys, at : Int]] /\ DOMAIN log = Keys
      /\ \A k \in Keys : DOMAIN log[k] = Kinds /\ (log[k]["evict"] # {} => Admissions(k) = {})
  BY Zenon DEF LogShape
<1>1. ASSUME NEW c \in Callers, NEW k \in Keys, NEW t \in Readings, Admit(c, k, t)
      PROVE  /\ LogShape'
             /\ \A j \in Keys : Quiet(j) \/ Forgotten(j) \/ Admitted(j)
  <2>1. t \in Int /\ now' = now
    BY <1>1, ReadingFacts, Zenon DEF Admit
  <2>2. PICK gone : Elsewhere(k, t, gone)
    BY <1>1, <2>1, AdmitElsewhere, Zenon
  <2>3. k \notin gone /\ Logged(k, gone)
        /\ \A j : j \notin gone \cup {k} =>
             Samples(j)' = Samples(j) \/ Samples(j)' = Fresh(Samples(j), t)
    BY <2>2, Zenon DEF Elsewhere
  <2>4. /\ DOMAIN log' = Keys /\ log'[k] = Note(k, "admit", now)[k]
        /\ \A j \in Keys \cap gone : log'[j] = Note(j, "evict", now)[j]
        /\ \A j \in Keys \ (gone \cup {k}) : log'[j] = log[j]
    BY <2>3, Zenon DEF Logged
  <2>5. /\ DOMAIN log'[k] = Kinds /\ log'[k]["evict"] = log[k]["evict"]
        /\ log'[k]["cancel"] = log[k]["cancel"]
        /\ log'[k]["admit"] = IF log[k]["evict"] # {} THEN log[k]["admit"]
             ELSE Grown(log[k]["admit"], now)
    <3>1. Noted(Note(k, "admit", now), k, "admit", now)
      BY KindFacts, NoteFacts, Zenon
    <3>2. QED
      BY <2>4, <3>1, KindFacts, Zenon DEF Noted
  <2>6. ASSUME NEW j \in Keys \cap gone
        PROVE  DOMAIN log'[j] = Kinds /\ log'[j]["admit"] = {} /\ log'[j]["cancel"] = {}
    <3>1. j \in Keys /\ log'[j] = Note(j, "evict", now)[j]
      BY <2>4, <2>6, Zenon
    <3>2. /\ DOMAIN Note(j, "evict", now)[j] = Kinds
          /\ Note(j, "evict", now)[j]["admit"] = {} /\ Note(j, "evict", now)[j]["cancel"] = {}
      BY <3>1, EvictFacts, Zenon
    <3>3. QED
      BY <3>1, <3>2, Zenon
  <2>7. \A j \in Keys \cap gone : Forgotten(j)
    BY <2>1, <2>6, Zenon DEF Forgotten, Admissions, Refunds
  <2>8. \A j \in Keys \ (gone \cup {k}) : Quiet(j)
    BY <2>1, <2>3, <2>4, Zenon DEF Quiet, Admissions, Refunds
  <2>9. Admitted(k)
    <3> DEFINE x == Append(Fresh(Samples(k), t), t)
    <3>1. PICK m : seen' = Put(m, k, x)
      BY <1>1, Zenon DEF Admit
    <3> HIDE DEF x
    <3>2. k \in DOMAIN seen' /\ seen'[k] = x
      BY <3>1, Zenon DEF Put
    <3>3. Samples(k)' = x
      BY <3>2, Zenon DEF Samples
    <3>4. QED
      BY <2>1, <2>5, <3>3, Zenon DEF Admitted, Admissions, Refunds, x
  <2>10. calls' \in [Callers -> {Nil} \cup [key : Keys, at : Int]]
    <3>1. [key |-> k, at |-> now] \in [key : Keys, at : Int]
      BY <1>1
    <3>2. calls' = [calls EXCEPT ![c] = [key |-> k, at |-> now]]
      BY <1>1, Zenon DEF Admit
    <3>3. QED
      BY <1>l, <3>1, <3>2, Zenon
  <2>11. \A j \in Keys : DOMAIN log'[j] = Kinds /\ (log'[j]["evict"] # {} => log'[j]["admit"] = {})
    BY <1>l, <2>4, <2>5, <2>6, Zenon DEF Admissions
  <2>12. QED
    BY <2>4, <2>7, <2>8, <2>9, <2>10, <2>11, Zenon DEF LogShape, Admissions
<1>2. ASSUME UNCHANGED <<calls, log>>, now' = now
      PROVE  /\ LogShape'
             /\ \A j : /\ Admissions(j)' = Admissions(j) /\ Refunds(j)' = Refunds(j)
  BY <1>2, Zenon DEF LogShape, Admissions, Refunds
<1>3. ASSUME NEW k \in Keys, NEW t \in Readings, Deny(k, t) \/ RetryAfter(k, t)
      PROVE  LogShape' /\ \A j \in Keys : Quiet(j)
  <2>1. t \in Int /\ Max > 0 /\ now' = now /\ UNCHANGED <<calls, log>>
    BY <1>3, ReadingFacts, Zenon DEF Deny, RetryAfter
  <2>2. \A j : Samples(j)' = IF j = k THEN Fresh(Samples(j), t) ELSE Samples(j)
    BY <1>3, <2>1, TrimKeeps, Zenon
  <2>3. QED
    BY <1>2, <1>3, <2>1, <2>2, Zenon DEF Quiet
<1>4. ASSUME NEW t \in Readings, Prune(t)
      PROVE  LogShape' /\ \A j \in Keys : Quiet(j)
  <2>1. t \in Int /\ now' = now /\ UNCHANGED <<calls, log>>
    BY <1>4, ReadingFacts, Zenon DEF Prune
  <2>2. \A j : Samples(j)' = Fresh(Samples(j), t)
    BY <1>4, <2>1, PruneKeeps, Zenon
  <2>3. QED
    BY <1>2, <1>4, <2>1, <2>2, Zenon DEF Quiet
<1>c. ASSUME NEW c \in Callers, NEW k, k = calls[c].key, calls[c] # Nil, calls' = [calls EXCEPT ![c] = Nil],
             NEW kind \in {"cancel", "spent"}, NEW t, log' = Note(k, kind, t)
      PROVE  /\ LogShape' /\ k \in Keys
             /\ \A j \in Keys : Admissions(j)' = Admissions(j)
             /\ \A j \in Keys \ {k} : Refunds(j)' = Refunds(j)
             /\ kind = "spent" => Refunds(k)' = Refunds(k)
             /\ kind = "cancel" => Refunds(k)' =
                  IF log[k]["evict"] # {} THEN Refunds(k)
                  ELSE Grown(Refunds(k), t)
  <2>1. k \in Keys /\ kind \in Kinds \ {"evict"} /\ kind # "admit" /\ kind # "evict"
    BY <1>c, <1>l, KindFacts
  <2>2. calls' \in [Callers -> {Nil} \cup [key : Keys, at : Int]]
    BY <1>c, <1>l
  <2>3. /\ DOMAIN log' = Keys /\ \A j \in Keys \ {k} : log'[j] = log[j]
        /\ DOMAIN log'[k] = Kinds
        /\ \A i \in Kinds \ {kind} : log'[k][i] = log[k][i]
        /\ log'[k][kind] = IF log[k]["evict"] # {} THEN log[k][kind]
                           ELSE Grown(log[k][kind], t)
    <3>1. Noted(Note(k, kind, t), k, kind, t)
      BY <2>1, NoteFacts, Zenon
    <3>2. QED
      BY <1>c, <3>1, Zenon DEF Noted
  <2>4. log'[k]["evict"] = log[k]["evict"] /\ log'[k]["admit"] = log[k]["admit"]
        /\ (kind = "spent" => log'[k]["cancel"] = log[k]["cancel"])
    BY <2>1, <2>3, KindFacts, Zenon
  <2>5. LogShape'
    BY <1>l, <2>2, <2>3, <2>4, Zenon DEF LogShape, Admissions
  <2>6. QED
    <3>1. \A j \in Keys : Admissions(j)' = Admissions(j)
      BY <2>3, <2>4, Zenon DEF Admissions
    <3>2. \A j \in Keys \ {k} : Refunds(j)' = Refunds(j)
      BY <2>3, Zenon DEF Refunds
    <3>3. kind = "spent" => Refunds(k)' = Refunds(k)
      BY <1>c, <2>4, Zenon DEF Refunds
    <3>4. kind = "cancel" => Refunds(k)' =
            IF log[k]["evict"] # {} THEN Refunds(k) ELSE Grown(Refunds(k), t)
      BY <1>c, <2>3, Zenon DEF Refunds
    <3>5. QED
      BY <2>1, <2>5, <3>1, <3>2, <3>3, <3>4, Zenon
<1>5. ASSUME NEW c \in Callers, CancelLatest(c)
      PROVE  LogShape' /\ \A j \in Keys : Quiet(j) \/ Forgotten(j) \/ Refunded(j)
  <2>k. PICK k : k = calls[c].key
    OBVIOUS
  <2>1. /\ now' = now /\ calls[c] # Nil /\ calls' = [calls EXCEPT ![c] = Nil]
        /\ log' = Note(k, "cancel", now)
    BY <1>5, <2>k, Zenon DEF CancelLatest
  <2>2. /\ LogShape' /\ k \in Keys
        /\ \A j \in Keys : Admissions(j)' = Admissions(j)
        /\ \A j \in Keys \ {k} : Refunds(j)' = Refunds(j)
        /\ Refunds(k)' = IF log[k]["evict"] # {} THEN Refunds(k)
                         ELSE Grown(Refunds(k), now)
    BY <1>c, <2>k, <2>1, Zenon
  <2>3. /\ \A j : j # k => Samples(j)' = Samples(j)
        /\ Samples(k)' = IF Len(Samples(k)) = 0 THEN Samples(k)
                           ELSE SubSeq(Samples(k), 1, Len(Samples(k)) - 1)
    BY <1>5, <2>k, CancelKeeps, CancelTakes, Zenon
  <2>4. \A j \in Keys \ {k} : Quiet(j)
    BY <2>1, <2>2, <2>3, Zenon DEF Quiet
  <2>5. CASE log[k]["evict"] # {}
    <3>1. Admissions(k) = {}
      BY <1>l, <2>2, <2>5, Zenon
    <3>2. Forgotten(k)
      BY <2>1, <2>2, <2>5, <3>1, Zenon DEF Forgotten
    <3>3. QED
      BY <2>2, <2>4, <3>2, Zenon
  <2>6. CASE log[k]["evict"] = {}
    <3>1. Refunded(k)
      BY <2>1, <2>2, <2>3, <2>6, Zenon DEF Refunded
    <3>2. QED
      BY <2>2, <2>4, <3>1, Zenon
  <2>7. QED
    BY <2>5, <2>6, Zenon
<1>6. ASSUME NEW c \in Callers, Settle(c)
      PROVE  LogShape' /\ \A j \in Keys : Quiet(j)
  <2>k. PICK k, t : k = calls[c].key /\ t = calls[c].at
    OBVIOUS
  <2>1. /\ now' = now /\ seen' = seen /\ calls[c] # Nil /\ calls' = [calls EXCEPT ![c] = Nil]
        /\ log' = Note(k, "spent", t)
    BY <1>6, <2>k, Zenon DEF Settle
  <2>2. /\ LogShape'
        /\ \A j \in Keys : Admissions(j)' = Admissions(j) /\ Refunds(j)' = Refunds(j)
    BY <1>c, <2>k, <2>1, Zenon
  <2>3. \A j : Samples(j)' = Samples(j)
    BY <2>1, Zenon DEF Samples
  <2>4. QED
    BY <2>1, <2>2, <2>3, Zenon DEF Quiet
<1>7. ASSUME Tick
      PROVE  LogShape' /\ \A j \in Keys : Aged(j)
  <2>1. /\ now' = now + 1 /\ seen' = seen /\ calls' = calls
        /\ log' = [k \in Keys |-> [kind \in Kinds |-> After(log[k][kind], now' - Window)]]
    BY <1>7, Zenon DEF Tick
  <2>2. DOMAIN log' = Keys
    BY <2>1, Zenon
  <2>3. ASSUME NEW j \in Keys
        PROVE  /\ DOMAIN log'[j] = Kinds
               /\ \A i \in Kinds : log'[j][i] = After(log[j][i], now' - Window)
    BY <2>1, Zenon
  <2>4. \A S, t : S = {} => After(S, t) = {}
    BY DEF After
  <2>5. ASSUME NEW j \in Keys, log'[j]["evict"] # {}
        PROVE  Admissions(j)' = {}
    <3>1. /\ log'[j]["evict"] = After(log[j]["evict"], now' - Window)
          /\ log'[j]["admit"] = After(log[j]["admit"], now' - Window)
      BY <2>3, KindFacts, Zenon
    <3>2. log[j]["admit"] = {}
      BY <1>l, <2>4, <2>5, <3>1, Zenon DEF Admissions
    <3>3. QED
      BY <2>4, <3>1, <3>2, Zenon DEF Admissions
  <2>6. LogShape'
    BY <1>l, <2>1, <2>2, <2>3, <2>5, Zenon DEF LogShape
  <2>7. \A j : Samples(j)' = Samples(j)
    BY <2>1, Zenon DEF Samples
  <2>8. \A j \in Keys : Aged(j)
    BY <2>1, <2>3, <2>7, KindFacts, Zenon DEF Aged, Admissions, Refunds
  <2>9. QED
    BY <2>6, <2>8, Zenon
<1>8. QED
  BY <1>1, <1>3, <1>4, <1>5, <1>6, <1>7, Zenon DEF LimiterNext

----------------------------------------------------------------------------
(* Counting.                                                               *)

\* What is needed of finite sets and their sizes.  The library's theorems prove
\* it below; the lemmas before that take it as a hypothesis, for the provers
\* need not carry the library through every step.
Counting ==
  /\ IsFiniteSet({}) /\ Cardinality({}) = 0
  /\ \A S : IsFiniteSet(S) =>
       /\ Cardinality(S) \in Nat
       /\ \A T \in SUBSET S : IsFiniteSet(T) /\ Cardinality(T) <= Cardinality(S)
       /\ \A x : IsFiniteSet(S \cup {x})
       /\ \A x : x \notin S => Cardinality(S \cup {x}) = Cardinality(S) + 1
       /\ \A x \in S : Cardinality(S \ {x}) = Cardinality(S) - 1

CountingNumbers == \A n \in Nat : IsFiniteSet(1 .. n) /\ Cardinality(1 .. n) = n

CountingMaps ==
  \A S, T : \A f \in [S -> T] :
    IsFiniteSet(T) /\ (\A x, y \in S : f[x] = f[y] => x = y)
      => Cardinality(S) <= Cardinality(T)

\* The tracked keys are finitely many, and within the cap.
CapInv ==
  /\ IsFiniteSet(DOMAIN seen)
  /\ MaxKeys > 0 => Cardinality(DOMAIN seen) <= MaxKeys

LEMMA CapStep ==
  ASSUME Counting,
         CapInv, DOMAIN seen' \subseteq DOMAIN seen \/ \E k, D : Grows(k, D)
  PROVE  CapInv'
<1> DEFINE card == Cardinality(DOMAIN seen)
<1>0. IsFiniteSet(DOMAIN seen) /\ card \in Nat /\ MaxKeys \in Int /\ (MaxKeys > 0 => card <= MaxKeys)
  BY Zenon, LimitAssumption DEF CapInv, Counting
<1>s. \A T \in SUBSET DOMAIN seen :
        /\ IsFiniteSet(T) /\ Cardinality(T) \in Nat /\ Cardinality(T) <= card
        /\ \A x : IsFiniteSet(T \cup {x})
        /\ \A x : x \notin T => Cardinality(T \cup {x}) = Cardinality(T) + 1
        /\ \A x \in T : Cardinality(T \ {x}) = Cardinality(T) - 1
  BY <1>0, Zenon DEF Counting
<1> HIDE DEF card
<1>1. CASE DOMAIN seen' \subseteq DOMAIN seen
  <2>1. IsFiniteSet(DOMAIN seen') /\ Cardinality(DOMAIN seen') \in Nat
        /\ Cardinality(DOMAIN seen') <= card
    BY <1>1, <1>s, Zenon
  <2>2. MaxKeys > 0 => Cardinality(DOMAIN seen') <= MaxKeys
    BY <1>0, <2>1
  <2>3. QED
    BY <2>1, <2>2, Zenon DEF CapInv
<1>2. ASSUME NEW k, NEW D, Grows(k, D)
      PROVE  CapInv'
  <2>d. DOMAIN seen' = D \cup {k} /\ D \in SUBSET DOMAIN seen
    BY <1>2, Zenon DEF Grows
  <2>f. IsFiniteSet(D \cup {k})
    BY <1>s, <2>d, Zenon
  <2>1. DOMAIN seen' = D \cup {k} /\ D \in SUBSET DOMAIN seen /\ IsFiniteSet(DOMAIN seen')
    BY <2>d, <2>f, Zenon
  <2>2. CASE k \in DOMAIN seen
    BY <1>1, <2>1, <2>2
  <2>3. CASE MaxKeys <= 0
    <3>1. ~(MaxKeys > 0)
      BY <1>0, <2>3
    <3>2. QED
      BY <2>1, <3>1, Zenon DEF CapInv
  <2>4. CASE k \notin DOMAIN seen /\ ~(MaxKeys <= 0)
    <3>1. Cardinality(DOMAIN seen') = Cardinality(D) + 1 /\ Cardinality(D) \in Nat
      BY <1>s, <2>1, <2>4, Zenon
    <3>2. Cardinality(D) < MaxKeys
      <4>1. ASSUME NEW P \in SUBSET DOMAIN seen, NEW j \in P, D = P \ {j}
            PROVE  Cardinality(D) < MaxKeys
        <5>1. Cardinality(D) = Cardinality(P) - 1 /\ Cardinality(P) \in Nat /\ Cardinality(P) <= card
          BY <1>s, <4>1, Zenon
        <5>2. QED
          BY <1>0, <2>4, <5>1
      <4>2. QED
        BY <1>2, <2>4, <4>1, Zenon DEF Grows
    <3>3. Cardinality(DOMAIN seen') <= MaxKeys
      BY <1>0, <3>1, <3>2
    <3>4. QED
      BY <2>1, <3>3, Zenon DEF CapInv
  <2>5. QED
    BY <2>2, <2>3, <2>4, Zenon
<1>3. QED
  BY <1>1, <1>2, Zenon

\* The cap holds forever.
LEMMA CapInvariance ==
  ASSUME Counting
  PROVE  LimiterSpec => []Bounded
<1>1. LimiterInit => CapInv
  <2>1. MaxKeys > 0 => 0 <= MaxKeys
    BY LimitAssumption
  <2>2. LimiterInit => DOMAIN seen = {}
    BY DEF LimiterInit
  <2>3. QED
    BY <2>1, <2>2, Zenon DEF CapInv, Counting
<1>2. SeenInv /\ HintInv /\ CapInv /\ [LimiterNext]_limiterVars => CapInv'
  <2>1. ASSUME CapInv, UNCHANGED limiterVars
        PROVE  CapInv'
    BY <2>1, Zenon DEF limiterVars, CapInv
  <2>2. ASSUME SeenInv, HintInv, CapInv, LimiterNext
        PROVE  CapInv'
    <3>1. now \in Int
      BY <2>2, Zenon DEF HintInv
    <3>2. QED
      BY <2>2, <3>1, DomainStep, CapStep, Zenon
  <2>3. QED
    BY <2>1, <2>2, Zenon
<1>3. SeenInv /\ CapInv => Bounded
  BY Zenon DEF SeenInv, CapInv, Bounded
<1>4. QED
  BY <1>1, <1>2, <1>3, LimiterInvariance, PTL DEF LimiterSpec

\* The samples that an admission after time T can have left.
Recent(s, T) == {i \in 1 .. Len(s) : s[i] > T - Stall}

LEMMA RecentCounts ==
  ASSUME Counting, CountingNumbers,
         NEW s \in Seq(Int), NEW T
  PROVE  /\ IsFiniteSet(Recent(s, T)) /\ Cardinality(Recent(s, T)) \in Nat
         /\ Cardinality(Recent(s, T)) <= Len(s)
<1>1. Len(s) \in Nat /\ Recent(s, T) \in SUBSET (1 .. Len(s))
  BY DEF Recent
<1>2. IsFiniteSet(1 .. Len(s)) /\ Cardinality(1 .. Len(s)) = Len(s)
  BY <1>1, Zenon DEF CountingNumbers
<1>3. IsFiniteSet(Recent(s, T)) /\ Cardinality(Recent(s, T)) <= Cardinality(1 .. Len(s))
  BY <1>1, <1>2, Zenon DEF Counting
<1>4. QED
  BY <1>2, <1>3, Zenon DEF Counting

\* Trimming leaves the recent samples.
LEMMA TrimCounts ==
  ASSUME Counting, CountingNumbers, CountingMaps,
         NEW s \in Seq(Int), NEW t \in Int, NEW T \in Int, T - Stall >= t - Window
  PROVE  Cardinality(Recent(s, T)) <= Cardinality(Recent(Fresh(s, t), T))
<1>0. Window \in Int /\ Stall \in Int /\ Len(s) \in Nat /\ \A j \in 1 .. Len(s) : s[j] \in Int
  BY LimitAssumption
<1>1. PICK c \in 0 .. Len(s) : /\ \A j \in 1 .. c : s[j] <= t - Window
                               /\ Fresh(s, t) = SubSeq(s, c + 1, Len(s))
  BY FreshDrops, Zenon
<1> DEFINE r == Fresh(s, t)
           f == [i \in Recent(s, T) |-> i - c]
<1>2. r \in Seq(Int)
  BY FreshFacts, Zenon
<1>3. c \in Nat /\ c <= Len(s) /\ Len(r) = Len(s) - c /\ \A i \in 1 .. Len(r) : r[i] = s[i + c]
  BY <1>0, <1>1
<1> HIDE DEF r
<1>4. ASSUME NEW i \in Recent(s, T)
      PROVE  i - c \in Recent(r, T) /\ i \in Int
  <2>1. i \in 1 .. Len(s) /\ s[i] > T - Stall
    BY DEF Recent
  <2>2. i \notin 1 .. c
    BY <1>0, <1>1, <2>1
  <2>3. i - c \in 1 .. Len(r) /\ (i - c) + c = i
    BY <1>0, <1>3, <2>1, <2>2
  <2>4. r[i - c] = s[i]
    BY <1>3, <2>3
  <2>5. QED
    BY <2>1, <2>3, <2>4 DEF Recent
<1>5. f \in [Recent(s, T) -> Recent(r, T)]
  BY <1>4, Zenon
<1>6. \A x, y \in Recent(s, T) : f[x] = f[y] => x = y
  BY <1>3, <1>4
<1>7. IsFiniteSet(Recent(r, T))
  BY <1>2, RecentCounts, Zenon
<1> HIDE DEF f
<1>8. QED
  BY <1>5, <1>6, <1>7, Zenon DEF r, CountingMaps

\* A sample more at the end, or one less.
LEMMA AppendCounts ==
  ASSUME Counting, CountingNumbers,
         NEW s \in Seq(Int), NEW t \in Int, NEW T \in Int, t > T - Stall
  PROVE  Cardinality(Recent(Append(s, t), T)) = Cardinality(Recent(s, T)) + 1
<1>0. Stall \in Int /\ Len(s) \in Nat
  BY LimitAssumption
<1>1. Recent(Append(s, t), T) = Recent(s, T) \cup {Len(s) + 1}
  BY <1>0 DEF Recent
<1>2. Len(s) + 1 \notin Recent(s, T)
  BY <1>0 DEF Recent
<1>3. IsFiniteSet(Recent(s, T))
  BY RecentCounts, Zenon
<1>4. QED
  BY <1>1, <1>2, <1>3, Zenon DEF Counting

LEMMA FrontCounts ==
  ASSUME Counting, CountingNumbers,
         NEW s \in Seq(Int), NEW T, Len(s) # 0
  PROVE  /\ SubSeq(s, 1, Len(s) - 1) \in Seq(Int)
         /\ Cardinality(Recent(s, T)) <= Cardinality(Recent(SubSeq(s, 1, Len(s) - 1), T)) + 1
<1> DEFINE r == SubSeq(s, 1, Len(s) - 1)
<1>0. Len(s) \in Nat /\ Len(s) > 0
  OBVIOUS
<1>1. r \in Seq(Int) /\ Len(r) = Len(s) - 1 /\ \A i \in 1 .. Len(r) : r[i] = s[i]
  <2>1. r \in Seq(Int) /\ Len(r) = Len(s) - 1
    <3>1. CASE Len(s) = 1
      <4>1. r = <<>>
        BY <3>1
      <4>2. QED
        BY <3>1, <4>1
    <3>2. CASE Len(s) > 1
      BY <1>0, <3>2
    <3>3. \A n \in Nat : n > 0 => n = 1 \/ n > 1
      OBVIOUS
    <3>4. QED
      BY <1>0, <3>1, <3>2, <3>3, Zenon
  <2>2. \A i \in 1 .. Len(s) - 1 : r[i] = s[i]
    BY <1>0
  <2>3. QED
    BY <2>1, <2>2, Zenon
<1> HIDE DEF r
<1>2. Recent(s, T) \in SUBSET (Recent(r, T) \cup {Len(s)}) /\ Len(s) \notin Recent(r, T)
  <2>1. ASSUME NEW i \in Recent(s, T), i # Len(s)
        PROVE  i \in Recent(r, T)
    <3>1. i \in 1 .. Len(s) /\ s[i] > T - Stall
      BY DEF Recent
    <3>2. i \in 1 .. Len(r)
      BY <1>0, <1>1, <2>1, <3>1
    <3>3. QED
      BY <1>1, <3>1, <3>2, Zenon DEF Recent
  <2>2. Len(s) \notin 1 .. Len(r)
    BY <1>0, <1>1
  <2>3. QED
    BY <2>1, <2>2, Zenon DEF Recent
<1>3. IsFiniteSet(Recent(r, T)) /\ IsFiniteSet(Recent(r, T) \cup {Len(s)})
  BY <1>1, RecentCounts, Zenon DEF Counting
<1>4. /\ Cardinality(Recent(s, T)) <= Cardinality(Recent(r, T) \cup {Len(s)})
      /\ Cardinality(Recent(r, T) \cup {Len(s)}) = Cardinality(Recent(r, T)) + 1
  BY <1>2, <1>3, Zenon DEF Counting
<1>5. QED
  BY <1>1, <1>4, Zenon DEF r

\* The refunds of one time are numbered from 0.
Numbered(X) ==
  \A e \in X : e.at \in Int /\ e.nth \in Nat /\ e.nth < Cardinality({f \in X : f.at = e.at})

\* The budget of a key with admissions A, refunds X and samples s at time n:
\* since any T inside the window less a stall, no more was admitted than has
\* left a sample or was taken back.
Sound(A, X, s, n) ==
  /\ IsFiniteSet(A) /\ IsFiniteSet(X) /\ Numbered(X)
  /\ \A e \in A : e.at \in Int /\ e.at <= n
  /\ \A T \in Int : T >= n - (Window - Stall) =>
       Cardinality(After(A, T)) <=
         Cardinality(Recent(s, T)) + Cardinality(After(X, T))

\* After picks events, and nothing happens after now.
LEMMA AfterCounts ==
  ASSUME Counting,
         NEW S, IsFiniteSet(S), NEW T
  PROVE  IsFiniteSet(After(S, T)) /\ Cardinality(After(S, T)) \in Nat
<1>1. After(S, T) \in SUBSET S
  BY Zenon DEF After
<1>2. QED
  BY <1>1, Zenon DEF Counting

LEMMA NothingLater ==
  ASSUME Counting,
         NEW A, NEW n \in Int, \A e \in A : e.at \in Int /\ e.at <= n, NEW T \in Int, T >= n
  PROVE  Cardinality(After(A, T)) = 0
<1>1. After(A, T) = {}
  BY DEF After
<1>2. QED
  BY <1>1, Zenon DEF Counting

\* Trimming keeps the budget: what Fresh drops is too old to count.
LEMMA SoundTrim ==
  ASSUME Counting, CountingNumbers, CountingMaps,
         NEW A, NEW X, NEW s \in Seq(Int), NEW n \in Int, Sound(A, X, s, n),
         NEW t \in Int, t <= n
  PROVE  Sound(A, X, Fresh(s, t), n)
<1> DEFINE r == Fresh(s, t)
<1>1. ASSUME NEW T \in Int, T >= n - (Window - Stall)
      PROVE  Cardinality(After(A, T)) <=
               Cardinality(Recent(r, T)) + Cardinality(After(X, T))
  <2>1. T - Stall >= t - Window
    BY <1>1, LimitAssumption
  <2>2. Cardinality(Recent(s, T)) <= Cardinality(Recent(r, T))
    BY <2>1, TrimCounts, Zenon
  <2>3. /\ Cardinality(Recent(s, T)) \in Nat /\ Cardinality(Recent(r, T)) \in Nat
        /\ Cardinality(After(A, T)) \in Nat /\ Cardinality(After(X, T)) \in Nat
    BY FreshFacts, RecentCounts, AfterCounts, Zenon DEF Sound
  <2>4. Cardinality(After(A, T)) <=
          Cardinality(Recent(s, T)) + Cardinality(After(X, T))
    BY <1>1, Zenon DEF Sound
  <2>5. QED
    BY <2>2, <2>3, <2>4
<1>2. QED
  BY <1>1, Zenon DEF Sound

\* An admission is paid for by the sample it appends.
LEMMA SoundAdmit ==
  ASSUME Counting, CountingNumbers,
         NEW A, NEW X, NEW s \in Seq(Int), NEW n \in Int, Sound(A, X, s, n),
         NEW t \in Int, t >= n - Stall
  PROVE  Sound(A, X, Append(s, t), n) /\ Sound(Grown(A, n), X, Append(s, t), n)
<1> SUFFICES ASSUME NEW B, B = A \/ B = A \cup {Another(A, n)}
             PROVE  Sound(B, X, Append(s, t), n)
  BY Zenon DEF Grown
<1> DEFINE e == Another(A, n)
           r == Append(s, t)
<1>0. IsFiniteSet(A) /\ IsFiniteSet(X) /\ Numbered(X) /\ \A d \in A : d.at \in Int /\ d.at <= n
  BY Zenon DEF Sound
<1>a. e.at = n
  BY DEF Another
<1>r. r \in Seq(Int)
  OBVIOUS
<1> HIDE DEF e
<1>1. IsFiniteSet(B) /\ \A d \in B : d.at \in Int /\ d.at <= n
  <2>1. IsFiniteSet(B)
    BY <1>0, Zenon DEF e, Counting
  <2>2. n <= n
    OBVIOUS
  <2>3. QED
    BY <1>0, <1>a, <2>1, <2>2, Zenon DEF e
<1>2. ASSUME NEW T \in Int, T >= n - (Window - Stall)
      PROVE  Cardinality(After(B, T)) <=
               Cardinality(Recent(r, T)) + Cardinality(After(X, T))
  <2>1. /\ Cardinality(Recent(s, T)) \in Nat /\ Cardinality(Recent(r, T)) \in Nat
        /\ Cardinality(After(A, T)) \in Nat /\ Cardinality(After(X, T)) \in Nat
    BY <1>0, <1>r, RecentCounts, AfterCounts, Zenon
  <2>2. CASE T >= n
    <3>1. Cardinality(After(B, T)) = 0
      BY <1>1, <2>2, NothingLater, Zenon
    <3>2. QED
      BY <2>1, <3>1
  <2>3. CASE T < n
    <3>1. t > T - Stall
      BY <2>3, LimitAssumption
    <3>2. Cardinality(Recent(r, T)) = Cardinality(Recent(s, T)) + 1
      BY <3>1, AppendCounts, Zenon
    <3>3. Cardinality(After(A, T)) <=
            Cardinality(Recent(s, T)) + Cardinality(After(X, T))
      BY <1>2, Zenon DEF Sound
    <3>4. Cardinality(After(B, T)) <= Cardinality(After(A, T)) + 1
      <4>1. After(B, T) \in SUBSET (After(A, T) \cup {e})
        BY Zenon DEF After, e
      <4>2. IsFiniteSet(After(A, T)) /\ IsFiniteSet(After(A, T) \cup {e})
        BY <1>0, AfterCounts, Zenon DEF Counting
      <4>3. /\ Cardinality(After(B, T)) <= Cardinality(After(A, T) \cup {e})
            /\ Cardinality(After(B, T)) \in Nat
        BY <4>1, <4>2, Zenon DEF Counting
      <4>4. CASE e \in After(A, T)
        <5>1. After(A, T) \cup {e} = After(A, T)
          BY <4>4
        <5>2. Cardinality(After(B, T)) <= Cardinality(After(A, T))
          BY <4>3, <5>1, Zenon
        <5>3. QED
          BY <2>1, <4>3, <5>2
      <4>5. CASE e \notin After(A, T)
        <5>1. Cardinality(After(A, T) \cup {e}) = Cardinality(After(A, T)) + 1
          BY <4>2, <4>5, Zenon DEF Counting
        <5>2. QED
          BY <4>3, <5>1, Zenon
      <4>6. QED
        BY <4>4, <4>5, Zenon
    <3>b. Cardinality(After(B, T)) \in Nat
      BY <1>1, AfterCounts, Zenon
    <3>5. QED
      BY <2>1, <3>2, <3>3, <3>4, <3>b
  <2>4. QED
    BY <2>2, <2>3
<1>3. QED
  BY <1>0, <1>1, <1>2, Zenon DEF Sound

\* A refund is one event more, and takes at most one sample.
LEMMA SoundRefund ==
  ASSUME Counting, CountingNumbers,
         NEW A, NEW X, NEW s \in Seq(Int), NEW n \in Int, Sound(A, X, s, n),
         NEW r, r = IF Len(s) = 0 THEN s ELSE SubSeq(s, 1, Len(s) - 1)
  PROVE  Sound(A, Grown(X, n), r, n)
<1> DEFINE e == Another(X, n)
           Y == X \cup {e}
           At(S, t) == {f \in S : f.at = t}
<1>0. /\ IsFiniteSet(A) /\ IsFiniteSet(X) /\ \A d \in A : d.at \in Int /\ d.at <= n
      /\ \A d \in X : d.at \in Int /\ d.nth \in Nat /\ d.nth < Cardinality(At(X, d.at))
  BY Zenon DEF Sound, Numbered
<1>a. e.at = n /\ e.nth = Cardinality(At(X, n))
  BY DEF Another
<1>n. ASSUME NEW t
      PROVE  IsFiniteSet(At(X, t)) /\ Cardinality(At(X, t)) \in Nat
  <2>1. At(X, t) \in SUBSET X
    BY Zenon
  <2>2. QED
    BY <1>0, <2>1, Zenon DEF Counting
<1> HIDE DEF e, At
<1>1. e \notin X
  <2> SUFFICES ASSUME e \in X PROVE FALSE
    BY Zenon
  <2>1. Cardinality(At(X, n)) < Cardinality(At(X, n)) /\ Cardinality(At(X, n)) \in Nat
    BY <1>0, <1>a, <1>n, Zenon
  <2>2. QED
    BY <2>1
<1>2. IsFiniteSet(Y)
  BY <1>0, Zenon DEF Counting
<1>3. Numbered(Y)
  <2>1. \A t \in Int : t # n => At(Y, t) = At(X, t)
    BY <1>a, Zenon DEF At
  <2>2. At(Y, n) = At(X, n) \cup {e} /\ e \notin At(X, n)
    BY <1>a, <1>1, Zenon DEF At
  <2>3. Cardinality(At(Y, n)) = Cardinality(At(X, n)) + 1
    BY <1>n, <2>2, Zenon DEF Counting
  <2>4. ASSUME NEW d \in Y
        PROVE  d.at \in Int /\ d.nth \in Nat /\ d.nth < Cardinality(At(Y, d.at))
    <3>1. CASE d = e
      <4>1. d.at = n /\ d.nth = Cardinality(At(X, n)) /\ Cardinality(At(X, n)) \in Nat
        BY <1>a, <1>n, <3>1, Zenon
      <4>2. QED
        BY <2>3, <4>1
    <3>2. CASE d \in X /\ d.at = n
      <4>1. d.nth \in Nat /\ d.nth < Cardinality(At(X, n)) /\ Cardinality(At(X, n)) \in Nat
        BY <1>0, <1>n, <3>2, Zenon
      <4>2. QED
        BY <2>3, <3>2, <4>1
    <3>3. CASE d \in X /\ d.at # n
      BY <1>0, <2>1, <3>3, Zenon
    <3>4. QED
      BY <2>4, <3>1, <3>2, <3>3, Zenon
  <2>5. QED
    BY <2>4, Zenon DEF Numbered, At
<1>r. r \in Seq(Int)
  BY FrontCounts, Zenon
<1>4. ASSUME NEW T \in Int, T >= n - (Window - Stall)
      PROVE  Cardinality(After(A, T)) <=
               Cardinality(Recent(r, T)) + Cardinality(After(Y, T))
  <2>1. /\ Cardinality(Recent(s, T)) \in Nat /\ Cardinality(Recent(r, T)) \in Nat
        /\ Cardinality(After(A, T)) \in Nat /\ Cardinality(After(X, T)) \in Nat
        /\ Cardinality(After(Y, T)) \in Nat
    BY <1>0, <1>2, <1>r, RecentCounts, AfterCounts, Zenon
  <2>2. CASE T >= n
    <3>1. Cardinality(After(A, T)) = 0
      BY <1>0, <2>2, NothingLater, Zenon
    <3>2. QED
      BY <2>1, <3>1
  <2>3. CASE T < n
    <3>1. After(Y, T) = After(X, T) \cup {e} /\ e \notin After(X, T)
      BY <1>a, <1>1, <2>3 DEF After
    <3>2. Cardinality(After(Y, T)) = Cardinality(After(X, T)) + 1
      BY <1>0, <3>1, AfterCounts, Zenon DEF Counting
    <3>3. Cardinality(After(A, T)) <=
            Cardinality(Recent(s, T)) + Cardinality(After(X, T))
      BY <1>4, Zenon DEF Sound
    <3>4. r = s \/ Cardinality(Recent(s, T)) <= Cardinality(Recent(r, T)) + 1
      BY FrontCounts, Zenon
    <3>5. Cardinality(Recent(s, T)) <= Cardinality(Recent(r, T)) + 1
      <4>1. CASE r = s
        <5>1. \A m \in Nat : m <= m + 1
          OBVIOUS
        <5>2. QED
          BY <2>1, <4>1, <5>1, Zenon
      <4>2. QED
        BY <3>4, <4>1, Zenon
    <3>6. QED
      BY <2>1, <3>2, <3>3, <3>5
  <2>4. QED
    BY <2>2, <2>3
<1>5. QED
  BY <1>0, <1>2, <1>3, <1>4, Zenon DEF Sound, Grown, e

\* A key whose admissions are forgotten owes nothing.
LEMMA SoundForgotten ==
  ASSUME Counting, CountingNumbers,
         NEW A, NEW X, NEW s, NEW n \in Int, Sound(A, X, s, n),
         NEW Y \in {{}, X}, NEW r \in Seq(Int)
  PROVE  Sound({}, Y, r, n)
<1>1. IsFiniteSet({}) /\ IsFiniteSet(Y) /\ Numbered(Y)
  BY Zenon DEF Sound, Numbered, Counting
<1>2. ASSUME NEW T
      PROVE  Cardinality(After({}, T)) <=
               Cardinality(Recent(r, T)) + Cardinality(After(Y, T))
  <2>1. After({}, T) = {}
    BY Zenon DEF After
  <2>2. Cardinality(After({}, T)) = 0
    BY <2>1, Zenon DEF Counting
  <2>3. Cardinality(Recent(r, T)) \in Nat /\ Cardinality(After(Y, T)) \in Nat
    BY <1>1, RecentCounts, AfterCounts, Zenon
  <2>4. QED
    BY <2>2, <2>3
<1>3. QED
  BY <1>1, <1>2, Zenon DEF Sound

\* The clock moves on, and the events that leave the window with it.
LEMMA SoundAged ==
  ASSUME Counting,
         NEW A, NEW X, NEW s \in Seq(Int), NEW n \in Int, Sound(A, X, s, n)
  PROVE  Sound(After(A, n + 1 - Window), After(X, n + 1 - Window), s, n + 1)
<1> DEFINE w == n + 1 - Window
           B == After(A, w)
           Y == After(X, w)
<1>0. /\ IsFiniteSet(A) /\ IsFiniteSet(X) /\ \A d \in A : d.at \in Int /\ d.at <= n
      /\ \A d \in X : /\ d.at \in Int /\ d.nth \in Nat
                      /\ d.nth < Cardinality({f \in X : f.at = d.at})
  BY Zenon DEF Sound, Numbered
<1>w. w \in Int /\ \A T \in Int : T >= (n + 1) - (Window - Stall) => T >= w /\ T >= n - (Window - Stall)
  BY LimitAssumption
<1> HIDE DEF w
<1>1. IsFiniteSet(B) /\ IsFiniteSet(Y)
  BY <1>0, AfterCounts, Zenon
<1>2. \A d \in B : d.at \in Int /\ d.at <= n + 1
  <2>1. \A m \in Int : m <= n => m <= n + 1
    OBVIOUS
  <2>2. QED
    BY <1>0, <2>1, Zenon DEF After
<1>3. Numbered(Y)
  <2>1. \A d \in Y : {f \in Y : f.at = d.at} = {f \in X : f.at = d.at}
    BY Zenon DEF After
  <2>2. \A d \in Y : d \in X
    BY Zenon DEF After
  <2> HIDE DEF Y
  <2>3. QED
    BY <1>0, <2>1, <2>2, Zenon DEF Numbered
<1>4. ASSUME NEW T \in Int, T >= (n + 1) - (Window - Stall)
      PROVE  Cardinality(After(B, T)) <=
               Cardinality(Recent(s, T)) + Cardinality(After(Y, T))
  <2>1. T >= w /\ T >= n - (Window - Stall)
    BY <1>4, <1>w
  <2>2. \A m \in Int : m > T => m > w
    BY <1>w, <2>1
  <2>3. After(B, T) = After(A, T) /\ After(Y, T) = After(X, T)
    BY <1>0, <2>2, Zenon DEF After
  <2>4. QED
    BY <2>1, <2>3, Zenon DEF Sound
<1>5. QED
  BY <1>1, <1>2, <1>3, <1>4, Zenon DEF Sound, w

\* Every key's budget is sound.
BudgetInv == \A k \in Keys : Sound(Admissions(k), Refunds(k), Samples(k), now)

\* Each kind of step keeps it.
LEMMA BudgetStep ==
  ASSUME Counting, CountingNumbers, CountingMaps,
         SeenInv, SeenInv', now \in Int, BudgetInv, NEW k \in Keys,
         Quiet(k) \/ Forgotten(k) \/ Admitted(k) \/ Refunded(k) \/ Aged(k)
  PROVE  Sound(Admissions(k), Refunds(k), Samples(k), now)'
<1> DEFINE s == Samples(k)
<1>0. Sound(Admissions(k), Refunds(k), s, now) /\ s \in Seq(Int)
  BY SampleFacts, Zenon DEF BudgetInv
<1>1. Samples(k)' \in Seq(Int)
  <2>1. CASE k \in DOMAIN seen'
    BY <2>1, Zenon DEF SeenInv, Samples
  <2>2. CASE k \notin DOMAIN seen'
    <3>1. <<>> \in Seq(Int)
      OBVIOUS
    <3>2. QED
      BY <2>2, <3>1, Zenon DEF Samples
  <2>3. QED
    BY <2>1, <2>2, Zenon
<1>2. \A t \in Readings : t \in Int /\ t <= now /\ t >= now - Stall
  BY ReadingFacts, Zenon
<1>3. \A t \in Readings : Sound(Admissions(k), Refunds(k), Fresh(s, t), now)
  BY <1>0, <1>2, SoundTrim, Zenon
<1> SUFFICES Sound(Admissions(k)', Refunds(k)', Samples(k)', now')
  BY Zenon DEF Sound
<1>4. CASE Quiet(k)
  BY <1>0, <1>3, <1>4, Zenon DEF Quiet
<1>5. CASE Forgotten(k)
  <2>1. Sound({}, Refunds(k)', Samples(k)', now)
    BY <1>0, <1>1, <1>5, SoundForgotten, Zenon DEF Forgotten
  <2>2. QED
    BY <1>5, <2>1, Zenon DEF Forgotten
<1>6. CASE Admitted(k)
  <2>1. PICK t \in Readings : Samples(k)' = Append(Fresh(s, t), t)
    BY <1>6, Zenon DEF Admitted
  <2>2. Fresh(s, t) \in Seq(Int)
    BY <1>0, <1>2, FreshFacts, Zenon
  <2>3. Admissions(k)' = Admissions(k) \/ Admissions(k)' = Grown(Admissions(k), now)
    BY <1>6, Zenon DEF Admitted
  <2>4. Sound(Admissions(k)', Refunds(k), Append(Fresh(s, t), t), now)
    <3>1. t \in Int /\ t >= now - Stall
      BY <1>2, Zenon
    <3>2. Sound(Admissions(k), Refunds(k), Fresh(s, t), now)
      BY <1>3, Zenon
    <3> HIDE DEF s
    <3>3. /\ Sound(Admissions(k), Refunds(k), Append(Fresh(s, t), t), now)
          /\ Sound(Grown(Admissions(k), now), Refunds(k), Append(Fresh(s, t), t), now)
      BY <2>2, <3>1, <3>2, SoundAdmit, Zenon
    <3>4. QED
      BY <2>3, <3>3, Zenon
  <2>5. QED
    BY <1>6, <2>1, <2>4, Zenon DEF Admitted
<1>7. CASE Refunded(k)
  <2>1. Sound(Admissions(k), Grown(Refunds(k), now), Samples(k)', now)
    BY <1>0, <1>7, SoundRefund, Zenon DEF Refunded
  <2>2. QED
    BY <1>7, <2>1, Zenon DEF Refunded
<1>8. CASE Aged(k)
  <2>1. Sound(After(Admissions(k), now + 1 - Window), After(Refunds(k), now + 1 - Window), s, now + 1)
    BY <1>0, SoundAged, Zenon
  <2>2. /\ now' = now + 1 /\ Samples(k)' = s
        /\ Admissions(k)' = After(Admissions(k), now' - Window)
        /\ Refunds(k)' = After(Refunds(k), now' - Window)
    BY <1>8, Zenon DEF Aged
  <2>3. /\ Admissions(k)' = After(Admissions(k), now + 1 - Window)
        /\ Refunds(k)' = After(Refunds(k), now + 1 - Window)
    <3>1. now' = now + 1
      BY <2>2, Zenon
    <3>2. now' - Window = now + 1 - Window
      BY <3>1, LimitAssumption
    <3>3. QED
      BY <2>2, <3>2, Zenon
  <2> HIDE DEF s
  <2>4. QED
    BY <2>1, <2>2, <2>3, Zenon
<1>9. QED
  BY <1>4, <1>5, <1>6, <1>7, <1>8, Zenon

\* The budgets hold forever.
LEMMA BudgetInvariance ==
  ASSUME Counting, CountingNumbers, CountingMaps
  PROVE  LimiterSpec => []WindowBudget
<1>1. LimiterInit => LogShape /\ BudgetInv
  <2> SUFFICES ASSUME LimiterInit PROVE LogShape /\ BudgetInv
    OBVIOUS
  <2>1. /\ now = 0 /\ DOMAIN seen = {} /\ calls = [c \in Callers |-> Nil]
        /\ log = [k \in Keys |-> [kind \in Kinds |-> {}]]
    BY Zenon DEF LimiterInit
  <2>2. \A k \in Keys : log[k] = [kind \in Kinds |-> {}]
    BY <2>1, Zenon
  <2>3. \A k \in Keys : Admissions(k) = {} /\ Refunds(k) = {} /\ Samples(k) = <<>>
    BY <2>1, <2>2, KindFacts, Zenon DEF Admissions, Refunds, Samples
  <2>4. LogShape
    BY <2>1, <2>2, <2>3, KindFacts, Zenon DEF LogShape
  <2>5. Sound({}, {}, <<>>, 0)
    <3>1. IsFiniteSet({}) /\ Cardinality({}) = 0 /\ \A T : After({}, T) = {}
      BY Zenon DEF After, Counting
    <3>2. <<>> \in Seq(Int) /\ \A n \in Nat : 0 <= n + 0
      OBVIOUS
    <3>3. \A T : Cardinality(Recent(<<>>, T)) \in Nat
      BY <3>2, RecentCounts, Zenon
    <3>4. \A T : Cardinality(After({}, T)) <=
                   Cardinality(Recent(<<>>, T)) + Cardinality(After({}, T))
      BY <3>1, <3>2, <3>3, Zenon
    <3>5. QED
      BY <3>1, <3>4, Zenon DEF Sound, Numbered
  <2>6. QED
    BY <2>1, <2>3, <2>4, <2>5, Zenon DEF BudgetInv
<1>2. /\ SeenInv /\ HintInv /\ LogShape /\ BudgetInv /\ [LimiterNext]_limiterVars /\ SeenInv'
      => LogShape' /\ BudgetInv'
  <2>1. ASSUME LogShape, BudgetInv, UNCHANGED limiterVars
        PROVE  LogShape' /\ BudgetInv'
    <3>1. UNCHANGED <<now, seen, calls, log>>
      BY <2>1, Zenon DEF limiterVars
    <3>2. LogShape'
      BY <2>1, <3>1, Zenon DEF LogShape, Admissions
    <3>3. BudgetInv'
      BY <2>1, <3>1, Zenon DEF BudgetInv, Sound, Admissions, Refunds, Samples
    <3>4. QED
      BY <3>2, <3>3
  <2>2. ASSUME SeenInv, HintInv, LogShape, BudgetInv, LimiterNext, SeenInv'
        PROVE  LogShape' /\ BudgetInv'
    <3>1. now \in Int
      BY <2>2, Zenon DEF HintInv
    <3>2. /\ LogShape'
          /\ \A k \in Keys : Quiet(k) \/ Forgotten(k) \/ Admitted(k) \/ Refunded(k) \/ Aged(k)
      BY <2>2, <3>1, BudgetShape, Zenon
    <3>3. \A k \in Keys : Sound(Admissions(k), Refunds(k), Samples(k), now)'
      BY <2>2, <3>1, <3>2, BudgetStep, Zenon
    <3>4. BudgetInv'
      BY <3>3, Zenon DEF BudgetInv
    <3>5. QED
      BY <3>2, <3>4
  <2>3. QED
    BY <2>1, <2>2, Zenon
<1>3. SeenInv /\ HintInv /\ BudgetInv => WindowBudget
  <2> SUFFICES ASSUME SeenInv, HintInv, BudgetInv, NEW k \in Keys, Max > 0
               PROVE  LET from == now - (Window - Stall) IN
                      Since(k, "admit", from) <= Max + Since(k, "cancel", from)
    BY Zenon DEF WindowBudget
  <2> DEFINE from == now - (Window - Stall)
             s == Samples(k)
  <2>1. from \in Int /\ from >= now - (Window - Stall) /\ Max \in Int
    BY LimitAssumption DEF HintInv
  <2>2. s \in Seq(Int) /\ Len(s) \in Nat /\ Len(s) <= Max
    BY <2>1, SampleFacts, Zenon
  <2> HIDE DEF s
  <2>3. Cardinality(Recent(s, from)) \in Nat /\ Cardinality(Recent(s, from)) <= Len(s)
    BY <2>2, RecentCounts, Zenon
  <2> HIDE DEF from
  <2>b. Sound(Admissions(k), Refunds(k), s, now)
    BY Zenon DEF BudgetInv, s
  <2>4. /\ Cardinality(After(Admissions(k), from)) <=
             Cardinality(Recent(s, from)) + Cardinality(After(Refunds(k), from))
        /\ IsFiniteSet(Admissions(k)) /\ IsFiniteSet(Refunds(k))
    BY <2>1, <2>b, Zenon DEF Sound
  <2>5. /\ Cardinality(After(Admissions(k), from)) \in Nat
        /\ Cardinality(After(Refunds(k), from)) \in Nat
    BY <2>4, AfterCounts, Zenon
  <2>6. Cardinality(After(Admissions(k), from)) <= Max + Cardinality(After(Refunds(k), from))
    BY <2>1, <2>2, <2>3, <2>4, <2>5
  <2>7. QED
    BY <2>6, Zenon DEF Since, Admissions, Refunds, from
<1>4. QED
  BY <1>1, <1>2, <1>3, LimiterInvariance, PTL DEF LimiterSpec

----------------------------------------------------------------------------
(* Finite sets, from the library.                                          *)

FS == INSTANCE FiniteSetTheorems

LEMMA CountingHolds == Counting
<1>1. \A S : IsFiniteSet(S) <=> FS!IsFiniteSet(S)
  BY DEF IsFiniteSet, FS!IsFiniteSet
<1>2. \A S : Cardinality(S) = FS!Cardinality(S)
  BY Zenon DEF Cardinality, FS!Cardinality
<1>3. FS!IsFiniteSet({}) /\ FS!Cardinality({}) = 0
  BY FS!FS_EmptySet
<1>4. ASSUME NEW S, FS!IsFiniteSet(S)
      PROVE  /\ FS!Cardinality(S) \in Nat
             /\ \A T \in SUBSET S : FS!IsFiniteSet(T) /\ FS!Cardinality(T) <= FS!Cardinality(S)
             /\ \A x : FS!IsFiniteSet(S \cup {x})
             /\ \A x : x \notin S => FS!Cardinality(S \cup {x}) = FS!Cardinality(S) + 1
             /\ \A x \in S : FS!Cardinality(S \ {x}) = FS!Cardinality(S) - 1
  <2>1. FS!Cardinality(S) \in Nat
    BY <1>4, FS!FS_CardinalityType
  <2>2. \A T \in SUBSET S : FS!IsFiniteSet(T) /\ FS!Cardinality(T) <= FS!Cardinality(S)
    BY <1>4, FS!FS_Subset
  <2>3. \A x : FS!IsFiniteSet(S \cup {x})
    BY <1>4, FS!FS_AddElement
  <2>4. \A x : x \notin S => FS!Cardinality(S \cup {x}) = FS!Cardinality(S) + 1
    BY <1>4, FS!FS_AddElement
  <2>5. \A x \in S : FS!Cardinality(S \ {x}) = FS!Cardinality(S) - 1
    BY <1>4, FS!FS_RemoveElement
  <2>6. QED
    BY <2>1, <2>2, <2>3, <2>4, <2>5, Zenon
<1>5. QED
  BY <1>1, <1>2, <1>3, <1>4, Zenon DEF Counting

LEMMA CountingNumbersHolds == CountingNumbers
<1> SUFFICES ASSUME NEW n \in Nat
             PROVE  IsFiniteSet(1 .. n) /\ Cardinality(1 .. n) = n
  BY Zenon DEF CountingNumbers
<1>1. FS!IsFiniteSet(1 .. n) /\ FS!Cardinality(1 .. n) = n
  BY FS!FS_Interval
<1>2. \A S : IsFiniteSet(S) <=> FS!IsFiniteSet(S)
  BY DEF IsFiniteSet, FS!IsFiniteSet
<1>3. Cardinality(1 .. n) = FS!Cardinality(1 .. n)
  BY Zenon DEF Cardinality, FS!Cardinality
<1>4. QED
  BY <1>1, <1>2, <1>3, Zenon

LEMMA CountingMapsHolds == CountingMaps
<1> SUFFICES ASSUME NEW S, NEW T, IsFiniteSet(T), NEW f \in [S -> T],
                    \A x, y \in S : f[x] = f[y] => x = y
             PROVE  Cardinality(S) <= Cardinality(T)
  BY Zenon DEF CountingMaps
<1>1. FS!IsFiniteSet(T)
  BY DEF IsFiniteSet, FS!IsFiniteSet
<1>2. f \in FS!Injection(S, T)
  BY Zenon DEF FS!Injection, FS!IsInjective
<1>3. FS!Cardinality(S) <= FS!Cardinality(T)
  BY <1>1, <1>2, FS!FS_Injection
<1>4. QED
  BY <1>3, Zenon DEF Cardinality, FS!Cardinality

----------------------------------------------------------------------------
(* The theorems.                                                           *)

\* The limiter's memory is bounded, whatever keys turn up, evictions, refunds
\* and trims that leave an empty list behind included.
THEOREM MemoryBounded == LimiterSpec => []Bounded
  BY CountingHolds, CapInvariance, Zenon

\* In any Window - Stall ticks a key that was not evicted gets at most Max
\* admissions and those that CancelLatest took back, with callers that reach
\* the mutex late, refunds, prunes and evictions in any order.
THEOREM BudgetHolds == LimiterSpec => []WindowBudget
  BY CountingHolds, CountingNumbersHolds, CountingMapsHolds, BudgetInvariance, Zenon
=============================================================================
