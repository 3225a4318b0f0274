----------------------------- MODULE RateLimit -----------------------------
(***************************************************************************)
(* ratelimit.SlidingWindow: per-key timestamps of admitted events, shared  *)
(* by handlers that call Allow, CancelLatest and RetryAfter and by the     *)
(* background pruner.  Each method holds the mutex throughout, but Allow,  *)
(* RetryAfter and Prune read the clock before they ask for it, so a call   *)
(* that takes effect at time now may carry any reading of the last Stall   *)
(* ticks, and calls may take effect in another order than their readings.  *)
(***************************************************************************)
EXTENDS Integers, Sequences, FiniteSets

CONSTANTS
  Keys,      \* what is limited: addresses or public keys
  Callers,   \* handlers with an admitted event they may still take back
  Max,       \* events per key and window; <= 0 disables the limiter
  Window,    \* the window, in ticks
  MaxKeys,   \* cap on tracked keys; <= 0 disables the cap
  Stall,     \* longest wait between reading the clock and getting the mutex
  MaxTime,   \* bound: the clock stops here
  MaxRefunds,\* bound: events of a key taken back in one window
  Nil

ASSUME LimitAssumption ==
  /\ Max \in Int /\ MaxKeys \in Int
  /\ Window \in Nat \ {0} /\ Stall \in 0 .. Window - 1
  /\ MaxTime \in Nat /\ MaxRefunds \in Nat
ASSUME CallerAssumption == Nil \notin Callers

VARIABLES
  now,     \* the clock
  seen,    \* key -> timestamps, for the tracked keys
  calls,   \* the admitted event each caller may still take back
  hint,    \* when RetryAfter last told a key's caller to come back, or Nil
  log      \* history: key -> what happened to it in the last Window ticks

limiterVars == <<now, seen, calls, hint, log>>

----------------------------------------------------------------------------
(* Helpers.                                                                *)

\* The clock readings a call that gets the mutex now may carry.
Readings == {t \in (now - Stall) .. now : t >= 0}

Samples(k) == IF k \in DOMAIN seen THEN seen[k] ELSE <<>>

\* Mutant: a sample exactly one window old still counts.
MutFresh(s, t) == SelectSeq(s, LAMBDA x : x >= t - Window)

\* Drop the leading samples at or before the cutoff; the loop stops at the
\* first later one, whatever follows it.
Fresh(s, t) ==
  LET i == CHOOSE i \in 0 .. Len(s) :
             /\ \A j \in 1 .. i : s[j] <= t - Window
             /\ i < Len(s) => s[i + 1] > t - Window
  IN  SubSeq(s, i + 1, Len(s))

\* The window of k, read at t, has spare capacity.
Admits(k, t) == Len(Fresh(Samples(k), t)) < Max

Put(m, k, s) == [j \in DOMAIN m \cup {k} |-> IF j = k THEN s ELSE m[j]]

Drop(m, k) == [j \in DOMAIN m \ {k} |-> m[j]]

\* pruneLocked: keys with nothing fresh go, the others are trimmed.
pruned(t) ==
  [k \in {j \in DOMAIN seen : Fresh(seen[j], t) # <<>>} |-> Fresh(seen[k], t)]

\* Mutant: the cap is only looked at after the insertion.
MutRooms(k, t) ==
  IF k \notin DOMAIN seen /\ MaxKeys > 0 /\ Cardinality(DOMAIN seen) > MaxKeys
  THEN {pruned(t)} ELSE {seen}

\* The maps a new sample of k may be put in: at the cap a new key needs a
\* prune, and if that frees nothing, the eviction of an arbitrary key.
Rooms(k, t) ==
  IF k \in DOMAIN seen \/ MaxKeys <= 0 \/ Cardinality(DOMAIN seen) < MaxKeys
  THEN {seen}
  ELSE IF Cardinality(DOMAIN pruned(t)) < MaxKeys THEN {pruned(t)}
  ELSE {Drop(pruned(t), j) : j \in DOMAIN pruned(t)}

Kinds == {"admit", "cancel", "spent", "evict"}

\* One more event at time t, numbered after the ones there are at t.
Another(events, t) == [at |-> t, nth |-> Cardinality({e \in events : e.at = t})]

\* An eviction starts the history of k afresh: its budget is gone.
Note(k, kind, t) ==
  IF kind = "evict"
  THEN [log EXCEPT ![k] = [j \in Kinds |-> IF j = "evict" THEN {Another({}, t)} ELSE {}]]
  ELSE IF log[k]["evict"] # {} THEN log
  ELSE [log EXCEPT ![k][kind] = @ \cup {Another(@, t)}]

\* The events after time t, and how often a kind of event happened to k since.
After(events, t) == {e \in events : e.at > t}

Since(k, kind, t) == Cardinality(After(log[k][kind], t))

----------------------------------------------------------------------------
(* The methods.                                                            *)

\* AllowAt, admitted.  Evicted keys lose their samples and their hints.
Admit(c, k, t) ==
  /\ Max > 0
  /\ calls[c] = Nil
  /\ LET s == Fresh(Samples(k), t) IN
     /\ Admits(k, t)
     /\ \E m \in Rooms(k, t) :
          /\ seen' = Put(m, k, Append(s, t))
          /\ LET gone == {j \in DOMAIN seen \ DOMAIN m : Fresh(seen[j], t) # <<>>} IN
             /\ hint' = [j \in Keys |-> IF j \in gone \cup {k} THEN Nil ELSE hint[j]]
             /\ log' = [j \in Keys |->
                          IF j \in gone THEN Note(j, "evict", now)[j]
                          ELSE IF j = k THEN Note(j, "admit", now)[j]
                          ELSE log[j]]
  /\ calls' = [calls EXCEPT ![c] = [key |-> k, at |-> now]]
  /\ UNCHANGED now

\* AllowAt, denied: the trimmed samples are kept.
Deny(k, t) ==
  /\ Max > 0
  /\ LET s == Fresh(Samples(k), t) IN
     /\ ~Admits(k, t)
     /\ seen' = Put(seen, k, s)
  /\ UNCHANGED <<now, calls, hint, log>>

\* RetryAfterAt: a trimmed list is kept, even an empty one.
RetryAfter(k, t) ==
  /\ Max > 0
  /\ LET s == Fresh(Samples(k), t) IN
     /\ seen' = IF s # Samples(k) THEN Put(seen, k, s) ELSE seen
     /\ hint' = IF Len(s) < Max THEN hint
                ELSE [hint EXCEPT ![k] = t + (s[1] + Window - t)]
  /\ UNCHANGED <<now, calls, log>>

\* Mutant: the refund removes every sample of the key.
MutCancelLatest(c) ==
  /\ calls[c] # Nil
  /\ Since(calls[c].key, "cancel", now - Window) < MaxRefunds
  /\ seen' = [j \in DOMAIN seen \ {calls[c].key} |-> seen[j]]
  /\ hint' = [hint EXCEPT ![calls[c].key] = Nil]
  /\ log' = Note(calls[c].key, "cancel", now)
  /\ calls' = [calls EXCEPT ![c] = Nil]
  /\ UNCHANGED now

\* CancelLatest: the newest entry of the list goes, whoever made it.
CancelLatest(c) ==
  /\ calls[c] # Nil
  /\ Since(calls[c].key, "cancel", now - Window) < MaxRefunds
  /\ LET k == calls[c].key
         s == Samples(k) IN
     /\ seen' = IF Len(s) = 0 THEN seen
                ELSE IF Len(s) = 1 THEN Drop(seen, k)
                ELSE Put(seen, k, SubSeq(s, 1, Len(s) - 1))
     /\ hint' = [hint EXCEPT ![k] = Nil]
     /\ log' = Note(k, "cancel", now)
  /\ calls' = [calls EXCEPT ![c] = Nil]
  /\ UNCHANGED now

\* The caller's request goes through: its event is spent for good.
Settle(c) ==
  /\ calls[c] # Nil
  /\ log' = Note(calls[c].key, "spent", calls[c].at)
  /\ calls' = [calls EXCEPT ![c] = Nil]
  /\ UNCHANGED <<now, seen, hint>>

\* RunPruner's ticker fires.
Prune(t) ==
  /\ seen' = pruned(t)
  /\ UNCHANGED <<now, calls, hint, log>>

\* Time passes; the history keeps one window.
Tick ==
  /\ now < MaxTime
  /\ now' = now + 1
  /\ log' = [k \in Keys |-> [kind \in Kinds |->
               After(log[k][kind], now' - Window)]]
  /\ UNCHANGED <<seen, calls, hint>>

----------------------------------------------------------------------------

LimiterInit ==
  /\ now = 0
  /\ seen = [k \in {} |-> <<>>]
  /\ calls = [c \in Callers |-> Nil]
  /\ hint = [k \in Keys |-> Nil]
  /\ log = [k \in Keys |-> [kind \in Kinds |-> {}]]

LimiterNext ==
  \/ \E c \in Callers, k \in Keys, t \in Readings : Admit(c, k, t)
  \/ \E k \in Keys, t \in Readings : Deny(k, t) \/ RetryAfter(k, t)
  \/ \E c \in Callers : CancelLatest(c) \/ Settle(c)
  \/ \E t \in Readings : Prune(t)
  \/ Tick

LimiterSpec == LimiterInit /\ [][LimiterNext]_limiterVars

----------------------------------------------------------------------------
(* Properties.                                                             *)

\* Every variable keeps its shape; a RetryAfterAt hint lies at most one window
\* ahead of the clock.
LimiterTypeOK ==
  /\ now \in 0 .. MaxTime
  /\ DOMAIN seen \subseteq Keys
  /\ \A k \in DOMAIN seen : seen[k] \in Seq(0 .. MaxTime)
  /\ calls \in [Callers -> {Nil} \cup [key : Keys, at : 0 .. MaxTime]]
  /\ hint \in [Keys -> {Nil} \cup 0 .. MaxTime + Window]
  /\ \A k \in Keys, kind \in Kinds : log[k][kind] \subseteq [at : 0 .. MaxTime, nth : Nat]

\* Memory stays bounded: never more than MaxKeys keys, never more than Max
\* samples of one, through evictions, refunds and trims that leave an empty
\* list behind.
Bounded ==
  /\ MaxKeys > 0 => Cardinality(DOMAIN seen) <= MaxKeys
  /\ \A k \in DOMAIN seen : Len(seen[k]) <= Max

\* "Within `window`, no more than `max` events per key are admitted", up to
\* what the mutex wait can shift: in Window - Stall ticks a key that was not
\* evicted gets at most Max admissions, plus the ones taken back meanwhile.
\* (A limiter with Max <= 0 limits nothing.)
WindowBudget ==
  \A k \in Keys :
    LET from == now - (Window - Stall) IN
    Max > 0 /\ Since(k, "evict", from) = 0 =>
      Since(k, "admit", from) <= Max + Since(k, "cancel", from)

\* A RetryAfter hint is exact: until something is taken back or evicted, no
\* event of the key is admitted before the hinted time, and one whose clock
\* reads at least that time is never denied.
RetryHintExact ==
  \A k \in Keys : hint[k] # Nil =>
    \A t \in Readings : /\ Admits(k, t) => now >= hint[k]
                        /\ t >= hint[k] => Admits(k, t)

\* CancelLatest "safely tolerates concurrent Allow/CancelLatest races" and
\* "budget arithmetic stays correct": the events that were never taken back
\* stay within Max per window.
RefundKeepsBudget ==
  \A k \in Keys :
    Since(k, "evict", now - Window) = 0 => Since(k, "spent", now - Window) <= Max
=============================================================================
