-------------------------- MODULE RateLimiterProofs --------------------------
(***************************************************************************)
(* Proofs about RateLimiter for every limit, window, block and number of   *)
(* callers, and for time that passes in steps of any length.               *)
(***************************************************************************)
EXTENDS RateLimiter, TLAPS

-----------------------------------------------------------------------------
\* Rounding

\* A key has a positive TTL from half a second on, and a caller that is told the
\* TTL, in whole seconds, comes back with less than half a second to go.
LEMMA TtlRounds ==
    ASSUME NEW left \in Nat
    PROVE  /\ Ttl(left) \in Int
           /\ Ttl(left) > 0 <=> left >= 500
           /\ left < Millis(RetryAfter(Ttl(left))) + 500
           /\ Millis(RetryAfter(Ttl(left))) \in Nat \ {0}
<1> DEFINE q == (left + 500) \div 1000
<1>1. /\ q \in Nat
      /\ 1000 * q <= left + 500 /\ left + 500 < 1000 * q + 1000
  OBVIOUS
<1>2. Ttl(left) = IF left = 0 THEN -2 ELSE q
  BY DEF Ttl
<1> HIDE DEF q
<1> QED BY <1>1, <1>2 DEF RetryAfter, Millis

LEMMA BlockedMeans ==
    ASSUME LimiterTypeOK, NEW u \in Callers
    PROVE  /\ Blocked(u) <=> blockLeft[u] >= 500
           /\ blockLeft[u] \in Nat /\ promise[u] \in Nat
<1>1. blockLeft[u] \in Nat /\ promise[u] \in Nat
  BY LimiterAssumption DEF LimiterTypeOK, Millis
<1> QED BY <1>1, TtlRounds DEF Blocked

-----------------------------------------------------------------------------
\* The inductive invariant

\* A block ends less than half a second after the shortest wait it announced.
PromiseCovers(u) == blockLeft[u] > 0 => blockLeft[u] < promise[u] + 500

\* What an observer may have counted, by what became of the window key since:
\* there is one that began in the span and outlives it; it was replaced by a
\* block that outlives the span; there is none since the first one ended; or there
\* is still the one that was there before the span.
Counted(u) ==
    LET extra == losses * Limit
    IN  IF spanLeft[u] > 0
        THEN \/ count[u] > 0 /\ windowLeft[u] >= spanLeft[u] /\ calls[u] < Limit + count[u] + extra
             \/ count[u] = 0 /\ blockLeft[u] >= spanLeft[u] + 500 /\ calls[u] < 2 * Limit + extra
             \/ count[u] = 0 /\ calls[u] < Limit + extra
             \/ count[u] > 0 /\ calls[u] < count[u] + extra
        ELSE calls[u] = 0

LimiterInv ==
    /\ LimiterTypeOK
    /\ \A u \in Callers : PromiseCovers(u) /\ Counted(u)

\* The counters and their products are numbers.
LEMMA Numbers ==
    ASSUME LimiterTypeOK
    PROVE  /\ Limit \in Nat /\ Limit > 0
           /\ Millis(WindowSeconds) \in Nat /\ Millis(WindowSeconds) > 0
           /\ Millis(BlockSeconds) \in Nat /\ Millis(BlockSeconds) > 0
           /\ Span <= Millis(WindowSeconds) /\ Span + 500 <= Millis(BlockSeconds)
           /\ Span \in Nat
           /\ losses \in Nat /\ losses * Limit \in Nat
           /\ (losses + 1) * Limit = losses * Limit + Limit
           /\ (2 + losses) * Limit = 2 * Limit + losses * Limit
<1>1. losses \in Nat /\ Limit \in Nat
  BY LimiterAssumption DEF LimiterTypeOK
<1>2. \A a, b \in Nat : /\ a * b \in Nat
                        /\ (a + 1) * b = a * b + b
                        /\ (2 + a) * b = 2 * b + a * b
  OBVIOUS
<1> QED BY <1>1, <1>2, LimiterAssumption DEF Millis

LEMMA LimiterInitEstablishes == LimiterInit => LimiterInv
<1> SUFFICES ASSUME LimiterInit PROVE LimiterInv
  OBVIOUS
<1>1. LimiterTypeOK
  BY LimiterAssumption DEF LimiterInit, LimiterTypeOK, Millis
<1> QED BY <1>1 DEF LimiterInit, LimiterInv, PromiseCovers, Counted

\* What a step does to the keys of one caller, seen through the invariant.
CallerFine(u) == PromiseCovers(u) /\ Counted(u)

\* A step of caller u leaves the others as they are.
LEMMA OthersKeep ==
    ASSUME NEW u \in Callers, NEW v \in Callers, u # v, LimiterInv, LimiterStep(u)
    PROVE  CallerFine(v)'
<1>1. /\ count'[v] = count[v] /\ windowLeft'[v] = windowLeft[v]
      /\ blockLeft'[v] = blockLeft[v] /\ promise'[v] = promise[v]
      /\ spanLeft'[v] = spanLeft[v] /\ calls'[v] = calls[v] /\ losses' = losses
  BY DEF LimiterInv, LimiterTypeOK, LimiterStep, Admit, Refuse, StartBlock, RefuseBlocked, Observe
<1> QED BY <1>1 DEF LimiterInv, CallerFine, PromiseCovers, Counted

LEMMA AdmitKeeps ==
    ASSUME NEW u \in Callers, LimiterInv, Admit(u)
    PROVE  LimiterTypeOK' /\ CallerFine(u)'
<1> USE DEF LimiterInv
<1>1. /\ count[u] \in 0 .. Limit /\ count[u] + 1 <= Limit
      /\ blockLeft[u] < 500 /\ blockLeft[u] \in Nat
      /\ windowLeft[u] \in 0 .. Millis(WindowSeconds)
      /\ spanLeft[u] \in 0 .. Span /\ calls[u] \in Nat
      /\ count[u] = 0 <=> windowLeft[u] = 0
  BY BlockedMeans, Numbers DEF Admit, OverLimit, LimiterTypeOK
<1>2. /\ count'[u] = count[u] + 1
      /\ windowLeft'[u] = IF count[u] = 0 THEN Millis(WindowSeconds) ELSE windowLeft[u]
      /\ calls'[u] = IF spanLeft[u] > 0 THEN calls[u] + 1 ELSE calls[u]
      /\ UNCHANGED <<blockLeft, promise, spanLeft, losses>>
  BY DEF Admit, LimiterTypeOK
<1>3. LimiterTypeOK'
  <2>2. spanLeft' \in [Callers -> 0 .. Span] /\ calls' \in [Callers -> Nat]
    BY <1>1 DEF Admit, LimiterTypeOK
  <2>3. count' \in [Callers -> 0 .. Limit]
    BY <1>1, Numbers DEF Admit, LimiterTypeOK
  <2>4. windowLeft' \in [Callers -> 0 .. Millis(WindowSeconds)]
    BY Numbers DEF Admit, LimiterTypeOK
  <2>5. \A v \in Callers : count'[v] = 0 <=> windowLeft'[v] = 0
    BY <1>1, Numbers DEF Admit, LimiterTypeOK
  <2> QED BY <2>2, <2>3, <2>4, <2>5, <1>2 DEF LimiterTypeOK
<1>4. PromiseCovers(u)'
  BY <1>2 DEF PromiseCovers
<1>5. Counted(u)'
  <2>1. CASE spanLeft[u] = 0
    <3>1. spanLeft'[u] = 0 /\ calls'[u] = 0
      BY <1>1, <1>2, <2>1 DEF Counted
    <3> QED BY <3>1 DEF Counted
  <2>2. CASE spanLeft[u] > 0
    <3>1. /\ spanLeft'[u] = spanLeft[u] /\ spanLeft'[u] <= Span
          /\ calls'[u] = calls[u] + 1
      BY <1>1, <1>2, <2>2, Numbers
    <3>2. /\ losses' * Limit = losses * Limit /\ losses * Limit \in Nat
          /\ calls[u] \in Nat /\ spanLeft[u] \in Nat
      BY <1>1, <1>2, Numbers
    <3> QED BY <1>1, <1>2, <2>2, <3>1, <3>2, Numbers DEF Counted
  <2> QED BY <1>1, <2>1, <2>2, Numbers
<1> QED BY <1>3, <1>4, <1>5 DEF CallerFine

LEMMA RefuseKeeps ==
    ASSUME NEW u \in Callers, LimiterInv, Refuse(u)
    PROVE  LimiterTypeOK' /\ CallerFine(u)'
<1> USE DEF LimiterInv
<1>1. /\ blockLeft[u] \in 0 .. Millis(BlockSeconds) /\ promise[u] \in Nat
      /\ count[u] \in 0 .. Limit
      /\ spanLeft[u] \in 0 .. Span /\ calls[u] \in Nat
  BY DEF LimiterTypeOK
<1>2. losses * Limit \in Nat
  BY Numbers
<1>3. CASE StartBlock(u)
  <2>1. /\ RetryAfter(BlockSeconds) = BlockSeconds
        /\ count[u] = Limit
    BY <1>1, <1>3, LimiterAssumption DEF StartBlock, OverLimit, RetryAfter
  <2>2. /\ blockLeft'[u] = Millis(BlockSeconds) /\ promise'[u] = Millis(BlockSeconds)
        /\ count'[u] = 0 /\ spanLeft' = spanLeft /\ calls' = calls /\ losses' = losses
    BY <1>3, <2>1 DEF StartBlock, LimiterTypeOK
  <2>3. LimiterTypeOK'
    BY <1>3, <2>1, Numbers DEF StartBlock, LimiterTypeOK
  <2>4. PromiseCovers(u)'
    BY <2>2, Numbers DEF PromiseCovers
  <2>5. Counted(u)'
    BY <1>1, <1>2, <2>1, <2>2, Numbers DEF Counted
  <2> QED BY <2>3, <2>4, <2>5 DEF CallerFine
<1>4. CASE RefuseBlocked(u)
  <2> DEFINE wait == Millis(RetryAfter(Ttl(blockLeft[u])))
  <2>1. wait \in Nat /\ blockLeft[u] < wait + 500
    BY <1>1, Numbers, TtlRounds
  <2>2. /\ promise'[u] = Smaller(promise[u], wait)
        /\ UNCHANGED <<count, windowLeft, blockLeft, spanLeft, calls, losses>>
    BY <1>4 DEF RefuseBlocked, LimiterTypeOK
  <2>3. LimiterTypeOK'
    BY <1>1, <1>4, <2>1, <2>2 DEF RefuseBlocked, LimiterTypeOK, Smaller
  <2>4. PromiseCovers(u)'
    BY <1>1, <2>1, <2>2 DEF PromiseCovers, Smaller
  <2>5. Counted(u)'
    BY <2>2 DEF Counted
  <2> QED BY <2>3, <2>4, <2>5 DEF CallerFine
<1> QED BY <1>3, <1>4 DEF Refuse

LEMMA ObserveKeeps ==
    ASSUME NEW u \in Callers, LimiterInv, Observe(u)
    PROVE  LimiterTypeOK' /\ CallerFine(u)'
<1> USE DEF LimiterInv
<1>1. /\ spanLeft[u] = 0 /\ spanLeft'[u] = Span
      /\ UNCHANGED <<count, windowLeft, blockLeft, promise, calls, losses>>
  BY DEF Observe, LimiterTypeOK
<1>2. LimiterTypeOK'
  BY <1>1, Numbers DEF Observe, LimiterTypeOK
<1>3. PromiseCovers(u)'
  BY <1>1 DEF PromiseCovers
<1>4. Counted(u)'
  <2>1. count[u] \in Nat /\ losses * Limit \in Nat
    BY Numbers DEF LimiterTypeOK
  <2> QED BY <1>1, <2>1, Numbers DEF Counted
<1> QED BY <1>2, <1>3, <1>4 DEF CallerFine

\* Time and the loss of the keys meet all callers alike.
LEMMA PassKeeps ==
    ASSUME LimiterInv, NEW d \in Pauses, Pass(d)
    PROVE  LimiterInv'
<1> USE DEF LimiterInv
<1>0. d \in Nat \ {0}
  BY LimiterAssumption
<1>1. LimiterTypeOK'
  <2>1. \A a, b \in Nat : a \in 0 .. b => Minus(a, d) \in 0 .. b
    BY <1>0 DEF Minus
  <2>2. spanLeft' \in [Callers -> 0 .. Span] /\ calls' \in [Callers -> Nat]
    BY <1>0, Numbers DEF Pass, LimiterTypeOK, Minus
  <2>3. /\ windowLeft' \in [Callers -> 0 .. Millis(WindowSeconds)]
        /\ blockLeft' \in [Callers -> 0 .. Millis(BlockSeconds)]
    BY <2>1, Numbers DEF Pass, LimiterTypeOK
  <2>4. promise' \in [Callers -> Nat]
    BY <1>0 DEF Pass, LimiterTypeOK, Minus
  <2>5. count' \in [Callers -> 0 .. Limit]
    BY Numbers DEF Pass, LimiterTypeOK
  <2>6. \A v \in Callers : count'[v] = 0 <=> windowLeft'[v] = 0
    BY <1>0, Numbers DEF Pass, LimiterTypeOK, Minus
  <2> QED BY <2>2, <2>3, <2>4, <2>5, <2>6 DEF Pass, LimiterTypeOK
<1>2. ASSUME NEW u \in Callers PROVE PromiseCovers(u)' /\ Counted(u)'
  <2>1. /\ count[u] \in 0 .. Limit /\ windowLeft[u] \in Nat /\ blockLeft[u] \in Nat
        /\ promise[u] \in Nat /\ spanLeft[u] \in 0 .. Span /\ calls[u] \in Nat
        /\ losses * Limit \in Nat /\ spanLeft[u] \in Nat /\ calls[u] \in Nat
    BY Numbers DEF LimiterTypeOK
  <2>2. /\ count'[u] = IF windowLeft[u] > d THEN count[u] ELSE 0
        /\ windowLeft'[u] = Minus(windowLeft[u], d)
        /\ blockLeft'[u] = Minus(blockLeft[u], d)
        /\ promise'[u] = Minus(promise[u], d)
        /\ spanLeft'[u] = Minus(spanLeft[u], d)
        /\ calls'[u] = IF spanLeft[u] > d THEN calls[u] ELSE 0
        /\ losses' = losses
    BY DEF Pass
  <2>3. PromiseCovers(u)'
    BY <1>0, <2>1, <2>2 DEF PromiseCovers, Minus
  <2>4. CASE spanLeft[u] > d
    <3>1. spanLeft'[u] = spanLeft[u] - d /\ calls'[u] = calls[u]
      BY <1>0, <2>1, <2>2, <2>4 DEF Minus
    <3> QED BY <1>0, <2>1, <2>2, <2>3, <2>4, <3>1, Numbers DEF Counted, Minus
  <2>5. CASE ~(spanLeft[u] > d)
    BY <1>0, <2>1, <2>2, <2>3, <2>5 DEF Counted, Minus
  <2> QED BY <2>4, <2>5
<1> QED BY <1>1, <1>2

LEMMA LoseKeysKeeps ==
    ASSUME LimiterInv, LoseKeys
    PROVE  LimiterInv'
<1> USE DEF LimiterInv
<1>1. LimiterTypeOK'
  BY LimiterAssumption, Numbers DEF LoseKeys, LimiterTypeOK
<1>2. ASSUME NEW u \in Callers PROVE PromiseCovers(u)' /\ Counted(u)'
  <2>1. /\ count[u] \in 0 .. Limit
        /\ spanLeft[u] \in 0 .. Span /\ calls[u] \in Nat
        /\ losses * Limit \in Nat /\ spanLeft[u] \in Nat /\ calls[u] \in Nat
    BY Numbers DEF LimiterTypeOK
  <2>2. /\ count'[u] = 0 /\ blockLeft'[u] = 0 /\ spanLeft' = spanLeft /\ calls' = calls
        /\ losses' * Limit = losses * Limit + Limit
    BY Numbers DEF LoseKeys
  <2> QED BY <2>1, <2>2, Numbers DEF PromiseCovers, Counted
<1> QED BY <1>1, <1>2

LEMMA LimiterInductive == LimiterInv /\ [LimiterNext]_limiterVars => LimiterInv'
<1> SUFFICES ASSUME LimiterInv, [LimiterNext]_limiterVars PROVE LimiterInv'
  OBVIOUS
<1>1. ASSUME NEW u \in Callers, LimiterStep(u) PROVE LimiterInv'
  <2>1. LimiterTypeOK' /\ CallerFine(u)'
    BY <1>1, AdmitKeeps, RefuseKeeps, ObserveKeeps DEF LimiterStep
  <2>2. \A v \in Callers : CallerFine(v)'
    BY <1>1, <2>1, OthersKeep
  <2> QED BY <2>1, <2>2 DEF LimiterInv, CallerFine
<1>2. CASE UNCHANGED limiterVars
  BY <1>2 DEF limiterVars, LimiterInv, LimiterTypeOK, PromiseCovers, Counted
<1> QED BY <1>1, <1>2, PassKeeps, LoseKeysKeeps DEF LimiterNext

-----------------------------------------------------------------------------
\* The theorems

\* For every limit, window and block the keys stay coherent.
THEOREM LimiterInvariant == LimiterSpec => []LimiterInv
<1>1. LimiterInit => LimiterInv
  BY LimiterInitEstablishes
<1>2. LimiterInv /\ [LimiterNext]_limiterVars => LimiterInv'
  BY LimiterInductive
<1> QED BY <1>1, <1>2, PTL DEF LimiterSpec

LEMMA InvGivesRetry == LimiterInv => RetryAfterIsEnough
<1> SUFFICES ASSUME LimiterInv, NEW u \in Callers, Blocked(u) PROVE promise[u] > 0
  BY DEF RetryAfterIsEnough
<1> QED BY BlockedMeans DEF LimiterInv, PromiseCovers

\* A refused caller that waits its Retry-After is through with that block, for
\* every length of the block and at every millisecond of it.
THEOREM RetryAfterSuffices == LimiterSpec => []RetryAfterIsEnough
BY LimiterInvariant, InvGivesRetry, PTL

LEMMA InvGivesBurst == LimiterInv => BurstBounded
<1> SUFFICES ASSUME LimiterInv, NEW u \in Callers
             PROVE  calls[u] < (2 + losses) * Limit
  BY DEF BurstBounded
<1>1. /\ count[u] \in 0 .. Limit /\ calls[u] \in Nat /\ spanLeft[u] \in Nat
      /\ Limit \in Nat /\ Limit > 0 /\ losses * Limit \in Nat
      /\ (2 + losses) * Limit = 2 * Limit + losses * Limit
  BY Numbers DEF LimiterInv, LimiterTypeOK
<1>2. Counted(u)
  BY DEF LimiterInv
<1> QED BY <1>1, <1>2 DEF Counted

\* Over any span that is no longer than a window, nor than a block less half a
\* second, a caller gets fewer calls through than two windows hold, and one window
\* more for each loss of the keys.
THEOREM BurstsAreBounded == LimiterSpec => []BurstBounded
BY LimiterInvariant, InvGivesBurst, PTL
=============================================================================
