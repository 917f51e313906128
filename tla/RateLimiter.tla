----------------------------- MODULE RateLimiter -----------------------------
(***************************************************************************)
(* The Lua script of RedisRateLimiter: per caller a counter that lives for *)
(* one window and a mark that blocks the caller, both with a Redis expiry. *)
(* Redis runs the script as one step.  Lifetimes are in milliseconds, as   *)
(* in Redis; what the script sees of them is TTL, in rounded seconds.      *)
(***************************************************************************)
EXTENDS Integers

CONSTANTS
    Callers,       \* users with calls of their own
    Limit,         \* settings.rate_limit_requests
    WindowSeconds, \* settings.rate_limit_window_seconds
    BlockSeconds,  \* settings.rate_limit_block_seconds
    Pauses,        \* milliseconds by which time may advance at once
    Span,          \* milliseconds over which the admitted calls are counted
    MaxLosses      \* bound: how often Redis loses its keys

Millis(seconds) == 1000 * seconds

ASSUME LimiterAssumption ==
    /\ Limit \in Nat \ {0}
    /\ WindowSeconds \in Nat \ {0} /\ BlockSeconds \in Nat \ {0}
    /\ Pauses \subseteq Nat \ {0}
    /\ MaxLosses \in Nat
    \* No longer than a window, nor than a block that ends half a second early.
    /\ Span \in Nat /\ Span <= Millis(WindowSeconds) /\ Span + 500 <= Millis(BlockSeconds)

VARIABLES
    count,      \* the window key's value; 0: there is no key
    windowLeft, \* its remaining life
    blockLeft,  \* remaining life of the blocked key; 0: there is no key
    promise,    \* how much of the shortest Retry-After of this block is left
    spanLeft,   \* what is left of an observed span; 0: nobody observes
    calls,      \* calls admitted in it so far
    losses      \* how often Redis lost its keys

limiterVars == <<count, windowLeft, blockLeft, promise, spanLeft, calls, losses>>

LimiterInit ==
    /\ count = [u \in Callers |-> 0]
    /\ windowLeft = [u \in Callers |-> 0]
    /\ blockLeft = [u \in Callers |-> 0]
    /\ promise = [u \in Callers |-> 0]
    /\ spanLeft = [u \in Callers |-> 0]
    /\ calls = [u \in Callers |-> 0]
    /\ losses = 0

\* Redis rounds to the nearest second: a key with less than half a second to
\* live has TTL 0, a missing one -2.
Ttl(left) == IF left = 0 THEN -2 ELSE (left + 500) \div 1000

BlockedWhileSet(u) == Ttl(blockLeft[u]) >= 0   \* mutant of Blocked: key existence
Blocked(u) == Ttl(blockLeft[u]) > 0

OverLimitByOne(u) == count[u] > Limit          \* mutant of OverLimit: INCR forgotten
OverLimit(u) == count[u] + 1 > Limit

\* RateLimitDecision.retry_after, which a refused caller gets as Retry-After.
RetryAfter(ttl) == IF ttl > 1 THEN ttl ELSE 1

Smaller(a, b) == IF a < b THEN a ELSE b

Admit(u) ==
    /\ ~Blocked(u)
    /\ ~OverLimit(u)
    /\ count' = [count EXCEPT ![u] = @ + 1]
    /\ windowLeft' = [windowLeft EXCEPT
                         ![u] = IF count[u] = 0 THEN Millis(WindowSeconds) ELSE @]
    /\ calls' = [calls EXCEPT ![u] = IF spanLeft[u] > 0 THEN @ + 1 ELSE @]
    /\ UNCHANGED <<blockLeft, promise, spanLeft, losses>>

\* The call over the limit replaces the window by a block.
StartBlock(u) ==
    /\ ~Blocked(u)
    /\ OverLimit(u)
    /\ blockLeft' = [blockLeft EXCEPT ![u] = Millis(BlockSeconds)]
    /\ count' = [count EXCEPT ![u] = 0]
    /\ windowLeft' = [windowLeft EXCEPT ![u] = 0]
    /\ promise' = [promise EXCEPT ![u] = Millis(RetryAfter(BlockSeconds))]
    /\ UNCHANGED <<spanLeft, calls, losses>>

RefuseBlocked(u) ==
    /\ Blocked(u)
    /\ promise' = [promise EXCEPT
                      ![u] = Smaller(@, Millis(RetryAfter(Ttl(blockLeft[u]))))]
    /\ UNCHANGED <<count, windowLeft, blockLeft, spanLeft, calls, losses>>

Refuse(u) == StartBlock(u) \/ RefuseBlocked(u)

-----------------------------------------------------------------------------
\* Time, faults, and the observer

Minus(left, d) == IF left > d THEN left - d ELSE 0

\* The counter goes with its key.
Pass(d) ==
    /\ count' = [u \in Callers |-> IF windowLeft[u] > d THEN count[u] ELSE 0]
    /\ windowLeft' = [u \in Callers |-> Minus(windowLeft[u], d)]
    /\ blockLeft' = [u \in Callers |-> Minus(blockLeft[u], d)]
    /\ promise' = [u \in Callers |-> Minus(promise[u], d)]
    /\ spanLeft' = [u \in Callers |-> Minus(spanLeft[u], d)]
    /\ calls' = [u \in Callers |-> IF spanLeft[u] > d THEN calls[u] ELSE 0]
    /\ UNCHANGED losses

LoseKeys ==
    /\ losses < MaxLosses
    /\ losses' = losses + 1
    /\ count' = [u \in Callers |-> 0]
    /\ windowLeft' = [u \in Callers |-> 0]
    /\ blockLeft' = [u \in Callers |-> 0]
    /\ UNCHANGED <<promise, spanLeft, calls>>

\* Somebody begins to count the caller's calls, at any time; the count is read
\* while the span lasts.
Observe(u) ==
    /\ spanLeft[u] = 0
    /\ spanLeft' = [spanLeft EXCEPT ![u] = Span]
    /\ UNCHANGED <<count, windowLeft, blockLeft, promise, calls, losses>>

LimiterStep(u) == Admit(u) \/ Refuse(u) \/ Observe(u)

LimiterNext ==
    \/ \E u \in Callers : LimiterStep(u)
    \/ \E d \in Pauses : Pass(d)
    \/ LoseKeys

LimiterSpec == LimiterInit /\ [][LimiterNext]_limiterVars

-----------------------------------------------------------------------------
\* Properties

\* A counter exists exactly while its key lives and never stands above the
\* limit, and no key outlives what the script set (RATE_LIMIT_SCRIPT).
LimiterTypeOK ==
    /\ count \in [Callers -> 0 .. Limit]
    /\ windowLeft \in [Callers -> 0 .. Millis(WindowSeconds)]
    /\ \A u \in Callers : count[u] = 0 <=> windowLeft[u] = 0
    /\ blockLeft \in [Callers -> 0 .. Millis(BlockSeconds)]
    /\ promise \in [Callers -> Nat]
    /\ spanLeft \in [Callers -> 0 .. Span]
    /\ calls \in [Callers -> Nat]
    /\ losses \in 0 .. MaxLosses

\* A refused caller that waits its Retry-After is not refused again by the same
\* block, although TTL is rounded down as often as up: the rounding that tells a
\* caller to come back up to half a second early also ends the block that early.
RetryAfterIsEnough == \A u \in Callers : Blocked(u) => promise[u] > 0

\* Over any span of time, whenever it starts, a caller gets fewer calls through
\* than two windows hold: a counter may expire and start anew, a block may end
\* half a second early, but not twice, and the counter that was there at the start
\* counted a call before.  Each loss of the keys is worth one more window.
BurstBounded ==
    \A u \in Callers : calls[u] < (2 + losses) * Limit
=============================================================================
