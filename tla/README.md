# Verification of the content generation service

This directory models the service in TLA+, checks the models with TLC on small
instances, and proves the main results with TLAPS for every value of the
constants. Paths below are relative to the repository; `tasks.py` is
`src/app/workers/tasks.py`, `generation_repository.py` is
`src/app/infrastructure/generation_repository.py`.

## 1. The system

A client registers, tops up a token balance through a payment webhook, and orders
generations (images, videos). An order is charged when it is created; a Celery
worker submits it to a provider, polls the provider, and either stores the result
or fails the order and refunds it. A webhook tells the client about the end.
PostgreSQL is the only source of truth; Redis carries Celery messages and may lose
them.

### Components, their state and their operations

| Component | Code | State | Operations |
|---|---|---|---|
| Tables | `models.py`, `generation_repository.py` | `users.balance`, `payment_events`, `generations`, `generation_outbox`, `callback_outbox` | `create_and_charge`, `start_processing`, `save_provider_request`, `complete`, `requeue`, `fail_and_refund`, `get_for_user` |
| Users | `user_repository.py`, `auth.py` | a `users` row, the hash of its API key | `add`, lookup by key |
| Payments | `payment_repository.py`, `routes/payments.py` | a `payment_events` row per `external_id` | `apply_credit` |
| Creating generations | `application/generations.py`, `routes/generations.py` | none of its own | fingerprint, price, `create_and_charge` |
| Generation worker | `tasks.py` (`process_generation`) | a message, a snapshot of the claimed row, `request.retries` | claim, submit, save, poll, settle, retry, failover |
| Outbox dispatcher | `tasks.py` (`dispatch_outbox_batch`), every 2 s | none | lock an event, publish, mark processed |
| Recovery | `tasks.py` (`recover_stale_generations_batch`), every 30 s | none | requeue expired leases, reopen outbox events of lost rows |
| Callback delivery | `tasks.py` (`dispatch_callback_outbox_batch`, `deliver_generation_callback`) | attempts, next attempt, reservation, lease, claim token, delivered | dispatch, claim, POST, report |
| Broker | `celery_app.py` | messages; `acks_late`, prefetch 1, visibility timeout 900 s | publish, deliver, redeliver, lose |
| Providers | `fal_provider.py`, `fake_provider.py` | requests at the provider | `submit`, `get_result` |
| Rate limiter | `rate_limiter.py` | two Redis keys with expiry per user | one Lua script |
| Routes | `routes/*.py`, `dependencies.py`, `schemas/payments.py` | none of their own | authenticate, limit, choose the payment's id, call the repositories, answer |
| Observability, schemas, settings, migrations | `observability.py`, `main.py`, `api/schemas`, `settings.py`, `migrations` | counters only | no decision of the other parts depends on it |

The parts meet in the tables and in the broker only: the API writes a row and an
outbox event in one transaction; the dispatcher turns the event into a message;
a worker claims the row named by the message and gets a fencing token and a lease
of 600 s; every later write of that worker repeats the token; recovery watches
leases and rows that wait too long and reopens the outbox event.

### What is hard about it

* A worker reads the row, then talks to a provider for minutes, then writes: other
  workers, recovery and the failover path move the row in between.
* The dispatcher publishes **before** it commits, and the retry is published
  **after** the row is requeued; either half may fail.
* A message is delivered again after a crash or the visibility timeout, and lost
  with Redis. A worker that is refused a claim acknowledges its message.
* A request accepted by a provider is paid for before its id is saved.
* Refunds, charges and callback rows must change together with the row.
* Webhooks combine three kinds of time: reservation, retry delay and lease.
* A claim may last through three provider calls and a polling loop; its lease, the
  broker's visibility timeout and recovery's batch have to leave it the time.
* The limiter's script decides by `TTL`, which Redis rounds to whole seconds.
* A client and the payment service repeat what got no answer; one of them may not say
  which event it repeats.

`PROJECT.json` lists these hazards one by one, each with its line and the properties
that would show it going wrong.

### What makes each component correct

* Tables: money is conserved; one charge per idempotency key; refunded exactly when
  failed; a finished row never changes; a created row always has a pending event.
* Worker: retries, failover, redelivery and recovery do not feed each other; one
  paid request per generation unless something fails; the result is the issuer's
  answer to the saved request; a live lease is exclusive; every charge is settled in the end.
* Callbacks: an attempt is counted before the POST and never leaks; no two senders and
  no POST closer than the retry delay unless a worker stalls; no event is forgotten.
* Durations: a worker that lives never loses its lease or its message to a timeout,
  whatever a provider does; every row ends, once retries stop, although recovery takes
  a limited batch in which rows that only wait come first.
* Rate limiter: a refused client that waits its `Retry-After` is through with the
  block; over any span fewer calls pass than two windows hold.
* Routes: no user is credited more than was paid; an acknowledged payment is there,
  unless it came without an event id; all 202 answers to one key name one generation.

## 2. Modules

| Module | Content |
|---|---|
| `Billing` | what the service promises about money: deposits, orders paid in full, delivered or refunded once |
| `GenerationStore` | the tables and every committed transaction on them |
| `GenerationWorkers` | extends the store with workers, broker, periodic jobs and faults |
| `CallbackDelivery` | the webhook subsystem with real time |
| `WorkerTiming` | the same workers seen through time: provider calls, polling deadline, lease, visibility timeout, recovery's batch |
| `RateLimiter` | the Lua script, key expiry in milliseconds, the rounding of `TTL` |
| `Api` | extends the store and the limiter with the routes, the payment service and clients that repeat requests |
| `MCGenerationStore`, `MCGenerationWorkers`, `MCCallbackDelivery`, `MCApi` | symmetry sets and sets of ids for TLC |
| `Sums` | lemmas about sums over finite sets, which the proofs about money and attempts need |
| `GenerationStoreProofs` | the tables: inductive invariant, finality, the refinement of `Billing`, conservation of money |
| `GenerationWorkersProofs` | the composed system implements the tables, its types, and the invariant behind results |
| `GenerationClaimsProofs` | claims: exclusive leases, paid requests, retries, how often a generation is claimed, and whose answer it ends with |
| `WorkerTimingProofs` | lease and visibility timeout suffice |
| `CallbackDeliveryProofs` | all safety properties of webhook delivery |
| `RateLimiterProofs` | `Retry-After` and the burst bound |
| `ApiProofs` | routes implement the tables and the limiter; answers to a key agree; credits are what was paid |

### GenerationStore

One action is one committed transaction. That is sound because each of them is one
conditional `UPDATE` (re-evaluated by PostgreSQL under the row lock at READ
COMMITTED), or an insert guarded by a unique constraint followed by updates in the
same transaction. A call that is refused, replayed or rolled back changes nothing and
is a stuttering step. `StartProcessing`, `SaveProviderRequest`, `Complete`,
`Requeue`, `FailAndRefund` carry the names of the repository's methods;
`DispatchOutbox` and `RecoverStale` are the database halves of the jobs.

Data is abstracted to what the code compares:

* `processing_token` (a fresh uuid4) is the number of the claim, `attempt_count`;
  0 is NULL. A provider request is named by the claim that submitted it, because a
  claim submits at most once; a result by the provider that gave it and the request
  that provider was asked about.
* `lease_expires_at` is `none`, `live` or `expired`, `updated_at` of a queued row a
  flag `stale`; `LeaseExpires` and `QueuedGoesStale` let time pass.
* A request's content is a value (`request_hash`); whether it has a `callback_url` is
  membership in `WithCallback`. Its price is any member of `Costs`: it is computed
  once and stored with the row.
* `RecoverStale(S)` takes any set of stale rows, which covers the batch limit and
  `SKIP LOCKED`. Stale queued rows keep their `updated_at`, as in the code.

In this module the caller is arbitrary: any claim number may be presented at any time.

### GenerationWorkers

A worker's `pc` is the place between two commits or remote calls in
`process_generation_once`, `process_generation` and `_try_failover_with_worker_engine`:

    idle -Receive-> claim -Claim-> submit -Submit-> save -Save-> poll -Poll-> complete -Finalize-> idle
                             \-------------(id saved)--------------^
    submit, poll -ProviderError-> requeue -RequeueRow-> publish -PublishRetry-> idle
                               -> failover -ReadRequestId-> switch -Switch-> claim (with the fallback)
                               -> fail, giveUp -Fail-> idle

Between the steps any other worker or job may run, so every check-then-act gap of the
code is a gap of the model. `worker` also holds the snapshot the code works with: the
token, `provider_request_id` as read at the claim, and the selected provider.
`AfterError` is the choice of the three handlers of `process_generation` (permanent,
temporary, unexpected; retries left; fallback configured; already failing over). `fail`
and `giveUp` are the same call, after a permanent error and after the last attempt.
`submitted` holds pairs of a provider and the request it gave an id to, `unanswered`
counts the requests whose answer was lost; the program itself knows neither. What
`Poll` brings back is `AnswerOf(w)`: the provider at hand answers about the id at hand,
whether it issued that id or not, because `get_result` checks nothing and the fake
provider answers any id (`fake_provider.py:11-22`).

Faults, each counted in `faults`: a worker dies or its message becomes visible again
(`Redeliver`), a message is lost (`LoseMessage`), a database or broker call fails
outside (`TaskError`) or inside (`WriteError`) the handlers, before or after its
commit, a provider accepts a request and its answer is lost (`AnswerLost`), a dispatch
publishes and then fails to commit (`DispatchAborts`). A timeout that fires on work
somebody still does (a lease under a running worker, recovery of a row whose message
still waits) counts as a fault too. `Attended` and `InHand` tell these timeouts from the
others; they are bookkeeping of the model, no code asks such a question. Provider errors
are not faults: they are answers the code handles, and any number of them may come.

### CallbackDelivery

Timestamps are countdowns in ticks, so `next_attempt_at <= now` is `nextIn = 0`.
`Tick` lets time pass; a worker that is not stalled finishes within `PostTime` of its
claim. `Stall` lets a worker pause for longer than that, also longer than its lease.
`Dispatch` may leave less than the whole reservation because it counts from the start
of the batch. `DispatchAborts` and `ClearReservation` are the two transactions of a
dispatch that fails: the second one runs later and may clear someone else's
reservation. The payload is read from a row that `TerminalImmutable` says is final, so
it is not modelled.

### WorkerTiming

`GenerationWorkers` lets a lease run out at any time and counts it as a fault when
somebody is at work. This module shows when that can happen at all. Time is counted in
ticks; each worker has the time `left` of the call or sleep it is in, and `Tick` waits
for whoever has none left. Database calls take no time, so the code between two waits
is one step. `LongestClaim` is the assumption's left side: a submit, a polling loop
whose last status call begins a poll interval after a deadline that was just not
reached, and the fetch. With the defaults (`HTTP` 30 s, deadline 300 s, interval 2 s)
that is 30 + (300 + 2 + 30) + 30 = 392 s, less than the lease of 600 s; with a failed
submit before the failover 422 s, less than the visibility timeout of 900 s.

What it takes for granted: `HttpTime` bounds a whole call, while httpx's timeout bounds
each phase of one; the clocks of workers and database agree; the time in which a retry
with a countdown waits inside a worker process is not part of `held`
(`GenerationWorkers!Redeliver` covers a redelivery at any time). Copies of a message
are one element of a set here; `GenerationWorkers` has the copies. A crash gives the
message back or loses it.

`older` is the order of `updated_at`. `Recover` takes the `Batch` oldest stale rows;
queued ones keep their place, so they come first in the next batch again.
`EveryRowEnds` shows that they do not block it for ever: their reopened event produces
a message, and the claim moves them to the end. It assumes `RetriesStop`, that from some
time on no error leads to another retry; section 7 says why the code cannot promise
that.

### RateLimiter and Api

`RateLimiter` keeps the lifetimes of the two keys of a caller in milliseconds, and
`Ttl` rounds as Redis does: a key with less than half a second left has `TTL` 0, so
the script no longer sees the block. `promise` and `calls` belong to observers:
what is left of the shortest `Retry-After` a caller was told during this block, and
how many calls passed in a span that may begin at any time.

`Api` has one action per route. A request is one step: its visit to Redis, its
reads and its transaction touch nothing in common. `PaymentWebhook` chooses the external
id as the route does: the header, the body, or, except in production, the
fingerprint of user and amount; a header and a body that differ are refused. The
sender may give the id in either place, in both, or not at all, and may repeat
every notice; any answer may be lost. Authentication is `u \in registered`.

## 3. Runs

| Run | Config | States | Question |
|---|---|---|---|
| `store` | `MCGenerationStore.cfg` | 63,896 | Do any transactions in any order keep rows, money, keys and finality, and implement `Billing`? |
| `workers` | `MCGenerationWorkers.cfg` | 503,425 | Two workers, one retry, a fallback and any two faults around one generation: retries, attempts, paid requests, results, exclusive leases, settlement |
| `settles_two` | `MCSettles.cfg` | 270,585 | Is every charge settled with two generations of a user, one worker and one fault? |
| `callbacks` | `MCCallbackDelivery.cfg` | 415,772 | Two workers, five attempts, two faults, one stall: counting, claims, spacing, and does every webhook end? |
| `timing` | `MCWorkerTiming.cfg` | 223,599 | Do lease and visibility timeout outlast a claim, and does every row end once retries stop, with a batch of one? |
| `rows_end_race` | `MCRowsEndRace.cfg` | 2,215 | Does a row end once retries stop when two workers compete for it? |
| `api` | `MCApi.cfg` | 1,242,298 | Do the limiter's promises, the credits and the answers hold for clients that repeat everything? |
| `created_straight_to_processing`, `second_paid_request`, `provider_switched`, `retries_start_over`, `webhooks_too_close` | one cfg each | | counterexamples to statements of the documentation (section 7) |

What the passing runs show:

* **Money** (`MoneyConserved`, `ImplementsBilling`): balance plus what is held by or
  spent on generations equals what payments credited, through every race of creates,
  refunds and replayed payments.
* **Attempts** (`AttemptsBounded`): `max_retries + 2` claims without faults; a fault adds
  at most two such rounds. The bound is what keeps recovery, which restarts
  `request.retries` at 0, from looping with the retries it finds.
* **Retries** (`RetriesCountClaims`): each of them was a claim, and none is left out: a
  generation is handed to the fallback or given up for temporary or unexpected errors
  only after `max_retries + 1` claims.
* **Paid requests** (`PaidRequestsBounded`): one, plus at most one for each fault.
* **Results** (`ResultFromSavedRequest`): the stored answer is about the saved id and
  comes from the provider that issued it, although a worker may poll on under a lease it
  has lost; after a fault it may come from the fallback, asked about an id it did not
  issue (`provider_switched` ends that way).
* **Fencing** (`LeaseIsExclusive`): while the holder of a live lease pauses, nobody moves
  its row; only its lease may expire.
* **Webhooks**: `PostsMatchAttempts` is exact in both directions up to the faults;
  `SpacedUnlessStalled`, `OneSender` and `QuietAfterDelivery` name the only
  exception there is, a worker that outlives its lease.
* **Durations**: a live worker never works under an expired lease, so a takeover always
  means that its predecessor died or stalled.
* **Limits** (`RetryAfterIsEnough`, `BurstBounded`): the rounding that tells a client to
  come back up to half a second early also ends its block that early. The bound of two
  windows is tight, and needs the span to be half a second shorter than the block: over
  a span as long as a block three windows fit, minus one call.
* **Payments** (`PaymentsCredited`): without an event id two payments of one amount are
  one, which production refuses and local mode does not.

Every property has a mutant in `PROJECT.json`: a plausible bug in a mapped definition
that makes TLC refute the property under the same config.

### Bounds

* `MaxClaims` caps `attempt_count` in a guard. In runs of `GenerationWorkers` it never
  binds: `AttemptsBounded` gives at most 15 claims under two faults (`MaxClaims` = 16)
  and 9 under one (10). In `store` it is 2, enough for a claim that has been
  superseded by another.
* `MaxRetries` = 1 instead of 3: the first message, a retry and the last attempt are
  all there; more retries repeat the middle one. `MaxAttempts` of callbacks is the
  code's 5.
* `MaxCopies` = 2: publishing a third copy of the same message waits. With 4 copies the
  runs `workers` and `callbacks` pass as well; the former gains 290 states.
* `MaxFaults` = 2, in `settles_two` 1, and `MaxStalls` = 1: a second failure
  meets the recovery of a first one. Two workers are enough for any pair of steps to
  race for a row; a third could only repeat the role of the second.
* Two users, two payments and two generations, one key, an amount of 2 and prices 1 and
  2: a user can afford one of two orders, replay a payment and reuse a key.
* Callback times keep the order of the real ones: retry delay (15 s) < reservation
  (30 s) < lease (60 s), and a delivery (timeout 10 s) shorter than the lease.
* `timing`: all waits take one tick, the lease is as short as the assumption allows (6,
  just above 5), and so is the visibility timeout (7, just above 6). Two rows and a
  batch of one make rows wait behind rows; one worker serves them. `rows_end_race` has one row and two workers
  instead, which lets a row that recovery published anew be claimed under another copy
  while its retry waits. `GenerationWorkers` counts such a recovery as a fault and
  bounds what each of them costs (`AttemptsBounded`); how often recovery does this is
  bounded by nothing in the code, only by `MaxFaults` in that module, and
  `retries_start_over` shows what follows. The safety properties of this module are
  proved for any number of workers.
* `api`: one user, two payments, amounts 2 and 3, price 3, one key and two requests: a
  user can afford one order at most after the right payment, and two payments of
  one amount can be mistaken for each other. A window and a block of 2 s, steps of 600
  ms and a span of 1.5 s put observations on both sides of every expiry and rounding.
* Symmetry is used only in runs without liveness.
* `CHECK_DEADLOCK FALSE` in the runs of sections *GenerationStore* to
  *CallbackDelivery*: the system really stops. With every order settled,
  every webhook ended, every key used or no money left, no step is possible. In the runs
  of `WorkerTiming` and in `api` time can always pass, so deadlock is checked.

### Fairness

`EveryChargeSettles` and `EveryEventEnds` assume: each worker keeps doing something
it can do (Celery's loop; a provider call ends by the HTTP timeout or the polling
deadline); beat starts the dispatchers every 2 s and recovery every 30 s; leases and
waits run out for work nobody attends to (time passes); recovery reaches a stale row
although its batch is limited to 20, which `WorkerTiming` models. No fairness is
assumed of clients, providers' success or faults. Recovery of a **queued** row is only
relied upon when nothing else holds it, so that the proof of progress does not rest on
spurious recoveries. Faults are finitely many: under endless failures nothing settles.

`EveryRowEnds` assumes the same of workers, dispatcher and recovery, that time passes,
and, of messages, strong fairness: a Redis list is a queue, so a message that waits is
received although others keep coming. Recovery is not assumed to reach any
particular row. `retries_start_over` is refuted under the same fairness: its lasso waits
for nothing that is bound to come.

## 4. What is proved

For all constants satisfying the assumptions of the modules: `StoreAssumption`
(positive amounts and prices, `MaxClaims` natural, `None` a value of its own),
`WorkersAssumption` (both providers exist, natural bounds, finitely many workers), `CallbackAssumption` (a
POST fits into the delivery lease and `RetryDelay + PostTime <= Lease`; 15 + 10 <= 60),
`TimingAssumption` (the longest claim is shorter than the lease, and with a failed
submit before it than the visibility timeout), `LimiterAssumption` (the observed span is
no longer than a window and half a second shorter than a block) and `ApiAssumption`
(fingerprints and event ids differ; callers are users):

| Theorem | Statement |
|---|---|
| `StoreInvariant` | `StoreSpec => []StoreInv` |
| `TypeCorrect`, `ClaimsCoherent`, `CreatedStaysPending`, `SettlementsCoherent` | its parts that the runs check; the fifth, one row per key, serves the refinement |
| `FinishedIsFinal` | `StoreSpec => TerminalImmutable` |
| `StoreImplementsBilling` | `StoreSpec => ImplementsBilling` |
| `MoneyIsConserved` | `StoreSpec => []MoneyConserved` |
| `WorkersConserveMoney`, `RoutesConserveMoney` | the same for `WorkersSpec` and `ApiSpec` |
| `WorkersTypeCorrect` | `WorkersSpec => []WorkersTypeOK` |
| `WorkersImplementStore` | `WorkersSpec => StoreSpec` |
| `WorkersImplementBilling` | `WorkersSpec => ImplementsBilling` |
| `ResultsAreSaved` | `WorkersSpec => []ResultFromSavedRequest` |
| `LeasesAreExclusive` | `WorkersSpec => LeaseIsExclusive` |
| `PaymentsBounded` | `WorkersSpec => []PaidRequestsBounded` |
| `RetriesAreClaims` | `WorkersSpec => []RetriesCountClaims` |
| `AttemptsAreBounded` | `WorkersSpec => []AttemptsBounded` |
| `TimingInvariant`, `TimingTypeCorrect`, `LeaseSuffices`, `VisibilitySuffices` | `Spec => []` of `TimingInv`, `TimingTypeOK`, `LeaseOutlivesWork`, `VisibilityOutlivesTask` |
| `CallbackInvariant`, `CallbacksTypeCorrect`, `AttemptsPayForPosts`, `SendersExclude`, `DeliveriesAreReal` | `Spec => []` of `CallbackInv`, `CallbackTypeOK`, `PostsMatchAttempts`, `OneSender`, `DeliveredWasAccepted` |
| `PostsAreSpaced`, `DeliveriesAreLast`, `ClaimsStand` | `Spec =>` `SpacedUnlessStalled`, `QuietAfterDelivery`, `ClaimStands` |
| `LimiterInvariant`, `RetryAfterSuffices`, `BurstsAreBounded` | `LimiterSpec => []` of the inductive invariant, `RetryAfterIsEnough`, `BurstBounded` |
| `ApiImplementsStore`, `ApiImplementsLimiter` | `ApiSpec =>` `StoreSpec`, `LimiterSpec` |
| `ApiTypeCorrect`, `CreatesAgree`, `RoutesAreLimited` | `ApiSpec => []` of `ApiTypeOK`, `AcceptedOnce`, and the limiter's two promises |
| `PaymentsAreCredited` | `ApiSpec => []PaymentsCredited` |

**Tables.** `StoreInv` is the conjunction of the row properties and is inductive: the
type invariant alone is not enough, because that a refund happens once needs
"refunded iff failed", and that `Released` and `Failed` are legal needs "has a token
iff processing". All actions but `CreateAndCharge` are shown to be an `Evolution`:
rows keep their order data, finished rows do not change, the outbox and the callback
rows follow. One lemma proves that an `Evolution` preserves `StoreInv`, one lemma per
action that it is one. Finality is read off the same lemma.

**Refinement.** An order is a row seen through user, key, price and state. An
`Evolution` in which no row ends leaves the orders as they are; `Complete` is
`Deliver`, `FailAndRefund` is `Refund`, `CreateAndCharge` is `Place` (its key is free
because every taken key belongs to an order), `ApplyCredit` is `Deposit`.

**Money.** Nothing bounds the number of payments or generations a constant may allow, but
in any reachable state only finitely many exist: `MoneyInv` adds just that to `StoreInv`
and `MoneyConserved`. Each transaction then changes two of the three amounts by the same
term: a payment balance and credits, a create balance and what is spent, a refund both
back, and every other one leaves the rows that count as they are. A row is refunded
once because it is refunded exactly when failed. `Sums` supplies what a sum does when a
term is added, taken out or replaced. `SumFunction` is a fold with a
recursive function in it, so these are facts about data; the library's induction
theorems take a predicate, which the provers here cannot instantiate, so `Sums` argues
with the set of good subsets and a minimal bad one (`SubsetInduction`, from the
library's theorem that strict inclusion on the subsets of a finite set is well-founded).

**Composition.** Every step of a worker, a job or a fault is a transaction of the store
or leaves the tables alone. This needs the type invariant of the workers (a worker that
saves or completes has a claim, a provider and a request id), which in turn needs the
store's. So all theorems about the tables hold for the system of workers, for any
number of workers, retries and faults.

**Results.** `ResultFromSavedRequest` is not inductive. `ResultInv` adds that messages
are about existing rows, that a saved id is kept with the provider that issued it until
the row is completed, and, the heart of it, `Tracks`: a worker's token is at most the
row's claim count, and if its claim still stands, the row's id is the one the worker
polls, at its issuer or at the fallback. It is kept because rows grow (`RowGrows`): a new
token is always larger than any token handed out, so a claim that stands after a step
stood before it, and a saved id is never replaced. That leaves the fallback asked about
an id of the primary. `CalmInv` rules it out while nothing has failed: a generation is
then in one hand (`InOneHand`: one worker, one message or the pending event) and a
processing row is attended to by its worker (`ClaimsAttended`), so the id a worker read
before it switches is still the row's (`Undisturbed`). Without a
fault a lease runs out and a row is recovered only when nobody has it in hand, so no
second hand appears.

**Claims.** `ClaimsInv` rests on `TokensApart`: two workers of a generation never have
the same token, because a new one is larger than any handed out. So whoever moves a
row that is held holds it, and is the one (`RowMoves` lists how a row can move:
its lease runs out, it was not under a live lease, or its holder moves on).
`LeaseIsExclusive` follows at once. For `PaidRequestsBounded`, `Paid` counts what may
still be paid without a fault next to what was paid: `Stray` are the workers about to
submit under a claim that no longer stands, `Open` is 1 until a request is saved, or
is about to be under a standing claim. A submit under a standing claim closes the
generation; one in vain uses up a stray worker; a lease that runs out under its
holder makes it stray or opens the generation again, and that is a fault. This needs
`SubmitsUnsaved`: who submits under a standing claim has found no saved request.

**Attempts.** What must not grow is a budget: the claims made so far plus the claims
everything in flight may still make. `Round`, `max_retries + 2`, is what one delivery can
cost. A message with retry number r is worth `Round - r` claims, a worker what it has
`Left` at its step, a pending outbox event a `Round`, and so is a row that only
recovery can bring on (`Adrift`: its lease ran out or nobody attends to it, or it is
queued and nothing waits to claim it). A claim is paid for by the worker that makes it,
a retry hands what its worker has left to the message, recovery of a row adrift turns one
`Round` into another. Without a fault the budget never rises (`Afforded`), a fault raises it
by two rounds at most, the message it duplicates and the row it sets adrift, and it is one
`Round` when a client creates the row. So `Budgeted` is inductive, together with two facts
about workers: one that is between two claims holds nothing (`Resting`), or a row that
looks attended to might be given up by a publication, and one that saves under a
standing claim finds no saved request (`SavesUnsaved`), or a refused save might leave
a row under a live lease that nobody works on. `AttemptsBounded` drops all terms but the
claims made. The invariant was checked with TLC under `MCGenerationWorkers.cfg` before it
was proved.

**Durations.** The invariant says of every worker how much of the longest claim is
behind it and how much its current wait may still take; the polling deadline, counted
from the first status call, is what keeps the sum bounded.

**Webhooks.** `PostsMatchAttempts` needs nothing but counting the workers that are about
to post. The rest rests on `ClaimsHold`: a worker that is not stalled holds its row
with what its age leaves of the lease, so nobody else can be due; and on `KeptAway`: a
recent POST keeps the next claim away through the lease it was sent under, then
through the retry delay, then for ever. That handover is where
`RetryDelay + PostTime <= Lease` is used.

**Limiter and routes.** The inductive invariant relates what a block still owes to the
shortest `Retry-After`, and what an observer can have counted to what became of the
window: a counter that expired in the span, one that is still there, a block that
ended. `Api` implements the store and the limiter step by step, so their theorems
hold behind the routes; `AcceptedOnce` then follows from the unique key.

**Payments.** `PaymentsCredited` compares two sums over different sets: recorded events
and payments that were made. `PaymentInv` keeps a witness for either direction: every
recorded event is the credit of a payment that was sent (`Backs`), and every
acknowledged payment has an event with its user and amount under the id the route chose
for it. Two events are never backed by one payment, and two acknowledged
payments that name an event name different ones, so both directions are matchings of
terms that are equal, and `Sums` concludes that the sums are ordered.

## 5. What is only model-checked

* `EveryChargeSettles`, `EveryEventEnds`, `EveryRowEnds`: liveness is out of the
  prover's reach.

Every invariant and action property of the passing runs is proved; TLC's part
there is a second look at the same statements on small instances, and the mutants.

## 6. What is not modelled

* API keys, validation, the request fingerprint, prices: no state, or values that the
  models leave arbitrary. A price is an integer product with a division that is exact
  unless it is rounded up. The request schemas read nothing but the request.
* `get_for_user`, health checks, metrics and logs only read.
* Locks inside a transaction: transactions are atomic here, an aborted one stutters.
* The mapping of HTTP statuses to errors is `WorkerTiming!ErrorKind` over classes of
  answers, not over single statuses.
* Migrations: alembic runs them in one transaction before the services start. 05 fills
  the outbox for `created` rows only; 06 requeues `processing` rows and reopens outbox
  rows that exist. Which rows they meet was decided by earlier code that is not in the
  repository, so no initial state could be justified.
* Settings and deployment: the values are constants of the modules; the order in which
  containers start changes no table.
* A payment webhook's secret is a precondition of the sender and not a state.

## 7. Where code and documentation differ

| Run | Documentation | Code |
|---|---|---|
| `created_straight_to_processing` | of the transitions out of `created` only `created -> queued` is allowed (`docs/architecture.md:87-88`) | a dispatch that publishes and then fails to commit lets a worker claim the row while it is `created` (`tasks.py:529`, `generation_repository.py:143-145`) |
| `second_paid_request` | a retry creates no new paid generation (`README.md:191-193`) | a worker that loses its claim after `submit` returned and before the id is committed (`tasks.py:78-86`) leaves the next one to submit again |
| `provider_switched` | no switching after a request id (`README.md:198-199`, `docs/architecture.md:107-109`) | the failover checks the id, gives the claim up and claims again; another copy of the message may save an id in between (`tasks.py:461-476`). The fallback is then asked about the primary's id (`tasks.py:73-90`), and the fake provider answers any id with a URL of its own (`fake_provider.py:11-22`), which is stored as the result |
| `retries_start_over` | publishing a queued task again is safe (`docs/architecture.md:92-93`); retries come after 5, 10 and 20 seconds, then the fallback (`README.md:195-199`) | recovery publishes a row with retry number 0 while its retry r waits (`tasks.py:564-568`); when copy 0 is claimed first, copy r is refused and dropped (`tasks.py:66-67`), so under temporary errors the count starts over each time |
| `webhooks_too_close` | deliveries are at least 15 s apart (`README.md:203-204`) | the delay is checked at the claim, not at the POST: a worker that outlives its lease sends next to its successor (`tasks.py:217`, `252-257`) |

`retries_start_over` needs workers that stay behind the queue by more than
`QUEUED_RECOVERY_SECONDS` (120 s) in every round, and no failure but the provider's.

Two statements have no run of their own because they are about values, not behaviours.
`README.md:138-141` says that in production the payment's header is required; the code
is content with an id in the body (`routes/payments.py:37-43`), and so is `Api`.
`README.md:85` asks of the lease only to be longer than the Fal timeout (300 s), but a
claim lasts up to `LongestClaim`, 392 s with the defaults: a lease between the two follows
the documentation and breaks `TimingAssumption`, on which `LeaseOutlivesWork` rests.

Two more statements are weaker than they look, and admitted in the documentation: the
limiter lets through bursts at the border of two windows (`README.md:267`), and payments
without an event id are identified by user and amount (`README.md:138-141`).
`BurstBounded` and `PaymentsCredited` say how much that is.

## 8. Plan

Order of work: the tables and money first (everything else relies on them), then the
workers on top, then webhooks, then time, limiter and routes, then the proofs of
section 4. What is left is `GenerationWorkers` composed with `CallbackDelivery`: a
callback row begins with the end of its generation, and the webhook reports that end.
Today the two meet in
`SettlementCoherence` (the row exists exactly for finished generations) and
`TerminalImmutable` (what the webhook reads is final).

## Running the checks

In this directory: `tlc -config MCGenerationWorkers.cfg MCGenerationWorkers` (and likewise
for the other configs; the table in section 3 names them; `MCWorkerTiming.cfg`,
`MCRowsEndRace.cfg` and `MCRetriesRunOut.cfg` belong to `WorkerTiming`), `tlapm GenerationWorkersProofs.tla` (and the other seven proof
modules). The longest runs are `api`, `timing`, `workers`, `callbacks` and `settles_two`
with one to three minutes each; the proofs take about fifteen minutes in all.
