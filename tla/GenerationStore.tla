--------------------------- MODULE GenerationStore ---------------------------
(***************************************************************************)
(* The service's PostgreSQL tables and every transaction on them: users,   *)
(* payment_events, generations, generation_outbox and the existence of     *)
(* callback_outbox rows.  An action is one committed transaction of        *)
(* generation_repository.py, payment_repository.py, user_repository.py or  *)
(* of the two periodic jobs of tasks.py that work on generations; row      *)
(* locks, conditional UPDATEs and unique constraints make it one step.     *)
(* A call that is refused, replayed or rolled back changes nothing, so it  *)
(* is a stuttering step and has no action.                                 *)
(*                                                                         *)
(* The caller is arbitrary here: any claim, any order.  GenerationWorkers  *)
(* adds the workers and the broker that really make these calls.           *)
(***************************************************************************)
EXTENDS Integers, FiniteSets, Functions

CONSTANTS
    Users,        \* clients that may be registered
    PaymentIds,   \* external ids of payment notifications
    Amounts,      \* amounts of payments
    GenIds,       \* ids of generations
    Keys,         \* idempotency keys
    Requests,     \* request contents, up to request_hash
    WithCallback, \* the requests that carry a callback_url
    Costs,        \* prices; the tariff in force is read when a row is created
    Providers,    \* generation providers
    MaxClaims,    \* bound on attempt_count of a row
    None          \* SQL NULL, or a row that does not exist

Claims == 1 .. MaxClaims
Tokens == 0 .. MaxClaims   \* 0 stands for NULL

Statuses == {"created", "queued", "processing", "completed", "failed"}
Terminal == {"completed", "failed"}

(***************************************************************************)
(* processing_token is a fresh uuid4 at every claim: it is modelled by the *)
(* number of the claim, attempt_count.  A provider's request id is named by *)
(* the claim that submitted it (a claim submits at most once).  Of         *)
(* lease_expires_at and updated_at the code only asks whether they are in  *)
(* the past and whether a queued row is older than the recovery threshold. *)
(***************************************************************************)

\* A provider and a request id: a request that provider accepted, or what it
\* answers when it is asked about that id, whoever issued it.
ProviderRequests == Providers \X Claims

Rows ==
    [user : Users, key : Keys, request : Requests, cost : Costs,
     status : Statuses, refunded : BOOLEAN,
     provider : Providers \cup {None}, requestId : Tokens,
     result : ProviderRequests \cup {None},
     token : Tokens, lease : {"none", "live", "expired"}, stale : BOOLEAN,
     attempts : Tokens]

Payments == [user : Users, amount : Amounts]

\* What Billing sees of a row.
Orders == [user : Users, key : Keys, price : Costs,
           state : {"open", "delivered", "refunded"}]

ASSUME StoreAssumption ==
    /\ Amounts \subseteq Nat \ {0}
    /\ Costs \subseteq Nat \ {0}
    /\ MaxClaims \in Nat
    /\ WithCallback \subseteq Requests
    /\ None \notin ProviderRequests
    /\ None \notin Rows
    /\ None \notin Payments
    /\ None \notin Orders

VARIABLES
    registered, \* users with a row
    balance,    \* users.balance
    payments,   \* payment_events by external_id
    gens,       \* generations
    outbox,     \* generation_outbox: is the event of g absent, pending, processed
    callbacks   \* generations with a callback_outbox row

storeVars == <<registered, balance, payments, gens, outbox, callbacks>>

Exists(g) == gens[g] # None
IsStatus(g, s) == Exists(g) /\ gens[g].status = s

StoreInit ==
    /\ registered = {}
    /\ balance = [u \in Users |-> 0]
    /\ payments = [p \in PaymentIds |-> None]
    /\ gens = [g \in GenIds |-> None]
    /\ outbox = [g \in GenIds |-> "none"]
    /\ callbacks = {}

-----------------------------------------------------------------------------
\* Users and payments

RegisterUser(u) ==
    /\ u \notin registered
    /\ registered' = registered \cup {u}
    /\ UNCHANGED <<balance, payments, gens, outbox, callbacks>>

EveryNotice(p) == TRUE                 \* mutant of FirstNotice: replays credit too
FirstNotice(p) == payments[p] = None

\* A replay of external_id p (equal or conflicting) changes nothing.
ApplyCredit(p, u, a) ==
    /\ u \in registered
    /\ FirstNotice(p)
    /\ payments' = [payments EXCEPT ![p] = [user |-> u, amount |-> a]]
    /\ balance' = [balance EXCEPT ![u] = @ + a]
    /\ UNCHANGED <<registered, gens, outbox, callbacks>>

-----------------------------------------------------------------------------
\* Creating a generation

NewRow(u, k, r, c) ==
    [user |-> u, key |-> k, request |-> r, cost |-> c,
     status |-> "created", refunded |-> FALSE,
     provider |-> None, requestId |-> 0, result |-> None,
     token |-> 0, lease |-> "none", stale |-> FALSE, attempts |-> 0]

KeyTaken(u, k) ==
    \E g \in GenIds : Exists(g) /\ gens[g].user = u /\ gens[g].key = k

OnCredit(u, c) == TRUE                 \* mutant of CanPay: unconditional charge
CanPay(u, c) == balance[u] >= c

\* A taken key answers with the existing row or a conflict, a low balance
\* rolls the insert back: neither changes anything.
CreateAndCharge(g, u, k, r, c) ==
    /\ u \in registered
    /\ ~Exists(g)
    /\ ~KeyTaken(u, k)
    /\ CanPay(u, c)
    /\ balance' = [balance EXCEPT ![u] = @ - c]
    /\ gens' = [gens EXCEPT ![g] = NewRow(u, k, r, c)]
    /\ outbox' = [outbox EXCEPT ![g] = "pending"]
    /\ UNCHANGED <<registered, payments, callbacks>>

-----------------------------------------------------------------------------
\* What a worker does to a row.  HoldsClaim is the fence every write repeats.

HoldsClaim(g, t) == IsStatus(g, "processing") /\ gens[g].token = t

\* mutant of MayClaim: any row that is not held under a live lease
MayClaimUnheld(g) == Exists(g) /\ gens[g].lease # "live"
MayClaim(g) ==
    \/ IsStatus(g, "created") \/ IsStatus(g, "queued")
    \/ IsStatus(g, "processing") /\ gens[g].lease = "expired"

Claimed(row) ==
    [row EXCEPT !.status = "processing", !.token = row.attempts + 1,
                !.attempts = row.attempts + 1, !.lease = "live", !.stale = FALSE]

StartProcessing(g) ==
    /\ MayClaim(g)
    /\ gens[g].attempts < MaxClaims
    /\ gens' = [gens EXCEPT ![g] = Claimed(gens[g])]
    /\ UNCHANGED <<registered, balance, payments, outbox, callbacks>>

Submitted(row, p, r) == [row EXCEPT !.provider = p, !.requestId = r]

MaySave(g, t) == HoldsClaim(g, t) /\ gens[g].requestId = 0

SaveProviderRequest(g, t, p, r) ==
    /\ MaySave(g, t)
    /\ gens' = [gens EXCEPT ![g] = Submitted(gens[g], p, r)]
    /\ UNCHANGED <<registered, balance, payments, outbox, callbacks>>

NoCallback(g) == {}                    \* mutant of NewCallback: no callback row
NewCallback(g) == IF gens[g].request \in WithCallback THEN {g} ELSE {}

\* The stored provider is the one that answered.
Completed(row, answer) ==
    [row EXCEPT !.status = "completed", !.result = answer, !.provider = answer[1],
                !.token = 0, !.lease = "none"]

Complete(g, t, answer) ==
    /\ HoldsClaim(g, t)
    /\ gens' = [gens EXCEPT ![g] = Completed(gens[g], answer)]
    /\ callbacks' = callbacks \cup NewCallback(g)
    /\ UNCHANGED <<registered, balance, payments, outbox>>

\* mutant of Released: the token survives
ReleasedWithToken(row) == [row EXCEPT !.status = "queued", !.lease = "none"]

\* The row goes back to the queue and every outstanding claim on it is void.
Released(row) ==
    [row EXCEPT !.status = "queued", !.token = 0, !.lease = "none", !.stale = FALSE]

Requeue(g, t) ==
    /\ HoldsClaim(g, t)
    /\ gens' = [gens EXCEPT ![g] = Released(gens[g])]
    /\ UNCHANGED <<registered, balance, payments, outbox, callbacks>>

\* mutant of Failed: the refunded row is queued again
FailedForRetry(row) == [row EXCEPT !.status = "queued", !.token = 0, !.lease = "none"]

Failed(row) ==
    [row EXCEPT !.status = "failed", !.refunded = TRUE, !.token = 0, !.lease = "none"]

\* The code also admits status queued, whose processing_token is NULL and so
\* never equals a claim's token.
MayFail(g, t) ==
    /\ IsStatus(g, "queued") \/ IsStatus(g, "processing")
    /\ gens[g].token = t
    /\ ~gens[g].refunded

FailAndRefund(g, t) ==
    /\ MayFail(g, t)
    /\ gens' = [gens EXCEPT ![g] = Failed(gens[g])]
    /\ balance' = [balance EXCEPT ![gens[g].user] = @ + gens[g].cost]
    /\ callbacks' = callbacks \cup NewCallback(g)
    /\ UNCHANGED <<registered, payments, outbox>>

-----------------------------------------------------------------------------
\* The periodic jobs and the clock

StillCreated(row) == [row EXCEPT !.stale = FALSE]   \* mutant of Queued
Queued(row) == [row EXCEPT !.status = "queued", !.stale = FALSE]

DispatchOutbox(g) ==
    /\ outbox[g] = "pending"
    /\ outbox' = [outbox EXCEPT ![g] = "processed"]
    /\ gens' = [gens EXCEPT ![g] =
                  IF IsStatus(g, "created") THEN Queued(@) ELSE @]
    /\ UNCHANGED <<registered, balance, payments, callbacks>>

\* mutants of StaleGens: leases are ignored; lost queue entries are ignored
HeldGens == {g \in GenIds : IsStatus(g, "processing")}
ExpiredGens == {g \in GenIds : IsStatus(g, "processing") /\ gens[g].lease = "expired"}

StaleGens ==
    {g \in GenIds : \/ IsStatus(g, "processing") /\ gens[g].lease = "expired"
                    \/ IsStatus(g, "queued") /\ gens[g].stale}

\* One batch: some of the stale rows (LIMIT, SKIP LOCKED).  Expired claims are
\* revoked; stale queued rows are left as they are; every outbox row reopens.
RecoverStale(S) ==
    /\ S \subseteq StaleGens
    /\ gens' = [g \in GenIds |->
                  IF g \in S /\ IsStatus(g, "processing")
                  THEN Released(gens[g]) ELSE gens[g]]
    /\ outbox' = [g \in GenIds |-> IF g \in S THEN "pending" ELSE outbox[g]]
    /\ UNCHANGED <<registered, balance, payments, callbacks>>

Expired(row) == [row EXCEPT !.lease = "expired"]

LeaseExpires(g) ==
    /\ IsStatus(g, "processing") /\ gens[g].lease = "live"
    /\ gens' = [gens EXCEPT ![g] = Expired(gens[g])]
    /\ UNCHANGED <<registered, balance, payments, outbox, callbacks>>

Aged(row) == [row EXCEPT !.stale = TRUE]

QueuedGoesStale(g) ==
    /\ IsStatus(g, "queued") /\ ~gens[g].stale
    /\ gens' = [gens EXCEPT ![g] = Aged(gens[g])]
    /\ UNCHANGED <<registered, balance, payments, outbox, callbacks>>

ClientStep ==
    \/ \E u \in Users : RegisterUser(u)
    \/ \E p \in PaymentIds, u \in Users, a \in Amounts : ApplyCredit(p, u, a)
    \/ \E g \in GenIds, u \in Users, k \in Keys, r \in Requests, c \in Costs :
          CreateAndCharge(g, u, k, r, c)

WorkerStep(g) ==
    \/ StartProcessing(g)
    \/ \E t \in Claims : Requeue(g, t) \/ FailAndRefund(g, t)
    \/ \E t \in Claims, p \in Providers, r \in Claims : SaveProviderRequest(g, t, p, r)
    \/ \E t \in Claims, answer \in ProviderRequests : Complete(g, t, answer)

PeriodicStep ==
    \/ \E g \in GenIds : DispatchOutbox(g) \/ LeaseExpires(g) \/ QueuedGoesStale(g)
    \/ \E S \in (SUBSET StaleGens) \ {{}} : RecoverStale(S)

StoreNext == ClientStep \/ (\E g \in GenIds : WorkerStep(g)) \/ PeriodicStep

StoreSpec == StoreInit /\ [][StoreNext]_storeVars

-----------------------------------------------------------------------------
\* Properties

\* Every table holds rows of its shape; in particular users.balance, which the
\* conditional charge of create_and_charge guards, is never negative.
StoreTypeOK ==
    /\ registered \subseteq Users
    /\ balance \in [Users -> Nat]
    /\ payments \in [PaymentIds -> Payments \cup {None}]
    /\ gens \in [GenIds -> Rows \cup {None}]
    /\ outbox \in [GenIds -> {"none", "pending", "processed"}]
    /\ callbacks \subseteq GenIds

\* A row holds a token and a lease exactly while it is processing, and the
\* token is that of its latest claim: whatever requeues, finishes or recovers a
\* row voids every claim handed out before (start_processing, recovery).
ClaimCoherence ==
    \A g \in GenIds : Exists(g) =>
        /\ gens[g].token # 0 <=> gens[g].status = "processing"
        /\ gens[g].lease # "none" <=> gens[g].status = "processing"
        /\ gens[g].token # 0 => gens[g].token = gens[g].attempts

\* A charged generation is never stranded before its first dispatch: recovery
\* looks only at queued and processing rows, so a created row must still have
\* its outbox event (create_and_charge, dispatch_outbox_batch).
CreatedIsPending ==
    \A g \in GenIds :
        /\ Exists(g) <=> outbox[g] # "none"
        /\ IsStatus(g, "created") => outbox[g] = "pending"

\* The end of a generation is all or nothing: exactly the failed ones are
\* refunded, exactly the completed ones have a result, and the callback row
\* exists exactly when the client asked for one and the outcome is final.
SettlementCoherence ==
    \A g \in GenIds :
        /\ Exists(g) =>
              /\ gens[g].refunded <=> gens[g].status = "failed"
              /\ gens[g].result # None <=> gens[g].status = "completed"
        /\ g \in callbacks <=> /\ Exists(g)
                               /\ gens[g].status \in Terminal
                               /\ gens[g].request \in WithCallback

\* A user's idempotency key names one generation: the unique constraint, kept
\* here because Place of Billing needs it of every order.
OneOrderPerKey ==
    \A g, h \in GenIds :
        (/\ Exists(g) /\ Exists(h)
         /\ gens[g].user = gens[h].user /\ gens[g].key = gens[h].key) => g = h

\* What the payments of u credited, and what generations of u hold or have spent.
Credits(u) == {p \in PaymentIds : payments[p] # None /\ payments[p].user = u}
CreditedTo(u) == SumFunction([p \in Credits(u) |-> payments[p].amount])

Unrefunded(u) == {g \in GenIds : Exists(g) /\ gens[g].user = u /\ ~gens[g].refunded}
SpentBy(u) == SumFunction([g \in Unrefunded(u) |-> gens[g].cost])

\* No money appears or is lost: what a user has left plus what is held by or
\* spent on generations is what the user's payments credited.
MoneyConserved == \A u \in Users : balance[u] + SpentBy(u) = CreditedTo(u)

\* The inductive invariant: the parts above that speak of rows and need no sums.
StoreInv ==
    /\ StoreTypeOK
    /\ ClaimCoherence
    /\ CreatedIsPending
    /\ SettlementCoherence
    /\ OneOrderPerKey

\* A finished generation is final: no late worker, retry, recovery or dispatch
\* changes its row again, its outcome, its result or its refund.
TerminalStays ==
    \A g \in GenIds :
        Exists(g) /\ gens[g].status \in Terminal => gens'[g] = gens[g]
TerminalImmutable == [][TerminalStays]_storeVars

\* Seen from the wallet, all of the above is just orders that are paid,
\* delivered or refunded once.
Order(row) ==
    [user |-> row.user, key |-> row.key, price |-> row.cost,
     state |-> CASE row.status = "completed" -> "delivered"
                 [] row.status = "failed" -> "refunded"
                 [] OTHER -> "open"]

OrderOf(g) == IF gens[g] = None THEN None ELSE Order(gens[g])

Money == INSTANCE Billing WITH
    OrderIds <- GenIds, Prices <- Costs,
    funds <- balance, deposits <- payments,
    orders <- [g \in GenIds |-> OrderOf(g)]

\* The tables implement Billing: every transaction is one Billing step or none.
ImplementsBilling == Money!BillingSpec
=============================================================================
