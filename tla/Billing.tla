------------------------------ MODULE Billing ------------------------------
(***************************************************************************)
(* What the service promises about money, with no workers, leases, queues  *)
(* or retries in sight: a payment is credited once, an order is paid in    *)
(* full when it is placed, one order per user and idempotency key, and an  *)
(* open order ends once, either delivered or with its exact price given    *)
(* back to the user who paid it.  GenerationStore implements this module.  *)
(***************************************************************************)
EXTENDS Integers

CONSTANTS
    Users,      \* clients of the API
    PaymentIds, \* external identifiers of payment notifications
    Amounts,    \* amounts a payment can credit
    OrderIds,   \* identifiers of orders (generations)
    Keys,       \* idempotency keys
    Prices,     \* what an order can cost
    None        \* stands for a deposit or an order that does not exist

VARIABLES
    funds,      \* funds[u]: what u can spend
    deposits,   \* deposits[p]: who was credited by payment p, and how much
    orders      \* orders[o]: who ordered, under which key, the price, the state

billingVars == <<funds, deposits, orders>>

OrderStates == {"open", "delivered", "refunded"}

BillingInit ==
    /\ funds = [u \in Users |-> 0]
    /\ deposits = [p \in PaymentIds |-> None]
    /\ orders = [o \in OrderIds |-> None]

Deposit(p, u, a) ==
    /\ deposits[p] = None
    /\ deposits' = [deposits EXCEPT ![p] = [user |-> u, amount |-> a]]
    /\ funds' = [funds EXCEPT ![u] = @ + a]
    /\ UNCHANGED orders

Place(o, u, k, price) ==
    /\ orders[o] = None
    /\ \A other \in OrderIds :
          orders[other] # None => <<orders[other].user, orders[other].key>> # <<u, k>>
    /\ funds[u] >= price
    /\ funds' = [funds EXCEPT ![u] = @ - price]
    /\ orders' = [orders EXCEPT ![o] =
                     [user |-> u, key |-> k, price |-> price, state |-> "open"]]
    /\ UNCHANGED deposits

Deliver(o) ==
    /\ orders[o] # None
    /\ orders[o].state = "open"
    /\ orders' = [orders EXCEPT ![o] = [@ EXCEPT !.state = "delivered"]]
    /\ UNCHANGED <<funds, deposits>>

Refund(o) ==
    /\ orders[o] # None
    /\ orders[o].state = "open"
    /\ orders' = [orders EXCEPT ![o] = [@ EXCEPT !.state = "refunded"]]
    /\ funds' = [funds EXCEPT ![orders[o].user] = @ + orders[o].price]
    /\ UNCHANGED deposits

BillingNext ==
    \/ \E p \in PaymentIds, u \in Users, a \in Amounts : Deposit(p, u, a)
    \/ \E o \in OrderIds, u \in Users, k \in Keys, price \in Prices :
          Place(o, u, k, price)
    \/ \E o \in OrderIds : Deliver(o) \/ Refund(o)

BillingSpec == BillingInit /\ [][BillingNext]_billingVars
=============================================================================
