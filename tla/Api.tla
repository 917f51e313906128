--------------------------------- MODULE Api ---------------------------------
(***************************************************************************)
(* The HTTP routes over the tables and the rate limiter: registration, the *)
(* payment webhook with its choice of an external id, and calls of a user  *)
(* that pass the limiter before their handler runs.  The sender of payment *)
(* notices and the clients repeat what got no answer, or repeat it anyway. *)
(*                                                                         *)
(* A request is one step: its authentication reads, its visit to Redis and *)
(* its transaction touch nothing in common, so nothing that runs between   *)
(* them can tell.  The request that dies on the way is a call without      *)
(* effect (OtherCall, or nothing) or an answer that is lost.               *)
(***************************************************************************)
EXTENDS GenerationStore, RateLimiter

CONSTANT Dues   \* payments that really happened, each with its own event id

Environments == {"local", "production"}   \* settings.app_env

\* X-Payment-Event-ID and external_id: a sender gives the event's id in the
\* header, in the body, in both or not at all, or gives two different ids.
Places(d) == {<<None, None>>, <<d, None>>, <<None, d>>, <<d, d>>, <<d, "other">>}

Notices == [user : Users, amount : Amounts, header : Dues \cup {None},
            body : Dues \cup {None, "other"}]

\* The digest of user and amount, which no event id equals.
Fingerprint(u, a) == <<u, a>>

ASSUME ApiAssumption ==
    /\ Callers = Users
    /\ PaymentIds = Dues \cup {Fingerprint(u, a) : u \in Users, a \in Amounts}
    /\ \A u \in Users, a \in Amounts : Fingerprint(u, a) \notin Dues
    /\ None \notin PaymentIds /\ None \notin Notices /\ "other" \notin Dues

VARIABLES
    env,      \* settings.app_env
    notices,  \* what the sender says of each payment, once it happened
    acked,    \* the payments whose notice was answered with 200
    accepted  \* the creates that were answered with 202

apiVars == <<env, notices, acked, accepted>>
allVars == <<storeVars, limiterVars, apiVars>>

ApiInit ==
    /\ StoreInit
    /\ LimiterInit
    /\ env \in Environments
    /\ notices = [d \in Dues |-> None]
    /\ acked = {}
    /\ accepted = {}

-----------------------------------------------------------------------------
\* POST /v1/auth

Register(u) == RegisterUser(u) /\ UNCHANGED <<limiterVars, apiVars>>

-----------------------------------------------------------------------------
\* POST /v1/payments/webhook

\* The client pays; from now on the sender may send and resend its notice.
Pay(d) ==
    /\ notices[d] = None
    /\ \E u \in registered, a \in Amounts, place \in Places(d) :
          notices' = [notices EXCEPT ![d] =
             [user |-> u, amount |-> a, header |-> place[1], body |-> place[2]]]
    /\ UNCHANGED <<storeVars, limiterVars, env, acked, accepted>>

Mismatch(n) == n.header # None /\ n.body # None /\ n.header # n.body
Identified(n) == n.header # None \/ n.body # None

Anonymous(n) == TRUE                \* mutant of MayBeAnonymous: in production too
MayBeAnonymous(n) == env # "production"

ExternalId(n) ==
    IF n.header # None THEN n.header
    ELSE IF n.body # None THEN n.body
    ELSE Fingerprint(n.user, n.amount)

\* The notice reaches apply_payment: no 409 for the ids, no 400 for their lack.
Admissible(n) == ~Mismatch(n) /\ (Identified(n) \/ MayBeAnonymous(n))

\* The event is known with the same data: status duplicate.
Duplicate(n) ==
    payments[ExternalId(n)] = [user |-> n.user, amount |-> n.amount]

\* Known with other data: 409; an unknown user: 404; both change nothing.
PaymentWebhook(d) ==
    LET n == notices[d]
    IN  /\ n # None
        /\ Admissible(n)
        /\ \/ ApplyCredit(ExternalId(n), n.user, n.amount)
           \/ Duplicate(n) /\ UNCHANGED storeVars
        /\ acked' \in {acked, acked \cup {d}}      \* the answer may be lost
        /\ UNCHANGED <<limiterVars, env, notices, accepted>>

-----------------------------------------------------------------------------
\* Calls with an API key: authentication, then the limiter, then the handler

ForgetsRequest(g, r) == TRUE        \* mutant of SameRequest: request_hash ignored
SameRequest(g, r) == gens[g].request = r

\* The row that answers a repeated create, new or old.
Answers(u, k, r) ==
    {g \in GenIds : Exists(g) /\ gens[g].user = u /\ gens[g].key = k /\ SameRequest(g, r)}

\* POST /v1/generations: create, or find the row of the key.  A low balance
\* (402) and a key of another request (409) leave it at an OtherCall.
StartGeneration(u, k, r) ==
    /\ u \in registered
    /\ Admit(u)
    /\ \E g \in GenIds :
          /\ \/ \E c \in Costs : CreateAndCharge(g, u, k, r, c)
             \/ g \in Answers(u, k, r) /\ UNCHANGED storeVars
          /\ accepted' \in
                {accepted,
                 accepted \cup {[user |-> u, key |-> k, request |-> r, gen |-> g]}}
    /\ UNCHANGED <<env, notices, acked>>

\* Any other admitted call: GET /v1/me, GET /v1/generations/{id}, a create that
\* is invalid, refused or dies before its transaction.
OtherCall(u) ==
    /\ u \in registered
    /\ Admit(u)
    /\ UNCHANGED <<storeVars, apiVars>>

TooManyRequests(u) ==
    /\ u \in registered
    /\ Refuse(u)
    /\ UNCHANGED <<storeVars, apiVars>>

LimiterEnvironment ==
    /\ \/ \E d \in Pauses : Pass(d)
       \/ \E u \in Users : Observe(u)
       \/ LoseKeys
    /\ UNCHANGED <<storeVars, apiVars>>

ApiNext ==
    \/ \E u \in Users : Register(u) \/ OtherCall(u) \/ TooManyRequests(u)
    \/ \E d \in Dues : Pay(d) \/ PaymentWebhook(d)
    \/ \E u \in Users, k \in Keys, r \in Requests : StartGeneration(u, k, r)
    \/ LimiterEnvironment

ApiSpec == ApiInit /\ [][ApiNext]_allVars

-----------------------------------------------------------------------------
\* Properties

\* What u paid in the payments of S, as their notices say.
PaidBy(u, S) ==
    LET own == {d \in S : notices[d] # None /\ notices[d].user = u}
    IN  SumFunction([d \in own |-> notices[d].amount])

\* What is known of the payments outside: a notice is acknowledged only if it was
\* sent, and an accepted create is one that could be made.
ApiTypeOK ==
    /\ StoreTypeOK
    /\ LimiterTypeOK
    /\ env \in Environments
    /\ notices \in [Dues -> Notices \cup {None}]
    /\ acked \subseteq {d \in Dues : notices[d] # None}
    /\ accepted \subseteq [user : Users, key : Keys, request : Requests, gen : GenIds]

\* Nobody is credited more than was paid, however often a notice comes; and the
\* money of every payment that was acknowledged is there, unless the sender gave
\* no event id, which production refuses (payment_webhook).  Without ids two
\* payments of one amount are one.
PaymentsCredited ==
    \A u \in Users :
        /\ CreditedTo(u) <= PaidBy(u, Dues)
        /\ PaidBy(u, {d \in acked : env = "production" \/ Identified(notices[d])})
              <= CreditedTo(u)

\* However often a create is repeated, refused or answered in vain, all its 202
\* answers name one generation, and that is the generation that was asked for.
AcceptedOnce ==
    \A x, y \in accepted :
        /\ Exists(x.gen)
        /\ gens[x.gen].user = x.user /\ gens[x.gen].key = x.key
        /\ gens[x.gen].request = x.request
        /\ x.user = y.user /\ x.key = y.key => x = y

=============================================================================
