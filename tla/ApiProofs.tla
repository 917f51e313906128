------------------------------ MODULE ApiProofs ------------------------------
(***************************************************************************)
(* Proofs about Api for every value of its constants: the routes keep to   *)
(* the transactions of GenerationStore and to the steps of RateLimiter, so *)
(* what is proved of those holds here; repeated creates agree, and what is *)
(* credited was paid.                                                      *)
(***************************************************************************)
EXTENDS Api, GenerationStoreProofs, RateLimiterProofs

-----------------------------------------------------------------------------
\* The inductive invariant

\* A notice names a user, an amount and the id of its own payment, if any.
NoticeShapes ==
    /\ notices \in [Dues -> Notices \cup {None}]
    /\ \A d \in Dues : notices[d] # None =>
          \E place \in Places(d) :
             notices[d].header = place[1] /\ notices[d].body = place[2]

\* The row of an accepted create is the one that was asked for.
Answered(x) ==
    /\ Exists(x.gen)
    /\ gens[x.gen].user = x.user /\ gens[x.gen].key = x.key
    /\ gens[x.gen].request = x.request

Accepts == [user : Users, key : Keys, request : Requests, gen : GenIds]

ApiInv ==
    /\ StoreInv
    /\ NoticeShapes
    /\ env \in Environments
    /\ acked \subseteq {d \in Dues : notices[d] # None}
    /\ accepted \subseteq Accepts
    /\ \A x \in accepted : Answered(x)

-----------------------------------------------------------------------------
\* Every route is a step of the tables and of the limiter

LEMMA ExternalIds ==
    ASSUME NoticeShapes, NEW d \in Dues, notices[d] # None
    PROVE  /\ notices[d].user \in Users /\ notices[d].amount \in Amounts
           /\ ~Mismatch(notices[d]) => ExternalId(notices[d]) \in PaymentIds
<1> DEFINE n == notices[d]
<1>1. n \in Notices /\ n.user \in Users /\ n.amount \in Amounts
  BY DEF NoticeShapes, Notices
<1>2. PICK place \in Places(d) : n.header = place[1] /\ n.body = place[2]
  BY DEF NoticeShapes
<1>3. \/ n.header = None /\ n.body = None
      \/ n.header = d /\ n.body \in {None, d, "other"}
      \/ n.header = None /\ n.body = d
  BY <1>2 DEF Places
<1>4. d # None /\ d \in PaymentIds /\ Fingerprint(n.user, n.amount) \in PaymentIds
  BY <1>1, ApiAssumption
<1> HIDE DEF n
<1>5. ExternalId(n) \in PaymentIds
  BY <1>3, <1>4 DEF ExternalId
<1> QED BY <1>1, <1>5 DEF n

LEMMA PaymentStep ==
    ASSUME NoticeShapes, NEW d \in Dues, PaymentWebhook(d)
    PROVE  [ClientStep]_storeVars
<1> DEFINE n == notices[d]
<1>1. n # None /\ ~Mismatch(n)
  BY DEF PaymentWebhook, Admissible
<1>2. ApplyCredit(ExternalId(n), n.user, n.amount) \/ UNCHANGED storeVars
  BY DEF PaymentWebhook
<1>3. n.user \in Users /\ n.amount \in Amounts /\ ExternalId(n) \in PaymentIds
  BY <1>1, ExternalIds
<1> HIDE DEF n
<1> QED BY <1>2, <1>3 DEF ClientStep

LEMMA CreateStep ==
    ASSUME NEW u \in Users, NEW k \in Keys, NEW r \in Requests, StartGeneration(u, k, r)
    PROVE  [ClientStep]_storeVars
BY DEF StartGeneration, ClientStep

LEMMA RouteIsStoreStep == NoticeShapes /\ [ApiNext]_allVars => [StoreNext]_storeVars
<1> SUFFICES ASSUME NoticeShapes, [ApiNext]_allVars PROVE [StoreNext]_storeVars
  OBVIOUS
<1>1. ASSUME NEW u \in Users, Register(u) PROVE [ClientStep]_storeVars
  BY <1>1 DEF Register, ClientStep
<1>2. ASSUME NEW u \in Users, OtherCall(u) \/ TooManyRequests(u) PROVE UNCHANGED storeVars
  BY <1>2 DEF OtherCall, TooManyRequests
<1>3. ASSUME NEW d \in Dues, Pay(d) PROVE UNCHANGED storeVars
  BY <1>3 DEF Pay
<1>4. ASSUME LimiterEnvironment PROVE UNCHANGED storeVars
  BY <1>4 DEF LimiterEnvironment
<1>5. ASSUME UNCHANGED allVars PROVE UNCHANGED storeVars
  BY <1>5 DEF allVars
<1>6. [ClientStep]_storeVars
  BY <1>1, <1>2, <1>3, <1>4, <1>5, PaymentStep, CreateStep DEF ApiNext
<1> QED BY <1>6 DEF StoreNext

LEMMA RouteIsLimiterStep == [ApiNext]_allVars => [LimiterNext]_limiterVars
<1> SUFFICES ASSUME [ApiNext]_allVars PROVE [LimiterNext]_limiterVars
  OBVIOUS
<1>0. Users = Callers
  BY ApiAssumption
<1>1. ASSUME NEW u \in Users, Register(u) \/ OtherCall(u) \/ TooManyRequests(u)
      PROVE  [LimiterNext]_limiterVars
  BY <1>0, <1>1 DEF Register, OtherCall, TooManyRequests, LimiterNext, LimiterStep
<1>2. ASSUME NEW d \in Dues, Pay(d) \/ PaymentWebhook(d) PROVE UNCHANGED limiterVars
  BY <1>2 DEF Pay, PaymentWebhook
<1>3. ASSUME NEW u \in Users, NEW k \in Keys, NEW r \in Requests, StartGeneration(u, k, r)
      PROVE  LimiterNext
  BY <1>0, <1>3 DEF StartGeneration, LimiterNext, LimiterStep
<1>4. ASSUME LimiterEnvironment PROVE LimiterNext
  BY <1>0, <1>4 DEF LimiterEnvironment, LimiterNext, LimiterStep
<1>5. ASSUME UNCHANGED allVars PROVE UNCHANGED limiterVars
  BY <1>5 DEF allVars
<1> QED BY <1>1, <1>2, <1>3, <1>4, <1>5 DEF ApiNext

-----------------------------------------------------------------------------
\* The routes preserve the invariant

\* The routes leave the rows alone, or add one.
LEMMA RowsStay ==
    ASSUME NEW x \in Accepts, Answered(x),
           \/ gens' = gens
           \/ \E g \in GenIds, u \in Users, k \in Keys, r \in Requests, c \in Costs :
                 StoreTypeOK /\ CreateAndCharge(g, u, k, r, c)
    PROVE  Answered(x)'
<1>1. x.gen \in GenIds
  BY DEF Accepts
<1>2. gens'[x.gen] = gens[x.gen]
  BY <1>1 DEF Answered, CreateAndCharge, StoreTypeOK
<1> QED BY <1>2 DEF Answered, Exists

LEMMA CreateAnswers ==
    ASSUME ApiInv, NEW u \in Users, NEW k \in Keys, NEW r \in Requests,
           StartGeneration(u, k, r)
    PROVE  accepted' \subseteq Accepts /\ \A x \in accepted' : Answered(x)'
<1>1. PICK g \in GenIds :
        /\ \/ \E c \in Costs : CreateAndCharge(g, u, k, r, c)
           \/ g \in Answers(u, k, r) /\ UNCHANGED storeVars
        /\ accepted' \in
             {accepted,
              accepted \cup {[user |-> u, key |-> k, request |-> r, gen |-> g]}}
  BY DEF StartGeneration
<1> DEFINE x == [user |-> u, key |-> k, request |-> r, gen |-> g]
<1>2. x \in Accepts /\ x.user = u /\ x.key = k /\ x.request = r /\ x.gen = g
  BY DEF Accepts
<1>3. StoreTypeOK
  BY DEF ApiInv, StoreInv
<1>4. /\ Exists(g)'
      /\ gens'[g].user = u /\ gens'[g].key = k /\ gens'[g].request = r
  <2>1. ASSUME NEW c \in Costs, CreateAndCharge(g, u, k, r, c)
        PROVE  gens'[g] = NewRow(u, k, r, c)
    BY <1>3, <2>1 DEF CreateAndCharge, StoreTypeOK
  <2>2. ASSUME NEW c \in Costs
        PROVE  /\ NewRow(u, k, r, c) # None
               /\ NewRow(u, k, r, c).user = u /\ NewRow(u, k, r, c).key = k
               /\ NewRow(u, k, r, c).request = r
    <3>1. NewRow(u, k, r, c) \in Rows
      BY NewRowFacts
    <3> QED BY <3>1, StoreAssumption DEF NewRow
  <2>3. CASE \E c \in Costs : CreateAndCharge(g, u, k, r, c)
    BY <2>1, <2>2, <2>3 DEF Exists
  <2>4. CASE g \in Answers(u, k, r) /\ UNCHANGED storeVars
    BY <2>4 DEF Answers, SameRequest, Exists, storeVars
  <2> QED BY <1>1, <2>3, <2>4
<1>5. Answered(x)'
  BY <1>2, <1>4 DEF Answered
<1>6. ASSUME NEW y \in accepted PROVE y \in Accepts /\ Answered(y)'
  <2>1. y \in Accepts /\ Answered(y)
    BY DEF ApiInv
  <2>2. \/ gens' = gens
        \/ \E c \in Costs : CreateAndCharge(g, u, k, r, c)
    BY <1>1 DEF storeVars
  <2> QED BY <1>3, <2>1, <2>2, RowsStay
<1> HIDE DEF x
<1>7. accepted' \in {accepted, accepted \cup {x}}
  BY <1>1 DEF x
<1> QED BY <1>2, <1>5, <1>6, <1>7

LEMMA PayKeeps ==
    ASSUME ApiInv, NEW d \in Dues, Pay(d)
    PROVE  ApiInv'
<1>1. PICK u \in registered, a \in Amounts, place \in Places(d) :
        notices' = [notices EXCEPT ![d] =
             [user |-> u, amount |-> a, header |-> place[1], body |-> place[2]]]
  BY DEF Pay
<1> DEFINE n == [user |-> u, amount |-> a, header |-> place[1], body |-> place[2]]
<1>2. /\ notices[d] = None
      /\ UNCHANGED <<storeVars, env, acked, accepted>>
  BY DEF Pay
<1>3. u \in Users
  BY DEF ApiInv, StoreInv, StoreTypeOK
<1>4. place[1] \in Dues \cup {None} /\ place[2] \in Dues \cup {None, "other"}
  BY DEF Places
<1>5. n \in Notices /\ n # None /\ n.header = place[1] /\ n.body = place[2]
  BY <1>3, <1>4, ApiAssumption DEF Notices
<1> HIDE DEF n
<1>6. notices' = [notices EXCEPT ![d] = n]
  BY <1>1 DEF n
<1>7. NoticeShapes'
  BY <1>5, <1>6 DEF ApiInv, NoticeShapes
<1>8. acked' \subseteq {e \in Dues : notices'[e] # None}
  BY <1>2, <1>5, <1>6 DEF ApiInv, NoticeShapes
<1>9. StoreInv' /\ env' \in Environments
  BY <1>2, StepPreserves DEF ApiInv
<1>10. gens' = gens /\ accepted' = accepted
  BY <1>2 DEF storeVars
<1>11. accepted' \subseteq Accepts /\ \A x \in accepted' : Answered(x)'
  BY <1>10, RowsStay DEF ApiInv
<1> QED BY <1>7, <1>8, <1>9, <1>11 DEF ApiInv

\* The other routes leave the notices alone; these two answer.
LEMMA ApiInductive == ApiInv /\ [ApiNext]_allVars => ApiInv'
<1> SUFFICES ASSUME ApiInv, [ApiNext]_allVars PROVE ApiInv'
  OBVIOUS
<1>1. StoreInv'
  BY RouteIsStoreStep, StepPreserves DEF ApiInv
<1>2. CASE UNCHANGED <<notices, env>> /\ gens' = gens /\ UNCHANGED accepted
           /\ acked' \subseteq {d \in Dues : notices[d] # None}
  <2>1. NoticeShapes' /\ env' \in Environments
    BY <1>2 DEF ApiInv, NoticeShapes
  <2>2. acked' \subseteq {d \in Dues : notices'[d] # None}
    BY <1>2
  <2>3. accepted' \subseteq Accepts /\ \A x \in accepted' : Answered(x)'
    BY <1>2, RowsStay DEF ApiInv
  <2> QED BY <1>1, <2>1, <2>2, <2>3 DEF ApiInv
<1>3. ASSUME NEW u \in Users, Register(u) \/ OtherCall(u) \/ TooManyRequests(u)
      PROVE  ApiInv'
  <2>1. UNCHANGED apiVars /\ gens' = gens
    BY <1>3 DEF Register, RegisterUser, OtherCall, TooManyRequests, storeVars
  <2> QED BY <1>2, <2>1 DEF apiVars, ApiInv
<1>4. ASSUME NEW d \in Dues, PaymentWebhook(d) PROVE ApiInv'
  <2>1. /\ UNCHANGED <<notices, env, accepted>> /\ gens' = gens
        /\ notices[d] # None /\ acked' \in {acked, acked \cup {d}}
    BY <1>4 DEF PaymentWebhook, ApplyCredit, storeVars
  <2>2. acked' \subseteq {e \in Dues : notices[e] # None}
    BY <2>1 DEF ApiInv
  <2> QED BY <1>2, <2>1, <2>2
<1>5. ASSUME NEW u \in Users, NEW k \in Keys, NEW r \in Requests, StartGeneration(u, k, r)
      PROVE  ApiInv'
  <2>1. UNCHANGED <<env, notices, acked>>
    BY <1>5 DEF StartGeneration
  <2>2. NoticeShapes' /\ env' \in Environments
        /\ acked' \subseteq {d \in Dues : notices'[d] # None}
    BY <2>1 DEF ApiInv, NoticeShapes
  <2>3. accepted' \subseteq Accepts /\ \A x \in accepted' : Answered(x)'
    BY <1>5, CreateAnswers
  <2> QED BY <1>1, <2>2, <2>3 DEF ApiInv
<1>6. CASE LimiterEnvironment \/ UNCHANGED allVars
  <2>1. UNCHANGED apiVars /\ gens' = gens
    BY <1>6 DEF LimiterEnvironment, allVars, storeVars
  <2> QED BY <1>2, <2>1 DEF apiVars, ApiInv
<1> QED BY <1>3, <1>4, <1>5, <1>6, PayKeeps DEF ApiNext

LEMMA ApiInitEstablishes == ApiInit => ApiInv
<1> SUFFICES ASSUME ApiInit PROVE ApiInv
  OBVIOUS
<1>1. StoreInv
  BY InitEstablishes DEF ApiInit
<1>2. NoticeShapes
  BY DEF ApiInit, NoticeShapes
<1> QED BY <1>1, <1>2 DEF ApiInit, ApiInv

-----------------------------------------------------------------------------
\* The theorems

\* Every acknowledged notice was sent, and every accepted create has its row.
THEOREM ApiInvariant == ApiSpec => []ApiInv
BY ApiInitEstablishes, ApiInductive, PTL DEF ApiSpec

\* Every route is a transaction on the tables or leaves them alone, so whatever is
\* proved of the tables holds behind the routes.
THEOREM ApiImplementsStore == ApiSpec => StoreSpec
<1>1. ApiInit => StoreInit
  BY DEF ApiInit
<1>2. ApiInv /\ [ApiNext]_allVars => [StoreNext]_storeVars
  BY RouteIsStoreStep DEF ApiInv
<1> QED BY <1>1, <1>2, ApiInvariant, PTL DEF ApiSpec, StoreSpec

\* Every call is one step of the limiter at most.
THEOREM ApiImplementsLimiter == ApiSpec => LimiterSpec
<1>1. ApiInit => LimiterInit
  BY DEF ApiInit
<1> QED BY <1>1, RouteIsLimiterStep, PTL DEF ApiSpec, LimiterSpec

\* The tables, the keys in Redis, the notices and the answers have their shapes.
THEOREM ApiTypeCorrect == ApiSpec => []ApiTypeOK
<1>1. ApiInv /\ LimiterInv => ApiTypeOK
  BY DEF ApiInv, LimiterInv, ApiTypeOK, StoreInv, NoticeShapes, Accepts
<1>2. ApiSpec => []LimiterInv
  BY ApiImplementsLimiter, LimiterInvariant, PTL
<1> QED BY <1>1, <1>2, ApiInvariant, PTL

\* Two accepted creates of one user and key name one row, by the unique key of the
\* tables, and so one request.
LEMMA InvGivesOnce == ApiInv => AcceptedOnce
<1> SUFFICES ASSUME ApiInv, NEW x \in accepted, NEW y \in accepted
             PROVE  /\ Answered(x)
                    /\ x.user = y.user /\ x.key = y.key => x = y
  BY DEF AcceptedOnce, Answered
<1>1. x \in Accepts /\ y \in Accepts /\ Answered(x) /\ Answered(y)
  BY DEF ApiInv
<1>2. ASSUME x.user = y.user, x.key = y.key PROVE x = y
  <2>1. x.gen \in GenIds /\ y.gen \in GenIds
    BY <1>1 DEF Accepts
  <2>2. x.gen = y.gen
    BY <1>1, <1>2, <2>1 DEF ApiInv, StoreInv, OneOrderPerKey, Answered
  <2>3. x.request = y.request
    BY <1>1, <2>2 DEF Answered
  <2> QED BY <1>1, <1>2, <2>2, <2>3 DEF Accepts
<1> QED BY <1>1, <1>2

\* However often a create is repeated, its 202 answers name one generation.
THEOREM CreatesAgree == ApiSpec => []AcceptedOnce
BY ApiInvariant, InvGivesOnce, PTL

\* The limiter keeps its promises to the callers of the routes.
THEOREM RoutesAreLimited == ApiSpec => [](BurstBounded /\ RetryAfterIsEnough)
BY ApiImplementsLimiter, BurstsAreBounded, RetryAfterSuffices, PTL
-----------------------------------------------------------------------------
\* Payments.  Every credited event is some payment that really happened, with its
\* data, and an acknowledged payment is credited under its external id.

Sent == {d \in Dues : notices[d] # None}

DataOf(n) == [user |-> n.user, amount |-> n.amount]

\* d is the payment that is credited under p.
Backs(d, p) == ExternalId(notices[d]) = p /\ payments[p] = DataOf(notices[d])

PaymentInv ==
    /\ ApiInv
    /\ IsFiniteSet(Recorded) /\ IsFiniteSet(Sent)
    /\ \A p \in Recorded : \E d \in Sent : Backs(d, p)
    /\ \A d \in acked : /\ Admissible(notices[d])
                        /\ payments[ExternalId(notices[d])] = DataOf(notices[d])

LEMMA DataFacts ==
    ASSUME NoticeShapes, NEW d \in Dues, notices[d] # None
    PROVE  /\ DataOf(notices[d]) \in Payments /\ DataOf(notices[d]) # None
           /\ DataOf(notices[d]).user = notices[d].user
           /\ DataOf(notices[d]).amount = notices[d].amount
<1>1. notices[d].user \in Users /\ notices[d].amount \in Amounts
  BY ExternalIds
<1>2. DataOf(notices[d]) \in Payments
  BY <1>1 DEF DataOf, Payments
<1> QED BY <1>2, StoreAssumption DEF DataOf

\* Two notices that name an event name different ones.
LEMMA NamesItself ==
    ASSUME NoticeShapes, NEW d \in Dues, notices[d] # None,
           ~Mismatch(notices[d]), Identified(notices[d])
    PROVE  ExternalId(notices[d]) = d
<1>1. PICK place \in Places(d) : notices[d].header = place[1] /\ notices[d].body = place[2]
  BY DEF NoticeShapes
<1>2. d # None /\ d # "other"
  BY ApiAssumption
<1> QED BY <1>1, <1>2 DEF Places, Mismatch, Identified, ExternalId

\* A step that keeps what was sent and credited and acknowledges nothing more.
LEMMA PaymentsStay ==
    ASSUME PaymentInv, ApiInv', payments' = payments, notices' = notices,
           env' = env, acked' \subseteq acked
    PROVE  PaymentInv'
<1>1. Recorded' = Recorded /\ Sent' = Sent
  BY DEF Recorded, Sent
<1>2. \A p \in Recorded : \E d \in Sent : Backs(d, p)'
  BY DEF PaymentInv, Backs, ExternalId, DataOf
<1>3. \A d \in acked' : /\ Admissible(notices[d])'
                        /\ payments'[ExternalId(notices'[d])] = DataOf(notices'[d])
  BY DEF PaymentInv, Admissible, MayBeAnonymous
<1> QED BY <1>1, <1>2, <1>3 DEF PaymentInv

LEMMA PaySends ==
    ASSUME PaymentInv, ApiInv', NEW d \in Dues, Pay(d)
    PROVE  PaymentInv'
<1>1. /\ notices[d] = None /\ payments' = payments /\ env' = env /\ acked' = acked
      /\ \A e \in Dues : e # d => notices'[e] = notices[e]
      /\ acked \subseteq Sent
  BY DEF Pay, storeVars, PaymentInv, ApiInv, NoticeShapes, Sent
<1>2. Recorded' = Recorded
  BY <1>1 DEF Recorded
<1>3. Sent \subseteq Sent' /\ Sent' \subseteq Sent \cup {d}
  BY <1>1 DEF Sent
<1>4. IsFiniteSet(Sent')
  BY <1>3, FS_AddElement, FS_Subset DEF PaymentInv
<1>5. \A e \in Sent : e \in Dues /\ notices'[e] = notices[e]
  BY <1>1 DEF Sent
<1>6. ASSUME NEW p \in Recorded PROVE \E e \in Sent' : Backs(e, p)'
  <2>1. PICK e \in Sent : Backs(e, p)
    BY DEF PaymentInv
  <2>2. e \in Sent' /\ notices'[e] = notices[e]
    BY <1>3, <1>5
  <2>3. Backs(e, p)'
    BY <1>1, <2>1, <2>2 DEF Backs
  <2> QED BY <2>2, <2>3
<1>7. \A e \in acked' : /\ Admissible(notices[e])'
                        /\ payments'[ExternalId(notices'[e])] = DataOf(notices'[e])
  BY <1>1, <1>5 DEF PaymentInv, Admissible, MayBeAnonymous
<1> QED BY <1>2, <1>4, <1>6, <1>7 DEF PaymentInv

LEMMA WebhookCredits ==
    ASSUME PaymentInv, ApiInv', NEW d \in Dues, PaymentWebhook(d)
    PROVE  PaymentInv'
<1> DEFINE n == notices[d]
           p == ExternalId(n)
<1>1. /\ n # None /\ Admissible(n)
      /\ \/ ApplyCredit(p, n.user, n.amount)
         \/ Duplicate(n) /\ UNCHANGED storeVars
      /\ acked' \in {acked, acked \cup {d}}
      /\ env' = env /\ notices' = notices
  BY DEF PaymentWebhook
<1>2. d \in Sent /\ Sent' = Sent /\ p \in PaymentIds
  BY <1>1, ExternalIds DEF Sent, PaymentInv, ApiInv, Admissible
<1>3. DataOf(n) # None
  BY <1>1, DataFacts DEF PaymentInv, ApiInv
<1>4. /\ payments'[p] = DataOf(n)
      /\ \A q \in PaymentIds : payments'[q] = payments[q] \/ (q = p /\ payments[p] = None)
  <2>1. CASE ApplyCredit(p, n.user, n.amount)
    <3>1. payments' = [payments EXCEPT ![p] = DataOf(n)] /\ payments[p] = None
      BY <2>1 DEF ApplyCredit, FirstNotice, DataOf
    <3>2. payments \in [PaymentIds -> Payments \cup {None}]
      BY DEF PaymentInv, ApiInv, StoreInv, StoreTypeOK
    <3> HIDE DEF n, p
    <3> QED BY <1>2, <3>1, <3>2
  <2>2. CASE Duplicate(n) /\ UNCHANGED storeVars
    BY <2>2 DEF Duplicate, DataOf, storeVars
  <2> QED BY <1>1, <2>1, <2>2
<1>5. Recorded \subseteq Recorded' /\ Recorded' = Recorded \cup {p}
  BY <1>2, <1>3, <1>4 DEF Recorded
<1>6. IsFiniteSet(Recorded') /\ IsFiniteSet(Sent')
  BY <1>2, <1>5, FS_AddElement DEF PaymentInv
<1>7. ASSUME NEW q \in Recorded' PROVE \E e \in Sent : Backs(e, q)'
  <2>1. CASE q = p
    BY <1>1, <1>2, <1>4, <2>1 DEF Backs, ExternalId, DataOf
  <2>2. CASE q # p
    <3>1. q \in Recorded /\ payments'[q] = payments[q]
      BY <1>4, <1>5, <2>2 DEF Recorded
    <3>2. PICK e \in Sent : Backs(e, q)
      BY <3>1 DEF PaymentInv
    <3> QED BY <1>1, <3>1, <3>2 DEF Backs, ExternalId, DataOf
  <2> QED BY <2>1, <2>2
<1>8. ASSUME NEW e \in acked'
      PROVE  /\ Admissible(notices[e])'
             /\ payments'[ExternalId(notices'[e])] = DataOf(notices'[e])
  <2>1. Admissible(notices[e])
    BY <1>1 DEF PaymentInv
  <2>2. Admissible(notices[e])'
    BY <1>1, <2>1 DEF Admissible, MayBeAnonymous
  <2>3. payments'[ExternalId(notices[e])] = DataOf(notices[e])
    <3>1. CASE e = d
      BY <1>4, <3>1
    <3>2. CASE e # d
      <4>1. e \in acked /\ payments[ExternalId(notices[e])] = DataOf(notices[e])
        BY <1>1, <3>2 DEF PaymentInv
      <4>2. e \in Dues /\ notices[e] # None
        BY <4>1 DEF PaymentInv, ApiInv
      <4>3. ExternalId(notices[e]) \in PaymentIds /\ DataOf(notices[e]) # None
        BY <2>1, <4>2, ExternalIds, DataFacts DEF PaymentInv, ApiInv, Admissible
      <4> QED BY <1>4, <4>1, <4>3
    <3> QED BY <3>1, <3>2
  <2> QED BY <1>1, <2>2, <2>3
<1> QED BY <1>2, <1>6, <1>7, <1>8 DEF PaymentInv

LEMMA PaymentInductive == PaymentInv /\ [ApiNext]_allVars => PaymentInv'
<1> SUFFICES ASSUME PaymentInv, [ApiNext]_allVars PROVE PaymentInv'
  OBVIOUS
<1>1. ApiInv'
  BY ApiInductive DEF PaymentInv
<1>2. ASSUME NEW u \in Users, Register(u) \/ OtherCall(u) \/ TooManyRequests(u)
      PROVE  PaymentInv'
  BY <1>1, <1>2, PaymentsStay
     DEF Register, RegisterUser, OtherCall, TooManyRequests, storeVars, apiVars
<1>3. ASSUME NEW u \in Users, NEW k \in Keys, NEW r \in Requests, StartGeneration(u, k, r)
      PROVE  PaymentInv'
  <2>1. payments' = payments /\ env' = env /\ notices' = notices /\ acked' = acked
    BY <1>3 DEF StartGeneration, CreateAndCharge, storeVars
  <2> QED BY <1>1, <2>1, PaymentsStay
<1>4. CASE LimiterEnvironment \/ UNCHANGED allVars
  BY <1>1, <1>4, PaymentsStay DEF LimiterEnvironment, allVars, storeVars, apiVars
<1> QED BY <1>1, <1>2, <1>3, <1>4, PaySends, WebhookCredits DEF ApiNext

LEMMA PaymentInit == ApiInit => PaymentInv
<1> SUFFICES ASSUME ApiInit PROVE PaymentInv
  OBVIOUS
<1>1. Recorded = {} /\ Sent = {} /\ acked = {}
  BY DEF ApiInit, StoreInit, Recorded, Sent
<1> QED BY <1>1, ApiInitEstablishes, FS_EmptySet DEF PaymentInv

LEMMA InvGivesCredited == PaymentInv => PaymentsCredited
<1> SUFFICES ASSUME PaymentInv, NEW u \in Users
             PROVE  /\ CreditedTo(u) <= PaidBy(u, Dues)
                    /\ PaidBy(u, {d \in acked : env = "production" \/ Identified(notices[d])})
                          <= CreditedTo(u)
  BY DEF PaymentsCredited
<1> DEFINE own(S) == {d \in S : notices[d] # None /\ notices[d].user = u}
           paid(S) == [d \in own(S) |-> notices[d].amount]
           sure == {d \in acked : env = "production" \/ Identified(notices[d])}
           credits == [p \in Credits(u) |-> payments[p].amount]
<1>1. StoreTypeOK /\ NoticeShapes /\ acked \subseteq Sent
  BY DEF PaymentInv, ApiInv, StoreInv, Sent
<1>2. IsFiniteSet(Credits(u)) /\ credits \in [Credits(u) -> Nat]
  BY <1>1, CreditsTyped DEF PaymentInv
<1>3. ASSUME NEW S \in SUBSET Dues
      PROVE  IsFiniteSet(own(S)) /\ paid(S) \in [own(S) -> Nat]
  <2>1. own(S) \in SUBSET Sent
    BY DEF Sent
  <2>2. IsFiniteSet(own(S))
    BY <2>1, FS_Subset DEF PaymentInv
  <2>3. ASSUME NEW d \in own(S) PROVE notices[d].amount \in Nat
    BY <1>1, ExternalIds, StoreAssumption
  <2> QED BY <2>2, <2>3
<1>4. /\ CreditedTo(u) = SumFunction(credits)
      /\ \A S : PaidBy(u, S) = SumFunction(paid(S))
  BY DEF CreditedTo, PaidBy
<1>5. SumFunction(credits) <= SumFunction(paid(Dues))
  <2> DEFINE f == [p \in Credits(u) |-> CHOOSE d \in Sent : Backs(d, p)]
  <2>1. ASSUME NEW p \in Credits(u)
        PROVE  f[p] \in Sent /\ Backs(f[p], p)
    BY DEF PaymentInv, Credits, Recorded
  <2> HIDE DEF f
  <2>2. ASSUME NEW p \in Credits(u)
        PROVE  /\ f[p] \in own(Dues) /\ ExternalId(notices[f[p]]) = p
               /\ credits[p] = paid(Dues)[f[p]]
    <3>1. f[p] \in Dues /\ notices[f[p]] # None
      BY <2>1 DEF Sent
    <3>2. payments[p].user = notices[f[p]].user /\ payments[p].amount = notices[f[p]].amount
      BY <1>1, <2>1, <3>1, DataFacts DEF Backs
    <3>3. payments[p].user = u
      BY DEF Credits
    <3> QED BY <2>1, <3>1, <3>2, <3>3 DEF Backs
  <2>3. IsFiniteSet(own(Dues)) /\ paid(Dues) \in [own(Dues) -> Nat]
    BY <1>3
  <2> HIDE DEF own, paid, credits
  <2>4. \A p \in Credits(u) : f[p] \in own(Dues) /\ credits[p] <= paid(Dues)[f[p]]
    BY <1>2, <2>2, <2>3
  <2>5. \A p, q \in Credits(u) : f[p] = f[q] => p = q
    BY <2>2
  <2> QED BY <1>2, <2>3, <2>4, <2>5, TotalMatched
<1>6. SumFunction(paid(sure)) <= SumFunction(credits)
  <2> DEFINE f == [d \in own(sure) |-> ExternalId(notices[d])]
  <2>1. ASSUME NEW d \in own(sure)
        PROVE  /\ f[d] \in Credits(u) /\ f[d] = d
               /\ paid(sure)[d] = credits[f[d]]
    <3>1. /\ d \in acked /\ d \in Dues /\ notices[d] # None /\ notices[d].user = u
          /\ Admissible(notices[d])
          /\ payments[f[d]] = DataOf(notices[d])
      BY <1>1 DEF PaymentInv, Sent
    <3>2. Identified(notices[d]) /\ ~Mismatch(notices[d])
      BY <3>1 DEF Admissible, MayBeAnonymous
    <3>3. f[d] = d /\ f[d] \in PaymentIds
      BY <1>1, <3>1, <3>2, NamesItself, ExternalIds
    <3>4. /\ payments[f[d]] # None
          /\ payments[f[d]].user = u /\ payments[f[d]].amount = notices[d].amount
      BY <1>1, <3>1, DataFacts
    <3>5. f[d] \in Credits(u)
      BY <3>3, <3>4 DEF Credits
    <3> HIDE DEF f
    <3> QED BY <3>3, <3>4, <3>5
  <2>2. sure \in SUBSET Dues
    BY <1>1 DEF Sent
  <2>3. IsFiniteSet(own(sure)) /\ paid(sure) \in [own(sure) -> Nat]
    BY <1>3, <2>2
  <2> HIDE DEF own, paid, credits, f, sure
  <2>4. \A d \in own(sure) : f[d] \in Credits(u) /\ paid(sure)[d] <= credits[f[d]]
    BY <1>2, <2>1, <2>3
  <2>5. \A d, e \in own(sure) : f[d] = f[e] => d = e
    BY <2>1
  <2> QED BY <1>2, <2>3, <2>4, <2>5, TotalMatched
<1> QED BY <1>4, <1>5, <1>6

\* For all constants: however often and in whatever order notices come, nobody is
\* credited more than was paid, and the money of an acknowledged payment is there
\* unless its sender named no event outside production.
THEOREM PaymentsAreCredited == ApiSpec => []PaymentsCredited
BY PaymentInit, PaymentInductive, InvGivesCredited, PTL DEF ApiSpec

\* Behind the routes, too, no money appears or is lost.
THEOREM RoutesConserveMoney == ApiSpec => []MoneyConserved
BY ApiImplementsStore, MoneyIsConserved, PTL
=============================================================================
