------------------------ MODULE GenerationStoreProofs ------------------------
(***************************************************************************)
(* Proofs about GenerationStore for every value of its constants: its type *)
(* and row invariants, and that a finished row never changes.              *)
(*                                                                         *)
(* Every step but CreateAndCharge changes rows in one of a few legal ways  *)
(* and the side tables follow them: that is Evolution below.  The proofs   *)
(* show once that an Evolution preserves the invariant and leaves finished *)
(* rows alone, and then, action by action, that each action is one.        *)
(***************************************************************************)
EXTENDS GenerationStore, Sums, TLAPS

-----------------------------------------------------------------------------
\* Rows

SameOrder(new, old) ==
    /\ new.user = old.user /\ new.key = old.key
    /\ new.request = old.request /\ new.cost = old.cost

RowCoherent(row) ==
    /\ row.token # 0 <=> row.status = "processing"
    /\ row.lease # "none" <=> row.status = "processing"
    /\ row.token # 0 => row.token = row.attempts
    /\ row.refunded <=> row.status = "failed"
    /\ row.result # None <=> row.status = "completed"

RowAfter(new, old) == new \in Rows /\ SameOrder(new, old) /\ RowCoherent(new)

LEMMA ZeroIsToken == 0 \in Tokens /\ \A r \in Claims : r \in Tokens /\ r # 0
  BY StoreAssumption DEF Tokens, Claims

LEMMA NewRowFacts ==
    ASSUME NEW u \in Users, NEW k \in Keys, NEW r \in Requests, NEW c \in Costs
    PROVE  /\ NewRow(u, k, r, c) \in Rows /\ RowCoherent(NewRow(u, k, r, c))
           /\ NewRow(u, k, r, c).user = u /\ NewRow(u, k, r, c).key = k
           /\ NewRow(u, k, r, c).cost = c
           /\ NewRow(u, k, r, c).status = "created"
  BY ZeroIsToken DEF NewRow, Rows, Statuses, RowCoherent

LEMMA ClaimedFacts ==
    ASSUME NEW row \in Rows, RowCoherent(row),
           row.attempts < MaxClaims, row.status \notin Terminal
    PROVE  RowAfter(Claimed(row), row) /\ Claimed(row).status = "processing"
<1>1. row.attempts \in Tokens /\ row.attempts + 1 \in Tokens
  BY StoreAssumption DEF Rows, Tokens
<1>2. Claimed(row) \in Rows
  BY <1>1 DEF Claimed, Rows, Statuses
<1>3. RowCoherent(Claimed(row)) /\ Claimed(row).status = "processing"
  BY <1>1 DEF Claimed, Rows, RowCoherent, Terminal, Tokens
<1>4. SameOrder(Claimed(row), row)
  BY DEF Claimed, Rows, SameOrder
<1> QED BY <1>2, <1>3, <1>4 DEF RowAfter

LEMMA SubmittedFacts ==
    ASSUME NEW row \in Rows, RowCoherent(row), NEW p \in Providers, NEW r \in Claims
    PROVE  /\ RowAfter(Submitted(row, p, r), row)
           /\ Submitted(row, p, r).status = row.status
<1>1. Submitted(row, p, r) \in Rows
  BY ZeroIsToken DEF Submitted, Rows
<1> QED BY <1>1 DEF Submitted, Rows, RowCoherent, RowAfter, SameOrder

LEMMA CompletedFacts ==
    ASSUME NEW row \in Rows, RowCoherent(row), row.status = "processing",
           NEW a \in ProviderRequests
    PROVE  /\ RowAfter(Completed(row, a), row)
           /\ Completed(row, a).status = "completed"
<1>1. 0 \in Tokens /\ a # None /\ a[1] \in Providers
  BY ZeroIsToken, StoreAssumption DEF ProviderRequests
<1>2. Completed(row, a) \in Rows
  BY <1>1 DEF Completed, Rows, Statuses
<1> QED BY <1>1, <1>2 DEF Completed, Rows, RowCoherent, RowAfter, SameOrder

LEMMA ReleasedFacts ==
    ASSUME NEW row \in Rows, RowCoherent(row), row.status = "processing"
    PROVE  RowAfter(Released(row), row) /\ Released(row).status = "queued"
<1>1. Released(row) \in Rows
  BY ZeroIsToken DEF Released, Rows, Statuses
<1> QED BY <1>1 DEF Released, Rows, RowCoherent, RowAfter, SameOrder

LEMMA FailedFacts ==
    ASSUME NEW row \in Rows, RowCoherent(row), row.status \notin Terminal
    PROVE  RowAfter(Failed(row), row) /\ Failed(row).status = "failed"
<1>1. Failed(row) \in Rows
  BY ZeroIsToken DEF Failed, Rows, Statuses
<1> QED BY <1>1 DEF Failed, Rows, RowCoherent, RowAfter, SameOrder, Terminal

LEMMA QueuedFacts ==
    ASSUME NEW row \in Rows, RowCoherent(row), row.status = "created"
    PROVE  RowAfter(Queued(row), row) /\ Queued(row).status = "queued"
  BY DEF Queued, Rows, Statuses, RowCoherent, RowAfter, SameOrder

LEMMA ExpiredFacts ==
    ASSUME NEW row \in Rows, RowCoherent(row), row.status = "processing"
    PROVE  RowAfter(Expired(row), row) /\ Expired(row).status = "processing"
  BY DEF Expired, Rows, RowCoherent, RowAfter, SameOrder

LEMMA AgedFacts ==
    ASSUME NEW row \in Rows, RowCoherent(row)
    PROVE  RowAfter(Aged(row), row) /\ Aged(row).status = row.status
  BY DEF Aged, Rows, RowCoherent, RowAfter, SameOrder

-----------------------------------------------------------------------------
\* Steps that evolve rows

Entered(g) == gens'[g] # gens[g] /\ gens'[g].status \in Terminal

RowsEvolve ==
    /\ gens' \in [GenIds -> Rows \cup {None}]
    /\ \A g \in GenIds :
          \/ gens'[g] = gens[g]
          \/ /\ gens[g] # None /\ gens[g].status \notin Terminal
             /\ RowAfter(gens'[g], gens[g]) /\ gens'[g].status # "created"

SideTablesFollow ==
    /\ \A g \in GenIds :
          g \in callbacks' <=>
              (g \in callbacks \/ (Entered(g) /\ gens'[g].request \in WithCallback))
    /\ \A g \in GenIds :
          /\ outbox'[g] = "none" <=> outbox[g] = "none"
          /\ (outbox'[g] # outbox[g] /\ outbox'[g] # "pending")
                => (gens'[g] # None /\ gens'[g].status # "created")

Evolution == StoreTypeOK' /\ RowsEvolve /\ SideTablesFollow

NothingEnds == \A g \in GenIds : ~Entered(g)

LEMMA RowFacts ==
    ASSUME StoreInv, NEW g \in GenIds, Exists(g)
    PROVE  gens[g] \in Rows /\ RowCoherent(gens[g])
  BY DEF StoreInv, StoreTypeOK, ClaimCoherence, SettlementCoherence, Exists, RowCoherent

LEMMA EvolutionPreserves ==
    ASSUME StoreInv, Evolution
    PROVE  StoreInv'
<1> USE StoreAssumption DEF StoreInv, Evolution
<1>1. \A g \in GenIds : gens'[g] # None <=> gens[g] # None
  BY DEF RowsEvolve, RowAfter
<1>2. ASSUME NEW g \in GenIds, gens[g] # None
      PROVE  /\ RowCoherent(gens'[g]) /\ SameOrder(gens'[g], gens[g])
             /\ \/ gens'[g] = gens[g]
                \/ gens[g].status \notin Terminal /\ gens'[g].status # "created"
  <2>1. gens[g] \in Rows /\ RowCoherent(gens[g])
    BY <1>2, RowFacts DEF Exists
  <2>2. CASE gens'[g] = gens[g]
    <3>1. RowCoherent(gens'[g])
      BY <2>1, <2>2, Zenon
    <3> QED BY <3>1, <2>2 DEF SameOrder
  <2>3. CASE gens'[g] # gens[g]
    BY <2>3 DEF RowsEvolve, RowAfter
  <2> QED BY <2>2, <2>3
<1>3. ClaimCoherence'
  BY <1>1, <1>2 DEF ClaimCoherence, Exists, RowCoherent
<1>4. CreatedIsPending'
  BY <1>1, <1>2 DEF CreatedIsPending, Exists, IsStatus, SideTablesFollow
<1>5. SettlementCoherence'
  <2> SUFFICES ASSUME NEW g \in GenIds
      PROVE  /\ (Exists(g) => /\ gens[g].refunded <=> gens[g].status = "failed"
                              /\ gens[g].result # None <=> gens[g].status = "completed")'
             /\ (g \in callbacks <=> /\ Exists(g)
                                     /\ gens[g].status \in Terminal
                                     /\ gens[g].request \in WithCallback)'
    BY DEF SettlementCoherence
  <2>1. (Exists(g) => /\ gens[g].refunded <=> gens[g].status = "failed"
                      /\ gens[g].result # None <=> gens[g].status = "completed")'
    BY <1>1, <1>2 DEF Exists, RowCoherent
  <2>2. CASE gens'[g] = gens[g]
    BY <2>1, <2>2 DEF SettlementCoherence, SideTablesFollow, Entered, Exists
  <2>3. CASE gens'[g] # gens[g]
    BY <2>1, <2>3, <1>1, <1>2
       DEF SettlementCoherence, SideTablesFollow, Entered, Exists, RowsEvolve
  <2> QED BY <2>2, <2>3
<1>6. OneOrderPerKey'
  BY <1>1, <1>2 DEF OneOrderPerKey, Exists, SameOrder
<1> QED BY <1>3, <1>4, <1>5, <1>6

\* A step that replaces one unfinished row by a legal successor.
LEMMA OneRowEvolves ==
    ASSUME StoreInv, NEW g \in GenIds, Exists(g), gens[g].status \notin Terminal,
           NEW row, RowAfter(row, gens[g]), row.status # "created",
           gens' = [gens EXCEPT ![g] = row]
    PROVE  /\ RowsEvolve
           /\ gens'[g] = row
           /\ \A h \in GenIds : h # g => gens'[h] = gens[h]
<1>1. gens \in [GenIds -> Rows \cup {None}] /\ row \in Rows
  BY DEF StoreInv, StoreTypeOK, RowAfter
<1>2. /\ gens' \in [GenIds -> Rows \cup {None}]
      /\ gens'[g] = row
      /\ \A h \in GenIds : h # g => gens'[h] = gens[h]
  BY <1>1
<1> QED BY <1>2, <1>1 DEF RowsEvolve, Exists

-----------------------------------------------------------------------------
\* Every action but CreateAndCharge is an Evolution

LEMMA UsersEvolve ==
    ASSUME StoreInv,
           \/ \E u \in Users : RegisterUser(u)
           \/ \E p \in PaymentIds, u \in Users, a \in Amounts : ApplyCredit(p, u, a)
    PROVE  Evolution
<1>1. gens' = gens /\ outbox' = outbox /\ callbacks' = callbacks
  BY DEF RegisterUser, ApplyCredit
<1>2. RowsEvolve /\ SideTablesFollow
  BY <1>1 DEF StoreInv, StoreTypeOK, RowsEvolve, SideTablesFollow, Entered
<1>3. StoreTypeOK'
  <2>1. CASE \E u \in Users : RegisterUser(u)
    BY <2>1, <1>1 DEF StoreInv, StoreTypeOK, RegisterUser
  <2>2. ASSUME NEW p \in PaymentIds, NEW u \in Users, NEW a \in Amounts,
               ApplyCredit(p, u, a)
        PROVE  StoreTypeOK'
    <3>1. a \in Nat
      BY StoreAssumption
    <3>2. [user |-> u, amount |-> a] \in Payments
      BY DEF Payments
    <3> QED BY <2>2, <3>1, <3>2, <1>1 DEF StoreInv, StoreTypeOK, ApplyCredit
  <2> QED BY <2>1, <2>2
<1> QED BY <1>2, <1>3 DEF Evolution

LEMMA StartProcessingEvolves ==
    ASSUME StoreInv, NEW g \in GenIds, StartProcessing(g)
    PROVE  Evolution /\ NothingEnds
<1>1. Exists(g) /\ gens[g].status \notin Terminal /\ gens[g].attempts < MaxClaims
  BY DEF StartProcessing, MayClaim, IsStatus, Terminal
<1>2. RowAfter(Claimed(gens[g]), gens[g]) /\ Claimed(gens[g]).status = "processing"
  BY <1>1, RowFacts, ClaimedFacts
<1>3. /\ RowsEvolve
      /\ gens'[g].status = "processing" /\ gens'[g].status \notin Terminal
      /\ \A h \in GenIds : h # g => gens'[h] = gens[h]
  BY <1>1, <1>2, OneRowEvolves DEF StartProcessing, Terminal
<1>4. StoreTypeOK'
  BY <1>3 DEF StartProcessing, StoreInv, StoreTypeOK, RowsEvolve
<1>5. SideTablesFollow
  BY <1>3 DEF StartProcessing, SideTablesFollow, Entered
<1>7. NothingEnds
  BY <1>3 DEF NothingEnds, Entered
<1> QED BY <1>3, <1>4, <1>5, <1>7 DEF Evolution

LEMMA SaveProviderRequestEvolves ==
    ASSUME StoreInv, NEW g \in GenIds, NEW t \in Claims, NEW p \in Providers,
           NEW r \in Claims, SaveProviderRequest(g, t, p, r)
    PROVE  Evolution /\ NothingEnds
<1>1. Exists(g) /\ gens[g].status = "processing" /\ gens[g].status \notin Terminal
  BY DEF SaveProviderRequest, MaySave, HoldsClaim, IsStatus, Terminal
<1>2. /\ RowAfter(Submitted(gens[g], p, r), gens[g])
      /\ Submitted(gens[g], p, r).status = "processing"
  BY <1>1, RowFacts, SubmittedFacts
<1>3. /\ RowsEvolve
      /\ gens'[g].status \notin Terminal
      /\ \A h \in GenIds : h # g => gens'[h] = gens[h]
  BY <1>1, <1>2, OneRowEvolves DEF SaveProviderRequest, Terminal
<1>4. StoreTypeOK'
  BY <1>3 DEF SaveProviderRequest, StoreInv, StoreTypeOK, RowsEvolve
<1>5. SideTablesFollow
  BY <1>3 DEF SaveProviderRequest, SideTablesFollow, Entered
<1>7. NothingEnds
  BY <1>3 DEF NothingEnds, Entered
<1> QED BY <1>3, <1>4, <1>5, <1>7 DEF Evolution

LEMMA CompleteEvolves ==
    ASSUME StoreInv, NEW g \in GenIds, NEW t \in Claims, NEW a \in ProviderRequests,
           Complete(g, t, a)
    PROVE  Evolution
<1>1. Exists(g) /\ gens[g].status = "processing" /\ gens[g].status \notin Terminal
  BY DEF Complete, HoldsClaim, IsStatus, Terminal
<1>2. /\ RowAfter(Completed(gens[g], a), gens[g])
      /\ Completed(gens[g], a).status = "completed"
  BY <1>1, RowFacts, CompletedFacts
<1>3. /\ RowsEvolve
      /\ gens'[g].status = "completed" /\ gens'[g].request = gens[g].request
      /\ \A h \in GenIds : h # g => gens'[h] = gens[h]
  BY <1>1, <1>2, OneRowEvolves DEF Complete, RowAfter, SameOrder
<1>4. StoreTypeOK'
  BY <1>3 DEF Complete, StoreInv, StoreTypeOK, RowsEvolve, NewCallback
<1>5. SideTablesFollow
  BY <1>1, <1>3 DEF Complete, SideTablesFollow, Entered, NewCallback, Terminal
<1> QED BY <1>3, <1>4, <1>5 DEF Evolution

LEMMA RequeueEvolves ==
    ASSUME StoreInv, NEW g \in GenIds, NEW t \in Claims, Requeue(g, t)
    PROVE  Evolution /\ NothingEnds
<1>1. Exists(g) /\ gens[g].status = "processing" /\ gens[g].status \notin Terminal
  BY DEF Requeue, HoldsClaim, IsStatus, Terminal
<1>2. RowAfter(Released(gens[g]), gens[g]) /\ Released(gens[g]).status = "queued"
  BY <1>1, RowFacts, ReleasedFacts
<1>3. /\ RowsEvolve
      /\ gens'[g].status \notin Terminal
      /\ \A h \in GenIds : h # g => gens'[h] = gens[h]
  BY <1>1, <1>2, OneRowEvolves DEF Requeue, Terminal
<1>4. StoreTypeOK'
  BY <1>3 DEF Requeue, StoreInv, StoreTypeOK, RowsEvolve
<1>5. SideTablesFollow
  BY <1>3 DEF Requeue, SideTablesFollow, Entered
<1>7. NothingEnds
  BY <1>3 DEF NothingEnds, Entered
<1> QED BY <1>3, <1>4, <1>5, <1>7 DEF Evolution

LEMMA FailAndRefundEvolves ==
    ASSUME StoreInv, NEW g \in GenIds, NEW t \in Claims, FailAndRefund(g, t)
    PROVE  Evolution
<1>1. Exists(g) /\ gens[g].status \notin Terminal
  BY DEF FailAndRefund, MayFail, IsStatus, Terminal
<1>2. RowAfter(Failed(gens[g]), gens[g]) /\ Failed(gens[g]).status = "failed"
  BY <1>1, RowFacts, FailedFacts
<1>3. /\ RowsEvolve
      /\ gens'[g].status = "failed" /\ gens'[g].request = gens[g].request
      /\ \A h \in GenIds : h # g => gens'[h] = gens[h]
  BY <1>1, <1>2, OneRowEvolves DEF FailAndRefund, RowAfter, SameOrder
<1>4. gens[g].user \in Users /\ gens[g].cost \in Nat
  BY <1>1, RowFacts, StoreAssumption DEF Rows
<1>5. StoreTypeOK'
  BY <1>3, <1>4 DEF FailAndRefund, StoreInv, StoreTypeOK, RowsEvolve, NewCallback
<1>6. SideTablesFollow
  BY <1>1, <1>3 DEF FailAndRefund, SideTablesFollow, Entered, NewCallback, Terminal
<1> QED BY <1>3, <1>5, <1>6 DEF Evolution

LEMMA DispatchOutboxEvolves ==
    ASSUME StoreInv, NEW g \in GenIds, DispatchOutbox(g)
    PROVE  Evolution /\ NothingEnds
<1>0. Exists(g)
  BY DEF DispatchOutbox, StoreInv, CreatedIsPending
<1>1. /\ RowsEvolve
      /\ NothingEnds
      /\ gens'[g] # None /\ gens'[g].status # "created"
  <2>1. CASE gens[g].status = "created"
    <3>1. RowAfter(Queued(gens[g]), gens[g]) /\ Queued(gens[g]).status = "queued"
      BY <1>0, <2>1, RowFacts, QueuedFacts
    <3>2. gens' = [gens EXCEPT ![g] = Queued(gens[g])]
      BY <1>0, <2>1 DEF DispatchOutbox, IsStatus
    <3> QED BY <1>0, <2>1, <3>1, <3>2, OneRowEvolves, StoreAssumption
            DEF Terminal, NothingEnds, Entered, RowAfter
  <2>2. CASE gens[g].status # "created"
    <3>1. gens' = gens
      BY <2>2 DEF DispatchOutbox, IsStatus, StoreInv, StoreTypeOK
    <3> QED BY <1>0, <2>2, <3>1 DEF RowsEvolve, NothingEnds, Entered, StoreInv, StoreTypeOK, Exists
  <2> QED BY <2>1, <2>2
<1>2. StoreTypeOK'
  BY <1>1 DEF DispatchOutbox, StoreInv, StoreTypeOK, RowsEvolve
<1>3. SideTablesFollow
  BY <1>1 DEF DispatchOutbox, StoreInv, StoreTypeOK, SideTablesFollow, NothingEnds
<1> QED BY <1>1, <1>2, <1>3 DEF Evolution

LEMMA RecoverStaleEvolves ==
    ASSUME StoreInv, NEW S \in (SUBSET StaleGens) \ {{}}, RecoverStale(S)
    PROVE  Evolution /\ NothingEnds
<1>1. S \subseteq GenIds /\ \A g \in S : Exists(g) /\ gens[g].status \in {"queued", "processing"}
  BY DEF StaleGens, IsStatus
<1>2. ASSUME NEW g \in GenIds
      PROVE  /\ gens'[g] \in Rows \cup {None}
             /\ \/ gens'[g] = gens[g]
                \/ /\ gens[g] # None /\ gens[g].status \notin Terminal
                   /\ RowAfter(gens'[g], gens[g]) /\ gens'[g].status = "queued"
  <2>1. CASE g \in S /\ IsStatus(g, "processing")
    <3>1. /\ gens'[g] = Released(gens[g])
          /\ Exists(g) /\ gens[g].status = "processing"
      BY <2>1 DEF RecoverStale, IsStatus
    <3>2. RowAfter(Released(gens[g]), gens[g]) /\ Released(gens[g]).status = "queued"
      BY <3>1, RowFacts, ReleasedFacts
    <3> QED BY <3>1, <3>2 DEF RowAfter, Terminal, Exists
  <2>2. CASE ~(g \in S /\ IsStatus(g, "processing"))
    <3>1. gens'[g] = gens[g]
      BY <2>2 DEF RecoverStale
    <3> QED BY <3>1 DEF StoreInv, StoreTypeOK
  <2> QED BY <2>1, <2>2
<1>3. RowsEvolve
  <2>1. gens' \in [GenIds -> Rows \cup {None}]
    BY <1>2 DEF RecoverStale
  <2> QED BY <2>1, <1>2 DEF RowsEvolve
<1>4. NothingEnds
  BY <1>2 DEF NothingEnds, Entered, Terminal
<1>5. StoreTypeOK'
  BY <1>3 DEF RecoverStale, StoreInv, StoreTypeOK, RowsEvolve
<1>6. SideTablesFollow
  <2>1. \A g \in S : outbox[g] # "none"
    BY <1>1 DEF StoreInv, CreatedIsPending
  <2> QED BY <1>1, <1>4, <2>1 DEF RecoverStale, SideTablesFollow, NothingEnds
<1> QED BY <1>3, <1>4, <1>5, <1>6 DEF Evolution

LEMMA TimeEvolves ==
    ASSUME StoreInv, NEW g \in GenIds, LeaseExpires(g) \/ QueuedGoesStale(g)
    PROVE  Evolution /\ NothingEnds
<1>1. PICK row : /\ RowAfter(row, gens[g]) /\ row.status = gens[g].status
                 /\ gens' = [gens EXCEPT ![g] = row]
  <2>1. CASE LeaseExpires(g)
    BY <2>1, RowFacts, ExpiredFacts DEF LeaseExpires, IsStatus
  <2>2. CASE QueuedGoesStale(g)
    BY <2>2, RowFacts, AgedFacts DEF QueuedGoesStale, IsStatus
  <2> QED BY <2>1, <2>2
<1>2. Exists(g) /\ gens[g].status \notin Terminal /\ gens[g].status # "created"
  BY DEF LeaseExpires, QueuedGoesStale, IsStatus, Terminal
<1>3. /\ RowsEvolve
      /\ gens'[g].status \notin Terminal
      /\ \A h \in GenIds : h # g => gens'[h] = gens[h]
  BY <1>1, <1>2, OneRowEvolves
<1>4. UNCHANGED <<registered, balance, payments, outbox, callbacks>>
  BY DEF LeaseExpires, QueuedGoesStale
<1>5. StoreTypeOK'
  BY <1>3, <1>4 DEF StoreInv, StoreTypeOK, RowsEvolve
<1>6. SideTablesFollow
  BY <1>3, <1>4 DEF SideTablesFollow, Entered
<1>7. NothingEnds
  BY <1>3 DEF NothingEnds, Entered
<1> QED BY <1>3, <1>5, <1>6, <1>7 DEF Evolution

-----------------------------------------------------------------------------
\* CreateAndCharge adds a row and a pending event

LEMMA CreateFacts ==
    ASSUME StoreInv, NEW g \in GenIds, NEW u \in Users, NEW k \in Keys,
           NEW r \in Requests, NEW c \in Costs, CreateAndCharge(g, u, k, r, c)
    PROVE  /\ gens[g] = None
           /\ gens'[g] \in Rows /\ gens'[g] # None /\ RowCoherent(gens'[g])
           /\ gens'[g].user = u /\ gens'[g].key = k /\ gens'[g].cost = c
           /\ gens'[g].status = "created"
           /\ gens' \in [GenIds -> Rows \cup {None}]
           /\ \A h \in GenIds : h # g => gens'[h] = gens[h]
<1>1. gens' = [gens EXCEPT ![g] = NewRow(u, k, r, c)] /\ gens[g] = None
  BY DEF CreateAndCharge, Exists
<1>2. gens \in [GenIds -> Rows \cup {None}]
  BY DEF StoreInv, StoreTypeOK
<1> QED BY <1>1, <1>2, NewRowFacts, StoreAssumption

LEMMA CreateAndChargePreserves ==
    ASSUME StoreInv, NEW g \in GenIds, NEW u \in Users, NEW k \in Keys,
           NEW r \in Requests, NEW c \in Costs, CreateAndCharge(g, u, k, r, c)
    PROVE  StoreInv'
<1> DEFINE row == gens'[g]
<1>1. /\ gens[g] = None
      /\ row \in Rows /\ row # None /\ RowCoherent(row)
      /\ row.user = u /\ row.key = k /\ row.cost = c /\ row.status = "created"
      /\ gens' \in [GenIds -> Rows \cup {None}]
      /\ \A h \in GenIds : h # g => gens'[h] = gens[h]
  BY CreateFacts
<1>2. /\ outbox \in [GenIds -> {"none", "pending", "processed"}]
      /\ outbox' = [outbox EXCEPT ![g] = "pending"]
      /\ callbacks' = callbacks
  BY DEF CreateAndCharge, StoreInv, StoreTypeOK
<1>3. StoreTypeOK'
  <2>1. balance' \in [Users -> Nat]
    BY StoreAssumption DEF CreateAndCharge, CanPay, StoreInv, StoreTypeOK
  <2> QED BY <1>1, <1>2, <2>1 DEF CreateAndCharge, StoreInv, StoreTypeOK
<1> HIDE DEF row
<1>4. ClaimCoherence'
  BY <1>1 DEF StoreInv, ClaimCoherence, Exists, RowCoherent, row
<1>5. CreatedIsPending'
  BY <1>1, <1>2 DEF StoreInv, CreatedIsPending, Exists, IsStatus, row
<1>6. SettlementCoherence'
  BY <1>1, <1>2 DEF StoreInv, SettlementCoherence, Exists, RowCoherent, Terminal, row
<1>7. OneOrderPerKey'
  <2>1. \A h \in GenIds : gens[h] # None => ~(gens[h].user = u /\ gens[h].key = k)
    BY DEF CreateAndCharge, KeyTaken, Exists
  <2> QED BY <1>1, <2>1 DEF StoreInv, OneOrderPerKey, Exists, row
<1> QED BY <1>3, <1>4, <1>5, <1>6, <1>7 DEF StoreInv

-----------------------------------------------------------------------------
\* The invariant

LEMMA StepEvolves ==
    ASSUME StoreInv, StoreNext,
           ~ \E g \in GenIds, u \in Users, k \in Keys, r \in Requests, c \in Costs :
                CreateAndCharge(g, u, k, r, c)
    PROVE  Evolution
  BY UsersEvolve, StartProcessingEvolves, SaveProviderRequestEvolves, CompleteEvolves,
     RequeueEvolves, FailAndRefundEvolves, DispatchOutboxEvolves, RecoverStaleEvolves,
     TimeEvolves
     DEF StoreNext, ClientStep, WorkerStep, PeriodicStep

LEMMA InitEstablishes == StoreInit => StoreInv
  BY StoreAssumption
     DEF StoreInit, StoreInv, StoreTypeOK, ClaimCoherence, CreatedIsPending,
         SettlementCoherence, OneOrderPerKey, Exists, IsStatus

LEMMA StepPreserves == StoreInv /\ [StoreNext]_storeVars => StoreInv'
<1> SUFFICES ASSUME StoreInv, [StoreNext]_storeVars PROVE StoreInv'
  OBVIOUS
<1>1. CASE UNCHANGED storeVars
  BY <1>1 DEF storeVars, StoreInv, StoreTypeOK, ClaimCoherence, CreatedIsPending,
              SettlementCoherence, OneOrderPerKey, Exists, IsStatus
<1>2. ASSUME NEW g \in GenIds, NEW u \in Users, NEW k \in Keys,
             NEW r \in Requests, NEW c \in Costs, CreateAndCharge(g, u, k, r, c)
      PROVE  StoreInv'
  BY <1>2, CreateAndChargePreserves
<1>3. CASE /\ StoreNext
           /\ ~ \E g \in GenIds, u \in Users, k \in Keys, r \in Requests, c \in Costs :
                   CreateAndCharge(g, u, k, r, c)
  BY <1>3, StepEvolves, EvolutionPreserves
<1> QED BY <1>1, <1>2, <1>3

\* For all constants: every reachable state of the tables satisfies the
\* inductive invariant.
THEOREM StoreInvariant == StoreSpec => []StoreInv
  BY InitEstablishes, StepPreserves, PTL DEF StoreSpec

\* For all constants: every table keeps its shape and no balance goes below
\* zero, however clients, workers and periodic jobs interleave.
THEOREM TypeCorrect == StoreSpec => []StoreTypeOK
<1>1. StoreInv => StoreTypeOK
  BY DEF StoreInv
<1> QED BY <1>1, StoreInvariant, PTL

\* For all constants: only the latest claim of a processing row has a token.
THEOREM ClaimsCoherent == StoreSpec => []ClaimCoherence
<1>1. StoreInv => ClaimCoherence
  BY DEF StoreInv
<1> QED BY <1>1, StoreInvariant, PTL

\* For all constants: a created row always has a pending outbox event.
THEOREM CreatedStaysPending == StoreSpec => []CreatedIsPending
<1>1. StoreInv => CreatedIsPending
  BY DEF StoreInv
<1> QED BY <1>1, StoreInvariant, PTL

\* For all constants: refund, result and callback row appear exactly with the
\* status they belong to.
THEOREM SettlementsCoherent == StoreSpec => []SettlementCoherence
<1>1. StoreInv => SettlementCoherence
  BY DEF StoreInv
<1> QED BY <1>1, StoreInvariant, PTL

\* For all constants: no step of any actor changes the row of a finished
\* generation.
THEOREM FinishedIsFinal == StoreSpec => TerminalImmutable
<1>1. ASSUME StoreInv, [StoreNext]_storeVars
      PROVE  [TerminalStays]_storeVars
  <2>1. CASE UNCHANGED storeVars
    BY <2>1
  <2>2. ASSUME NEW g \in GenIds, NEW u \in Users, NEW k \in Keys,
               NEW r \in Requests, NEW c \in Costs, CreateAndCharge(g, u, k, r, c)
        PROVE  TerminalStays
    BY <1>1, <2>2, CreateFacts DEF TerminalStays, Exists
  <2>3. CASE /\ StoreNext
             /\ ~ \E g \in GenIds, u \in Users, k \in Keys, r \in Requests, c \in Costs :
                     CreateAndCharge(g, u, k, r, c)
    BY <1>1, <2>3, StepEvolves DEF Evolution, RowsEvolve, TerminalStays, Exists
  <2> QED BY <1>1, <2>1, <2>2, <2>3
<1> QED BY <1>1, StoreInvariant, PTL DEF StoreSpec, TerminalImmutable

-----------------------------------------------------------------------------
\* The tables implement Billing: each transaction, seen through the money columns
\* alone, is one step of Billing or none.

AllOrders == [g \in GenIds |-> OrderOf(g)]

LEMMA OrderFacts ==
    ASSUME NEW row \in Rows
    PROVE  /\ Order(row) \in Orders /\ Order(row) # None
           /\ Order(row).user = row.user /\ Order(row).key = row.key
           /\ Order(row).price = row.cost
           /\ row.status \notin Terminal <=> Order(row).state = "open"
<1>1. Order(row) \in Orders
  BY DEF Order, Orders, Rows
<1>2. Order(row).user = row.user /\ Order(row).key = row.key /\ Order(row).price = row.cost
  BY DEF Order
<1>3. row.status \notin Terminal <=> Order(row).state = "open"
  BY DEF Order, Terminal
<1> QED BY <1>1, <1>2, <1>3, StoreAssumption

\* A successor that ends nothing is the same order.
LEMMA SameOrderOf ==
    ASSUME NEW old \in Rows, NEW new \in Rows, SameOrder(new, old),
           old.status \notin Terminal, new.status \notin Terminal
    PROVE  Order(new) = Order(old)
  BY DEF SameOrder, Order, Terminal

LEMMA OrdersType ==
    ASSUME StoreInv, NEW g \in GenIds
    PROVE  /\ AllOrders[g] = OrderOf(g)
           /\ gens[g] = None <=> AllOrders[g] = None
           /\ gens[g] # None => AllOrders[g] = Order(gens[g])
<1>1. gens[g] # None => gens[g] \in Rows
  BY RowFacts DEF Exists
<1> QED BY <1>1, OrderFacts DEF AllOrders, OrderOf

\* An Evolution in which no row ends leaves all orders as they are.
LEMMA QuietEvolution ==
    ASSUME StoreInv, Evolution, NothingEnds
    PROVE  AllOrders' = AllOrders
<1>1. ASSUME NEW g \in GenIds
      PROVE  OrderOf(g)' = OrderOf(g)
  <2>1. CASE gens'[g] = gens[g]
    BY <2>1 DEF OrderOf
  <2>2. CASE gens'[g] # gens[g]
    <3>1. /\ gens[g] # None /\ gens[g].status \notin Terminal
          /\ RowAfter(gens'[g], gens[g]) /\ gens'[g].status \notin Terminal
      BY <2>2 DEF Evolution, RowsEvolve, NothingEnds, Entered
    <3>2. gens[g] \in Rows /\ gens'[g] \in Rows /\ SameOrder(gens'[g], gens[g]) /\ gens'[g] # None
      BY <3>1, RowFacts, StoreAssumption DEF RowAfter, Exists
    <3>3. Order(gens'[g]) = Order(gens[g])
      BY <3>1, <3>2, SameOrderOf
    <3> QED BY <3>1, <3>2, <3>3 DEF OrderOf
  <2> QED BY <2>1, <2>2
<1> QED BY <1>1 DEF AllOrders

LEMMA BillingInitMapped == StoreInit => Money!BillingInit
  BY DEF StoreInit, Money!BillingInit, OrderOf

LEMMA CreateIsPlace ==
    ASSUME StoreInv, NEW g \in GenIds, NEW u \in Users, NEW k \in Keys,
           NEW r \in Requests, NEW c \in Costs, CreateAndCharge(g, u, k, r, c)
    PROVE  Money!Place(g, u, k, c)
<1>1. /\ gens[g] = None
      /\ gens'[g] \in Rows /\ gens'[g] # None
      /\ gens'[g].user = u /\ gens'[g].key = k /\ gens'[g].cost = c
      /\ gens'[g].status = "created"
      /\ \A h \in GenIds : h # g => gens'[h] = gens[h]
  BY CreateFacts
<1>2. AllOrders[g] = None
  BY <1>1, OrdersType
<1>3. \A h \in GenIds : AllOrders[h] # None =>
          <<AllOrders[h].user, AllOrders[h].key>> # <<u, k>>
  <2> SUFFICES ASSUME NEW h \in GenIds, AllOrders[h] # None
               PROVE  ~(AllOrders[h].user = u /\ AllOrders[h].key = k)
    OBVIOUS
  <2>1. gens[h] # None /\ AllOrders[h] = Order(gens[h]) /\ gens[h] \in Rows
    BY OrdersType, RowFacts DEF Exists
  <2>2. ~(gens[h].user = u /\ gens[h].key = k)
    BY <2>1 DEF CreateAndCharge, KeyTaken, Exists
  <2> QED BY <2>1, <2>2, OrderFacts
<1>4. AllOrders' = [AllOrders EXCEPT ![g] =
                      [user |-> u, key |-> k, price |-> c, state |-> "open"]]
  <2>1. OrderOf(g)' = [user |-> u, key |-> k, price |-> c, state |-> "open"]
    BY <1>1 DEF OrderOf, Order
  <2>2. \A h \in GenIds : h # g => OrderOf(h)' = OrderOf(h)
    BY <1>1 DEF OrderOf
  <2> QED BY <2>1, <2>2 DEF AllOrders
<1> QED BY <1>2, <1>3, <1>4 DEF Money!Place, AllOrders, CreateAndCharge, CanPay

LEMMA CompleteIsDeliver ==
    ASSUME StoreInv, NEW g \in GenIds, NEW t \in Claims, NEW a \in ProviderRequests,
           Complete(g, t, a)
    PROVE  Money!Deliver(g)
<1>1. /\ gens[g] # None /\ gens[g] \in Rows /\ gens[g].status \notin Terminal
      /\ gens' = [gens EXCEPT ![g] = Completed(gens[g], a)]
      /\ gens \in [GenIds -> Rows \cup {None}]
      /\ UNCHANGED <<balance, payments>>
  BY RowFacts DEF Complete, HoldsClaim, IsStatus, Exists, Terminal, StoreInv, StoreTypeOK
<1>2. /\ gens'[g] = Completed(gens[g], a) /\ gens'[g] # None
      /\ \A h \in GenIds : h # g => gens'[h] = gens[h]
  <2>1. Completed(gens[g], a) \in Rows
    BY <1>1, RowFacts, CompletedFacts DEF RowAfter, Exists, Complete, HoldsClaim, IsStatus
  <2> QED BY <1>1, <2>1, StoreAssumption
<1>3. AllOrders[g] # None /\ AllOrders[g] = Order(gens[g]) /\ AllOrders[g].state = "open"
  BY <1>1, OrdersType, OrderFacts
<1>4. AllOrders' = [AllOrders EXCEPT ![g] = [@ EXCEPT !.state = "delivered"]]
  <2>1. Order(Completed(gens[g], a)) = [Order(gens[g]) EXCEPT !.state = "delivered"]
    BY <1>1 DEF Order, Completed, Rows
  <2>2. OrderOf(g)' = [AllOrders[g] EXCEPT !.state = "delivered"]
    BY <1>2, <1>3, <2>1 DEF OrderOf
  <2>3. \A h \in GenIds : h # g => OrderOf(h)' = OrderOf(h)
    BY <1>2 DEF OrderOf
  <2> QED BY <2>2, <2>3 DEF AllOrders
<1> QED BY <1>1, <1>3, <1>4 DEF Money!Deliver, AllOrders

LEMMA FailIsRefund ==
    ASSUME StoreInv, NEW g \in GenIds, NEW t \in Claims, FailAndRefund(g, t)
    PROVE  Money!Refund(g)
<1>1. /\ gens[g] # None /\ gens[g] \in Rows /\ gens[g].status \notin Terminal
      /\ gens' = [gens EXCEPT ![g] = Failed(gens[g])]
      /\ gens \in [GenIds -> Rows \cup {None}]
      /\ UNCHANGED payments
  BY RowFacts DEF FailAndRefund, MayFail, IsStatus, Exists, Terminal, StoreInv, StoreTypeOK
<1>2. /\ gens'[g] = Failed(gens[g]) /\ gens'[g] # None
      /\ \A h \in GenIds : h # g => gens'[h] = gens[h]
  <2>1. Failed(gens[g]) \in Rows
    BY <1>1, RowFacts, FailedFacts DEF RowAfter, Exists
  <2> QED BY <1>1, <2>1, StoreAssumption
<1>3. AllOrders[g] # None /\ AllOrders[g] = Order(gens[g]) /\ AllOrders[g].state = "open"
  BY <1>1, OrdersType, OrderFacts
<1>4. AllOrders' = [AllOrders EXCEPT ![g] = [@ EXCEPT !.state = "refunded"]]
  <2>1. Order(Failed(gens[g])) = [Order(gens[g]) EXCEPT !.state = "refunded"]
    BY <1>1 DEF Order, Failed, Rows
  <2>2. OrderOf(g)' = [AllOrders[g] EXCEPT !.state = "refunded"]
    BY <1>2, <1>3, <2>1 DEF OrderOf
  <2>3. \A h \in GenIds : h # g => OrderOf(h)' = OrderOf(h)
    BY <1>2 DEF OrderOf
  <2> QED BY <2>2, <2>3 DEF AllOrders
<1>5. balance' = [balance EXCEPT ![AllOrders[g].user] = @ + AllOrders[g].price]
  BY <1>1, <1>3, OrderFacts DEF FailAndRefund
<1> QED BY <1>1, <1>3, <1>4, <1>5 DEF Money!Refund, AllOrders

\* The steps Billing does not see.
LEMMA QuietSteps ==
    ASSUME StoreInv, NEW g \in GenIds,
           \/ StartProcessing(g)
           \/ \E t \in Claims : Requeue(g, t)
           \/ \E t \in Claims, p \in Providers, r \in Claims : SaveProviderRequest(g, t, p, r)
           \/ DispatchOutbox(g) \/ LeaseExpires(g) \/ QueuedGoesStale(g)
           \/ \E S \in (SUBSET StaleGens) \ {{}} : RecoverStale(S)
    PROVE  AllOrders' = AllOrders /\ UNCHANGED <<balance, payments>>
<1>1. Evolution /\ NothingEnds
  BY StartProcessingEvolves, SaveProviderRequestEvolves, RequeueEvolves,
     DispatchOutboxEvolves, RecoverStaleEvolves, TimeEvolves
<1>2. UNCHANGED <<balance, payments>>
  BY DEF StartProcessing, SaveProviderRequest, Requeue, DispatchOutbox, LeaseExpires,
         QueuedGoesStale, RecoverStale
<1> QED BY <1>1, <1>2, QuietEvolution

LEMMA StepMapped ==
    ASSUME StoreInv, [StoreNext]_storeVars
    PROVE  [Money!BillingNext]_(Money!billingVars)
<1>1. CASE UNCHANGED storeVars
  BY <1>1 DEF storeVars, Money!billingVars, OrderOf
<1>2. ASSUME NEW u \in Users, RegisterUser(u)
      PROVE  UNCHANGED Money!billingVars
  BY <1>2 DEF RegisterUser, Money!billingVars, OrderOf
<1>3. ASSUME NEW p \in PaymentIds, NEW u \in Users, NEW a \in Amounts, ApplyCredit(p, u, a)
      PROVE  Money!Deposit(p, u, a)
  BY <1>3 DEF ApplyCredit, FirstNotice, Money!Deposit, OrderOf
<1>4. ASSUME NEW g \in GenIds, NEW u \in Users, NEW k \in Keys,
             NEW r \in Requests, NEW c \in Costs, CreateAndCharge(g, u, k, r, c)
      PROVE  Money!Place(g, u, k, c)
  BY <1>4, CreateIsPlace
<1>5. ASSUME NEW g \in GenIds, WorkerStep(g)
      PROVE  [Money!BillingNext]_(Money!billingVars)
  <2>1. CASE \E t \in Claims, a \in ProviderRequests : Complete(g, t, a)
    BY <2>1, CompleteIsDeliver DEF Money!BillingNext
  <2>2. CASE \E t \in Claims : FailAndRefund(g, t)
    BY <2>2, FailIsRefund DEF Money!BillingNext
  <2>3. CASE \/ StartProcessing(g)
             \/ \E t \in Claims : Requeue(g, t)
             \/ \E t \in Claims, p \in Providers, r \in Claims :
                   SaveProviderRequest(g, t, p, r)
    BY <2>3, QuietSteps DEF Money!billingVars, AllOrders
  <2> QED BY <1>5, <2>1, <2>2, <2>3 DEF WorkerStep
<1>6. ASSUME PeriodicStep
      PROVE  UNCHANGED Money!billingVars
  <2>1. PICK g \in GenIds :
           \/ DispatchOutbox(g) \/ LeaseExpires(g) \/ QueuedGoesStale(g)
           \/ \E S \in (SUBSET StaleGens) \ {{}} : RecoverStale(S)
    BY <1>6 DEF PeriodicStep, StaleGens
  <2> QED BY <2>1, QuietSteps DEF Money!billingVars, AllOrders
<1> QED BY <1>1, <1>2, <1>3, <1>4, <1>5, <1>6
        DEF StoreNext, ClientStep, Money!BillingNext

\* For all constants: the tables implement Billing.  A payment credits once, a
\* key pays for one order at its price, an order is delivered or refunded at
\* most once, and a refund returns the price to the user who paid it.
THEOREM StoreImplementsBilling == StoreSpec => ImplementsBilling
  BY BillingInitMapped, StepMapped, StoreInvariant, PTL
     DEF StoreSpec, ImplementsBilling, Money!BillingSpec
-----------------------------------------------------------------------------
\* Money.  The sums are over the rows that exist, which are finitely many.

Recorded == {p \in PaymentIds : payments[p] # None}
Existing == {g \in GenIds : Exists(g)}

MoneyInv ==
    /\ StoreInv
    /\ IsFiniteSet(Recorded) /\ IsFiniteSet(Existing)
    /\ MoneyConserved

LEMMA ChargesTyped ==
    ASSUME StoreInv, IsFiniteSet(Existing), NEW u \in Users
    PROVE  /\ IsFiniteSet(Unrefunded(u))
           /\ [g \in Unrefunded(u) |-> gens[g].cost] \in [Unrefunded(u) -> Nat]
           /\ SpentBy(u) \in Nat
<1>1. Unrefunded(u) \in SUBSET Existing
  BY DEF Unrefunded, Existing
<1>2. IsFiniteSet(Unrefunded(u))
  BY <1>1, FS_Subset
<1>3. ASSUME NEW g \in Unrefunded(u) PROVE gens[g].cost \in Nat
  <2>1. gens[g] \in Rows
    BY RowFacts DEF Unrefunded
  <2> QED BY <2>1, StoreAssumption DEF Rows
<1>4. [g \in Unrefunded(u) |-> gens[g].cost] \in [Unrefunded(u) -> Nat]
  BY <1>3
<1> QED BY <1>2, <1>4, TotalNat DEF SpentBy

LEMMA CreditsTyped ==
    ASSUME StoreTypeOK, IsFiniteSet(Recorded), NEW u \in Users
    PROVE  /\ IsFiniteSet(Credits(u))
           /\ [p \in Credits(u) |-> payments[p].amount] \in [Credits(u) -> Nat]
           /\ CreditedTo(u) \in Nat
<1>1. Credits(u) \in SUBSET Recorded
  BY DEF Credits, Recorded
<1>2. IsFiniteSet(Credits(u))
  BY <1>1, FS_Subset
<1>3. ASSUME NEW p \in Credits(u) PROVE payments[p].amount \in Nat
  <2>1. payments[p] \in Payments
    BY DEF Credits, StoreTypeOK
  <2> QED BY <2>1, StoreAssumption DEF Payments
<1>4. [p \in Credits(u) |-> payments[p].amount] \in [Credits(u) -> Nat]
  BY <1>3
<1> QED BY <1>2, <1>4, TotalNat DEF CreditedTo

\* A step without a new row and without a refund leaves what is spent alone.
LEMMA ChargesStay ==
    ASSUME StoreInv, Evolution,
           \A g \in GenIds : gens'[g] = gens[g] \/ gens'[g].status # "failed"
    PROVE  Existing' = Existing /\ \A u \in Users : SpentBy(u)' = SpentBy(u)
<1>1. ASSUME NEW g \in GenIds
      PROVE  /\ Exists(g)' <=> Exists(g)
             /\ Exists(g) => /\ gens'[g].user = gens[g].user
                             /\ gens'[g].cost = gens[g].cost
                             /\ gens'[g].refunded <=> gens[g].refunded
  <2>1. CASE gens'[g] = gens[g]
    BY <2>1 DEF Exists
  <2>2. CASE gens'[g] # gens[g]
    <3>1. /\ gens[g] # None /\ gens[g].status \notin Terminal
          /\ gens'[g] \in Rows /\ SameOrder(gens'[g], gens[g]) /\ RowCoherent(gens'[g])
          /\ gens'[g].status # "failed"
      BY <2>2 DEF Evolution, RowsEvolve, RowAfter
    <3>2. RowCoherent(gens[g])
      BY <3>1, RowFacts DEF Exists
    <3> QED BY <3>1, <3>2, StoreAssumption DEF Exists, SameOrder, RowCoherent, Terminal
  <2> QED BY <2>1, <2>2
<1>2. Existing' = Existing
  BY <1>1 DEF Existing
<1>3. ASSUME NEW u \in Users PROVE SpentBy(u)' = SpentBy(u)
  <2>1. Unrefunded(u)' = Unrefunded(u)
    BY <1>1 DEF Unrefunded
  <2>2. \A g \in Unrefunded(u) : gens'[g].cost = gens[g].cost
    BY <1>1 DEF Unrefunded
  <2>3. [g \in Unrefunded(u) |-> gens[g].cost]' = [g \in Unrefunded(u) |-> gens[g].cost]
    BY <2>1, <2>2
  <2> QED BY <2>3 DEF SpentBy
<1> QED BY <1>2, <1>3

LEMMA CreditsStay ==
    ASSUME payments' = payments
    PROVE  Recorded' = Recorded /\ \A u \in Users : CreditedTo(u)' = CreditedTo(u)
BY DEF Recorded, CreditedTo, Credits

\* A payment adds its amount on both sides.
LEMMA PaymentBalances ==
    ASSUME MoneyInv, NEW p \in PaymentIds, NEW u \in Users, NEW a \in Amounts,
           ApplyCredit(p, u, a)
    PROVE  MoneyInv'
<1> DEFINE event == [user |-> u, amount |-> a]
<1>1. /\ StoreInv /\ payments \in [PaymentIds -> Payments \cup {None}]
      /\ balance \in [Users -> Nat] /\ a \in Nat
      /\ event \in Payments /\ event # None
      /\ payments[p] = None
      /\ payments' = [payments EXCEPT ![p] = event]
      /\ balance' = [balance EXCEPT ![u] = @ + a]
      /\ gens' = gens
  BY StoreAssumption
     DEF MoneyInv, StoreInv, StoreTypeOK, ApplyCredit, FirstNotice, Payments
<1>2. StoreInv'
  BY <1>1, UsersEvolve, EvolutionPreserves
<1>3. Existing' = Existing /\ \A v \in Users : SpentBy(v)' = SpentBy(v)
  BY <1>1, ChargesStay, UsersEvolve
<1>4. Recorded' = Recorded \cup {p}
  BY <1>1 DEF Recorded
<1>5. IsFiniteSet(Recorded') /\ IsFiniteSet(Existing')
  BY <1>3, <1>4, FS_AddElement DEF MoneyInv
<1>6. ASSUME NEW v \in Users, v # u
      PROVE  CreditedTo(v)' = CreditedTo(v)
  <2>1. Credits(v)' = Credits(v)
    BY <1>1, <1>6 DEF Credits
  <2>2. \A q \in Credits(v) : payments'[q] = payments[q]
    BY <1>1 DEF Credits
  <2>3. [q \in Credits(v) |-> payments[q].amount]' = [q \in Credits(v) |-> payments[q].amount]
    BY <2>1, <2>2
  <2> QED BY <2>3 DEF CreditedTo
<1>7. CreditedTo(u)' = a + CreditedTo(u)
  <2> DEFINE S == Credits(u)
             f == [q \in S |-> payments[q].amount]
             h == [q \in Credits(u)' |-> payments'[q].amount]
  <2>1. p \notin S /\ Credits(u)' = S \cup {p}
    BY <1>1 DEF Credits
  <2>2. IsFiniteSet(S) /\ f \in [S -> Nat]
    BY CreditsTyped DEF MoneyInv, StoreInv
  <2>3. h \in [S \cup {p} -> Nat]
    <3>1. StoreTypeOK'
      BY <1>2 DEF StoreInv
    <3>2. ASSUME NEW q \in Credits(u)' PROVE payments'[q].amount \in Nat
      <4>1. payments'[q] \in Payments
        BY <3>1 DEF Credits, StoreTypeOK
      <4> QED BY <4>1, StoreAssumption DEF Payments
    <3> QED BY <2>1, <3>2
  <2>4. h[p] = a /\ \A q \in S : h[q] = f[q]
    BY <1>1, <2>1 DEF Credits
  <2>5. CreditedTo(u) = SumFunction(f) /\ CreditedTo(u)' = SumFunction(h)
    BY DEF CreditedTo
  <2> HIDE DEF S, f, h
  <2> QED BY <2>1, <2>2, <2>3, <2>4, <2>5, TotalGrows
<1>8. ASSUME NEW v \in Users
      PROVE  balance'[v] + SpentBy(v)' = CreditedTo(v)'
  <2>1. balance[v] + SpentBy(v) = CreditedTo(v)
    BY DEF MoneyInv, MoneyConserved
  <2>2. SpentBy(v) \in Nat /\ CreditedTo(v) \in Nat /\ balance[v] \in Nat
    BY <1>1, ChargesTyped, CreditsTyped DEF MoneyInv, StoreInv
  <2>3. CASE v = u
    <3>1. balance'[v] = balance[v] + a
      BY <1>1, <2>3
    <3> QED BY <1>1, <1>3, <1>7, <2>1, <2>2, <2>3, <3>1
  <2>4. CASE v # u
    <3>1. balance'[v] = balance[v]
      BY <1>1, <2>4
    <3> QED BY <1>3, <1>6, <2>1, <2>4, <3>1
  <2> QED BY <2>3, <2>4
<1>9. MoneyConserved'
  BY <1>8 DEF MoneyConserved
<1> QED BY <1>2, <1>5, <1>9 DEF MoneyInv

\* A create moves the price from the balance to what the user's generations hold.
LEMMA CreateBalances ==
    ASSUME MoneyInv, NEW g \in GenIds, NEW u \in Users, NEW k \in Keys,
           NEW r \in Requests, NEW c \in Costs, CreateAndCharge(g, u, k, r, c)
    PROVE  MoneyInv'
<1>1. /\ StoreInv /\ IsFiniteSet(Existing) /\ IsFiniteSet(Recorded)
      /\ balance \in [Users -> Nat] /\ c \in Nat
      /\ balance' = [balance EXCEPT ![u] = @ - c]
      /\ payments' = payments
  BY StoreAssumption DEF MoneyInv, StoreInv, StoreTypeOK, CreateAndCharge
<1>2. /\ gens[g] = None
      /\ gens'[g] \in Rows /\ gens'[g] # None /\ RowCoherent(gens'[g])
      /\ gens'[g].user = u /\ gens'[g].cost = c /\ gens'[g].status = "created"
      /\ \A h \in GenIds : h # g => gens'[h] = gens[h]
  BY <1>1, CreateFacts
<1>3. StoreInv'
  BY <1>1, CreateAndChargePreserves
<1>4. Recorded' = Recorded /\ \A v \in Users : CreditedTo(v)' = CreditedTo(v)
  BY <1>1, CreditsStay
<1>5. Existing' = Existing \cup {g}
  BY <1>2 DEF Existing, Exists
<1>6. IsFiniteSet(Recorded') /\ IsFiniteSet(Existing')
  BY <1>1, <1>4, <1>5, FS_AddElement
<1>7. g \notin Unrefunded(u) /\ Unrefunded(u)' = Unrefunded(u) \cup {g}
  BY <1>2 DEF Unrefunded, Exists, RowCoherent
<1>8. ASSUME NEW v \in Users, v # u PROVE SpentBy(v)' = SpentBy(v)
  <2>1. Unrefunded(v)' = Unrefunded(v)
    BY <1>2, <1>8 DEF Unrefunded, Exists
  <2>2. \A h \in Unrefunded(v) : gens'[h] = gens[h]
    BY <1>2 DEF Unrefunded, Exists
  <2>3. [h \in Unrefunded(v) |-> gens[h].cost]' = [h \in Unrefunded(v) |-> gens[h].cost]
    BY <2>1, <2>2
  <2> QED BY <2>3 DEF SpentBy
<1>9. SpentBy(u)' = c + SpentBy(u)
  <2> DEFINE S == Unrefunded(u)
             f == [h \in S |-> gens[h].cost]
             e == [h \in Unrefunded(u)' |-> gens'[h].cost]
  <2>1. IsFiniteSet(S) /\ f \in [S -> Nat]
    BY <1>1, ChargesTyped
  <2>2. e \in [S \cup {g} -> Nat]
    <3>1. ASSUME NEW h \in Unrefunded(u)' PROVE gens'[h].cost \in Nat
      <4>1. gens'[h] \in Rows
        BY <1>3, <3>1 DEF StoreInv, StoreTypeOK, Unrefunded, Exists
      <4> QED BY <4>1, StoreAssumption DEF Rows
    <3> QED BY <1>7, <3>1
  <2>3. e[g] = c /\ \A h \in S : e[h] = f[h]
    BY <1>2, <1>7 DEF Unrefunded, Exists
  <2>4. SpentBy(u) = SumFunction(f) /\ SpentBy(u)' = SumFunction(e)
    BY DEF SpentBy
  <2>5. g \notin S
    BY <1>7
  <2> HIDE DEF S, f, e
  <2> QED BY <2>1, <2>2, <2>3, <2>4, <2>5, TotalGrows
<1>10. ASSUME NEW v \in Users
       PROVE  balance'[v] + SpentBy(v)' = CreditedTo(v)'
  <2>1. balance[v] + SpentBy(v) = CreditedTo(v)
    BY DEF MoneyInv, MoneyConserved
  <2>2. SpentBy(v) \in Nat /\ CreditedTo(v) \in Nat /\ balance[v] \in Nat
    BY <1>1, ChargesTyped, CreditsTyped DEF StoreInv
  <2>3. CASE v = u
    <3>1. balance'[v] = balance[v] - c
      BY <1>1, <2>3
    <3> QED BY <1>1, <1>4, <1>9, <2>1, <2>2, <2>3, <3>1
  <2>4. CASE v # u
    <3>1. balance'[v] = balance[v]
      BY <1>1, <2>4
    <3> QED BY <1>4, <1>8, <2>1, <2>4, <3>1
  <2> QED BY <2>3, <2>4
<1>11. MoneyConserved'
  BY <1>10 DEF MoneyConserved
<1> QED BY <1>3, <1>6, <1>11 DEF MoneyInv

\* A failure gives the price of an unrefunded generation back, once.
LEMMA RefundBalances ==
    ASSUME MoneyInv, NEW g \in GenIds, NEW t \in Claims, FailAndRefund(g, t)
    PROVE  MoneyInv'
<1>0. PICK u \in Users, c \in Nat : u = gens[g].user /\ c = gens[g].cost
  <2>1. gens[g] \in Rows
    BY RowFacts DEF MoneyInv, FailAndRefund, MayFail, IsStatus, Exists
  <2> QED BY <2>1, StoreAssumption DEF Rows
<1>1. /\ StoreInv /\ IsFiniteSet(Existing) /\ IsFiniteSet(Recorded)
      /\ balance \in [Users -> Nat]
      /\ balance' = [balance EXCEPT ![u] = @ + c]
      /\ payments' = payments
  BY <1>0 DEF MoneyInv, StoreInv, StoreTypeOK, FailAndRefund
<1>2. Evolution
  BY <1>1, FailAndRefundEvolves
<1>3. StoreInv'
  BY <1>1, <1>2, EvolutionPreserves
<1>4. /\ gens[g] # None /\ gens[g] \in Rows /\ ~gens[g].refunded
      /\ gens[g].status \notin Terminal
      /\ gens' = [gens EXCEPT ![g] = Failed(gens[g])]
      /\ gens \in [GenIds -> Rows \cup {None}]
  BY <1>1, RowFacts DEF FailAndRefund, MayFail, IsStatus, Exists, Terminal, StoreInv, StoreTypeOK
<1>5. /\ gens'[g].refunded /\ gens'[g].user = u /\ gens'[g] # None
      /\ \A h \in GenIds : h # g => gens'[h] = gens[h]
  <2>1. gens'[g] = Failed(gens[g]) /\ Failed(gens[g]) \in Rows
    BY <1>1, <1>4, RowFacts, FailedFacts DEF Exists, RowAfter
  <2>2. Failed(gens[g]).refunded /\ Failed(gens[g]).user = u
    BY <1>0, <1>4 DEF Failed, Rows
  <2> QED BY <1>4, <2>1, <2>2, StoreAssumption
<1>6. Recorded' = Recorded /\ \A v \in Users : CreditedTo(v)' = CreditedTo(v)
  BY <1>1, CreditsStay
<1>7. Existing' = Existing
  BY <1>4, <1>5 DEF Existing, Exists
<1>8. g \in Unrefunded(u) /\ Unrefunded(u)' = Unrefunded(u) \ {g}
  BY <1>0, <1>4, <1>5 DEF Unrefunded, Exists
<1>9. ASSUME NEW v \in Users, v # u PROVE SpentBy(v)' = SpentBy(v)
  <2>1. g \notin Unrefunded(v) /\ Unrefunded(v)' = Unrefunded(v)
    BY <1>0, <1>4, <1>5, <1>9 DEF Unrefunded, Exists
  <2>2. \A h \in Unrefunded(v) : gens'[h] = gens[h]
    BY <1>5, <2>1 DEF Unrefunded
  <2>3. [h \in Unrefunded(v) |-> gens[h].cost]' = [h \in Unrefunded(v) |-> gens[h].cost]
    BY <2>1, <2>2
  <2> QED BY <2>3 DEF SpentBy
<1>10. SpentBy(u) = c + SpentBy(u)' /\ SpentBy(u)' \in Nat
  <2> DEFINE S == Unrefunded(u)'
             f == [h \in S |-> gens'[h].cost]
             e == [h \in Unrefunded(u) |-> gens[h].cost]
  <2>1. g \notin S /\ Unrefunded(u) = S \cup {g}
    BY <1>8
  <2>2. IsFiniteSet(Unrefunded(u)) /\ e \in [S \cup {g} -> Nat]
    BY <1>1, <2>1, ChargesTyped
  <2>3. IsFiniteSet(S)
    BY <2>1, <2>2, FS_Subset
  <2>4. \A h \in S : e[h] = f[h]
    BY <1>5, <1>8 DEF Unrefunded
  <2>5. f \in [S -> Nat]
    BY <2>2, <2>4
  <2>6. e[g] = c
    BY <1>0, <1>8
  <2>7. SpentBy(u) = SumFunction(e) /\ SpentBy(u)' = SumFunction(f)
    BY DEF SpentBy
  <2> HIDE DEF S, f, e
  <2>8. SumFunction(e) = e[g] + SumFunction(f) /\ SumFunction(f) \in Nat
    BY <2>1, <2>2, <2>3, <2>4, <2>5, TotalGrows
  <2> QED BY <2>6, <2>7, <2>8
<1>11. ASSUME NEW v \in Users
       PROVE  balance'[v] + SpentBy(v)' = CreditedTo(v)'
  <2>1. balance[v] + SpentBy(v) = CreditedTo(v)
    BY DEF MoneyInv, MoneyConserved
  <2>2. SpentBy(v) \in Nat /\ CreditedTo(v) \in Nat /\ balance[v] \in Nat
    BY <1>1, ChargesTyped, CreditsTyped DEF StoreInv
  <2>3. CASE v = u
    <3>1. balance'[v] = balance[v] + c
      BY <1>1, <2>3
    <3> QED BY <1>6, <1>10, <2>1, <2>2, <2>3, <3>1
  <2>4. CASE v # u
    <3>1. balance'[v] = balance[v]
      BY <1>1, <2>4
    <3> QED BY <1>6, <1>9, <2>1, <2>4, <3>1
  <2> QED BY <2>3, <2>4
<1>12. MoneyConserved'
  BY <1>11 DEF MoneyConserved
<1> QED BY <1>1, <1>3, <1>6, <1>7, <1>12 DEF MoneyInv

\* Any other step moves no money and neither creates nor refunds.
LEMMA RestBalances ==
    ASSUME MoneyInv, Evolution, balance' = balance, payments' = payments,
           \A g \in GenIds : gens'[g] = gens[g] \/ gens'[g].status # "failed"
    PROVE  MoneyInv'
<1>1. StoreInv'
  BY EvolutionPreserves DEF MoneyInv
<1>2. Existing' = Existing /\ \A u \in Users : SpentBy(u)' = SpentBy(u)
  BY ChargesStay DEF MoneyInv
<1>3. Recorded' = Recorded /\ \A u \in Users : CreditedTo(u)' = CreditedTo(u)
  BY CreditsStay
<1>4. MoneyConserved'
  BY <1>2, <1>3 DEF MoneyInv, MoneyConserved
<1> QED BY <1>1, <1>2, <1>3, <1>4 DEF MoneyInv

LEMMA OtherStepsBalance ==
    ASSUME MoneyInv,
           \/ \E u \in Users : RegisterUser(u)
           \/ \E g \in GenIds : StartProcessing(g)
           \/ \E g \in GenIds, t \in Claims : Requeue(g, t)
           \/ \E g \in GenIds, t \in Claims, p \in Providers, r \in Claims :
                SaveProviderRequest(g, t, p, r)
           \/ \E g \in GenIds, t \in Claims, a \in ProviderRequests : Complete(g, t, a)
           \/ \E g \in GenIds : DispatchOutbox(g) \/ LeaseExpires(g) \/ QueuedGoesStale(g)
           \/ \E S \in (SUBSET StaleGens) \ {{}} : RecoverStale(S)
    PROVE  MoneyInv'
<1>1. StoreInv /\ gens \in [GenIds -> Rows \cup {None}]
  BY DEF MoneyInv, StoreInv, StoreTypeOK
<1>2. Evolution
  <2>1. ASSUME NEW g \in GenIds,
               DispatchOutbox(g) \/ LeaseExpires(g) \/ QueuedGoesStale(g)
        PROVE  Evolution
    BY <1>1, <2>1, DispatchOutboxEvolves, TimeEvolves
  <2>2. ASSUME NEW S \in (SUBSET StaleGens) \ {{}}, RecoverStale(S) PROVE Evolution
    BY <1>1, <2>2, RecoverStaleEvolves
  <2> QED BY <1>1, <2>1, <2>2, UsersEvolve, StartProcessingEvolves,
             SaveProviderRequestEvolves, CompleteEvolves, RequeueEvolves
<1>3. balance' = balance /\ payments' = payments
  BY DEF RegisterUser, StartProcessing, Requeue, SaveProviderRequest, Complete,
         DispatchOutbox, LeaseExpires, QueuedGoesStale, RecoverStale
<1>4. \A h \in GenIds : gens'[h] = gens[h] \/ gens'[h].status # "failed"
  <2>1. ASSUME NEW g \in GenIds, NEW row, gens' = [gens EXCEPT ![g] = row],
               row.status # "failed"
        PROVE  \A i \in GenIds : gens'[i] = gens[i] \/ gens'[i].status # "failed"
    BY <1>1, <2>1
  <2>2. ASSUME NEW g \in GenIds, StartProcessing(g)
        PROVE  \A i \in GenIds : gens'[i] = gens[i] \/ gens'[i].status # "failed"
    <3>1. gens[g] \in Rows /\ RowCoherent(gens[g])
          /\ gens[g].attempts < MaxClaims /\ gens[g].status \notin Terminal
      BY <1>1, <2>2, RowFacts DEF StartProcessing, MayClaim, IsStatus, Exists, Terminal
    <3>2. Claimed(gens[g]).status = "processing"
      BY <3>1, ClaimedFacts
    <3> QED BY <2>1, <2>2, <3>2 DEF StartProcessing
  <2>3. ASSUME NEW g \in GenIds, NEW t \in Claims, Requeue(g, t)
        PROVE  \A i \in GenIds : gens'[i] = gens[i] \/ gens'[i].status # "failed"
    <3>1. Released(gens[g]).status = "queued"
      BY <1>1, <2>3, RowFacts, ReleasedFacts DEF Requeue, HoldsClaim, IsStatus
    <3> QED BY <2>1, <2>3, <3>1 DEF Requeue
  <2>4. ASSUME NEW g \in GenIds, NEW t \in Claims, NEW p \in Providers, NEW r \in Claims,
               SaveProviderRequest(g, t, p, r)
        PROVE  \A i \in GenIds : gens'[i] = gens[i] \/ gens'[i].status # "failed"
    <3>1. gens[g].status = "processing" /\ gens[g] \in Rows /\ RowCoherent(gens[g])
      BY <1>1, <2>4, RowFacts DEF SaveProviderRequest, MaySave, HoldsClaim, IsStatus
    <3>2. Submitted(gens[g], p, r).status # "failed"
      BY <3>1, SubmittedFacts
    <3> QED BY <2>1, <2>4, <3>2 DEF SaveProviderRequest
  <2>10. ASSUME NEW g \in GenIds, NEW t \in Claims, NEW a \in ProviderRequests,
                Complete(g, t, a)
         PROVE  \A i \in GenIds : gens'[i] = gens[i] \/ gens'[i].status # "failed"
    <3>1. gens[g].status = "processing" /\ gens[g] \in Rows /\ RowCoherent(gens[g])
      BY <1>1, <2>10, RowFacts DEF Complete, HoldsClaim, IsStatus
    <3>2. Completed(gens[g], a).status # "failed"
      BY <3>1, CompletedFacts
    <3> QED BY <2>1, <2>10, <3>2 DEF Complete
  <2>5. ASSUME NEW g \in GenIds, DispatchOutbox(g)
        PROVE  \A i \in GenIds : gens'[i] = gens[i] \/ gens'[i].status # "failed"
    <3>1. CASE IsStatus(g, "created")
      <4>1. Queued(gens[g]).status = "queued"
        BY <1>1, <3>1, RowFacts, QueuedFacts DEF IsStatus
      <4> QED BY <2>1, <2>5, <3>1, <4>1, <1>1 DEF DispatchOutbox
    <3>2. CASE ~IsStatus(g, "created")
      BY <1>1, <2>5, <3>2 DEF DispatchOutbox
    <3> QED BY <3>1, <3>2
  <2>6. ASSUME NEW g \in GenIds, LeaseExpires(g)
        PROVE  \A i \in GenIds : gens'[i] = gens[i] \/ gens'[i].status # "failed"
    <3>1. Expired(gens[g]).status = "processing"
      BY <1>1, <2>6, RowFacts, ExpiredFacts DEF LeaseExpires, IsStatus
    <3> QED BY <2>1, <2>6, <3>1 DEF LeaseExpires
  <2>7. ASSUME NEW g \in GenIds, QueuedGoesStale(g)
        PROVE  \A i \in GenIds : gens'[i] = gens[i] \/ gens'[i].status # "failed"
    <3>1. Aged(gens[g]).status = "queued"
      BY <1>1, <2>7, RowFacts, AgedFacts DEF QueuedGoesStale, IsStatus
    <3> QED BY <2>1, <2>7, <3>1 DEF QueuedGoesStale
  <2>8. ASSUME NEW S, RecoverStale(S)
        PROVE  \A i \in GenIds : gens'[i] = gens[i] \/ gens'[i].status # "failed"
    <3>1. ASSUME NEW i \in GenIds, gens'[i] # gens[i]
          PROVE  gens'[i].status = "queued"
      <4>1. gens'[i] = Released(gens[i]) /\ IsStatus(i, "processing")
        BY <2>8, <3>1 DEF RecoverStale
      <4> QED BY <1>1, <4>1, RowFacts, ReleasedFacts DEF IsStatus
    <3> QED BY <3>1
  <2>9. ASSUME NEW u \in Users, RegisterUser(u)
        PROVE  \A i \in GenIds : gens'[i] = gens[i] \/ gens'[i].status # "failed"
    BY <2>9 DEF RegisterUser
  <2> QED BY <2>2, <2>3, <2>4, <2>5, <2>6, <2>7, <2>8, <2>9, <2>10
<1> QED BY <1>2, <1>3, <1>4, RestBalances

LEMMA MoneyInit == StoreInit => MoneyInv
<1> SUFFICES ASSUME StoreInit PROVE MoneyInv
  OBVIOUS
<1>1. StoreInv
  BY InitEstablishes
<1>2. Recorded = {} /\ Existing = {}
  BY DEF StoreInit, Recorded, Existing, Exists
<1>3. IsFiniteSet(Recorded) /\ IsFiniteSet(Existing)
  BY <1>2, FS_EmptySet
<1>4. ASSUME NEW u \in Users PROVE balance[u] + SpentBy(u) = CreditedTo(u)
  <2>1. Credits(u) = {} /\ Unrefunded(u) = {}
    BY <1>2 DEF Credits, Unrefunded, Recorded, Existing
  <2>2. CreditedTo(u) = 0 /\ SpentBy(u) = 0
    BY <2>1, TotalOfNone DEF CreditedTo, SpentBy
  <2>3. balance[u] = 0
    BY DEF StoreInit
  <2> QED BY <2>2, <2>3
<1> QED BY <1>1, <1>3, <1>4 DEF MoneyInv, MoneyConserved

LEMMA MoneyPreserved == MoneyInv /\ [StoreNext]_storeVars => MoneyInv'
<1> SUFFICES ASSUME MoneyInv, [StoreNext]_storeVars PROVE MoneyInv'
  OBVIOUS
<1>1. CASE UNCHANGED storeVars
  <2>1. StoreInv'
    BY <1>1, StepPreserves DEF MoneyInv
  <2>2. Recorded' = Recorded /\ Existing' = Existing
    BY <1>1 DEF storeVars, Recorded, Existing, Exists
  <2>3. MoneyConserved'
    BY <1>1 DEF storeVars, MoneyInv, MoneyConserved, SpentBy, CreditedTo, Unrefunded,
                Credits, Exists
  <2> QED BY <2>1, <2>2, <2>3 DEF MoneyInv
<1>2. CASE StoreNext
  BY <1>2, PaymentBalances, CreateBalances, RefundBalances, OtherStepsBalance
     DEF StoreNext, ClientStep, WorkerStep, PeriodicStep
<1> QED BY <1>1, <1>2

\* For all constants, any number of users, payments and generations: a user's
\* balance plus what the user's unrefunded generations cost is what the user's
\* payments credited, whatever charges, refunds, replays and recoveries interleave.
THEOREM MoneyIsConserved == StoreSpec => []MoneyConserved
<1>1. MoneyInv => MoneyConserved
  BY DEF MoneyInv
<1> QED BY <1>1, MoneyInit, MoneyPreserved, PTL DEF StoreSpec
=============================================================================
