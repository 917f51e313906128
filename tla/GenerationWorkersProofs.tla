----------------------- MODULE GenerationWorkersProofs -----------------------
(***************************************************************************)
(* Proofs about GenerationWorkers for every value of its constants: every  *)
(* step of the workers, the jobs and the faults is a transaction of        *)
(* GenerationStore or leaves the tables alone, so what is proved of the    *)
(* tables holds in the composed system; and rows and workers keep to the   *)
(* provider requests that were really issued (ResultInv), on which the     *)
(* theorems of GenerationClaimsProofs rest.                                *)
(***************************************************************************)
EXTENDS GenerationWorkers, GenerationStoreProofs

-----------------------------------------------------------------------------
\* Worker states

\* Whoever is not idle has a generation; whoever holds a claim can use it.
LEMMA BusyFacts ==
    ASSUME WorkersTypeOK, NEW w \in Workers, ~At(w, "idle")
    PROVE  /\ worker[w] \in WorkerStates /\ Fits(worker[w])
           /\ worker[w].gen \in GenIds
           /\ worker[w].retries \in 0 .. MaxRetries
           /\ worker[w].pc # "claim" =>
                 worker[w].token \in Claims /\ worker[w].provider \in Providers
           /\ worker[w].pc \in {"save", "poll", "complete"} => worker[w].request \in Claims
<1>1. worker[w] \in WorkerStates /\ Fits(worker[w]) /\ worker[w].pc # "idle"
  BY DEF WorkersTypeOK, At
<1>2. \A t \in Tokens : t # 0 => t \in Claims
  BY StoreAssumption DEF Tokens, Claims
<1> QED BY <1>1, <1>2 DEF WorkerStates, Fits

-----------------------------------------------------------------------------
\* Every step is a step of the tables

LEMMA WorkerStepMapped ==
    ASSUME WorkersTypeOK, NEW w \in Workers, WorkerDoes(w)
    PROVE  [StoreNext]_storeVars
<1> DEFINE g == worker[w].gen
           t == worker[w].token
<1>1. CASE \E h \in GenIds, r \in 0 .. MaxRetries : Receive(w, h, r)
  BY <1>1 DEF Receive
<1>2. CASE Claim(w)
  <2>1. g \in GenIds
    BY <1>2, BusyFacts DEF Claim, At
  <2>2. StartProcessing(g) \/ UNCHANGED storeVars
    BY <1>2 DEF Claim
  <2> QED BY <2>1, <2>2 DEF StoreNext, WorkerStep
<1>3. CASE Save(w)
  <2>1. /\ g \in GenIds /\ t \in Claims
        /\ worker[w].provider \in Providers /\ worker[w].request \in Claims
    BY <1>3, BusyFacts DEF Save, At
  <2>2. SaveProviderRequest(g, t, worker[w].provider, worker[w].request) \/ UNCHANGED storeVars
    BY <1>3 DEF Save, SaveRequest
  <2> QED BY <2>1, <2>2 DEF StoreNext, WorkerStep
<1>4. CASE Finalize(w)
  <2>1. g \in GenIds /\ t \in Claims /\ AnswerOf(w) \in ProviderRequests
    BY <1>4, BusyFacts DEF Finalize, At, AnswerOf, ProviderRequests
  <2>2. Complete(g, t, AnswerOf(w)) \/ UNCHANGED storeVars
    BY <1>4 DEF Finalize, CompleteRow
  <2> QED BY <2>1, <2>2 DEF StoreNext, WorkerStep
<1>5. CASE RequeueRow(w) \/ Switch(w)
  <2>1. g \in GenIds /\ t \in Claims
    BY <1>5, BusyFacts DEF RequeueRow, Switch, At
  <2>2. Requeue(g, t) \/ UNCHANGED storeVars
    BY <1>5 DEF RequeueRow, Switch
  <2> QED BY <2>1, <2>2 DEF StoreNext, WorkerStep
<1>6. CASE Fail(w)
  <2>1. g \in GenIds /\ t \in Claims
    BY <1>6, BusyFacts DEF Fail, At
  <2>2. FailAndRefund(g, t) \/ UNCHANGED storeVars
    BY <1>6 DEF Fail
  <2> QED BY <2>1, <2>2 DEF StoreNext, WorkerStep
<1>7. CASE Submit(w) \/ Poll(w) \/ ProviderError(w) \/ PublishRetry(w) \/ ReadRequestId(w)
  BY <1>7 DEF Submit, Poll, ProviderError, PublishRetry, ReadRequestId
<1> QED BY <1>1, <1>2, <1>3, <1>4, <1>5, <1>6, <1>7 DEF WorkerDoes

LEMMA JobsStepMapped ==
    ASSUME JobsDo
    PROVE  [StoreNext]_storeVars
<1>1. CASE \E g \in GenIds : DispatchEvent(g) \/ ExpireLease(g) \/ GoStale(g)
  BY <1>1 DEF DispatchEvent, ExpireLease, GoStale, StoreNext, PeriodicStep
<1>2. CASE \E S \in (SUBSET StaleGens) \ {{}} : Recover(S)
  BY <1>2 DEF Recover, StoreNext, PeriodicStep
<1> QED BY <1>1, <1>2 DEF JobsDo

LEMMA FaultsStepMapped ==
    ASSUME WorkersTypeOK, FaultsDo
    PROVE  [StoreNext]_storeVars
<1>1. ASSUME NEW w \in Workers, TaskError(w)
      PROVE  [StoreNext]_storeVars
  <2>1. worker[w].gen \in GenIds
    BY <1>1, BusyFacts DEF TaskError, At
  <2>2. StartProcessing(worker[w].gen) \/ UNCHANGED storeVars
    BY <1>1 DEF TaskError
  <2> QED BY <2>1, <2>2 DEF StoreNext, WorkerStep
<1>2. ASSUME NEW w \in Workers, WriteError(w)
      PROVE  [StoreNext]_storeVars
  <2>1. /\ worker[w].gen \in GenIds /\ worker[w].token \in Claims
        /\ worker[w].provider \in Providers /\ worker[w].request \in Claims
        /\ AnswerOf(w) \in ProviderRequests
    BY <1>2, BusyFacts DEF WriteError, At, AnswerOf, ProviderRequests
  <2>2. \/ SaveProviderRequest(worker[w].gen, worker[w].token,
                               worker[w].provider, worker[w].request)
        \/ Complete(worker[w].gen, worker[w].token, AnswerOf(w))
        \/ UNCHANGED storeVars
    BY <1>2 DEF WriteError, SaveRequest, CompleteRow
  <2> QED BY <2>1, <2>2 DEF StoreNext, WorkerStep
<1>3. CASE \/ \E w \in Workers : Redeliver(w) \/ AnswerLost(w)
           \/ \E g \in GenIds : DispatchAborts(g)
           \/ \E g \in GenIds, r \in 0 .. MaxRetries : LoseMessage(g, r)
  BY <1>3 DEF Redeliver, AnswerLost, DispatchAborts, LoseMessage
<1> QED BY <1>1, <1>2, <1>3 DEF FaultsDo

LEMMA StepIsStoreStep ==
    ASSUME WorkersTypeOK, [WorkersNext]_vars
    PROVE  [StoreNext]_storeVars
<1>1. CASE ClientsDo
  BY <1>1 DEF ClientsDo, StoreNext
<1>2. CASE UNCHANGED vars
  BY <1>2 DEF vars
<1> QED BY <1>1, <1>2, WorkerStepMapped, JobsStepMapped, FaultsStepMapped DEF WorkersNext

-----------------------------------------------------------------------------
\* Type correctness

WorkersFit ==
    /\ worker \in [Workers -> WorkerStates]
    /\ \A w \in Workers : Fits(worker[w])

\* A step that gives one worker a state that fits, or makes it idle.
LEMMA OneWorkerFits ==
    ASSUME WorkersFit, NEW w \in Workers, NEW s \in WorkerStates, Fits(s),
           worker' = [worker EXCEPT ![w] = s]
    PROVE  WorkersFit'
  BY DEF WorkersFit

LEMMA IdleFits == Idle \in WorkerStates /\ Fits(Idle)
  BY WorkersAssumption, ZeroIsToken DEF Idle, WorkerStates, Fits, Steps

LEMMA FinishFits ==
    ASSUME WorkersFit, NEW w \in Workers, Finish(w)
    PROVE  WorkersFit'
  BY IdleFits, OneWorkerFits DEF Finish

\* A worker that keeps its snapshot and goes to a step for which it has enough.
LEMMA GotoFits ==
    ASSUME WorkersFit, NEW w \in Workers, NEW step \in Steps \ {"idle", "claim"},
           worker[w].pc \notin {"idle", "claim"},
           step \in {"save", "poll", "complete"} => worker[w].request # 0,
           step \in {"requeue", "publish"} => worker[w].retries < MaxRetries,
           step \in {"failover", "switch", "giveUp"} => worker[w].retries = MaxRetries,
           Goto(w, step)
    PROVE  WorkersFit'
<1> DEFINE s == [worker[w] EXCEPT !.pc = step]
<1>1. worker[w] \in WorkerStates /\ Fits(worker[w])
  BY DEF WorkersFit
<1>2. s \in WorkerStates
  BY <1>1 DEF WorkerStates
<1>3. Fits(s)
  BY <1>1, Zenon DEF Fits, WorkerStates
<1>4. worker' = [worker EXCEPT ![w] = s]
  BY DEF Goto
<1> QED BY <1>2, <1>3, <1>4, OneWorkerFits

LEMMA AfterErrorFits ==
    ASSUME WorkersFit, NEW w \in Workers, NEW kind \in {"temporary", "permanent", "unexpected"},
           worker[w].pc \notin {"idle", "claim"},
           Goto(w, AfterError(w, kind))
    PROVE  WorkersFit'
<1>1. AfterError(w, kind) \in {"fail", "requeue", "failover", "giveUp"}
  BY DEF AfterError
<1>2. AfterError(w, kind) = "requeue" => worker[w].retries < MaxRetries
  BY DEF AfterError, MayRetry
<1>3. AfterError(w, kind) \in {"failover", "giveUp"} => worker[w].retries = MaxRetries
  <2>1. Fits(worker[w]) /\ worker[w].retries \in 0 .. MaxRetries
    BY DEF WorkersFit, WorkerStates
  <2>2. AfterError(w, kind) \in {"failover", "giveUp"} => ~MayRetry(w)
    BY DEF AfterError
  <2> QED BY <2>1, <2>2, WorkersAssumption DEF Fits, MayRetry
<1> QED BY <1>1, <1>2, <1>3, GotoFits DEF Steps

LEMMA ClaimFits ==
    ASSUME StoreTypeOK, WorkersFit, NEW w \in Workers, NEW g \in GenIds,
           g = worker[w].gen, At(w, "claim"), StartProcessing(g),
           worker' = [worker EXCEPT
                ![w].token = gens'[g].token, ![w].request = gens[g].requestId,
                ![w].provider = ProviderFor(w), ![w].pc = FirstStep(g)]
    PROVE  WorkersFit'
<1> DEFINE s == [worker[w] EXCEPT !.token = gens'[g].token, !.request = gens[g].requestId,
                                  !.provider = ProviderFor(w), !.pc = FirstStep(g)]
<1>1. worker[w] \in WorkerStates /\ Fits(worker[w])
  BY DEF WorkersFit
<1>2. gens[g] \in Rows /\ gens[g].attempts < MaxClaims
  BY DEF StartProcessing, MayClaim, IsStatus, Exists, StoreTypeOK
<1>3. gens'[g].token \in Tokens /\ gens'[g].token # 0
  <2>1. gens'[g] = Claimed(gens[g])
    BY DEF StartProcessing, StoreTypeOK
  <2>2. Claimed(gens[g]).token = gens[g].attempts + 1
    BY <1>2 DEF Claimed, Rows
  <2> QED BY <1>2, <2>1, <2>2, StoreAssumption DEF Rows, Tokens
<1>4. ProviderFor(w) \in Providers
  BY <1>2, WorkersAssumption DEF ProviderFor, Rows
<1>5. gens[g].requestId \in Tokens
  BY <1>2 DEF Rows
<1>6. FirstStep(g) \in {"submit", "poll"} /\ (FirstStep(g) = "poll" => gens[g].requestId # 0)
  BY DEF FirstStep
<1>7. s \in WorkerStates
  BY <1>1, <1>3, <1>4, <1>5, <1>6 DEF WorkerStates, Steps
<1>8. /\ s.pc = FirstStep(g) /\ s.token = gens'[g].token /\ s.gen = g
      /\ s.provider = ProviderFor(w) /\ s.request = gens[g].requestId
      /\ s.failover = worker[w].failover /\ s.retries = worker[w].retries
  BY <1>1 DEF WorkerStates
<1>9. Fits(s)
  <2> HIDE DEF s
  <2> QED BY <1>1, <1>3, <1>4, <1>6, <1>8, WorkersAssumption DEF Fits
<1>10. worker' = [worker EXCEPT ![w] = s]
  BY <1>1 DEF WorkersFit
<1> QED BY <1>7, <1>9, <1>10, OneWorkerFits

LEMMA WorkerStepFits ==
    ASSUME StoreTypeOK, WorkersTypeOK, NEW w \in Workers, WorkerDoes(w)
    PROVE  WorkersFit'
<1> DEFINE g == worker[w].gen
<1>0. WorkersFit /\ worker[w] \in WorkerStates /\ Fits(worker[w])
  BY DEF WorkersTypeOK, WorkersFit
<1>1. ASSUME NEW h \in GenIds, NEW r \in 0 .. MaxRetries, Receive(w, h, r)
      PROVE  WorkersFit'
  <2> DEFINE s == [Idle EXCEPT !.pc = "claim", !.gen = h, !.retries = r]
  <2>1. s \in WorkerStates /\ Fits(s)
    BY WorkersAssumption, ZeroIsToken DEF Idle, WorkerStates, Steps, Fits
  <2> QED BY <1>0, <1>1, <2>1, OneWorkerFits DEF Receive
<1>2. CASE Claim(w)
  <2>1. g \in GenIds
    BY <1>2, BusyFacts DEF Claim, At
  <2>2. CASE Finish(w)
    BY <1>0, <2>2, FinishFits
  <2>3. CASE ~Finish(w)
    BY <1>0, <1>2, <2>1, <2>3, ClaimFits DEF Claim, DropWhenRefused
  <2> QED BY <2>2, <2>3
<1>3. CASE Submit(w)
  <2> DEFINE s == [worker[w] EXCEPT !.request = worker[w].token, !.pc = "save"]
  <2>1. s \in WorkerStates
    BY <1>0 DEF WorkerStates, Steps
  <2>2. Fits(s)
    BY <1>0, <1>3 DEF Fits, WorkerStates, Submit, At
  <2>3. worker' = [worker EXCEPT ![w] = s]
    BY <1>0, <1>3 DEF Submit, WorkersFit
  <2> QED BY <1>0, <2>1, <2>2, <2>3, OneWorkerFits
<1>4. CASE Save(w)
  <2>1. worker[w].pc = "save" /\ worker[w].request # 0
    BY <1>0, <1>4 DEF Save, At, Fits
  <2>2. Goto(w, "poll") \/ Finish(w)
    BY <1>4 DEF Save
  <2> QED BY <1>0, <2>1, <2>2, GotoFits, FinishFits DEF Steps
<1>5. CASE Poll(w)
  <2>1. worker[w].pc = "poll" /\ worker[w].request # 0 /\ Goto(w, "complete")
    BY <1>0, <1>5 DEF Poll, At, Fits
  <2> QED BY <1>0, <2>1, GotoFits DEF Steps
<1>6. CASE Finalize(w) \/ Fail(w) \/ PublishRetry(w)
  BY <1>0, <1>6, FinishFits DEF Finalize, Fail, PublishRetry
<1>7. CASE ProviderError(w)
  <2>1. worker[w].pc \notin {"idle", "claim"}
    BY <1>7 DEF ProviderError, At
  <2> QED BY <1>0, <1>7, <2>1, AfterErrorFits DEF ProviderError
<1>8. CASE RequeueRow(w)
  <2>1. worker[w].pc = "requeue" /\ worker[w].retries < MaxRetries /\ Goto(w, "publish")
    BY <1>0, <1>8 DEF RequeueRow, At, Fits
  <2> QED BY <1>0, <2>1, GotoFits DEF Steps
<1>9. CASE ReadRequestId(w)
  <2>1. /\ worker[w].pc = "failover" /\ worker[w].retries = MaxRetries
        /\ Goto(w, "switch") \/ Goto(w, "giveUp")
    BY <1>0, <1>9 DEF ReadRequestId, At, Fits
  <2> QED BY <1>0, <2>1, GotoFits DEF Steps
<1>10. CASE Switch(w)
  <2>1. worker[w].pc = "switch" /\ worker[w].retries = MaxRetries
    BY <1>0, <1>10 DEF Switch, At, Fits
  <2>2. CASE Goto(w, "giveUp")
    BY <1>0, <2>1, <2>2, GotoFits DEF Steps
  <2>3. CASE worker' = [worker EXCEPT ![w].pc = "claim", ![w].failover = TRUE]
    <3> DEFINE s == [worker[w] EXCEPT !.pc = "claim", !.failover = TRUE]
    <3>1. s \in WorkerStates
      BY <1>0 DEF WorkerStates, Steps
    <3>2. Fits(s)
      BY <1>0, <2>1 DEF Fits, WorkerStates
    <3>3. worker' = [worker EXCEPT ![w] = s]
      BY <1>0, <2>3 DEF WorkersFit
    <3> QED BY <1>0, <3>1, <3>2, <3>3, OneWorkerFits
  <2> QED BY <1>10, <2>2, <2>3 DEF Switch
<1> QED BY <1>1, <1>2, <1>3, <1>4, <1>5, <1>6, <1>7, <1>8, <1>9, <1>10 DEF WorkerDoes

LEMMA FaultStepFits ==
    ASSUME WorkersTypeOK, FaultsDo
    PROVE  WorkersFit'
<1>0. WorkersFit
  BY DEF WorkersTypeOK, WorkersFit
<1>1. CASE UNCHANGED worker
  BY <1>0, <1>1 DEF WorkersFit
<1>2. ASSUME NEW w \in Workers, Redeliver(w) \/ TaskError(w)
      PROVE  WorkersFit'
  BY <1>0, <1>1, <1>2, FinishFits DEF Redeliver, TaskError
<1>3. ASSUME NEW w \in Workers, WriteError(w) \/ AnswerLost(w)
      PROVE  WorkersFit'
  <2>1. worker[w].pc \notin {"idle", "claim"}
    BY <1>3 DEF WriteError, AnswerLost, At
  <2>2. \E kind \in {"temporary", "permanent", "unexpected"} : Goto(w, AfterError(w, kind))
    BY <1>3 DEF WriteError, AnswerLost
  <2> QED BY <1>0, <2>1, <2>2, AfterErrorFits
<1>4. CASE \/ \E g \in GenIds : DispatchAborts(g)
           \/ \E g \in GenIds, r \in 0 .. MaxRetries : LoseMessage(g, r)
  BY <1>1, <1>4 DEF DispatchAborts, LoseMessage
<1> QED BY <1>2, <1>3, <1>4 DEF FaultsDo

\* The counters and the broker.
Ledger ==
    /\ broker \in [Messages -> 0 .. MaxCopies]
    /\ submitted \in [GenIds -> SUBSET ProviderRequests]
    /\ unanswered \in [GenIds -> Nat]
    /\ faults \in 0 .. MaxFaults

LEMMA EnqueueTyped ==
    ASSUME broker \in [Messages -> 0 .. MaxCopies], NEW g \in GenIds,
           NEW r \in 0 .. MaxRetries, Enqueue(g, r)
    PROVE  broker' \in [Messages -> 0 .. MaxCopies]
<1>1. <<g, r>> \in Messages
  BY DEF Messages
<1>2. broker[<<g, r>>] + 1 \in 0 .. MaxCopies
  BY <1>1, WorkersAssumption DEF Enqueue
<1> QED BY <1>1, <1>2 DEF Enqueue

LEMMA DequeueTyped ==
    ASSUME broker \in [Messages -> 0 .. MaxCopies], NEW g \in GenIds,
           NEW r \in 0 .. MaxRetries, broker[<<g, r>>] > 0,
           broker' = [broker EXCEPT ![<<g, r>>] = @ - 1]
    PROVE  broker' \in [Messages -> 0 .. MaxCopies]
<1>1. <<g, r>> \in Messages
  BY DEF Messages
<1>2. broker[<<g, r>>] - 1 \in 0 .. MaxCopies
  BY <1>1, WorkersAssumption
<1> QED BY <1>1, <1>2

LEMMA FaultTyped ==
    ASSUME faults \in 0 .. MaxFaults, Fault \/ UNCHANGED faults
    PROVE  faults' \in 0 .. MaxFaults
  BY WorkersAssumption DEF Fault

LEMMA LedgerStep ==
    ASSUME WorkersTypeOK, [WorkersNext]_vars
    PROVE  Ledger'
<1>0. Ledger
  BY DEF WorkersTypeOK, Ledger
<1>1. ASSUME NEW w \in Workers, WorkerDoes(w)
      PROVE  Ledger'
  <2>1. ASSUME NEW h \in GenIds, NEW r \in 0 .. MaxRetries, Receive(w, h, r)
        PROVE  Ledger'
    BY <1>0, <2>1, DequeueTyped DEF Receive, Ledger
  <2>2. CASE Submit(w)
    <3>1. /\ worker[w].gen \in GenIds
          /\ <<worker[w].provider, worker[w].token>> \in ProviderRequests
      BY <2>2, BusyFacts DEF Submit, At, ProviderRequests
    <3> QED BY <1>0, <2>2, <3>1 DEF Submit, Ledger
  <2>3. CASE PublishRetry(w)
    <3>1. /\ worker[w].gen \in GenIds
          /\ worker[w].retries \in 0 .. MaxRetries /\ worker[w].retries < MaxRetries
      BY <2>3, BusyFacts DEF PublishRetry, At, Fits
    <3>2. NextRetries(w) \in 0 .. MaxRetries
      BY <3>1, WorkersAssumption DEF NextRetries
    <3> QED BY <1>0, <2>3, <3>1, <3>2, EnqueueTyped DEF PublishRetry, Ledger
  <2>4. CASE \/ Claim(w) \/ Save(w) \/ Poll(w) \/ Finalize(w) \/ ProviderError(w)
             \/ RequeueRow(w) \/ ReadRequestId(w) \/ Switch(w) \/ Fail(w)
    <3>1. UNCHANGED <<broker, submitted, unanswered, faults>>
      BY <2>4 DEF Claim, Save, Poll, Finalize, ProviderError, RequeueRow, ReadRequestId,
                  Switch, Fail
    <3> QED BY <1>0, <3>1 DEF Ledger
  <2> QED BY <1>1, <2>1, <2>2, <2>3, <2>4 DEF WorkerDoes
<1>2. CASE JobsDo
  <2>1. ASSUME NEW g \in GenIds, DispatchEvent(g)
        PROVE  Ledger'
    <3>1. 0 \in 0 .. MaxRetries
      BY WorkersAssumption
    <3> QED BY <1>0, <2>1, <3>1, EnqueueTyped DEF DispatchEvent, Ledger
  <2>2. CASE \/ \E g \in GenIds : ExpireLease(g) \/ GoStale(g)
             \/ \E S \in (SUBSET StaleGens) \ {{}} : Recover(S)
    <3>1. UNCHANGED <<broker, submitted, unanswered>> /\ (Fault \/ UNCHANGED faults)
      BY <2>2 DEF ExpireLease, GoStale, Recover, taskVars
    <3> QED BY <1>0, <3>1, FaultTyped DEF Ledger
  <2> QED BY <1>2, <2>1, <2>2 DEF JobsDo
<1>3. CASE FaultsDo
  <2>1. ASSUME NEW w \in Workers, Redeliver(w)
        PROVE  Ledger'
    <3>1. worker[w].gen \in GenIds /\ worker[w].retries \in 0 .. MaxRetries
      BY <2>1, BusyFacts DEF Redeliver
    <3> QED BY <1>0, <2>1, <3>1, EnqueueTyped, FaultTyped DEF Redeliver, Ledger
  <2>2. ASSUME NEW w \in Workers, TaskError(w) \/ WriteError(w)
        PROVE  Ledger'
    <3>1. UNCHANGED <<broker, submitted, unanswered>> /\ Fault
      BY <2>2 DEF TaskError, WriteError
    <3> QED BY <1>0, <3>1, FaultTyped DEF Ledger
  <2>3. ASSUME NEW w \in Workers, AnswerLost(w)
        PROVE  Ledger'
    <3>1. worker[w].gen \in GenIds
      BY <2>3, BusyFacts DEF AnswerLost, At
    <3> QED BY <1>0, <2>3, <3>1, FaultTyped DEF AnswerLost, Ledger
  <2>4. ASSUME NEW g \in GenIds, DispatchAborts(g)
        PROVE  Ledger'
    <3>1. 0 \in 0 .. MaxRetries
      BY WorkersAssumption
    <3> QED BY <1>0, <2>4, <3>1, EnqueueTyped, FaultTyped DEF DispatchAborts, Ledger
  <2>5. ASSUME NEW g \in GenIds, NEW r \in 0 .. MaxRetries, LoseMessage(g, r)
        PROVE  Ledger'
    BY <1>0, <2>5, DequeueTyped, FaultTyped DEF LoseMessage, Ledger
  <2> QED BY <1>3, <2>1, <2>2, <2>3, <2>4, <2>5 DEF FaultsDo
<1>4. CASE ClientsDo \/ UNCHANGED vars
  BY <1>0, <1>4 DEF ClientsDo, vars, taskVars, Ledger
<1> QED BY <1>1, <1>2, <1>3, <1>4 DEF WorkersNext

LEMMA WorkersTypeStep ==
    ASSUME StoreTypeOK, WorkersTypeOK, [WorkersNext]_vars
    PROVE  WorkersTypeOK'
<1>1. WorkersFit'
  <2>1. CASE UNCHANGED worker
    BY <2>1 DEF WorkersTypeOK, WorkersFit
  <2>2. CASE ClientsDo \/ JobsDo \/ UNCHANGED vars
    BY <2>1, <2>2 DEF ClientsDo, JobsDo, DispatchEvent, ExpireLease, GoStale, Recover,
                      vars, taskVars
  <2> QED BY <2>2, WorkerStepFits, FaultStepFits DEF WorkersNext
<1> QED BY <1>1, LedgerStep DEF WorkersTypeOK, WorkersFit, Ledger

LEMMA WorkersInitTyped ==
    ASSUME WorkersInit
    PROVE  WorkersTypeOK
<1>1. broker \in [Messages -> 0 .. MaxCopies] /\ faults \in 0 .. MaxFaults
  BY WorkersAssumption DEF WorkersInit
<1> QED BY <1>1, IdleFits DEF WorkersInit, WorkersTypeOK

-----------------------------------------------------------------------------
\* What a step does to requests and claims

RowGrows(new, old) ==
    /\ new # None /\ new.attempts >= old.attempts
    /\ old.requestId # 0 => new.requestId = old.requestId
    /\ new.token \in {0, old.token} \/ new.token > old.attempts

RowQuiet(new, old) ==
    /\ new.requestId = old.requestId /\ new.provider = old.provider
    /\ new = old \/ (new.status # "completed" /\ old.status # "completed")

Growing == \A g \in GenIds : Exists(g) => RowGrows(gens'[g], gens[g])

\* No request is recorded and nothing completes.
QuietRows ==
    \A g \in GenIds :
        \/ gens'[g] = gens[g]
        \/ Exists(g) /\ RowQuiet(gens'[g], gens[g])
        \/ gens'[g].requestId = 0 /\ gens'[g].status = "created"

LEMMA RowNumbers ==
    ASSUME NEW row \in Rows
    PROVE  /\ row # None /\ row.attempts \in Nat /\ row.token \in Nat
           /\ RowGrows(row, row)
  BY StoreAssumption DEF Rows, Tokens, RowGrows

LEMMA OneRowGrows ==
    ASSUME StoreInv, NEW g \in GenIds, Exists(g),
           NEW row \in Rows, RowGrows(row, gens[g]), gens' = [gens EXCEPT ![g] = row]
    PROVE  /\ Growing
           /\ RowQuiet(row, gens[g]) => QuietRows
<1>1. gens'[g] = row /\ \A h \in GenIds : h # g => gens'[h] = gens[h]
  BY DEF StoreInv, StoreTypeOK
<1>2. \A h \in GenIds : Exists(h) => RowGrows(gens[h], gens[h])
  BY RowFacts, RowNumbers
<1>3. Growing
  BY <1>1, <1>2 DEF Growing
<1>4. RowQuiet(row, gens[g]) => QuietRows
  BY <1>1 DEF QuietRows
<1> QED BY <1>3, <1>4

LEMMA SameRowsQuiet ==
    ASSUME StoreInv, UNCHANGED gens
    PROVE  Growing /\ QuietRows
<1>1. \A h \in GenIds : Exists(h) => RowGrows(gens[h], gens[h])
  BY RowFacts, RowNumbers
<1> QED BY <1>1 DEF Growing, QuietRows

LEMMA ReleasedGrows ==
    ASSUME NEW row \in Rows, RowCoherent(row), row.status = "processing"
    PROVE  /\ Released(row) \in Rows
           /\ RowGrows(Released(row), row) /\ RowQuiet(Released(row), row)
<1>1. Released(row) \in Rows
  BY ReleasedFacts DEF RowAfter
<1> QED BY <1>1, RowNumbers DEF Released, Rows, RowGrows, RowQuiet

\* Every transaction on one row but the two that record a request or a result.
LEMMA QuietActions ==
    ASSUME StoreInv, NEW g \in GenIds,
           \/ StartProcessing(g)
           \/ \E t \in Claims : Requeue(g, t) \/ FailAndRefund(g, t)
           \/ DispatchOutbox(g) \/ LeaseExpires(g) \/ QueuedGoesStale(g)
    PROVE  Growing /\ QuietRows
<1> DEFINE row == gens[g]
<1>1. Exists(g)
  BY DEF StartProcessing, MayClaim, Requeue, HoldsClaim, FailAndRefund, MayFail,
         DispatchOutbox, LeaseExpires, QueuedGoesStale, IsStatus, StoreInv, CreatedIsPending
<1>2. row \in Rows /\ RowCoherent(row)
  BY <1>1, RowFacts
<1>3. row # None /\ row.attempts \in Nat /\ row.token \in Nat /\ RowGrows(row, row)
  BY <1>2, RowNumbers
<1>4. CASE StartProcessing(g)
  <2>1. row.attempts < MaxClaims /\ row.status \notin Terminal
    BY <1>4 DEF StartProcessing, MayClaim, IsStatus, Terminal
  <2>2. Claimed(row) \in Rows
    BY <1>2, <2>1, ClaimedFacts DEF RowAfter
  <2>3. /\ Claimed(row).attempts = row.attempts + 1 /\ Claimed(row).token = row.attempts + 1
        /\ Claimed(row).requestId = row.requestId /\ Claimed(row).status = "processing"
        /\ Claimed(row).provider = row.provider
    BY <1>2 DEF Claimed, Rows
  <2>4. Claimed(row) # None
    BY <2>2, RowNumbers
  <2>5. RowGrows(Claimed(row), row) /\ RowQuiet(Claimed(row), row)
    BY <1>3, <2>1, <2>3, <2>4 DEF RowGrows, RowQuiet, Terminal
  <2> QED BY <1>1, <1>4, <2>2, <2>5, OneRowGrows DEF StartProcessing
<1>5. CASE \E t \in Claims : Requeue(g, t)
  <2>1. row.status = "processing"
    BY <1>5 DEF Requeue, HoldsClaim, IsStatus
  <2>2. /\ Released(row) \in Rows
        /\ RowGrows(Released(row), row) /\ RowQuiet(Released(row), row)
    BY <1>2, <2>1, ReleasedGrows
  <2> QED BY <1>1, <1>5, <2>2, OneRowGrows DEF Requeue
<1>6. CASE \E t \in Claims : FailAndRefund(g, t)
  <2>1. row.status \notin Terminal
    BY <1>6 DEF FailAndRefund, MayFail, IsStatus, Terminal
  <2>2. Failed(row) \in Rows
    BY <1>2, <2>1, FailedFacts DEF RowAfter
  <2>3. /\ Failed(row).requestId = row.requestId /\ Failed(row).provider = row.provider
        /\ Failed(row).status = "failed" /\ Failed(row).token = 0
        /\ Failed(row).attempts = row.attempts
    BY <1>2 DEF Failed, Rows
  <2>4. RowGrows(Failed(row), row)
    BY <1>3, <2>2, <2>3, RowNumbers DEF RowGrows
  <2>5. RowQuiet(Failed(row), row)
    BY <2>1, <2>3 DEF RowQuiet, Terminal
  <2> QED BY <1>1, <1>6, <2>2, <2>4, <2>5, OneRowGrows DEF FailAndRefund
<1>7. CASE DispatchOutbox(g)
  <2>1. CASE row.status = "created"
    <3>1. Queued(row) \in Rows
      BY <1>2, <2>1, QueuedFacts DEF RowAfter
    <3>2. RowGrows(Queued(row), row) /\ RowQuiet(Queued(row), row)
      BY <1>2, <1>3, <2>1, <3>1, StoreAssumption DEF Queued, Rows, RowGrows, RowQuiet
    <3>3. gens' = [gens EXCEPT ![g] = Queued(row)]
      BY <1>1, <1>7, <2>1 DEF DispatchOutbox, IsStatus
    <3> QED BY <1>1, <3>1, <3>2, <3>3, OneRowGrows
  <2>2. CASE row.status # "created"
    <3>1. gens' = [gens EXCEPT ![g] = row]
      BY <1>7, <2>2 DEF DispatchOutbox, IsStatus
    <3> QED BY <1>1, <1>2, <1>3, <3>1, OneRowGrows DEF RowQuiet
  <2> QED BY <2>1, <2>2
<1>8. CASE LeaseExpires(g)
  <2>1. row.status = "processing"
    BY <1>8 DEF LeaseExpires, IsStatus
  <2>2. Expired(row) \in Rows
    BY <1>2, <2>1, ExpiredFacts DEF RowAfter
  <2>3. RowGrows(Expired(row), row) /\ RowQuiet(Expired(row), row)
    BY <1>2, <1>3, <2>1, <2>2, StoreAssumption DEF Expired, Rows, RowGrows, RowQuiet
  <2> QED BY <1>1, <1>8, <2>2, <2>3, OneRowGrows DEF LeaseExpires
<1>9. CASE QueuedGoesStale(g)
  <2>1. row.status = "queued"
    BY <1>9 DEF QueuedGoesStale, IsStatus
  <2>2. Aged(row) \in Rows
    BY <1>2, AgedFacts DEF RowAfter
  <2>3. RowGrows(Aged(row), row) /\ RowQuiet(Aged(row), row)
    BY <1>2, <1>3, <2>1, <2>2, StoreAssumption DEF Aged, Rows, RowGrows, RowQuiet
  <2> QED BY <1>1, <1>9, <2>2, <2>3, OneRowGrows DEF QueuedGoesStale
<1> QED BY <1>4, <1>5, <1>6, <1>7, <1>8, <1>9

LEMMA QuietRecovery ==
    ASSUME StoreInv, NEW S, RecoverStale(S)
    PROVE  Growing /\ QuietRows
<1>1. ASSUME NEW g \in GenIds
      PROVE  \/ gens'[g] = gens[g]
             \/ IsStatus(g, "processing") /\ gens'[g] = Released(gens[g])
  BY DEF RecoverStale
<1>2. ASSUME NEW g \in GenIds, Exists(g)
      PROVE  RowGrows(gens'[g], gens[g])
  BY <1>1, <1>2, RowFacts, RowNumbers, ReleasedGrows DEF IsStatus
<1>3. QuietRows
  BY <1>1, RowFacts, ReleasedGrows DEF QuietRows, IsStatus
<1> QED BY <1>2, <1>3 DEF Growing

LEMMA QuietClients ==
    ASSUME StoreInv, ClientStep
    PROVE  Growing /\ QuietRows
<1>1. CASE \/ \E u \in Users : RegisterUser(u)
           \/ \E p \in PaymentIds, u \in Users, a \in Amounts : ApplyCredit(p, u, a)
  BY <1>1, SameRowsQuiet DEF RegisterUser, ApplyCredit
<1>2. ASSUME NEW g \in GenIds, NEW u \in Users, NEW k \in Keys, NEW r \in Requests,
             NEW c \in Costs, CreateAndCharge(g, u, k, r, c)
      PROVE  Growing /\ QuietRows
  <2>1. ~Exists(g) /\ gens'[g] = NewRow(u, k, r, c) /\ \A h \in GenIds : h # g => gens'[h] = gens[h]
    BY <1>2 DEF CreateAndCharge, StoreInv, StoreTypeOK
  <2>2. NewRow(u, k, r, c).requestId = 0 /\ NewRow(u, k, r, c).status = "created"
    BY DEF NewRow
  <2>3. Growing
    BY <2>1, RowFacts, RowNumbers DEF Growing
  <2>4. QuietRows
    BY <2>1, <2>2 DEF QuietRows
  <2> QED BY <2>3, <2>4
<1> QED BY <1>1, <1>2 DEF ClientStep

-----------------------------------------------------------------------------
\* Requests are kept

LEMMA QuietKeepsRequests ==
    ASSUME RequestsKept, QuietRows,
           \A g \in GenIds : submitted[g] \subseteq submitted'[g]
    PROVE  RequestsKept'
<1> SUFFICES ASSUME NEW g \in GenIds, gens'[g] # None
             PROVE  /\ gens'[g].requestId # 0 /\ gens'[g].status # "completed" =>
                          <<gens'[g].provider, gens'[g].requestId>> \in submitted'[g]
                    /\ gens'[g].status = "completed" =>
                          /\ gens'[g].result[2] = gens'[g].requestId
                          /\ AnswerFits(g, gens[g].result[1], gens[g].result[2])'
  BY DEF RequestsKept, Exists
<1>1. CASE gens'[g] = gens[g]
  BY <1>1 DEF RequestsKept, Exists, AnswerFits
<1>2. CASE Exists(g) /\ RowQuiet(gens'[g], gens[g])
  BY <1>1, <1>2 DEF RequestsKept, RowQuiet
<1>3. CASE gens'[g].requestId = 0 /\ gens'[g].status = "created"
  BY <1>3
<1> QED BY <1>1, <1>2, <1>3 DEF QuietRows

LEMMA SaveKeepsRequests ==
    ASSUME StoreInv, WorkersTypeOK, ResultInv, UNCHANGED submitted,
           NEW w \in Workers, At(w, "save"), SaveRequest(w)
    PROVE  Growing /\ RequestsKept'
<1> DEFINE g == worker[w].gen
           p == worker[w].provider
           r == worker[w].request
<1>1. g \in GenIds /\ worker[w].token \in Claims /\ p \in Providers /\ r \in Claims
  BY BusyFacts DEF At
<1>2. <<p, r>> \in submitted[g]
  BY DEF ResultInv, Tracks, At
<1>3. /\ Exists(g) /\ gens[g].status = "processing" /\ gens[g].requestId = 0
      /\ gens' = [gens EXCEPT ![g] = Submitted(gens[g], p, r)]
  BY DEF SaveRequest, SaveProviderRequest, MaySave, HoldsClaim, IsStatus
<1>4. gens[g] \in Rows /\ RowCoherent(gens[g])
  BY <1>1, <1>3, RowFacts
<1>5. Submitted(gens[g], p, r) \in Rows
  BY <1>1, <1>4, SubmittedFacts DEF RowAfter
<1>6. /\ Submitted(gens[g], p, r).requestId = r /\ Submitted(gens[g], p, r).provider = p
      /\ Submitted(gens[g], p, r).status = "processing"
      /\ RowGrows(Submitted(gens[g], p, r), gens[g])
  BY <1>3, <1>4, <1>5, RowNumbers DEF Submitted, Rows, RowGrows
<1>7. gens'[g] = Submitted(gens[g], p, r) /\ \A h \in GenIds : h # g => gens'[h] = gens[h]
  BY <1>1, <1>3 DEF StoreInv, StoreTypeOK
<1>8. Growing
  BY <1>1, <1>3, <1>5, <1>6, OneRowGrows
<1>9. RequestsKept'
  BY <1>2, <1>6, <1>7 DEF ResultInv, RequestsKept, AnswerFits, Exists
<1> QED BY <1>8, <1>9

LEMMA CompleteKeepsRequests ==
    ASSUME StoreInv, WorkersTypeOK, ResultInv, UNCHANGED submitted,
           NEW w \in Workers, At(w, "complete"), CompleteRow(w)
    PROVE  Growing /\ RequestsKept'
<1> DEFINE g == worker[w].gen
           a == AnswerOf(w)
<1>1. /\ g \in GenIds /\ worker[w].token \in Claims /\ a \in ProviderRequests
      /\ a[1] = worker[w].provider /\ a[2] = worker[w].request
  BY BusyFacts DEF At, AnswerOf, ProviderRequests
<1>2. /\ Exists(g) /\ gens[g].status = "processing" /\ HoldsClaim(g, worker[w].token)
      /\ gens' = [gens EXCEPT ![g] = Completed(gens[g], a)]
  BY DEF CompleteRow, Complete, HoldsClaim, IsStatus
<1>3. gens[g].requestId = a[2] /\ AnswerFits(g, a[1], a[2])
  BY <1>1, <1>2 DEF ResultInv, Tracks, At
<1>4. gens[g] \in Rows /\ RowCoherent(gens[g])
  BY <1>1, <1>2, RowFacts
<1>5. Completed(gens[g], a) \in Rows
  BY <1>1, <1>2, <1>4, CompletedFacts DEF RowAfter
<1>6. /\ Completed(gens[g], a).requestId = a[2] /\ Completed(gens[g], a).result = a
      /\ Completed(gens[g], a).status = "completed"
      /\ RowGrows(Completed(gens[g], a), gens[g])
  BY <1>3, <1>4, <1>5, RowNumbers DEF Completed, Rows, RowGrows
<1>7. gens'[g] = Completed(gens[g], a) /\ \A h \in GenIds : h # g => gens'[h] = gens[h]
  BY <1>1, <1>2 DEF StoreInv, StoreTypeOK
<1>8. Growing
  BY <1>1, <1>2, <1>5, <1>6, OneRowGrows
<1>9. RequestsKept'
  BY <1>1, <1>3, <1>6, <1>7 DEF ResultInv, RequestsKept, AnswerFits, Exists
<1> QED BY <1>8, <1>9

LEMMA RequestsStep ==
    ASSUME StoreInv, WorkersTypeOK, ResultInv, [WorkersNext]_vars
    PROVE  Growing /\ RequestsKept'
<1>0. RequestsKept
  BY DEF ResultInv
<1>1. ASSUME Growing /\ QuietRows, UNCHANGED submitted
      PROVE  Growing /\ RequestsKept'
  BY <1>0, <1>1, QuietKeepsRequests
<1>2. ASSUME UNCHANGED storeVars, UNCHANGED submitted
      PROVE  Growing /\ RequestsKept'
  BY <1>1, <1>2, SameRowsQuiet DEF storeVars
<1>3. ASSUME NEW w \in Workers, WorkerDoes(w)
      PROVE  Growing /\ RequestsKept'
  <2> DEFINE g == worker[w].gen
  <2>1. CASE \/ \E h \in GenIds, r \in 0 .. MaxRetries : Receive(w, h, r)
             \/ Poll(w) \/ ProviderError(w) \/ PublishRetry(w) \/ ReadRequestId(w)
    BY <1>2, <2>1 DEF Receive, Poll, ProviderError, PublishRetry, ReadRequestId
  <2>2. CASE Submit(w)
    <3>1. \A h \in GenIds : submitted[h] \subseteq submitted'[h]
      BY <2>2 DEF Submit, WorkersTypeOK
    <3>2. Growing /\ QuietRows
      BY <2>2, SameRowsQuiet DEF Submit, storeVars
    <3> QED BY <1>0, <3>1, <3>2, QuietKeepsRequests
  <2>3. CASE Claim(w)
    <3>1. g \in GenIds /\ UNCHANGED submitted /\ (StartProcessing(g) \/ UNCHANGED storeVars)
      BY <2>3, BusyFacts DEF Claim, At
    <3> QED BY <1>1, <1>2, <3>1, QuietActions
  <2>4. CASE Save(w)
    <3>1. At(w, "save") /\ UNCHANGED submitted /\ (SaveRequest(w) \/ UNCHANGED storeVars)
      BY <2>4 DEF Save
    <3> QED BY <1>2, <3>1, SaveKeepsRequests
  <2>5. CASE Finalize(w)
    <3>1. At(w, "complete") /\ UNCHANGED submitted /\ (CompleteRow(w) \/ UNCHANGED storeVars)
      BY <2>5 DEF Finalize
    <3> QED BY <1>2, <3>1, CompleteKeepsRequests
  <2>6. CASE RequeueRow(w) \/ Switch(w)
    <3>1. /\ g \in GenIds /\ worker[w].token \in Claims /\ UNCHANGED submitted
          /\ (Requeue(g, worker[w].token) \/ UNCHANGED storeVars)
      BY <2>6, BusyFacts DEF RequeueRow, Switch, At
    <3> QED BY <1>1, <1>2, <3>1, QuietActions
  <2>7. CASE Fail(w)
    <3>1. /\ g \in GenIds /\ worker[w].token \in Claims /\ UNCHANGED submitted
          /\ (FailAndRefund(g, worker[w].token) \/ UNCHANGED storeVars)
      BY <2>7, BusyFacts DEF Fail, At
    <3> QED BY <1>1, <1>2, <3>1, QuietActions
  <2> QED BY <1>3, <2>1, <2>2, <2>3, <2>4, <2>5, <2>6, <2>7 DEF WorkerDoes
<1>4. CASE JobsDo
  <2>1. ASSUME NEW g \in GenIds, DispatchEvent(g) \/ ExpireLease(g) \/ GoStale(g)
        PROVE  Growing /\ RequestsKept'
    <3>1. UNCHANGED submitted /\ (DispatchOutbox(g) \/ LeaseExpires(g) \/ QueuedGoesStale(g))
      BY <2>1 DEF DispatchEvent, ExpireLease, GoStale, taskVars
    <3> QED BY <1>1, <3>1, QuietActions
  <2>2. ASSUME NEW S, Recover(S)
        PROVE  Growing /\ RequestsKept'
    BY <1>1, <2>2, QuietRecovery DEF Recover
  <2> QED BY <1>4, <2>1, <2>2 DEF JobsDo
<1>5. CASE FaultsDo
  <2>1. ASSUME NEW w \in Workers, TaskError(w)
        PROVE  Growing /\ RequestsKept'
    <3>1. /\ worker[w].gen \in GenIds /\ UNCHANGED submitted
          /\ (StartProcessing(worker[w].gen) \/ UNCHANGED storeVars)
      BY <2>1, BusyFacts DEF TaskError, At
    <3> QED BY <1>1, <1>2, <3>1, QuietActions
  <2>2. ASSUME NEW w \in Workers, WriteError(w)
        PROVE  Growing /\ RequestsKept'
    <3>1. /\ UNCHANGED submitted
          /\ \/ At(w, "save") /\ SaveRequest(w)
             \/ At(w, "complete") /\ CompleteRow(w)
             \/ UNCHANGED storeVars
      BY <2>2 DEF WriteError
    <3> QED BY <1>2, <3>1, SaveKeepsRequests, CompleteKeepsRequests
  <2>3. CASE \/ \E w \in Workers : Redeliver(w) \/ AnswerLost(w)
             \/ \E g \in GenIds : DispatchAborts(g)
             \/ \E g \in GenIds, r \in 0 .. MaxRetries : LoseMessage(g, r)
    BY <1>2, <2>3 DEF Redeliver, AnswerLost, DispatchAborts, LoseMessage
  <2> QED BY <1>5, <2>1, <2>2, <2>3 DEF FaultsDo
<1>6. CASE ClientsDo
  BY <1>1, <1>6, QuietClients DEF ClientsDo, taskVars
<1>7. CASE UNCHANGED vars
  BY <1>2, <1>7 DEF vars, taskVars
<1> QED BY <1>3, <1>4, <1>5, <1>6, <1>7 DEF WorkersNext

-----------------------------------------------------------------------------
\* Workers track their rows

HoldsNext(g, t) ==
    gens'[g] # None /\ gens'[g].status = "processing" /\ gens'[g].token = t

AnswerFitsNext(g, p, r) ==
    \/ <<p, r>> \in submitted'[g]
    \/ p = Fallback /\ \E q \in Providers : <<q, r>> \in submitted'[g]

\* Tracks of a state in the next state of the tables.
TracksNext(s) ==
    s.pc # "idle" =>
        /\ gens'[s.gen] # None /\ s.token <= gens'[s.gen].attempts
        /\ s.pc = "save" => <<s.provider, s.request>> \in submitted'[s.gen]
        /\ s.pc \in {"poll", "complete"} => AnswerFitsNext(s.gen, s.provider, s.request)
        /\ s.pc \in {"poll", "complete"} /\ HoldsNext(s.gen, s.token) =>
              gens'[s.gen].requestId = s.request

SubmittedGrows == \A g \in GenIds : submitted[g] \subseteq submitted'[g]

\* A claim that stands in the next state stands now, so a snapshot stays true.
LEMMA SnapshotKept ==
    ASSUME StoreInv, StoreTypeOK', Growing, SubmittedGrows,
           NEW s \in WorkerStates, Fits(s), Tracks(s)
    PROVE  TracksNext(s)
<1> SUFFICES ASSUME s.pc # "idle"
             PROVE  TracksNext(s)
  BY DEF TracksNext
<1> DEFINE old == gens[s.gen]
           new == gens'[s.gen]
<1>1. s.gen \in GenIds /\ Exists(s.gen) /\ s.token \in Nat /\ s.token <= old.attempts
  BY StoreAssumption DEF Fits, WorkerStates, Tracks, Tokens
<1>2. old \in Rows /\ RowCoherent(old) /\ old.attempts \in Nat
  BY <1>1, RowFacts, RowNumbers
<1>3. new # None /\ new.attempts >= old.attempts
      /\ (old.requestId # 0 => new.requestId = old.requestId)
      /\ (new.token \in {0, old.token} \/ new.token > old.attempts)
  BY <1>1 DEF Growing, RowGrows
<1>4. s.token <= new.attempts
  <2>1. new \in Rows
    BY <1>1, <1>3 DEF StoreTypeOK
  <2>2. new.attempts \in Nat
    BY <2>1, RowNumbers
  <2> QED BY <1>1, <1>2, <1>3, <2>2
<1>5. ASSUME s.pc \in {"poll", "complete"}, HoldsNext(s.gen, s.token)
      PROVE  new.requestId = s.request
  <2>1. s.token # 0 /\ s.request # 0 /\ new.token = s.token
    BY <1>5 DEF Fits, HoldsNext
  <2>2. old.token = s.token
    BY <1>1, <1>2, <1>3, <2>1
  <2>3. HoldsClaim(s.gen, s.token)
    BY <1>1, <1>2, <2>1, <2>2 DEF HoldsClaim, IsStatus, RowCoherent
  <2> QED BY <1>3, <1>5, <2>1, <2>3 DEF Tracks
<1>6. /\ s.pc = "save" => <<s.provider, s.request>> \in submitted'[s.gen]
      /\ s.pc \in {"poll", "complete"} => AnswerFitsNext(s.gen, s.provider, s.request)
  BY <1>1 DEF Tracks, SubmittedGrows, AnswerFits, AnswerFitsNext
<1> QED BY <1>3, <1>4, <1>5, <1>6 DEF TracksNext

\* What the lemmas below have in common.
StepFacts ==
    /\ StoreInv /\ StoreTypeOK' /\ WorkersTypeOK /\ ResultInv
    /\ Growing /\ SubmittedGrows

AllTrack == \A w \in Workers : TracksNext(worker'[w])

LEMMA UnmovedTrack ==
    ASSUME StepFacts, NEW w \in Workers
    PROVE  TracksNext(worker[w])
  BY SnapshotKept DEF StepFacts, WorkersTypeOK, ResultInv

LEMMA OneWorkerTracks ==
    ASSUME StepFacts, NEW w \in Workers, NEW s, TracksNext(s),
           worker' = [worker EXCEPT ![w] = s]
    PROVE  AllTrack
  BY UnmovedTrack DEF AllTrack, StepFacts, WorkersTypeOK

LEMMA FinishTracks ==
    ASSUME StepFacts, NEW w \in Workers, Finish(w)
    PROVE  AllTrack
<1>1. TracksNext(Idle)
  BY DEF TracksNext, Idle
<1> QED BY <1>1, OneWorkerTracks DEF Finish

\* A worker that moves on with its snapshot.
LEMMA MoveTracks ==
    ASSUME StepFacts, NEW w \in Workers, ~At(w, "idle"), NEW s \in WorkerStates,
           s.gen = worker[w].gen, s.token = worker[w].token,
           s.provider = worker[w].provider, s.request = worker[w].request,
           \/ s.pc \notin {"save", "poll", "complete"}
           \/ s.pc = "complete" /\ At(w, "poll")
           \/ s.pc = "poll" /\ At(w, "save") /\ gens'[s.gen].requestId = s.request,
           worker' = [worker EXCEPT ![w] = s]
    PROVE  AllTrack
<1>1. TracksNext(worker[w])
  BY UnmovedTrack
<1>2. TracksNext(s)
  BY <1>1 DEF TracksNext, AnswerFitsNext, At
<1> QED BY <1>2, OneWorkerTracks

LEMMA GotoTracks ==
    ASSUME StepFacts, NEW w \in Workers, ~At(w, "idle"), NEW step \in Steps,
           \/ step \notin {"save", "poll", "complete"}
           \/ step = "complete" /\ At(w, "poll")
           \/ step = "poll" /\ At(w, "save")
              /\ gens'[worker[w].gen].requestId = worker[w].request,
           Goto(w, step)
    PROVE  AllTrack
<1> DEFINE s == [worker[w] EXCEPT !.pc = step]
<1>1. worker \in [Workers -> WorkerStates]
  BY DEF StepFacts, WorkersTypeOK
<1>2. s \in WorkerStates
  BY <1>1 DEF WorkerStates
<1>3. /\ s.pc = step /\ s.gen = worker[w].gen
      /\ s.token = worker[w].token
      /\ s.provider = worker[w].provider /\ s.request = worker[w].request
  BY <1>1 DEF WorkerStates
<1>4. worker' = [worker EXCEPT ![w] = s]
  BY <1>1 DEF Goto
<1> HIDE DEF s
<1> QED BY <1>2, <1>3, <1>4, MoveTracks

LEMMA AfterErrorTracks ==
    ASSUME StepFacts, NEW w \in Workers, ~At(w, "idle"), NEW kind,
           Goto(w, AfterError(w, kind))
    PROVE  AllTrack
<1>1. AfterError(w, kind) \in {"fail", "requeue", "failover", "giveUp"}
  BY DEF AfterError
<1> QED BY <1>1, GotoTracks DEF Steps

LEMMA ClaimTracks ==
    ASSUME StepFacts, NEW w \in Workers, Claim(w)
    PROVE  AllTrack
<1> DEFINE g == worker[w].gen
           row == gens[g]
<1>1. CASE Finish(w)
  BY <1>1, FinishTracks
<1>2. CASE ~Finish(w)
  <2> DEFINE s == [worker[w] EXCEPT !.token = gens'[g].token, !.request = row.requestId,
                                    !.provider = ProviderFor(w), !.pc = FirstStep(g)]
  <2>1. /\ g \in GenIds /\ worker[w] \in WorkerStates
        /\ StartProcessing(g) /\ FirstStep(g) \in {"submit", "poll"}
    BY <1>2, BusyFacts DEF Claim, At, DropWhenRefused, FirstStep, StepFacts
  <2>2. worker' = [worker EXCEPT ![w] = s]
    BY <1>2, <2>1 DEF Claim, DropWhenRefused, StepFacts, WorkersTypeOK
  <2>3. /\ s.pc = FirstStep(g) /\ s.gen = g /\ s.token = gens'[g].token
        /\ s.provider = ProviderFor(w) /\ s.request = row.requestId
    BY <2>1 DEF WorkerStates
  <2>4. row \in Rows /\ gens'[g] = Claimed(row) /\ Exists(g)
    BY <2>1, RowFacts DEF StartProcessing, MayClaim, IsStatus, Exists, StepFacts,
                          StoreInv, StoreTypeOK
  <2>5. /\ gens'[g].token = gens'[g].attempts /\ gens'[g].attempts \in Nat
        /\ gens'[g].requestId = row.requestId
    <3>1. /\ Claimed(row).token = row.attempts + 1 /\ Claimed(row).attempts = row.attempts + 1
          /\ Claimed(row).requestId = row.requestId
      BY <2>4 DEF Claimed, Rows
    <3> QED BY <2>4, <3>1, RowNumbers
  <2>6. row.requestId # 0 => AnswerFitsNext(g, ProviderFor(w), row.requestId)
    <3> SUFFICES ASSUME row.requestId # 0
                 PROVE  AnswerFitsNext(g, ProviderFor(w), row.requestId)
      OBVIOUS
    <3>1. row.status # "completed"
      BY <2>1 DEF StartProcessing, MayClaim, IsStatus
    <3>2. <<row.provider, row.requestId>> \in submitted[g]
      BY <2>1, <2>4, <3>1 DEF StepFacts, ResultInv, RequestsKept
    <3>3. row.provider \in Providers /\ row.provider # None
      BY <2>1, <3>2, WorkersAssumption DEF StepFacts, WorkersTypeOK, ProviderRequests
    <3>4. ProviderFor(w) \in {Fallback, row.provider}
      BY <3>3 DEF ProviderFor
    <3> QED BY <2>1, <3>2, <3>3, <3>4 DEF StepFacts, SubmittedGrows, AnswerFitsNext
  <2>7. s.pc = "poll" => row.requestId # 0
    BY <2>3 DEF FirstStep
  <2>8. gens'[g] # None
    BY <2>1, <2>4 DEF StepFacts, Growing, RowGrows
  <2> HIDE DEF s
  <2>9. TracksNext(s)
    BY <2>1, <2>3, <2>5, <2>6, <2>7, <2>8 DEF TracksNext
  <2> QED BY <2>2, <2>9, OneWorkerTracks
<1> QED BY <1>1, <1>2

LEMMA WorkerStepTracks ==
    ASSUME StepFacts, NEW w \in Workers, WorkerDoes(w)
    PROVE  AllTrack
<1> DEFINE g == worker[w].gen
<1>0. worker \in [Workers -> WorkerStates] /\ WorkersTypeOK
  BY DEF StepFacts, WorkersTypeOK
<1>1. ASSUME NEW h \in GenIds, NEW r \in 0 .. MaxRetries, Receive(w, h, r)
      PROVE  AllTrack
  <2> DEFINE s == [Idle EXCEPT !.pc = "claim", !.gen = h, !.retries = r]
  <2>1. s.pc = "claim" /\ s.gen = h /\ s.token = 0
    BY DEF Idle
  <2>2. <<h, r>> \in Messages /\ broker[<<h, r>>] > 0 /\ worker' = [worker EXCEPT ![w] = s]
    BY <1>1 DEF Receive, Messages
  <2>3. Exists(h)
    BY <2>2 DEF StepFacts, ResultInv, MessagesExist
  <2>4. gens'[h] # None
    BY <2>3 DEF StepFacts, Growing, RowGrows
  <2>5. gens'[h] \in Rows
    BY <2>4 DEF StepFacts, StoreTypeOK
  <2>6. gens'[h].attempts \in Nat
    BY <2>5, RowNumbers
  <2> HIDE DEF s
  <2>7. TracksNext(s)
    BY <2>1, <2>4, <2>6 DEF TracksNext
  <2> QED BY <2>2, <2>7, OneWorkerTracks
<1>2. CASE Claim(w)
  BY <1>2, ClaimTracks
<1>3. CASE Submit(w)
  <2> DEFINE s == [worker[w] EXCEPT !.request = worker[w].token, !.pc = "save"]
  <2>1. /\ s.pc = "save" /\ s.gen = g /\ s.token = worker[w].token
        /\ s.provider = worker[w].provider /\ s.request = worker[w].token
    BY <1>0 DEF WorkerStates
  <2>2. worker' = [worker EXCEPT ![w] = s] /\ g \in GenIds
    BY <1>0, <1>3, BusyFacts DEF Submit, At
  <2>3. <<worker[w].provider, worker[w].token>> \in submitted'[g]
    BY <1>0, <1>3, <2>2 DEF Submit, WorkersTypeOK
  <2>4. TracksNext(worker[w])
    BY UnmovedTrack
  <2>5. worker[w].pc = "submit"
    BY <1>3 DEF Submit, At
  <2> HIDE DEF s
  <2>6. TracksNext(s)
    BY <2>1, <2>3, <2>4, <2>5 DEF TracksNext
  <2> QED BY <2>2, <2>6, OneWorkerTracks
<1>4. CASE Save(w)
  <2>1. At(w, "save") /\ ~At(w, "idle")
    BY <1>4 DEF Save, At
  <2>2. CASE SaveRequest(w) /\ Goto(w, "poll")
    <3>1. /\ g \in GenIds /\ gens[g] \in Rows
          /\ gens'[g] = Submitted(gens[g], worker[w].provider, worker[w].request)
      BY <1>0, <2>1, <2>2, BusyFacts, RowFacts
         DEF SaveRequest, SaveProviderRequest, MaySave, HoldsClaim, IsStatus,
             StepFacts, StoreInv, StoreTypeOK
    <3>2. gens'[g].requestId = worker[w].request
      BY <3>1 DEF Submitted, Rows
    <3> QED BY <2>1, <2>2, <3>2, GotoTracks DEF Steps
  <2>3. CASE Finish(w)
    BY <2>3, FinishTracks
  <2> QED BY <1>4, <2>2, <2>3 DEF Save
<1>5. CASE Poll(w)
  <2>1. At(w, "poll") /\ ~At(w, "idle") /\ Goto(w, "complete")
    BY <1>5 DEF Poll, At
  <2> QED BY <2>1, GotoTracks DEF Steps
<1>6. CASE Finalize(w) \/ Fail(w) \/ PublishRetry(w)
  BY <1>6, FinishTracks DEF Finalize, Fail, PublishRetry
<1>7. CASE ProviderError(w)
  <2>1. ~At(w, "idle")
    BY <1>7 DEF ProviderError, At
  <2> QED BY <1>7, <2>1, AfterErrorTracks DEF ProviderError
<1>8. CASE RequeueRow(w) \/ ReadRequestId(w)
  <2>1. ~At(w, "idle") /\ (Goto(w, "publish") \/ Goto(w, "switch") \/ Goto(w, "giveUp"))
    BY <1>8 DEF RequeueRow, ReadRequestId, At
  <2> QED BY <2>1, GotoTracks DEF Steps
<1>9. CASE Switch(w)
  <2>1. ~At(w, "idle")
    BY <1>9 DEF Switch, At
  <2>2. CASE Goto(w, "giveUp")
    BY <2>1, <2>2, GotoTracks DEF Steps
  <2>3. CASE worker' = [worker EXCEPT ![w].pc = "claim", ![w].failover = TRUE]
    <3> DEFINE s == [worker[w] EXCEPT !.pc = "claim", !.failover = TRUE]
    <3>1. s \in WorkerStates
      BY <1>0 DEF WorkerStates, Steps
    <3>2. /\ s.pc = "claim" /\ s.gen = g
          /\ s.token = worker[w].token
          /\ s.provider = worker[w].provider /\ s.request = worker[w].request
      BY <1>0 DEF WorkerStates
    <3>3. worker' = [worker EXCEPT ![w] = s]
      BY <1>0, <2>3
    <3> HIDE DEF s
    <3> QED BY <2>1, <3>1, <3>2, <3>3, MoveTracks
  <2> QED BY <1>9, <2>2, <2>3 DEF Switch
<1> QED BY <1>1, <1>2, <1>3, <1>4, <1>5, <1>6, <1>7, <1>8, <1>9 DEF WorkerDoes

LEMMA FaultStepTracks ==
    ASSUME StepFacts, FaultsDo
    PROVE  AllTrack
<1>1. CASE UNCHANGED worker
  BY <1>1, UnmovedTrack DEF AllTrack
<1>2. ASSUME NEW w \in Workers, Redeliver(w) \/ TaskError(w)
      PROVE  AllTrack
  BY <1>1, <1>2, FinishTracks DEF Redeliver, TaskError
<1>3. ASSUME NEW w \in Workers, WriteError(w) \/ AnswerLost(w)
      PROVE  AllTrack
  <2>1. ~At(w, "idle") /\ \E kind : Goto(w, AfterError(w, kind))
    BY <1>3 DEF WriteError, AnswerLost, At
  <2> QED BY <2>1, AfterErrorTracks
<1>4. CASE \/ \E g \in GenIds : DispatchAborts(g)
           \/ \E g \in GenIds, r \in 0 .. MaxRetries : LoseMessage(g, r)
  BY <1>1, <1>4 DEF DispatchAborts, LoseMessage
<1> QED BY <1>2, <1>3, <1>4 DEF FaultsDo

-----------------------------------------------------------------------------
\* Messages are about rows

\* A message appears only for a row that exists.
FreshMessagesExist ==
    \A m \in Messages : broker'[m] <= broker[m] \/ Exists(m[1])

LEMMA EnqueueFresh ==
    ASSUME WorkersTypeOK, NEW g \in GenIds, Exists(g), NEW r \in 0 .. MaxRetries, Enqueue(g, r)
    PROVE  FreshMessagesExist
<1>1. <<g, r>> \in Messages /\ <<g, r>>[1] = g
  BY DEF Messages
<1>2. \A m \in Messages : broker[m] \in Nat
  BY WorkersAssumption DEF WorkersTypeOK
<1> QED BY <1>1, <1>2 DEF Enqueue, FreshMessagesExist, WorkersTypeOK

LEMMA FewerFresh ==
    ASSUME WorkersTypeOK,
           \/ UNCHANGED broker
           \/ \E g \in GenIds, r \in 0 .. MaxRetries :
                 broker' = [broker EXCEPT ![<<g, r>>] = @ - 1]
    PROVE  FreshMessagesExist
<1>1. \A m \in Messages : broker[m] \in Nat
  BY WorkersAssumption DEF WorkersTypeOK
<1>2. \A m \in Messages : broker'[m] = broker[m] \/ broker'[m] = broker[m] - 1
  BY DEF WorkersTypeOK
<1> QED BY <1>1, <1>2 DEF FreshMessagesExist

LEMMA MessagesStep ==
    ASSUME StoreInv, WorkersTypeOK, ResultInv, [WorkersNext]_vars
    PROVE  FreshMessagesExist
<1>1. 0 \in 0 .. MaxRetries
  BY WorkersAssumption
<1>2. ASSUME NEW w \in Workers, ~At(w, "idle")
      PROVE  worker[w].gen \in GenIds /\ Exists(worker[w].gen)
  BY <1>2, BusyFacts DEF ResultInv, Tracks, At
<1>3. ASSUME NEW g \in GenIds, outbox[g] = "pending"
      PROVE  Exists(g)
  BY <1>3 DEF StoreInv, CreatedIsPending
<1>4. ASSUME NEW w \in Workers, WorkerDoes(w)
      PROVE  FreshMessagesExist
  <2>1. CASE PublishRetry(w)
    <3>1. ~At(w, "idle") /\ Enqueue(worker[w].gen, NextRetries(w))
      BY <2>1 DEF PublishRetry, At
    <3>2. worker[w].retries \in 0 .. MaxRetries /\ worker[w].retries < MaxRetries
      BY <2>1, <3>1, BusyFacts DEF PublishRetry, At, Fits
    <3>3. NextRetries(w) \in 0 .. MaxRetries
      BY <3>2, WorkersAssumption DEF NextRetries
    <3> QED BY <1>2, <3>1, <3>3, EnqueueFresh
  <2>2. CASE \E h \in GenIds, r \in 0 .. MaxRetries : Receive(w, h, r)
    BY <2>2, FewerFresh DEF Receive
  <2>3. CASE \/ Claim(w) \/ Submit(w) \/ Save(w) \/ Poll(w) \/ Finalize(w)
             \/ ProviderError(w) \/ RequeueRow(w) \/ ReadRequestId(w) \/ Switch(w) \/ Fail(w)
    <3>1. UNCHANGED broker
      BY <2>3 DEF Claim, Submit, Save, Poll, Finalize, ProviderError, RequeueRow,
                  ReadRequestId, Switch, Fail
    <3> QED BY <3>1, FewerFresh
  <2> QED BY <1>4, <2>1, <2>2, <2>3 DEF WorkerDoes
<1>5. CASE JobsDo
  <2>1. ASSUME NEW g \in GenIds, DispatchEvent(g)
        PROVE  FreshMessagesExist
    BY <1>1, <1>3, <2>1, EnqueueFresh DEF DispatchEvent, DispatchOutbox
  <2>2. CASE \/ \E g \in GenIds : ExpireLease(g) \/ GoStale(g)
             \/ \E S \in (SUBSET StaleGens) \ {{}} : Recover(S)
    BY <2>2, FewerFresh DEF ExpireLease, GoStale, Recover, taskVars
  <2> QED BY <1>5, <2>1, <2>2 DEF JobsDo
<1>6. CASE FaultsDo
  <2>1. ASSUME NEW w \in Workers, Redeliver(w)
        PROVE  FreshMessagesExist
    <3>1. ~At(w, "idle") /\ worker[w].retries \in 0 .. MaxRetries
      BY <2>1, BusyFacts DEF Redeliver
    <3> QED BY <1>2, <2>1, <3>1, EnqueueFresh DEF Redeliver
  <2>2. ASSUME NEW g \in GenIds, DispatchAborts(g)
        PROVE  FreshMessagesExist
    BY <1>1, <1>3, <2>2, EnqueueFresh DEF DispatchAborts
  <2>3. CASE \/ \E w \in Workers : TaskError(w) \/ WriteError(w) \/ AnswerLost(w)
             \/ \E g \in GenIds, r \in 0 .. MaxRetries : LoseMessage(g, r)
    BY <2>3, FewerFresh DEF TaskError, WriteError, AnswerLost, LoseMessage
  <2> QED BY <1>6, <2>1, <2>2, <2>3 DEF FaultsDo
<1>7. CASE ClientsDo \/ UNCHANGED vars
  BY <1>7, FewerFresh DEF ClientsDo, vars, taskVars
<1> QED BY <1>4, <1>5, <1>6, <1>7 DEF WorkersNext

-----------------------------------------------------------------------------
\* ResultInv is inductive

LEMMA SubmittedStep ==
    ASSUME WorkersTypeOK, [WorkersNext]_vars
    PROVE  SubmittedGrows
<1>1. CASE UNCHANGED submitted
  BY <1>1 DEF SubmittedGrows
<1>2. ASSUME NEW w \in Workers, WorkerDoes(w)
      PROVE  SubmittedGrows
  <2>1. CASE Submit(w)
    BY <2>1 DEF Submit, SubmittedGrows, WorkersTypeOK
  <2> QED BY <1>1, <1>2, <2>1
        DEF WorkerDoes, Receive, Claim, Save, Poll, Finalize, ProviderError, RequeueRow,
            PublishRetry, ReadRequestId, Switch, Fail
<1>3. CASE ClientsDo \/ JobsDo \/ FaultsDo \/ UNCHANGED vars
  BY <1>1, <1>3 DEF ClientsDo, JobsDo, FaultsDo, DispatchEvent, ExpireLease, GoStale, Recover,
                    Redeliver, TaskError, WriteError, AnswerLost, DispatchAborts, LoseMessage,
                    vars, taskVars
<1> QED BY <1>2, <1>3 DEF WorkersNext

LEMMA ResultStep ==
    ASSUME StoreInv, StoreTypeOK', WorkersTypeOK, WorkersTypeOK', ResultInv, [WorkersNext]_vars
    PROVE  ResultInv'
<1>1. StepFacts /\ RequestsKept'
  BY RequestsStep, SubmittedStep DEF StepFacts
<1>2. MessagesExist'
  <2>1. ASSUME NEW m \in Messages, broker'[m] > 0
        PROVE  gens'[m[1]] # None
    <3>1. m[1] \in GenIds
      BY DEF Messages
    <3>2. broker[m] \in Nat /\ broker'[m] \in Nat
      BY WorkersAssumption DEF WorkersTypeOK
    <3>3. Exists(m[1])
      BY <2>1, <3>2, MessagesStep DEF FreshMessagesExist, ResultInv, MessagesExist
    <3> QED BY <1>1, <3>1, <3>3 DEF StepFacts, Growing, RowGrows
  <2> QED BY <2>1 DEF MessagesExist, Exists
<1>3. AllTrack
  <2>1. CASE UNCHANGED worker
    BY <1>1, <2>1, UnmovedTrack DEF AllTrack
  <2>2. CASE ClientsDo \/ JobsDo \/ UNCHANGED vars
    BY <2>1, <2>2 DEF ClientsDo, JobsDo, DispatchEvent, ExpireLease, GoStale, Recover,
                      vars, taskVars
  <2> QED BY <1>1, <2>2, WorkerStepTracks, FaultStepTracks DEF WorkersNext
<1>4. (\A w \in Workers : Tracks(worker[w]))'
  BY <1>3 DEF AllTrack, Tracks, TracksNext, AnswerFits, AnswerFitsNext,
              HoldsClaim, HoldsNext, IsStatus, Exists
<1> QED BY <1>1, <1>2, <1>4 DEF ResultInv

LEMMA ResultInit ==
    ASSUME WorkersInit
    PROVE  ResultInv
<1>1. MessagesExist
  BY DEF WorkersInit, MessagesExist
<1>2. RequestsKept
  BY DEF WorkersInit, StoreInit, RequestsKept, Exists
<1>3. \A w \in Workers : Tracks(worker[w])
  BY DEF WorkersInit, Tracks, Idle
<1> QED BY <1>1, <1>2, <1>3 DEF ResultInv

-----------------------------------------------------------------------------
\* The theorems

LEMMA ComposedStep ==
    ASSUME StoreInv, WorkersTypeOK, [WorkersNext]_vars
    PROVE  StoreInv' /\ WorkersTypeOK' /\ [StoreNext]_storeVars
  BY WorkersTypeStep, StepIsStoreStep, StepPreserves DEF StoreInv

LEMMA ComposedInit ==
    ASSUME WorkersInit
    PROVE  StoreInit /\ StoreInv /\ WorkersTypeOK
  BY WorkersInitTyped, InitEstablishes DEF WorkersInit

\* For all constants: workers, jobs and faults keep to the steps of
\* process_generation, with a message, a claim, a provider and a request id at
\* hand wherever the code uses one.
THEOREM WorkersTypeCorrect == WorkersSpec => []WorkersTypeOK
  BY ComposedStep, ComposedInit, PTL DEF WorkersSpec

\* For all constants: the workers, the jobs and the faults use the tables only
\* through the transactions of GenerationStore.
THEOREM WorkersImplementStore == WorkersSpec => StoreSpec
  BY ComposedStep, ComposedInit, PTL DEF WorkersSpec, StoreSpec

\* For all constants, so for any number of workers, faults and retries: every
\* wallet and order of the composed system behaves as Billing promises.
THEOREM WorkersImplementBilling == WorkersSpec => ImplementsBilling
  BY WorkersImplementStore, StoreImplementsBilling, PTL

\* For all constants: whatever workers, jobs and faults do, what a user has left and
\* what is held by or spent on the user's generations is what was credited.
THEOREM WorkersConserveMoney == WorkersSpec => []MoneyConserved
  BY WorkersImplementStore, MoneyIsConserved, PTL

=============================================================================
