------------------------ MODULE GenerationClaimsProofs ------------------------
(***************************************************************************)
(* Proofs about the claims of GenerationWorkers for every value of its     *)
(* constants: nobody moves a row under a live lease but its holder, a      *)
(* provider is paid once and once more for each fault, retries count       *)
(* claims, claims are bounded by the faults, and the result answers the    *)
(* saved request.  Most of it rests on tokens that no two workers share,   *)
(* the last on this, that without a fault no two even work on one row.     *)
(***************************************************************************)
EXTENDS GenerationWorkersProofs, FiniteSetTheorems

-----------------------------------------------------------------------------
\* The invariants

\* No two workers of a generation have the same token.
TokensApart ==
    \A v, w \in Workers :
        v # w /\ worker[v].gen = worker[w].gen /\ worker[v].token # 0
            => worker[v].token # worker[w].token

\* A worker holds its row, under a lease that still runs.
Stands(w, g) ==
    worker[w].gen = g /\ HoldsClaim(g, worker[w].token) /\ gens[g].lease = "live"

\* Who submits under a claim that stands has found no saved request.
SubmitsUnsaved ==
    \A w \in Workers, g \in GenIds :
        At(w, "submit") /\ worker[w].gen = g /\ HoldsClaim(g, worker[w].token)
            => gens[g].requestId = 0

\* Workers about to submit in vain, and whether somebody may still submit for good:
\* nobody may once a request is saved, or is about to be under a standing claim.
Stray(g) == {w \in Workers : At(w, "submit") /\ worker[w].gen = g /\ ~Stands(w, g)}
Closed(g) ==
    Exists(g) /\ \/ gens[g].requestId # 0
                 \/ \E w \in Workers : At(w, "save") /\ Stands(w, g)
Open(g) == IF Closed(g) THEN 0 ELSE 1

\* What is paid, plus what may still be paid without a fault, is paid for by the
\* first request and by the faults.
PaidFor(g) ==
    /\ IsFiniteSet(Stray(g))
    /\ Cardinality(submitted[g]) + unanswered[g] + Cardinality(Stray(g)) + Open(g)
          <= 1 + faults
Paid == \A g \in GenIds : PaidFor(g)

\* RetriesCountClaims, also for the messages that are being worked on.
RetriesFit ==
    /\ \A g \in GenIds, r \in 0 .. MaxRetries :
          broker[<<g, r>>] > 0 => Exists(g) /\ gens[g].attempts >= r
    /\ \A w \in Workers : LET s == worker[w] IN
          s.pc # "idle" =>
              /\ gens[s.gen].attempts >= s.retries
              /\ s.pc # "claim" => gens[s.gen].attempts >= s.retries + 1

\* What holds by the theorems about the tables and the results.
Base == StoreInv /\ WorkersTypeOK /\ ResultInv

ClaimsInv == TokensApart /\ SubmitsUnsaved /\ Paid /\ RetriesFit

-----------------------------------------------------------------------------
\* How workers move

\* Worker x alone goes on: it ends, receives a message, claims its row, or keeps
\* message and token.
Moved(x) ==
    /\ \A y \in Workers : y # x => worker'[y] = worker[y]
    /\ \/ worker'[x].pc = "idle" /\ worker'[x].token = 0
       \/ /\ At(x, "idle") /\ worker'[x].pc = "claim" /\ worker'[x].token = 0
          /\ worker'[x].gen \in GenIds /\ worker'[x].retries \in 0 .. MaxRetries
          /\ broker[<<worker'[x].gen, worker'[x].retries>>] > 0
       \/ /\ At(x, "claim") /\ worker'[x].pc \in {"submit", "poll"}
          /\ worker'[x].gen = worker[x].gen /\ worker'[x].retries = worker[x].retries
          /\ MayClaim(worker[x].gen)
          /\ gens'[worker[x].gen] = Claimed(gens[worker[x].gen])
          /\ worker'[x].token = gens[worker[x].gen].attempts + 1
          /\ worker'[x].pc = "submit" => gens[worker[x].gen].requestId = 0
       \/ /\ worker[x].pc \notin {"idle", "claim"} /\ worker'[x].pc \notin {"idle", "submit"}
          /\ worker'[x].gen = worker[x].gen /\ worker'[x].retries = worker[x].retries
          /\ worker'[x].token = worker[x].token

LEMMA OneMoves ==
    ASSUME WorkersTypeOK, NEW x \in Workers, NEW s, worker' = [worker EXCEPT ![x] = s]
    PROVE  worker'[x] = s /\ \A y \in Workers : y # x => worker'[y] = worker[y]
  BY DEF WorkersTypeOK

LEMMA FinishMoves ==
    ASSUME WorkersTypeOK, NEW x \in Workers, Finish(x)
    PROVE  Moved(x)
<1>1. Idle.pc = "idle" /\ Idle.token = 0
  BY DEF Idle
<1> QED BY <1>1, OneMoves DEF Finish, Moved

LEMMA GotoMoves ==
    ASSUME WorkersTypeOK, NEW x \in Workers, worker[x].pc \notin {"idle", "claim"},
           NEW step, step \notin {"idle", "submit"}, Goto(x, step)
    PROVE  Moved(x)
<1> DEFINE s == [worker[x] EXCEPT !.pc = step]
<1>1. worker[x] \in WorkerStates
  BY DEF WorkersTypeOK
<1>2. /\ s.pc = step /\ s.gen = worker[x].gen /\ s.retries = worker[x].retries
      /\ s.token = worker[x].token
  BY <1>1 DEF WorkerStates
<1>3. worker' = [worker EXCEPT ![x] = s]
  BY DEF Goto
<1> HIDE DEF s
<1> QED BY <1>2, <1>3, OneMoves DEF Moved

\* Where a task goes on after an error; without a retry it goes nowhere else.
LEMMA AfterErrorSteps ==
    ASSUME NEW x \in Workers, NEW kind
    PROVE  /\ AfterError(x, kind) \in {"fail", "giveUp", "requeue", "failover"}
           /\ worker[x].failover => AfterError(x, kind) \in {"fail", "giveUp"}
  BY DEF AfterError, MayRetry

LEMMA AfterErrorMoves ==
    ASSUME WorkersTypeOK, NEW x \in Workers, worker[x].pc \notin {"idle", "claim"},
           NEW kind, Goto(x, AfterError(x, kind))
    PROVE  Moved(x)
<1> QED BY AfterErrorSteps, GotoMoves

LEMMA ReceiveMoves ==
    ASSUME WorkersTypeOK, NEW x \in Workers, NEW h \in GenIds, NEW r \in 0 .. MaxRetries,
           Receive(x, h, r)
    PROVE  Moved(x)
<1> DEFINE s == [Idle EXCEPT !.pc = "claim", !.gen = h, !.retries = r]
<1>1. s.pc = "claim" /\ s.gen = h /\ s.retries = r /\ s.token = 0
  BY DEF Idle
<1>2. worker' = [worker EXCEPT ![x] = s] /\ At(x, "idle") /\ broker[<<h, r>>] > 0
  BY DEF Receive
<1> HIDE DEF s
<1> QED BY <1>1, <1>2, OneMoves DEF Moved

LEMMA ClaimMoves ==
    ASSUME StoreInv, WorkersTypeOK, NEW x \in Workers, Claim(x)
    PROVE  Moved(x)
<1> DEFINE g == worker[x].gen
<1>1. CASE Finish(x)
  BY <1>1, FinishMoves
<1>2. CASE ~Finish(x)
  <2> DEFINE s == [worker[x] EXCEPT !.token = gens'[g].token, !.request = gens[g].requestId,
                                    !.provider = ProviderFor(x), !.pc = FirstStep(g)]
  <2>1. g \in GenIds /\ worker[x] \in WorkerStates /\ StartProcessing(g) /\ At(x, "claim")
    BY <1>2, BusyFacts DEF Claim, At, DropWhenRefused
  <2>2. worker' = [worker EXCEPT ![x] = s]
    BY <1>2, <2>1 DEF Claim, DropWhenRefused, WorkersTypeOK
  <2>3. /\ s.pc = FirstStep(g) /\ s.gen = g /\ s.token = gens'[g].token
        /\ s.retries = worker[x].retries
    BY <2>1 DEF WorkerStates
  <2>4. gens[g] \in Rows /\ gens'[g] = Claimed(gens[g]) /\ MayClaim(g)
    BY <2>1, RowFacts DEF StartProcessing, MayClaim, IsStatus, Exists, StoreInv, StoreTypeOK
  <2>5. gens'[g].token = gens[g].attempts + 1
    BY <2>4 DEF Claimed, Rows
  <2>6. /\ FirstStep(g) \in {"submit", "poll"}
        /\ FirstStep(g) = "submit" => gens[g].requestId = 0
    BY DEF FirstStep
  <2> HIDE DEF s
  <2> QED BY <2>1, <2>2, <2>3, <2>4, <2>5, <2>6, OneMoves DEF Moved
<1> QED BY <1>1, <1>2

LEMMA WorkerStepMoves ==
    ASSUME StoreInv, WorkersTypeOK, NEW x \in Workers, WorkerDoes(x)
    PROVE  Moved(x)
<1>0. worker \in [Workers -> WorkerStates]
  BY DEF WorkersTypeOK
<1>1. CASE \E h \in GenIds, r \in 0 .. MaxRetries : Receive(x, h, r)
  BY <1>1, ReceiveMoves
<1>2. CASE Claim(x)
  BY <1>2, ClaimMoves
<1>3. CASE Submit(x)
  <2> DEFINE s == [worker[x] EXCEPT !.request = worker[x].token, !.pc = "save"]
  <2>1. /\ s.pc = "save" /\ s.gen = worker[x].gen /\ s.retries = worker[x].retries
        /\ s.token = worker[x].token
    BY <1>0 DEF WorkerStates
  <2>2. worker' = [worker EXCEPT ![x] = s] /\ worker[x].pc = "submit"
    BY <1>0, <1>3 DEF Submit, At
  <2> HIDE DEF s
  <2> QED BY <2>1, <2>2, OneMoves DEF Moved
<1>4. CASE Finalize(x) \/ Fail(x) \/ PublishRetry(x)
  BY <1>4, FinishMoves DEF Finalize, Fail, PublishRetry
<1>5. CASE Save(x) \/ Poll(x) \/ RequeueRow(x) \/ ReadRequestId(x)
  <2>1. worker[x].pc \notin {"idle", "claim"}
    BY <1>5 DEF Save, Poll, RequeueRow, ReadRequestId, At
  <2>2. \/ Finish(x)
        \/ \E step \in {"poll", "complete", "publish", "switch", "giveUp"} : Goto(x, step)
    BY <1>5 DEF Save, Poll, RequeueRow, ReadRequestId
  <2> QED BY <2>1, <2>2, FinishMoves, GotoMoves
<1>6. CASE ProviderError(x)
  <2>1. worker[x].pc \notin {"idle", "claim"}
    BY <1>6 DEF ProviderError, At
  <2> QED BY <1>6, <2>1, AfterErrorMoves DEF ProviderError
<1>7. CASE Switch(x)
  <2>1. worker[x].pc = "switch"
    BY <1>7 DEF Switch, At
  <2>2. CASE Goto(x, "giveUp")
    BY <2>1, <2>2, GotoMoves
  <2>3. CASE worker' = [worker EXCEPT ![x].pc = "claim", ![x].failover = TRUE]
    <3> DEFINE s == [worker[x] EXCEPT !.pc = "claim", !.failover = TRUE]
    <3>1. /\ s.pc = "claim" /\ s.gen = worker[x].gen /\ s.retries = worker[x].retries
          /\ s.token = worker[x].token
      BY <1>0 DEF WorkerStates
    <3>2. worker' = [worker EXCEPT ![x] = s]
      BY <1>0, <2>3
    <3> HIDE DEF s
    <3> QED BY <2>1, <3>1, <3>2, OneMoves DEF Moved
  <2> QED BY <1>7, <2>2, <2>3 DEF Switch
<1> QED BY <1>1, <1>2, <1>3, <1>4, <1>5, <1>6, <1>7 DEF WorkerDoes

\* Which worker a fault moves, and how.
LEMMA FaultMoves ==
    ASSUME StoreInv, WorkersTypeOK, NEW x \in Workers,
           Redeliver(x) \/ TaskError(x) \/ WriteError(x) \/ AnswerLost(x)
    PROVE  UNCHANGED worker \/ Moved(x)
<1>1. CASE Redeliver(x) \/ TaskError(x)
  BY <1>1, FinishMoves DEF Redeliver, TaskError
<1>2. CASE WriteError(x) \/ AnswerLost(x)
  <2>1. worker[x].pc \notin {"idle", "claim"} /\ \E kind : Goto(x, AfterError(x, kind))
    BY <1>2 DEF WriteError, AnswerLost, At
  <2> QED BY <2>1, AfterErrorMoves
<1> QED BY <1>1, <1>2

\* At most one worker moves in a step.
LEMMA WorkerMoves ==
    ASSUME Base, [WorkersNext]_vars
    PROVE  UNCHANGED worker \/ \E x \in Workers : Moved(x)
<1>1. CASE \E x \in Workers : WorkerDoes(x)
  BY <1>1, WorkerStepMoves DEF Base
<1>2. CASE FaultsDo
  BY <1>2, FaultMoves DEF Base, FaultsDo, DispatchAborts, LoseMessage
<1>3. CASE ClientsDo \/ JobsDo \/ UNCHANGED vars
  BY <1>3 DEF ClientsDo, JobsDo, DispatchEvent, ExpireLease, GoStale, Recover, vars, taskVars
<1> QED BY <1>1, <1>2, <1>3 DEF WorkersNext

\* What Base says of a worker.
LEMMA WorkerFacts ==
    ASSUME Base, NEW w \in Workers
    PROVE  /\ worker[w] \in WorkerStates /\ Fits(worker[w]) /\ Tracks(worker[w])
           /\ worker[w].token \in Nat
           /\ ~At(w, "idle") =>
                 /\ worker[w].gen \in GenIds /\ Exists(worker[w].gen)
                 /\ gens[worker[w].gen].attempts \in Nat
                 /\ worker[w].token <= gens[worker[w].gen].attempts
           /\ worker[w].gen \in GenIds => ~At(w, "idle")
<1>1. worker[w] \in WorkerStates /\ Fits(worker[w]) /\ Tracks(worker[w])
  BY DEF Base, WorkersTypeOK, ResultInv
<1>2. worker[w].token \in Nat
  BY <1>1, StoreAssumption DEF WorkerStates, Tokens
<1>3. ASSUME ~At(w, "idle")
      PROVE  /\ worker[w].gen \in GenIds /\ Exists(worker[w].gen)
             /\ gens[worker[w].gen].attempts \in Nat
             /\ worker[w].token <= gens[worker[w].gen].attempts
  <2>1. worker[w].gen \in GenIds
    BY <1>3, BusyFacts DEF Base
  <2>2. Exists(worker[w].gen) /\ worker[w].token <= gens[worker[w].gen].attempts
    BY <1>1, <1>3 DEF Tracks, At
  <2> QED BY <2>1, <2>2, RowFacts, RowNumbers DEF Base
<1>4. worker[w].gen \in GenIds => ~At(w, "idle")
  BY <1>1, WorkersAssumption DEF Fits, At
<1> QED BY <1>1, <1>2, <1>3, <1>4

LEMMA TokensStep ==
    ASSUME Base, WorkersTypeOK', TokensApart, [WorkersNext]_vars
    PROVE  TokensApart'
<1>1. CASE UNCHANGED worker
  BY <1>1 DEF TokensApart
<1>2. ASSUME NEW x \in Workers, Moved(x)
      PROVE  TokensApart'
  <2>1. ASSUME NEW y \in Workers, y # x, worker'[y].gen = worker'[x].gen,
               worker'[x].token # 0
        PROVE  worker'[x].token # worker'[y].token
    <3>1. worker'[y] = worker[y]
      BY <1>2, <2>1 DEF Moved
    <3>2. CASE worker'[x].gen = worker[x].gen /\ worker'[x].token = worker[x].token
      BY <2>1, <3>1, <3>2 DEF TokensApart
    <3>3. CASE /\ At(x, "claim") /\ worker'[x].gen = worker[x].gen
               /\ worker'[x].token = gens[worker[x].gen].attempts + 1
      <4>1. worker[x].gen \in GenIds /\ gens[worker[x].gen].attempts \in Nat
        BY <3>3, WorkerFacts DEF At
      <4>2. worker[y].token \in Nat /\ worker[y].token <= gens[worker[x].gen].attempts
        BY <2>1, <3>1, <3>3, <4>1, WorkerFacts
      <4> QED BY <3>1, <3>3, <4>1, <4>2
    <3> QED BY <1>2, <2>1, <3>2, <3>3 DEF Moved
  <2>2. \A y, z \in Workers : y # x /\ z # x => worker'[y] = worker[y] /\ worker'[z] = worker[z]
    BY <1>2 DEF Moved
  <2>3. ASSUME NEW v \in Workers, NEW w \in Workers, v # w,
               worker'[v].gen = worker'[w].gen, worker'[v].token # 0
        PROVE  worker'[v].token # worker'[w].token
    <3>1. CASE v = x
      BY <2>1, <2>3, <3>1
    <3>2. CASE w = x
      BY <2>1, <2>3, <3>2
    <3>3. CASE v # x /\ w # x
      BY <2>2, <2>3, <3>3 DEF TokensApart
    <3> QED BY <3>1, <3>2, <3>3
  <2> QED BY <2>3 DEF TokensApart
<1> QED BY <1>1, <1>2, WorkerMoves

-----------------------------------------------------------------------------
\* How rows move

\* The row of g moves because its lease runs out.
Expires(g) == LeaseExpires(g) /\ ExpireLease(g)

\* The row of g is not under a live lease; no request is recorded.
Unheld(g) ==
    /\ ~ (IsStatus(g, "processing") /\ gens[g].lease = "live")
    /\ gens'[g].requestId = gens[g].requestId

\* Worker v holds the row of g and moves on; only Save records a request.
MovedBy(v, g) ==
    /\ worker[v].gen = g /\ worker'[v] # worker[v] /\ HoldsClaim(g, worker[v].token)
    /\ \/ gens'[g].requestId = gens[g].requestId
       \/ At(v, "save") /\ gens[g].requestId = 0

RowMoves(g) ==
    \/ gens'[g] = gens[g] \/ Expires(g) \/ Unheld(g)
    \/ \E v \in Workers : MovedBy(v, g)

LEMMA RequestsOfRows ==
    ASSUME NEW row \in Rows, NEW a
    PROVE  /\ Claimed(row).requestId = row.requestId
           /\ Completed(row, a).requestId = row.requestId
           /\ Released(row).requestId = row.requestId
           /\ Failed(row).requestId = row.requestId
           /\ Queued(row).requestId = row.requestId
           /\ Aged(row).requestId = row.requestId
  BY DEF Claimed, Completed, Released, Failed, Queued, Aged, Rows

\* A transaction on one row leaves every other row.
LEMMA OneRowMoves ==
    ASSUME StoreInv, NEW h \in GenIds, NEW row, gens' = [gens EXCEPT ![h] = row],
           gens'[h] = row => RowMoves(h), NEW g \in GenIds
    PROVE  RowMoves(g)
<1>1. gens'[h] = row /\ (g # h => gens'[g] = gens[g])
  BY DEF StoreInv, StoreTypeOK
<1> QED BY <1>1 DEF RowMoves

\* A worker ends, or goes on to another step.
LEMMA Leaves ==
    ASSUME WorkersTypeOK, NEW v \in Workers, ~At(v, "idle"),
           \/ Finish(v)
           \/ \E step : Goto(v, step) /\ step # worker[v].pc
           \/ worker' = [worker EXCEPT ![v].pc = "claim", ![v].failover = TRUE]
              /\ At(v, "switch")
    PROVE  worker'[v] # worker[v]
<1>1. worker \in [Workers -> WorkerStates]
  BY DEF WorkersTypeOK
<1>2. CASE Finish(v)
  BY <1>1, <1>2 DEF Finish, Idle, At
<1>3. ASSUME NEW step, Goto(v, step), step # worker[v].pc
      PROVE  worker'[v] # worker[v]
  <2> DEFINE s == [worker[v] EXCEPT !.pc = step]
  <2>1. s.pc = step
    BY <1>1 DEF WorkerStates
  <2>2. worker'[v] = s
    BY <1>1, <1>3 DEF Goto
  <2> HIDE DEF s
  <2> QED BY <1>3, <2>1, <2>2
<1>4. CASE /\ worker' = [worker EXCEPT ![v].pc = "claim", ![v].failover = TRUE]
           /\ At(v, "switch")
  <2> DEFINE s == [worker[v] EXCEPT !.pc = "claim", !.failover = TRUE]
  <2>1. s.pc = "claim"
    BY <1>1 DEF WorkerStates
  <2>2. worker'[v] = s
    BY <1>1, <1>4
  <2> HIDE DEF s
  <2> QED BY <1>4, <2>1, <2>2 DEF At
<1> QED BY <1>2, <1>3, <1>4

\* A transaction under a worker's claim, other than Save, moves its row by it.
LEMMA HolderMoves ==
    ASSUME Base, NEW v \in Workers, NEW h \in GenIds, h = worker[v].gen,
           worker'[v] # worker[v], worker[v].token # 0,
           \/ Requeue(h, worker[v].token)
           \/ FailAndRefund(h, worker[v].token)
           \/ CompleteRow(v)
    PROVE  \A g \in GenIds : RowMoves(g)
<1>1. HoldsClaim(h, worker[v].token)
  <2>1. CASE FailAndRefund(h, worker[v].token)
    BY <2>1 DEF FailAndRefund, MayFail, HoldsClaim, IsStatus, Base, StoreInv, ClaimCoherence
  <2>2. CASE Requeue(h, worker[v].token) \/ CompleteRow(v)
    BY <2>2 DEF Requeue, CompleteRow, Complete
  <2> QED BY <2>1, <2>2
<1>2. gens[h] \in Rows
  BY <1>1, RowFacts DEF HoldsClaim, IsStatus, Base
<1>3. PICK row : gens' = [gens EXCEPT ![h] = row] /\ row.requestId = gens[h].requestId
  BY <1>2, RequestsOfRows DEF Requeue, FailAndRefund, CompleteRow, Complete
<1>4. gens'[h] = row => RowMoves(h)
  BY <1>1, <1>3 DEF RowMoves, MovedBy
<1> QED BY <1>3, <1>4, OneRowMoves DEF Base

LEMMA SaveMoves ==
    ASSUME Base, NEW v \in Workers, worker'[v] # worker[v], At(v, "save"), SaveRequest(v)
    PROVE  \A g \in GenIds : RowMoves(g)
<1>1. worker[v].gen \in GenIds
  BY WorkerFacts DEF At
<1>2. RowMoves(worker[v].gen)
  BY DEF RowMoves, MovedBy, SaveRequest, SaveProviderRequest, MaySave
<1> QED BY <1>1, <1>2, OneRowMoves DEF SaveRequest, SaveProviderRequest, Base

LEMMA ClaimingMoves ==
    ASSUME Base, NEW h \in GenIds, StartProcessing(h)
    PROVE  \A g \in GenIds : RowMoves(g)
<1>1. gens[h] \in Rows /\ gens' = [gens EXCEPT ![h] = Claimed(gens[h])]
  BY RowFacts DEF StartProcessing, MayClaim, IsStatus, Base
<1>2. gens'[h] = Claimed(gens[h]) => Unheld(h)
  BY <1>1, RequestsOfRows DEF StartProcessing, MayClaim, IsStatus, Unheld
<1> QED BY <1>1, <1>2, OneRowMoves DEF RowMoves, Base

LEMMA RowsOfWorkers ==
    ASSUME Base, NEW v \in Workers, WorkerDoes(v)
    PROVE  \A g \in GenIds : RowMoves(g)
<1> DEFINE h == worker[v].gen
<1>1. CASE UNCHANGED gens
  BY <1>1 DEF RowMoves
<1>2. CASE Claim(v)
  <2>1. h \in GenIds /\ (StartProcessing(h) \/ UNCHANGED gens)
    BY <1>2, WorkerFacts DEF Claim, At, storeVars
  <2> QED BY <1>1, <2>1, ClaimingMoves
<1>3. CASE Save(v)
  <2>1. CASE SaveRequest(v) /\ Goto(v, "poll")
    <3>1. ~At(v, "idle") /\ "poll" # worker[v].pc
      BY <1>3 DEF Save, At
    <3>2. worker'[v] # worker[v]
      BY <2>1, <3>1, Leaves DEF Base
    <3> QED BY <1>3, <2>1, <3>2, SaveMoves DEF Save
  <2> QED BY <1>1, <1>3, <2>1 DEF Save, storeVars
<1>4. CASE Finalize(v) \/ Fail(v) \/ RequeueRow(v) \/ Switch(v)
  <2>1. /\ ~At(v, "idle") /\ worker[v].pc \notin {"idle", "claim"}
        /\ \/ Finish(v) \/ \E step : Goto(v, step) /\ step # worker[v].pc
           \/ /\ worker' = [worker EXCEPT ![v].pc = "claim", ![v].failover = TRUE]
              /\ At(v, "switch")
    BY <1>4 DEF Finalize, Fail, RequeueRow, Switch, At
  <2>2. worker'[v] # worker[v]
    BY <2>1, Leaves DEF Base
  <2>3. h \in GenIds /\ worker[v].token # 0
    BY <2>1, WorkerFacts DEF Fits, At
  <2>4. \/ CompleteRow(v) \/ FailAndRefund(h, worker[v].token) \/ Requeue(h, worker[v].token)
        \/ UNCHANGED gens
    BY <1>4 DEF Finalize, Fail, RequeueRow, Switch, storeVars
  <2> QED BY <1>1, <2>2, <2>3, <2>4, HolderMoves
<1>5. CASE \/ \E g \in GenIds, r \in 0 .. MaxRetries : Receive(v, g, r)
           \/ Submit(v) \/ Poll(v) \/ ProviderError(v) \/ PublishRetry(v) \/ ReadRequestId(v)
  BY <1>1, <1>5 DEF Receive, Submit, Poll, ProviderError, PublishRetry, ReadRequestId, storeVars
<1> QED BY <1>2, <1>3, <1>4, <1>5 DEF WorkerDoes

LEMMA RowsOfFaults ==
    ASSUME Base, FaultsDo
    PROVE  \A g \in GenIds : RowMoves(g)
<1>1. CASE UNCHANGED gens
  BY <1>1 DEF RowMoves
<1>2. ASSUME NEW v \in Workers, TaskError(v)
      PROVE  \A g \in GenIds : RowMoves(g)
  <2>1. worker[v].gen \in GenIds /\ (StartProcessing(worker[v].gen) \/ UNCHANGED gens)
    BY <1>2, WorkerFacts DEF TaskError, At, storeVars
  <2> QED BY <1>1, <2>1, ClaimingMoves
<1>3. ASSUME NEW v \in Workers, WriteError(v)
      PROVE  \A g \in GenIds : RowMoves(g)
  <2>1. worker[v].pc \in {"save", "complete"}
    BY <1>3 DEF WriteError, At
  <2>2. AfterError(v, "unexpected") \notin {"save", "complete"}
    BY DEF AfterError
  <2>3. worker'[v] # worker[v]
    BY <1>3, <2>1, <2>2, Leaves DEF WriteError, At, Base
  <2>4. worker[v].gen \in GenIds /\ worker[v].token # 0
    BY <2>1, WorkerFacts DEF Fits, At
  <2>5. (At(v, "save") /\ SaveRequest(v)) \/ CompleteRow(v) \/ UNCHANGED gens
    BY <1>3 DEF WriteError, storeVars
  <2> QED BY <1>1, <2>3, <2>4, <2>5, SaveMoves, HolderMoves
<1>4. CASE \/ \E v \in Workers : Redeliver(v) \/ AnswerLost(v)
           \/ \E g \in GenIds : DispatchAborts(g)
           \/ \E g \in GenIds, r \in 0 .. MaxRetries : LoseMessage(g, r)
  BY <1>1, <1>4 DEF Redeliver, AnswerLost, DispatchAborts, LoseMessage, storeVars
<1> QED BY <1>2, <1>3, <1>4 DEF FaultsDo

LEMMA RowsOfJobs ==
    ASSUME Base, JobsDo
    PROVE  \A g \in GenIds : Exists(g) => RowMoves(g)
<1>1. ASSUME NEW h \in GenIds, DispatchEvent(h)
      PROVE  \A g \in GenIds : Exists(g) => RowMoves(g)
  <2> DEFINE row == IF IsStatus(h, "created") THEN Queued(gens[h]) ELSE gens[h]
  <2>1. gens' = [gens EXCEPT ![h] = row]
    BY <1>1 DEF DispatchEvent, DispatchOutbox
  <2>2. gens'[h] = row => RowMoves(h)
    BY RowFacts, RequestsOfRows DEF RowMoves, Unheld, IsStatus, Base
  <2> HIDE DEF row
  <2> QED BY <2>1, <2>2, OneRowMoves DEF Base
<1>2. ASSUME NEW h \in GenIds, ExpireLease(h)
      PROVE  \A g \in GenIds : Exists(g) => RowMoves(g)
  BY <1>2, OneRowMoves DEF ExpireLease, LeaseExpires, RowMoves, Expires, Base
<1>3. ASSUME NEW h \in GenIds, GoStale(h)
      PROVE  \A g \in GenIds : Exists(g) => RowMoves(g)
  <2>1. IsStatus(h, "queued") /\ gens' = [gens EXCEPT ![h] = Aged(gens[h])]
    BY <1>3 DEF GoStale, QueuedGoesStale
  <2>2. gens'[h] = Aged(gens[h]) => RowMoves(h)
    BY <2>1, RowFacts, RequestsOfRows DEF RowMoves, Unheld, IsStatus, Base
  <2> QED BY <2>1, <2>2, OneRowMoves DEF Base
<1>4. ASSUME NEW S, Recover(S), NEW g \in GenIds, Exists(g)
      PROVE  RowMoves(g)
  <2>1. CASE g \in S /\ IsStatus(g, "processing")
    <3>1. gens[g].lease = "expired" /\ gens'[g] = Released(gens[g])
      BY <1>4, <2>1 DEF Recover, RecoverStale, StaleGens, IsStatus
    <3> QED BY <1>4, <3>1, RowFacts, RequestsOfRows DEF RowMoves, Unheld, Base
  <2> QED BY <1>4, <2>1 DEF Recover, RecoverStale, RowMoves
<1> QED BY <1>1, <1>2, <1>3, <1>4 DEF JobsDo

LEMMA RowsStep ==
    ASSUME Base, [WorkersNext]_vars
    PROVE  \A g \in GenIds : Exists(g) => RowMoves(g)
<1>1. CASE UNCHANGED gens
  BY <1>1 DEF RowMoves
<1>2. CASE ClientStep
  <2>1. ASSUME NEW h \in GenIds, NEW u \in Users, NEW k \in Keys, NEW r \in Requests,
               NEW c \in Costs, CreateAndCharge(h, u, k, r, c), NEW g \in GenIds, Exists(g)
        PROVE  RowMoves(g)
    BY <2>1 DEF CreateAndCharge, RowMoves, Base, StoreInv, StoreTypeOK
  <2> QED BY <1>1, <1>2, <2>1 DEF ClientStep, RegisterUser, ApplyCredit
<1>3. UNCHANGED vars => UNCHANGED gens
  BY DEF vars, storeVars
<1> QED BY <1>1, <1>2, <1>3, RowsOfWorkers, RowsOfJobs, RowsOfFaults DEF WorkersNext, ClientsDo

\* A worker that did not move holds a row under a live lease: nobody else moved it.
LEMMA Exclusive ==
    ASSUME Base, TokensApart, [WorkersNext]_vars
    PROVE  HolderMovesAlone
<1> SUFFICES ASSUME NEW w \in Workers, NEW g \in GenIds,
                    worker[w].gen = g, IsStatus(g, "processing"),
                    worker[w].token = gens[g].token, gens[g].lease = "live",
                    worker'[w] = worker[w]
             PROVE  gens'[g] \in {gens[g], Expired(gens[g])}
  BY DEF HolderMovesAlone
<1>1. RowMoves(g)
  BY RowsStep DEF IsStatus
<1>2. Expires(g) => gens'[g] = Expired(gens[g])
  BY DEF Expires, LeaseExpires, Base, StoreInv, StoreTypeOK
<1>3. ~ \E v \in Workers : MovedBy(v, g)
  <2> SUFFICES ASSUME NEW v \in Workers, MovedBy(v, g)
               PROVE  FALSE
    OBVIOUS
  <2>1. v # w /\ worker[v].gen = worker[w].gen /\ worker[v].token = worker[w].token
    BY DEF MovedBy, HoldsClaim
  <2>2. worker[w].token # 0
    BY DEF IsStatus, Base, StoreInv, ClaimCoherence
  <2> QED BY <2>1, <2>2 DEF TokensApart
<1> QED BY <1>1, <1>2, <1>3 DEF RowMoves, Unheld

-----------------------------------------------------------------------------
\* Who submits under a standing claim has found no request

\* A claim of a worker that did not move stood before if it stands now.
LEMMA StoodBefore ==
    ASSUME Base, [WorkersNext]_vars, NEW w \in Workers, NEW g \in GenIds,
           worker[w].gen = g, worker[w].token # 0, HoldsNext(g, worker[w].token)
    PROVE  HoldsClaim(g, worker[w].token)
<1>1. /\ Exists(g) /\ worker[w].token \in Nat /\ gens[g].attempts \in Nat
      /\ worker[w].token <= gens[g].attempts
  BY WorkerFacts
<1>2. gens'[g].token \in {0, gens[g].token} \/ gens'[g].token > gens[g].attempts
  BY <1>1, RequestsStep DEF Base, Growing, RowGrows
<1>3. gens[g].token = worker[w].token
  BY <1>1, <1>2 DEF HoldsNext
<1> QED BY <1>1, <1>3 DEF HoldsClaim, IsStatus, Base, StoreInv, ClaimCoherence

\* No request is recorded over a worker that holds the row and does not move.
LEMMA HolderRecords ==
    ASSUME Base, TokensApart, [WorkersNext]_vars, NEW w \in Workers, NEW g \in GenIds,
           worker[w].gen = g, HoldsClaim(g, worker[w].token), worker'[w] = worker[w]
    PROVE  /\ gens'[g].requestId = gens[g].requestId
           /\ gens[g].lease = "live" => gens'[g] = gens[g] \/ Expires(g)
<1>1. Exists(g) /\ RowMoves(g) /\ gens[g] \in Rows /\ worker[w].token # 0
  BY RowsStep, RowFacts DEF HoldsClaim, IsStatus, Base, StoreInv, ClaimCoherence
<1>2. ~ \E v \in Workers : MovedBy(v, g)
  BY <1>1 DEF MovedBy, HoldsClaim, TokensApart
<1>3. Expires(g) => gens'[g].requestId = gens[g].requestId
  <2>1. Expires(g) => gens'[g] = Expired(gens[g])
    BY DEF Expires, LeaseExpires, Base, StoreInv, StoreTypeOK
  <2> QED BY <1>1, <2>1 DEF Expired, Rows
<1> QED BY <1>1, <1>2, <1>3 DEF RowMoves, Unheld, HoldsClaim

\* A worker that is about to submit in the next state was so before, or has just
\* claimed the row and found no request.
LEMMA Submitters ==
    ASSUME Base, [WorkersNext]_vars, NEW w \in Workers, worker'[w].pc = "submit",
           NEW g \in GenIds, worker'[w].gen = g
    PROVE  \/ worker'[w] = worker[w]
           \/ /\ gens'[g] = Claimed(gens[g]) /\ gens[g] \in Rows
              /\ worker'[w].token = gens[g].attempts + 1
              /\ gens[g].requestId = 0
<1>1. worker'[w] = worker[w] \/ Moved(w)
  BY WorkerMoves DEF Moved
<1>2. ASSUME worker'[w] # worker[w]
      PROVE  /\ gens'[g] = Claimed(gens[g]) /\ MayClaim(g)
             /\ worker'[w].token = gens[g].attempts + 1
             /\ gens[g].requestId = 0
  BY <1>1, <1>2 DEF Moved
<1> QED BY <1>2, RowFacts DEF MayClaim, IsStatus, Base

LEMMA SubmitsStep ==
    ASSUME Base, WorkersTypeOK', TokensApart, SubmitsUnsaved, [WorkersNext]_vars
    PROVE  SubmitsUnsaved'
<1> SUFFICES ASSUME NEW w \in Workers, NEW g \in GenIds, worker'[w].pc = "submit",
                    worker'[w].gen = g, HoldsNext(g, worker'[w].token)
             PROVE  gens'[g].requestId = 0
  BY DEF SubmitsUnsaved, At, HoldsClaim, IsStatus, Exists, HoldsNext
<1>1. CASE worker'[w] = worker[w]
  <2>1. worker[w].token # 0
    BY <1>1, WorkerFacts DEF Fits
  <2>2. HoldsClaim(g, worker[w].token)
    BY <1>1, <2>1, StoodBefore
  <2>3. gens[g].requestId = 0
    BY <1>1, <2>2 DEF SubmitsUnsaved, At
  <2> QED BY <1>1, <2>2, <2>3, HolderRecords
<1>2. CASE gens'[g] = Claimed(gens[g]) /\ gens[g] \in Rows /\ gens[g].requestId = 0
  BY <1>2, RequestsOfRows
<1> QED BY <1>1, <1>2, Submitters

-----------------------------------------------------------------------------
\* What is paid

\* Unless the lease runs out nobody begins to submit in vain.
LEMMA StrayShrinks ==
    ASSUME Base, TokensApart, [WorkersNext]_vars, NEW g \in GenIds, ~Expires(g)
    PROVE  Stray(g)' \subseteq Stray(g)
<1> SUFFICES ASSUME NEW w \in Workers, worker'[w].pc = "submit", worker'[w].gen = g,
                    ~ (HoldsNext(g, worker'[w].token) /\ gens'[g].lease = "live")
             PROVE  w \in Stray(g)
  BY DEF Stray, At, Stands, HoldsClaim, IsStatus, Exists, HoldsNext
<1>1. CASE worker'[w] = worker[w]
  <2>1. ~Stands(w, g)
    BY <1>1, HolderRecords DEF Stands, HoldsClaim, IsStatus, Exists, HoldsNext
  <2> QED BY <1>1, <2>1 DEF Stray, At
<1>2. CASE gens'[g] = Claimed(gens[g]) /\ gens[g] \in Rows
           /\ worker'[w].token = gens[g].attempts + 1
  <2>1. /\ Claimed(gens[g]).status = "processing" /\ Claimed(gens[g]).lease = "live"
        /\ Claimed(gens[g]).token = gens[g].attempts + 1
    BY <1>2 DEF Claimed, Rows
  <2>2. gens'[g] # None
    BY <1>2, RequestsStep, RowNumbers DEF Base, Growing, RowGrows, Exists
  <2> QED BY <1>2, <2>1, <2>2 DEF HoldsNext
<1> QED BY <1>1, <1>2, Submitters

\* Who holds a row is one worker.
LEMMA OneStands ==
    ASSUME Base, TokensApart, NEW v \in Workers, NEW w \in Workers, NEW g \in GenIds,
           Stands(v, g), Stands(w, g)
    PROVE  v = w
<1>1. worker[v].token # 0
  BY DEF Stands, HoldsClaim, IsStatus, Base, StoreInv, ClaimCoherence
<1> QED BY <1>1 DEF Stands, HoldsClaim, TokensApart

\* Nobody may submit for good again, if a worker about to save moves by Save alone.
LEMMA StaysClosed ==
    ASSUME Base, TokensApart, [WorkersNext]_vars, NEW g \in GenIds, ~Expires(g), Closed(g),
           \A w \in Workers : At(w, "save") /\ worker'[w] # worker[w] => Save(w)
    PROVE  Closed(g)'
<1>1. Exists(g) /\ gens'[g] # None
      /\ (gens[g].requestId # 0 => gens'[g].requestId = gens[g].requestId)
  BY RequestsStep DEF Closed, Base, Growing, RowGrows
<1>2. CASE gens[g].requestId # 0
  BY <1>1, <1>2 DEF Closed, Exists
<1>3. ASSUME NEW w \in Workers, At(w, "save"), Stands(w, g), gens[g].requestId = 0
      PROVE  Closed(g)'
  <2>1. CASE worker'[w] = worker[w]
    <3>1. gens'[g] = gens[g]
      BY <1>3, <2>1, HolderRecords DEF Stands
    <3> QED BY <1>1, <1>3, <2>1, <3>1 DEF Closed, Stands, At, HoldsClaim, IsStatus, Exists
  <2>2. CASE Save(w)
    <3>1. SaveRequest(w) /\ worker[w].gen = g
      BY <1>3, <2>2 DEF Save, MaySave, Stands
    <3>2. worker[w].request # 0 /\ gens[g] \in Rows
      BY <1>1, <1>3, WorkerFacts, RowFacts DEF Fits, At, Base
    <3>3. gens'[g] = Submitted(gens[g], worker[w].provider, worker[w].request)
      BY <3>1 DEF SaveRequest, SaveProviderRequest, Base, StoreInv, StoreTypeOK
    <3>4. gens'[g].requestId = worker[w].request
      BY <3>2, <3>3 DEF Submitted, Rows
    <3> QED BY <1>1, <3>2, <3>4 DEF Closed, Exists
  <2> QED BY <1>3, <2>1, <2>2
<1> QED BY <1>2, <1>3 DEF Closed

\* Whoever moves from "save" has saved.
SaversSave == \A w \in Workers : At(w, "save") /\ worker'[w] # worker[w] => Save(w)

\* What a step adds to the bill of g.
LEMMA Bills ==
    ASSUME Base, [WorkersNext]_vars, NEW g \in GenIds
    PROVE  \/ \E w \in Workers : Submit(w) /\ worker[w].gen = g
           \/ \E w \in Workers : AnswerLost(w) /\ worker[w].gen = g
           \/ /\ submitted'[g] = submitted[g] /\ unanswered'[g] = unanswered[g]
              /\ faults' = faults + 1 \/ (faults' = faults /\ SaversSave)
<1> DEFINE Same == submitted'[g] = submitted[g] /\ unanswered'[g] = unanswered[g]
<1>0. submitted \in [GenIds -> SUBSET ProviderRequests] /\ unanswered \in [GenIds -> Nat]
  BY DEF Base, WorkersTypeOK
<1>1. ASSUME NEW x \in Workers, WorkerDoes(x)
      PROVE  (Submit(x) /\ worker[x].gen = g) \/ (Same /\ faults' = faults /\ SaversSave)
  <2>1. SaversSave
    <3>1. At(x, "save") => Save(x)
      BY <1>1 DEF WorkerDoes, Receive, Claim, Submit, Poll, Finalize, ProviderError,
                  RequeueRow, PublishRetry, ReadRequestId, Switch, Fail, At
    <3>2. \A y \in Workers : y # x => worker'[y] = worker[y]
      BY <1>1, WorkerStepMoves DEF Moved, Base
    <3> QED BY <3>1, <3>2 DEF SaversSave
  <2>2. UNCHANGED <<unanswered, faults>>
    BY <1>1 DEF WorkerDoes, Receive, Claim, Submit, Save, Poll, Finalize, ProviderError,
                RequeueRow, PublishRetry, ReadRequestId, Switch, Fail
  <2>3. UNCHANGED submitted \/ Submit(x)
    BY <1>1 DEF WorkerDoes, Receive, Claim, Save, Poll, Finalize, ProviderError,
                RequeueRow, PublishRetry, ReadRequestId, Switch, Fail
  <2>4. Submit(x) /\ worker[x].gen # g => submitted'[g] = submitted[g]
    BY <1>0 DEF Submit
  <2> QED BY <2>1, <2>2, <2>3, <2>4
<1>2. CASE ClientsDo \/ JobsDo \/ UNCHANGED vars
  <2>1. UNCHANGED <<worker, submitted, unanswered>> /\ (Fault \/ UNCHANGED faults)
    BY <1>2 DEF ClientsDo, JobsDo, DispatchEvent, ExpireLease, GoStale, Recover, vars, taskVars
  <2> QED BY <2>1 DEF SaversSave, Fault
<1>3. ASSUME FaultsDo, ~ \E w \in Workers : AnswerLost(w) /\ worker[w].gen = g
      PROVE  Same /\ faults' = faults + 1
  <2>1. ASSUME NEW w \in Workers, AnswerLost(w), worker[w].gen # g
        PROVE  Same /\ faults' = faults + 1
    BY <1>0, <2>1 DEF AnswerLost, Fault
  <2> QED BY <1>3, <2>1 DEF FaultsDo, Redeliver, TaskError, WriteError, DispatchAborts,
                            LoseMessage, Fault
<1> QED BY <1>1, <1>2, <1>3 DEF WorkersNext

LEMMA PaidNumbers ==
    ASSUME NEW S \in SUBSET ProviderRequests
    PROVE  IsFiniteSet(S) /\ Cardinality(S) \in Nat
<1>1. IsFiniteSet(Claims)
  <2>1. 1 \in Int /\ MaxClaims \in Int
    BY StoreAssumption
  <2> QED BY <2>1, FS_Interval DEF Claims
<1>2. IsFiniteSet(ProviderRequests)
  BY <1>1, WorkersAssumption, FS_Product DEF ProviderRequests
<1>3. IsFiniteSet(S)
  BY <1>2, FS_Subset
<1> QED BY <1>3, FS_CardinalityType

\* The lease of g runs out: who held the row, if anybody, may now pay in vain or
\* leave the row to a claim that pays again, and that is a fault.
LEMMA ExpiryPaid ==
    ASSUME Base, TokensApart, [WorkersNext]_vars, NEW g \in GenIds, PaidFor(g), Expires(g)
    PROVE  PaidFor(g)'
<1>1. /\ UNCHANGED <<worker, submitted, unanswered>>
      /\ (Attended(g) => faults' = faults + 1) /\ (faults' = faults \/ faults' = faults + 1)
  BY DEF Expires, ExpireLease, Fault
<1>2. /\ gens[g] \in Rows /\ gens'[g] = Expired(gens[g]) /\ gens'[g] # None
      /\ gens'[g].requestId = gens[g].requestId
  <2>1. Exists(g) /\ gens'[g] = Expired(gens[g])
    BY DEF Expires, LeaseExpires, IsStatus, Base, StoreInv, StoreTypeOK
  <2>2. gens[g] \in Rows /\ gens'[g] # None
    BY <2>1, RowFacts, RequestsStep DEF Base, Growing, RowGrows
  <2>3. Expired(gens[g]).requestId = gens[g].requestId
    BY <2>2 DEF Expired, Rows
  <2> QED BY <2>1, <2>2, <2>3
<1>3. /\ Cardinality(submitted[g]) \in Nat /\ unanswered[g] \in Nat /\ faults \in Nat
      /\ Open(g) \in {0, 1} /\ Open(g)' \in {0, 1}
  BY PaidNumbers, WorkersAssumption DEF Base, WorkersTypeOK, Open
<1>4. IsFiniteSet(Stray(g)) /\ Cardinality(Stray(g)) \in Nat
  BY FS_CardinalityType DEF PaidFor
<1>5. ASSUME NEW w \in Workers, At(w, "submit"), Stands(w, g)
      PROVE  PaidFor(g)'
  <2>1. Stray(g)' \subseteq Stray(g) \cup {w}
    <3>1. \A v \in Workers : v # w => ~Stands(v, g)
      BY <1>5, OneStands
    <3> QED BY <1>1, <3>1 DEF Stray, At
  <2>2. IsFiniteSet(Stray(g)') /\ Cardinality(Stray(g)') <= Cardinality(Stray(g)) + 1
    <3>1. /\ IsFiniteSet(Stray(g) \cup {w})
          /\ Cardinality(Stray(g) \cup {w}) <= Cardinality(Stray(g)) + 1
      BY <1>4, FS_AddElement
    <3>2. /\ IsFiniteSet(Stray(g)')
          /\ Cardinality(Stray(g)') <= Cardinality(Stray(g) \cup {w})
      BY <2>1, <3>1, FS_Subset
    <3> QED BY <1>4, <3>1, <3>2, FS_CardinalityType
  <2>3. Cardinality(Stray(g)') \in Nat
    BY <2>2, FS_CardinalityType
  <2>4. Open(g)' <= Open(g)
    <3>1. \A v \in Workers : ~ (At(v, "save") /\ Stands(v, g))
      BY <1>5, OneStands DEF At
    <3>2. Closed(g) => Closed(g)'
      BY <1>2, <3>1 DEF Closed, Exists
    <3> QED BY <3>2 DEF Open
  <2>5. faults' = faults + 1
    BY <1>1, <1>5 DEF Attended, Stands, HoldsClaim
  <2> QED BY <1>1, <1>3, <1>4, <2>2, <2>3, <2>4, <2>5 DEF PaidFor
<1>6. ASSUME \A v \in Workers : ~ (At(v, "submit") /\ Stands(v, g))
      PROVE  PaidFor(g)'
  <2>1. Stray(g)' \subseteq Stray(g)
    BY <1>1, <1>6 DEF Stray, At
  <2>2. IsFiniteSet(Stray(g)') /\ Cardinality(Stray(g)') <= Cardinality(Stray(g))
    BY <1>4, <2>1, FS_Subset
  <2>3. Cardinality(Stray(g)') \in Nat
    BY <2>2, FS_CardinalityType
  <2>4. Open(g)' + faults <= Open(g) + faults'
    <3>1. CASE \E w \in Workers : At(w, "save") /\ Stands(w, g)
      <4>1. faults' = faults + 1
        BY <1>1, <3>1 DEF Attended, Stands, HoldsClaim
      <4> QED BY <1>3, <4>1
    <3>2. CASE ~ \E w \in Workers : At(w, "save") /\ Stands(w, g)
      <4>1. Closed(g) => Closed(g)'
        BY <1>2, <3>2 DEF Closed, Exists
      <4>2. Open(g)' <= Open(g)
        BY <4>1 DEF Open
      <4> QED BY <1>1, <1>3, <4>2
    <3> QED BY <3>1, <3>2
  <2>5. faults' \in Nat
    BY <1>1, <1>3
  <2> QED BY <1>1, <1>3, <1>4, <2>2, <2>3, <2>4, <2>5 DEF PaidFor
<1> QED BY <1>5, <1>6

\* Otherwise at most one of those who submit pays, and pays for good only when
\* nobody else may; all other increases are faults.
LEMMA PaidStepAt ==
    ASSUME Base, WorkersTypeOK', TokensApart, SubmitsUnsaved, [WorkersNext]_vars,
           NEW g \in GenIds, PaidFor(g), ~Expires(g)
    PROVE  PaidFor(g)'
<1>1. Stray(g)' \subseteq Stray(g)
  BY StrayShrinks
<1>2. /\ Cardinality(submitted[g]) \in Nat /\ unanswered[g] \in Nat /\ faults \in Nat
      /\ Open(g) \in {0, 1} /\ Open(g)' \in {0, 1}
  BY PaidNumbers, WorkersAssumption DEF Base, WorkersTypeOK, Open
<1>3. IsFiniteSet(Stray(g)) /\ Cardinality(Stray(g)) \in Nat
  BY FS_CardinalityType DEF PaidFor
<1>4. /\ IsFiniteSet(Stray(g)') /\ Cardinality(Stray(g)') \in Nat
      /\ Cardinality(Stray(g)') <= Cardinality(Stray(g))
  <2>1. IsFiniteSet(Stray(g)') /\ Cardinality(Stray(g)') <= Cardinality(Stray(g))
    BY <1>1, <1>3, FS_Subset
  <2> QED BY <2>1, FS_CardinalityType
<1>5. Closed(g) /\ SaversSave => Open(g)' <= Open(g)
  <2>1. Closed(g) /\ SaversSave => Closed(g)'
    BY StaysClosed DEF SaversSave
  <2> QED BY <1>2, <2>1 DEF Open
<1>6. SaversSave => Open(g)' <= Open(g)
  <2>1. ~Closed(g) => Open(g)' <= Open(g)
    BY <1>2 DEF Open
  <2> QED BY <1>5, <2>1
<1>7. ASSUME NEW w \in Workers, Submit(w), worker[w].gen = g
      PROVE  PaidFor(g)'
  <2> DEFINE new == <<worker[w].provider, worker[w].token>>
  <2>1. /\ At(w, "submit") /\ UNCHANGED <<gens, unanswered, faults>>
        /\ new \in ProviderRequests /\ worker[w] \in WorkerStates
        /\ submitted' = [submitted EXCEPT ![g] = @ \cup {new}]
    BY <1>7, BusyFacts, WorkerFacts DEF Submit, storeVars, At, Base, ProviderRequests, Fits
  <2>2. /\ submitted'[g] = submitted[g] \cup {new}
        /\ submitted[g] \in SUBSET ProviderRequests
    BY <2>1 DEF Base, WorkersTypeOK
  <2>3. /\ Cardinality(submitted'[g]) \in Nat
        /\ Cardinality(submitted'[g]) <= Cardinality(submitted[g]) + 1
    <3>1. IsFiniteSet(submitted[g])
      BY <2>2, PaidNumbers
    <3> DEFINE all == submitted[g] \cup {new}
    <3>2. \/ Cardinality(all) = Cardinality(submitted[g])
          \/ Cardinality(all) = Cardinality(submitted[g]) + 1
      BY <3>1, FS_AddElement
    <3>3. all \in SUBSET ProviderRequests /\ submitted'[g] = all
      BY <2>1, <2>2
    <3> HIDE DEF all
    <3>4. Cardinality(all) \in Nat
      BY <3>3, PaidNumbers
    <3> QED BY <1>2, <3>2, <3>3, <3>4
  <2>4. /\ worker'[w].pc = "save" /\ worker'[w].gen = g /\ worker'[w].token = worker[w].token
        /\ \A y \in Workers : y # w => worker'[y] = worker[y]
    <3> DEFINE s == [worker[w] EXCEPT !.request = worker[w].token, !.pc = "save"]
    <3>1. s.pc = "save" /\ s.gen = worker[w].gen /\ s.token = worker[w].token
      BY <2>1 DEF WorkerStates
    <3>2. worker' = [worker EXCEPT ![w] = s]
      BY <1>7, <2>1 DEF Submit
    <3> HIDE DEF s
    <3> QED BY <1>7, <3>1, <3>2, OneMoves DEF Base
  <2>5. CASE Stands(w, g)
    <3>1. gens[g].requestId = 0
      BY <1>7, <2>1, <2>5 DEF SubmitsUnsaved, Stands
    <3>2. \A v \in Workers : ~ (At(v, "save") /\ Stands(v, g))
      BY <2>1, <2>5, OneStands DEF At
    <3>3. Open(g) = 1
      BY <3>1, <3>2 DEF Open, Closed
    <3>4. Closed(g)'
      BY <2>1, <2>4, <2>5 DEF Closed, Stands, At, HoldsClaim, IsStatus, Exists
    <3>5. Open(g)' = 0
      BY <3>4 DEF Open
    <3> QED BY <1>2, <1>3, <1>4, <2>1, <2>3, <3>3, <3>5 DEF PaidFor
  <2>6. CASE ~Stands(w, g)
    <3>1. w \in Stray(g) /\ Stray(g)' \subseteq Stray(g) \ {w}
      BY <1>1, <1>7, <2>1, <2>4, <2>6 DEF Stray, At
    <3>2. Cardinality(Stray(g)') + 1 <= Cardinality(Stray(g))
      <4>1. /\ IsFiniteSet(Stray(g) \ {w})
            /\ Cardinality(Stray(g) \ {w}) = Cardinality(Stray(g)) - 1
        BY <1>3, <3>1, FS_RemoveElement
      <4>2. Cardinality(Stray(g)') <= Cardinality(Stray(g) \ {w})
        BY <3>1, <4>1, FS_Subset
      <4> QED BY <1>3, <1>4, <4>1, <4>2
    <3>3. SaversSave
      BY <2>1, <2>4 DEF SaversSave, At
    <3> QED BY <1>2, <1>3, <1>4, <1>6, <2>1, <2>3, <3>2, <3>3 DEF PaidFor
  <2> QED BY <2>5, <2>6
<1>8. ASSUME NEW w \in Workers, AnswerLost(w), worker[w].gen = g
      PROVE  PaidFor(g)'
  <2>1. /\ At(w, "submit") /\ UNCHANGED submitted /\ faults' = faults + 1
        /\ unanswered'[g] = unanswered[g] + 1
    BY <1>8 DEF AnswerLost, Fault, Base, WorkersTypeOK
  <2>2. SaversSave
    <3>1. UNCHANGED worker \/ Moved(w)
      BY <1>8, FaultMoves DEF Base
    <3> QED BY <2>1, <3>1 DEF SaversSave, Moved, At
  <2> QED BY <1>2, <1>3, <1>4, <1>6, <2>1, <2>2 DEF PaidFor
<1>9. ASSUME submitted'[g] = submitted[g], unanswered'[g] = unanswered[g],
             faults' = faults + 1 \/ (faults' = faults /\ SaversSave)
      PROVE  PaidFor(g)'
  <2>1. Open(g)' + faults <= Open(g) + faults' /\ faults' \in Nat
    BY <1>2, <1>6, <1>9
  <2> QED BY <1>2, <1>3, <1>4, <1>9, <2>1 DEF PaidFor
<1> QED BY <1>7, <1>8, <1>9, Bills

LEMMA PaidStep ==
    ASSUME Base, WorkersTypeOK', TokensApart, SubmitsUnsaved, Paid, [WorkersNext]_vars
    PROVE  Paid'
  BY PaidStepAt, ExpiryPaid DEF Paid

-----------------------------------------------------------------------------
\* Retries

\* A message appears only when its retry has been paid for with a claim.
FreshFit ==
    \A m \in Messages :
        broker'[m] <= broker[m] \/ (Exists(m[1]) /\ gens[m[1]].attempts >= m[2])

LEMMA EnqueueFits ==
    ASSUME WorkersTypeOK, NEW g \in GenIds, Exists(g), NEW r \in 0 .. MaxRetries,
           gens[g].attempts >= r, Enqueue(g, r)
    PROVE  FreshFit
<1>1. <<g, r>> \in Messages /\ <<g, r>>[1] = g /\ <<g, r>>[2] = r
  BY DEF Messages
<1>2. \A m \in Messages : broker[m] \in Nat
  BY WorkersAssumption DEF WorkersTypeOK
<1> QED BY <1>1, <1>2 DEF Enqueue, FreshFit, WorkersTypeOK

LEMMA FewerFit ==
    ASSUME WorkersTypeOK,
           \/ UNCHANGED broker
           \/ \E g \in GenIds, r \in 0 .. MaxRetries :
                 broker' = [broker EXCEPT ![<<g, r>>] = @ - 1]
    PROVE  FreshFit
<1>1. \A m \in Messages : broker[m] \in Nat
  BY WorkersAssumption DEF WorkersTypeOK
<1>2. \A m \in Messages : broker'[m] = broker[m] \/ broker'[m] = broker[m] - 1
  BY DEF WorkersTypeOK
<1> QED BY <1>1, <1>2 DEF FreshFit

LEMMA FreshStep ==
    ASSUME Base, RetriesFit, [WorkersNext]_vars
    PROVE  FreshFit
<1>1. 0 \in 0 .. MaxRetries
  BY WorkersAssumption
<1>2. ASSUME NEW w \in Workers, ~At(w, "idle")
      PROVE  /\ worker[w].gen \in GenIds /\ Exists(worker[w].gen)
             /\ worker[w].retries \in 0 .. MaxRetries
             /\ gens[worker[w].gen].attempts >= worker[w].retries
             /\ At(w, "publish") =>
                   /\ NextRetries(w) \in 0 .. MaxRetries
                   /\ gens[worker[w].gen].attempts >= NextRetries(w)
  <2>1. /\ worker[w].gen \in GenIds /\ Exists(worker[w].gen)
        /\ worker[w].retries \in 0 .. MaxRetries /\ Fits(worker[w])
    BY <1>2, WorkerFacts DEF WorkerStates
  <2>2. At(w, "publish") => worker[w].retries < MaxRetries
    BY <2>1 DEF Fits, At
  <2>3. /\ gens[worker[w].gen].attempts >= worker[w].retries
        /\ At(w, "publish") => gens[worker[w].gen].attempts >= worker[w].retries + 1
    BY <1>2 DEF RetriesFit, At
  <2> QED BY <2>1, <2>2, <2>3, WorkersAssumption DEF NextRetries
<1>3. ASSUME NEW g \in GenIds, outbox[g] = "pending"
      PROVE  Exists(g) /\ gens[g].attempts >= 0
  BY <1>3, RowFacts, RowNumbers DEF Base, StoreInv, CreatedIsPending
<1>4. ASSUME NEW w \in Workers, WorkerDoes(w)
      PROVE  FreshFit
  <2>1. CASE PublishRetry(w)
    <3>1. ~At(w, "idle") /\ At(w, "publish") /\ Enqueue(worker[w].gen, NextRetries(w))
      BY <2>1 DEF PublishRetry, At
    <3> QED BY <1>2, <3>1, EnqueueFits DEF Base
  <2>2. CASE \E h \in GenIds, r \in 0 .. MaxRetries : Receive(w, h, r)
    BY <2>2, FewerFit DEF Receive, Base
  <2>3. CASE \/ Claim(w) \/ Submit(w) \/ Save(w) \/ Poll(w) \/ Finalize(w)
             \/ ProviderError(w) \/ RequeueRow(w) \/ ReadRequestId(w) \/ Switch(w) \/ Fail(w)
    <3>1. UNCHANGED broker
      BY <2>3 DEF Claim, Submit, Save, Poll, Finalize, ProviderError, RequeueRow,
                  ReadRequestId, Switch, Fail
    <3> QED BY <3>1, FewerFit DEF Base
  <2> QED BY <1>4, <2>1, <2>2, <2>3 DEF WorkerDoes
<1>5. CASE JobsDo
  <2>1. ASSUME NEW g \in GenIds, DispatchEvent(g)
        PROVE  FreshFit
    BY <1>1, <1>3, <2>1, EnqueueFits DEF DispatchEvent, DispatchOutbox, Base
  <2>2. CASE \/ \E g \in GenIds : ExpireLease(g) \/ GoStale(g)
             \/ \E S \in (SUBSET StaleGens) \ {{}} : Recover(S)
    BY <2>2, FewerFit DEF ExpireLease, GoStale, Recover, taskVars, Base
  <2> QED BY <1>5, <2>1, <2>2 DEF JobsDo
<1>6. CASE FaultsDo
  <2>1. ASSUME NEW w \in Workers, Redeliver(w)
        PROVE  FreshFit
    BY <1>2, <2>1, EnqueueFits DEF Redeliver, Base
  <2>2. ASSUME NEW g \in GenIds, DispatchAborts(g)
        PROVE  FreshFit
    BY <1>1, <1>3, <2>2, EnqueueFits DEF DispatchAborts, Base
  <2>3. CASE \/ \E w \in Workers : TaskError(w) \/ WriteError(w) \/ AnswerLost(w)
             \/ \E g \in GenIds, r \in 0 .. MaxRetries : LoseMessage(g, r)
    BY <2>3, FewerFit DEF TaskError, WriteError, AnswerLost, LoseMessage, Base
  <2> QED BY <1>6, <2>1, <2>2, <2>3 DEF FaultsDo
<1>7. CASE ClientsDo \/ UNCHANGED vars
  BY <1>7, FewerFit DEF ClientsDo, vars, taskVars, Base
<1> QED BY <1>4, <1>5, <1>6, <1>7 DEF WorkersNext

\* What RetriesFit says of one worker, in the next state of the tables.
FitsNext(s) ==
    s.pc # "idle" =>
        /\ gens'[s.gen].attempts >= s.retries
        /\ s.pc # "claim" => gens'[s.gen].attempts >= s.retries + 1

LEMMA AttemptsGrow ==
    ASSUME Base, StoreTypeOK', [WorkersNext]_vars, NEW g \in GenIds, Exists(g)
    PROVE  /\ gens'[g] # None /\ gens'[g].attempts >= gens[g].attempts
           /\ gens[g].attempts \in Nat /\ gens'[g].attempts \in Nat
<1>1. gens'[g] # None /\ gens'[g].attempts >= gens[g].attempts
  BY RequestsStep DEF Base, Growing, RowGrows
<1>2. gens'[g] \in Rows
  BY <1>1 DEF StoreTypeOK
<1> QED BY <1>1, <1>2, RowFacts, RowNumbers DEF Base

LEMMA RetriesStep ==
    ASSUME Base, StoreTypeOK', WorkersTypeOK', RetriesFit, [WorkersNext]_vars
    PROVE  RetriesFit'
<1>1. ASSUME NEW g \in GenIds, NEW r \in 0 .. MaxRetries, broker'[<<g, r>>] > 0
      PROVE  gens'[g] # None /\ gens'[g].attempts >= r
  <2>1. <<g, r>> \in Messages /\ <<g, r>>[1] = g /\ <<g, r>>[2] = r
    BY DEF Messages
  <2>2. broker[<<g, r>>] \in Nat /\ broker'[<<g, r>>] \in Nat
    BY <2>1, WorkersAssumption DEF Base, WorkersTypeOK
  <2>3. Exists(g) /\ gens[g].attempts >= r
    BY <1>1, <2>1, <2>2, FreshStep DEF FreshFit, RetriesFit
  <2>4. r \in Nat
    BY WorkersAssumption
  <2> QED BY <2>3, <2>4, AttemptsGrow
<1>2. ASSUME NEW w \in Workers
      PROVE  FitsNext(worker[w])
  <2> SUFFICES ASSUME ~At(w, "idle")
               PROVE  FitsNext(worker[w])
    BY DEF FitsNext, At
  <2>1. /\ worker[w].gen \in GenIds /\ Exists(worker[w].gen) /\ worker[w].retries \in Nat
    BY WorkerFacts, WorkersAssumption DEF WorkerStates
  <2>2. /\ gens[worker[w].gen].attempts >= worker[w].retries
        /\ ~At(w, "claim") => gens[worker[w].gen].attempts >= worker[w].retries + 1
    BY DEF RetriesFit, At
  <2> QED BY <2>1, <2>2, AttemptsGrow DEF FitsNext, At
<1>3. ASSUME NEW w \in Workers
      PROVE  FitsNext(worker'[w])
  <2>1. CASE worker'[w] = worker[w]
    BY <1>2, <2>1
  <2>2. CASE worker'[w].pc = "idle"
    BY <2>2 DEF FitsNext
  <2>3. CASE /\ worker'[w].pc = "claim" /\ worker'[w].gen \in GenIds
             /\ worker'[w].retries \in 0 .. MaxRetries
             /\ broker[<<worker'[w].gen, worker'[w].retries>>] > 0
    <3>1. /\ Exists(worker'[w].gen) /\ gens[worker'[w].gen].attempts >= worker'[w].retries
          /\ worker'[w].retries \in Nat
      BY <2>3, WorkersAssumption DEF RetriesFit
    <3> QED BY <2>3, <3>1, AttemptsGrow DEF FitsNext
  <2>4. CASE /\ At(w, "claim") /\ worker'[w].gen = worker[w].gen
             /\ worker'[w].retries = worker[w].retries
             /\ gens'[worker[w].gen] = Claimed(gens[worker[w].gen])
    <3>1. /\ worker[w].gen \in GenIds /\ Exists(worker[w].gen)
          /\ gens[worker[w].gen] \in Rows /\ gens[worker[w].gen].attempts \in Nat
          /\ worker[w].retries \in Nat
          /\ gens[worker[w].gen].attempts >= worker[w].retries
      BY <2>4, WorkerFacts, RowFacts, WorkersAssumption
         DEF At, Base, RetriesFit, WorkerStates
    <3>2. gens'[worker[w].gen].attempts = gens[worker[w].gen].attempts + 1
      BY <2>4, <3>1 DEF Claimed, Rows
    <3> QED BY <2>4, <3>1, <3>2 DEF FitsNext
  <2>5. CASE /\ worker[w].pc \notin {"idle", "claim"} /\ worker'[w].gen = worker[w].gen
             /\ worker'[w].retries = worker[w].retries
    <3>1. /\ gens'[worker[w].gen].attempts >= worker[w].retries
          /\ gens'[worker[w].gen].attempts >= worker[w].retries + 1
      BY <1>2, <2>5 DEF FitsNext
    <3> QED BY <2>5, <3>1 DEF FitsNext
  <2>6. UNCHANGED worker \/ \E x \in Workers : Moved(x)
    BY WorkerMoves
  <2> QED BY <2>1, <2>2, <2>3, <2>4, <2>5, <2>6 DEF Moved
<1> QED BY <1>1, <1>3 DEF RetriesFit, FitsNext, Exists

-----------------------------------------------------------------------------
\* The theorems

LEMMA ClaimsInit ==
    ASSUME WorkersInit
    PROVE  ClaimsInv
<1>1. /\ \A w \in Workers : worker[w] = Idle
      /\ \A g \in GenIds : ~Exists(g) /\ submitted[g] = {} /\ unanswered[g] = 0
      /\ \A g \in GenIds, r \in 0 .. MaxRetries : broker[<<g, r>>] = 0
      /\ faults = 0
  BY DEF WorkersInit, StoreInit, Exists, Messages
<1>2. Idle.pc = "idle" /\ Idle.token = 0
  BY DEF Idle
<1>3. TokensApart /\ SubmitsUnsaved
  BY <1>1, <1>2 DEF TokensApart, SubmitsUnsaved, At
<1>4. ASSUME NEW g \in GenIds
      PROVE  PaidFor(g)
  <2>1. Stray(g) = {} /\ Open(g) = 1
    BY <1>1, <1>2 DEF Stray, At, Open, Closed
  <2> QED BY <1>1, <2>1, FS_EmptySet DEF PaidFor
<1>5. RetriesFit
  BY <1>1, <1>2 DEF RetriesFit
<1> QED BY <1>3, <1>4, <1>5 DEF ClaimsInv, Paid

LEMMA ClaimsStep ==
    ASSUME Base, StoreTypeOK', WorkersTypeOK', ClaimsInv, [WorkersNext]_vars
    PROVE  ClaimsInv' /\ HolderMovesAlone
  BY TokensStep, SubmitsStep, PaidStep, RetriesStep, Exclusive DEF ClaimsInv

\* Base and ClaimsInv are inductive together.
LEMMA ClaimsHold == WorkersSpec => [](Base /\ ClaimsInv)
<1>1. WorkersInit => Base /\ ClaimsInv
  BY ComposedInit, ResultInit, ClaimsInit DEF Base
<1>2. Base /\ ClaimsInv /\ [WorkersNext]_vars => (Base /\ ClaimsInv)'
  <2> SUFFICES ASSUME Base, ClaimsInv, [WorkersNext]_vars
               PROVE  (Base /\ ClaimsInv)'
    OBVIOUS
  <2>1. StoreInv' /\ WorkersTypeOK' /\ StoreTypeOK'
    BY ComposedStep DEF Base, StoreInv
  <2>2. ResultInv'
    BY <2>1, ResultStep DEF Base
  <2> QED BY <2>1, <2>2, ClaimsStep DEF Base
<1> QED BY <1>1, <1>2, PTL DEF WorkersSpec

\* For all constants, so for any number of workers and faults: while a worker
\* attends to a generation under a live lease nobody else moves its row; a second
\* worker, a redelivered message, recovery and dispatch all keep off.
THEOREM LeasesAreExclusive == WorkersSpec => LeaseIsExclusive
<1>1. Base /\ ClaimsInv /\ [WorkersNext]_vars => [HolderMovesAlone]_vars
  BY Exclusive DEF ClaimsInv
<1> QED BY <1>1, ClaimsHold, PTL DEF WorkersSpec, LeaseIsExclusive

\* For all constants: a provider accepts one paid request per generation and at
\* most one more for each fault.
THEOREM PaymentsBounded == WorkersSpec => []PaidRequestsBounded
<1>1. Base /\ ClaimsInv => PaidRequestsBounded
  <2> SUFFICES ASSUME Base, ClaimsInv, NEW g \in GenIds
               PROVE  Cardinality(submitted[g]) + unanswered[g] <= 1 + faults
    BY DEF PaidRequestsBounded
  <2>1. PaidFor(g)
    BY DEF ClaimsInv, Paid
  <2>2. /\ Cardinality(submitted[g]) \in Nat /\ unanswered[g] \in Nat /\ faults \in Nat
        /\ Open(g) \in {0, 1} /\ Cardinality(Stray(g)) \in Nat
    BY <2>1, PaidNumbers, FS_CardinalityType, WorkersAssumption
       DEF Base, WorkersTypeOK, Open, PaidFor
  <2> QED BY <2>1, <2>2 DEF PaidFor
<1> QED BY <1>1, ClaimsHold, PTL

\* For all constants: message number r of a generation exists only after r
\* claims, and a generation is given up for temporary or unexpected errors only
\* after max_retries + 1.
THEOREM RetriesAreClaims == WorkersSpec => []RetriesCountClaims
<1>1. ASSUME Base, ClaimsInv
      PROVE  RetriesCountClaims
  <2>1. \A r \in 1 .. MaxRetries : r \in 0 .. MaxRetries
    BY WorkersAssumption
  <2>0. RetriesFit
    BY <1>1 DEF ClaimsInv
  <2>2. ASSUME NEW w \in Workers
        PROVE  /\ worker[w].pc \notin {"idle", "claim"}
                     => gens[worker[w].gen].attempts >= worker[w].retries + 1
               /\ worker[w].pc \in {"failover", "switch", "giveUp"}
                     => worker[w].retries = MaxRetries
    <3>1. Fits(worker[w]) /\ worker[w].failover \in BOOLEAN
      BY <1>1, WorkerFacts DEF WorkerStates
    <3>2. worker[w].pc \in {"failover", "switch", "giveUp"} => worker[w].retries = MaxRetries
      BY <3>1 DEF Fits
    <3> QED BY <2>0, <3>2 DEF RetriesFit
  <2>3. ASSUME NEW g \in GenIds, NEW r \in 1 .. MaxRetries, broker[<<g, r>>] > 0
        PROVE  Exists(g) /\ gens[g].attempts >= r
    BY <2>0, <2>1, <2>3 DEF RetriesFit
  <2>4. ASSUME NEW w \in Workers
        PROVE  /\ worker[w].pc \in {"requeue", "publish"}
                     => gens[worker[w].gen].attempts >= worker[w].retries + 1
               /\ worker[w].pc \in {"failover", "switch", "giveUp"}
                     => gens[worker[w].gen].attempts >= MaxRetries + 1
    BY <2>2
  <2> QED BY <2>3, <2>4 DEF RetriesCountClaims
<1> QED BY <1>1, ClaimsHold, PTL

-----------------------------------------------------------------------------
\* How often a generation is claimed.  Every message, worker and outbox event of a
\* generation can still claim it a bounded number of times, its allowance; a row that
\* recovery may dispatch again has an allowance of its own.  What is claimed and what
\* may be claimed grows only by faults.

Round == MaxRetries + 2   \* claims of one delivery: the retries and the failover

\* Claims that a worker in state s still makes or publishes messages for.
Left(s) ==
    CASE s.pc \in {"idle", "fail", "giveUp"} -> 0
      [] s.pc = "claim" -> IF s.failover THEN 1 ELSE Round - s.retries
      [] s.pc \in {"failover", "switch"} -> 1
      [] s.pc \in {"requeue", "publish"} -> Round - 1 - s.retries
      [] OTHER -> IF s.failover THEN 0 ELSE Round - 1 - s.retries

\* Something will claim the row of g, if it is still queued.
Waits(g) ==
    \/ outbox[g] = "pending"
    \/ \E r \in 0 .. MaxRetries : broker[<<g, r>>] > 0
    \/ \E w \in Workers : worker[w].gen = g /\ worker[w].pc \in {"claim", "publish"}

\* Only recovery can bring g on, so it may dispatch it anew without a fault.
Adrift(g) ==
    \/ IsStatus(g, "processing") /\ ~ (gens[g].lease = "live" /\ Attended(g))
    \/ IsStatus(g, "queued") /\ ~Waits(g)

Share(w, g) == IF worker[w].gen = g THEN Left(worker[w]) ELSE 0
Working(g) == SumFunction([w \in Workers |-> Share(w, g)])
Carried(g, r) == broker[<<g, r>>] * (Round - r)
Coming(g) == SumFunction([r \in 0 .. MaxRetries |-> Carried(g, r)])
Due(g) == IF outbox[g] = "pending" THEN Round ELSE 0
Loss(g) == IF Adrift(g) THEN Round ELSE 0

Owed(g) == gens[g].attempts + Coming(g) + Working(g) + Due(g)
Budget(g) == Owed(g) + Loss(g)
Budgeted == \A g \in GenIds : Exists(g) => Budget(g) <= Round + faults * (2 * Round)

\* A worker that is between two claims holds nothing.
Resting ==
    \A w \in Workers : worker[w].pc \in {"claim", "publish"} =>
        ~HoldsClaim(worker[w].gen, worker[w].token)

\* Who saves under a claim that stands finds no saved request.
SavesUnsaved ==
    \A w \in Workers : At(w, "save") /\ HoldsClaim(worker[w].gen, worker[w].token)
        => gens[worker[w].gen].requestId = 0

BudgetInv == Resting /\ SavesUnsaved /\ Budgeted

\* The steps that lead to a claim, a save or a publication.
LEMMA Arrivals ==
    ASSUME Base, [WorkersNext]_vars, NEW w \in Workers, worker'[w] # worker[w]
    PROVE  /\ worker'[w].pc = "save" => Submit(w)
           /\ worker'[w].pc = "publish" => RequeueRow(w)
           /\ worker'[w].pc = "claim" => Switch(w) \/ worker'[w].token = 0
<1>0. worker \in [Workers -> WorkerStates]
  BY DEF Base, WorkersTypeOK
<1>1. ASSUME Finish(w)
      PROVE  worker'[w].pc = "idle"
  BY <1>0, <1>1 DEF Finish, Idle
<1>2. ASSUME NEW step, Goto(w, step)
      PROVE  worker'[w].pc = step
  <2>1. worker[w] \in WorkerStates
    BY <1>0
  <2>2. [worker[w] EXCEPT !.pc = step].pc = step
    BY <2>1 DEF WorkerStates
  <2> QED BY <1>0, <1>2, <2>2 DEF Goto
<1>3. \A kind : AfterError(w, kind) \in {"fail", "giveUp", "requeue", "failover"}
  BY AfterErrorSteps
<1>4. CASE \E x \in Workers : WorkerDoes(x)
  <2>1. WorkerDoes(w)
    BY <1>4, WorkerStepMoves DEF Moved, Base
  <2>2. CASE Claim(w)
    <3>1. worker'[w] = worker[w] \/ worker'[w].pc \in {"idle", "submit", "poll"}
      <4>1. CASE Finish(w)
        BY <1>1, <4>1
      <4>2. CASE ~Finish(w)
        <5> DEFINE s == [worker[w] EXCEPT !.token = gens'[worker[w].gen].token,
                              !.request = gens[worker[w].gen].requestId,
                              !.provider = ProviderFor(w), !.pc = FirstStep(worker[w].gen)]
        <5>1. worker' = [worker EXCEPT ![w] = s]
          BY <1>0, <2>2, <4>2 DEF Claim, DropWhenRefused
        <5>2. s.pc = FirstStep(worker[w].gen)
          BY <1>0 DEF WorkerStates
        <5> HIDE DEF s
        <5> QED BY <1>0, <5>1, <5>2 DEF FirstStep
      <4> QED BY <4>1, <4>2
    <3> QED BY <3>1
  <2>3. CASE Submit(w)
    <3> DEFINE s == [worker[w] EXCEPT !.request = worker[w].token, !.pc = "save"]
    <3>1. s.pc = "save"
      BY <1>0 DEF WorkerStates
    <3>2. worker'[w] = s
      BY <1>0, <2>3 DEF Submit
    <3> HIDE DEF s
    <3> QED BY <2>3, <3>1, <3>2
  <2>4. CASE \E g \in GenIds, r \in 0 .. MaxRetries : Receive(w, g, r)
    <3>1. PICK g \in GenIds, r \in 0 .. MaxRetries : Receive(w, g, r)
      BY <2>4
    <3> DEFINE s == [Idle EXCEPT !.pc = "claim", !.gen = g, !.retries = r]
    <3>2. s.pc = "claim" /\ s.token = 0
      BY DEF Idle
    <3>3. worker'[w] = s
      BY <1>0, <3>1 DEF Receive
    <3> HIDE DEF s
    <3> QED BY <3>2, <3>3
  <2>5. CASE Switch(w)
    <3>1. Goto(w, "giveUp") => worker'[w].pc = "giveUp"
      BY <1>2
    <3>2. worker' = [worker EXCEPT ![w].pc = "claim", ![w].failover = TRUE]
            => worker'[w].pc = "claim"
      <4>1. worker[w] \in WorkerStates
        BY <1>0
      <4>2. [worker[w] EXCEPT !.pc = "claim", !.failover = TRUE].pc = "claim"
        BY <4>1 DEF WorkerStates
      <4> QED BY <1>0, <4>2
    <3> QED BY <2>5, <3>1, <3>2 DEF Switch
  <2>6. CASE Save(w) \/ Poll(w) \/ Finalize(w) \/ ReadRequestId(w) \/ Fail(w)
             \/ PublishRetry(w) \/ ProviderError(w)
    <3>1. \/ Finish(w)
          \/ \E step \in {"poll", "complete", "switch", "fail", "giveUp", "requeue",
                           "failover"} :
                Goto(w, step)
      BY <1>3, <2>6 DEF Save, Poll, Finalize, ReadRequestId, Fail, PublishRetry, ProviderError
    <3> QED BY <1>1, <1>2, <3>1
  <2>7. CASE RequeueRow(w)
    BY <1>2, <2>7 DEF RequeueRow
  <2> QED BY <2>1, <2>2, <2>3, <2>4, <2>5, <2>6, <2>7 DEF WorkerDoes
<1>5. CASE FaultsDo
  <2>1. ASSUME NEW x \in Workers, x # w,
               Redeliver(x) \/ TaskError(x) \/ WriteError(x) \/ AnswerLost(x)
        PROVE  FALSE
    BY <2>1, FaultMoves DEF Moved, Base
  <2>2. \/ Finish(w)
        \/ \E kind : Goto(w, AfterError(w, kind))
    BY <1>5, <2>1 DEF FaultsDo, Redeliver, TaskError, WriteError, AnswerLost,
                      DispatchAborts, LoseMessage
  <2> QED BY <1>1, <1>2, <1>3, <2>2
<1>6. CASE ClientsDo \/ JobsDo \/ UNCHANGED vars
  BY <1>6 DEF ClientsDo, JobsDo, DispatchEvent, ExpireLease, GoStale, Recover, vars, taskVars
<1> QED BY <1>4, <1>5, <1>6 DEF WorkersNext

LEMMA RestingStep ==
    ASSUME Base, StoreInv', WorkersTypeOK', Resting, [WorkersNext]_vars
    PROVE  Resting'
<1> SUFFICES ASSUME NEW w \in Workers, worker'[w].pc \in {"claim", "publish"},
                    HoldsNext(worker'[w].gen, worker'[w].token)
             PROVE  FALSE
  BY DEF Resting, HoldsClaim, IsStatus, Exists, HoldsNext
<1>1. worker'[w].gen \in GenIds
  BY WorkersAssumption DEF WorkersTypeOK, WorkerStates, Fits
<1>2. worker'[w].token # 0
  BY <1>1 DEF HoldsNext, StoreInv, ClaimCoherence, Exists
<1>3. CASE worker'[w] = worker[w]
  BY <1>1, <1>2, <1>3, StoodBefore DEF Resting
<1>4. CASE RequeueRow(w) \/ (Switch(w) /\ worker'[w].pc = "claim")
  <2>1. worker[w] \in WorkerStates /\ worker \in [Workers -> WorkerStates]
    BY DEF Base, WorkersTypeOK
  <2>2. worker'[w].gen = worker[w].gen /\ worker'[w].token = worker[w].token
    <3>1. Moved(w)
      BY <1>4, WorkerStepMoves DEF WorkerDoes, Base
    <3>2. worker[w].pc \notin {"idle", "claim"} /\ worker'[w].pc # "idle"
      BY <1>4 DEF RequeueRow, Switch, At
    <3> QED BY <3>1, <3>2 DEF Moved, At
  <2>3. HoldsClaim(worker[w].gen, worker[w].token)
    BY <1>1, <1>2, <2>2, StoodBefore
  <2>4. ~Goto(w, "giveUp") \/ worker'[w].pc = "giveUp"
    <3>1. [worker[w] EXCEPT !.pc = "giveUp"].pc = "giveUp"
      BY <2>1 DEF WorkerStates
    <3> QED BY <2>1, <3>1 DEF Goto
  <2>5. gens'[worker[w].gen] = Released(gens[worker[w].gen])
    BY <1>1, <1>4, <2>2, <2>3, <2>4
       DEF RequeueRow, Switch, Requeue, Base, StoreInv, StoreTypeOK
  <2>6. gens[worker[w].gen] \in Rows
    BY <1>1, <2>2, <2>3, RowFacts DEF HoldsClaim, IsStatus, Base
  <2>7. Released(gens[worker[w].gen]).status = "queued"
    BY <2>6 DEF Released, Rows
  <2> QED BY <2>2, <2>5, <2>7 DEF HoldsNext
<1> QED BY <1>2, <1>3, <1>4, Arrivals

LEMMA SavesStep ==
    ASSUME Base, WorkersTypeOK', TokensApart, SubmitsUnsaved, SavesUnsaved, [WorkersNext]_vars
    PROVE  SavesUnsaved'
<1> SUFFICES ASSUME NEW w \in Workers, worker'[w].pc = "save",
                    HoldsNext(worker'[w].gen, worker'[w].token)
             PROVE  gens'[worker'[w].gen].requestId = 0
  BY DEF SavesUnsaved, At, HoldsClaim, IsStatus, Exists, HoldsNext
<1>1. worker'[w].gen \in GenIds
  BY WorkersAssumption DEF WorkersTypeOK, WorkerStates, Fits
<1>2. CASE worker'[w] = worker[w]
  <2>1. worker[w].token # 0
    BY <1>2, WorkerFacts DEF Fits
  <2>2. HoldsClaim(worker[w].gen, worker[w].token)
    BY <1>1, <1>2, <2>1, StoodBefore
  <2>3. gens[worker[w].gen].requestId = 0
    BY <1>2, <2>2 DEF SavesUnsaved, At
  <2> QED BY <1>1, <1>2, <2>2, <2>3, HolderRecords
<1>3. CASE Submit(w)
  <2>1. At(w, "submit") /\ gens' = gens
    BY <1>3 DEF Submit, storeVars
  <2>2. Moved(w) /\ worker'[w].gen = worker[w].gen /\ worker'[w].token = worker[w].token
    <3>1. Moved(w)
      BY <1>3, WorkerStepMoves DEF WorkerDoes, Base
    <3> QED BY <2>1, <3>1 DEF Moved, At
  <2>3. HoldsClaim(worker[w].gen, worker[w].token)
    BY <2>1, <2>2 DEF HoldsNext, HoldsClaim, IsStatus, Exists
  <2> QED BY <1>1, <2>1, <2>2, <2>3 DEF SubmitsUnsaved
<1> QED BY <1>2, <1>3, Arrivals

-----------------------------------------------------------------------------
\* How steps change allowances

LEMMA RoundFacts ==
    /\ Round \in Nat /\ MaxRetries \in Nat
    /\ IsFiniteSet(0 .. MaxRetries)
    /\ \A r \in 0 .. MaxRetries :
          r \in Nat /\ Round - r \in Nat /\ Round - r >= 2 /\ Round - r <= Round
<1>1. Round \in Nat /\ MaxRetries \in Nat
  BY WorkersAssumption DEF Round
<1>2. 0 \in Int /\ MaxRetries \in Int
  BY <1>1
<1>3. IsFiniteSet(0 .. MaxRetries)
  BY <1>2, FS_Interval
<1> QED BY <1>1, <1>3 DEF Round

LEMMA Product == ASSUME NEW a \in Nat, NEW b \in Nat PROVE a * b \in Nat
OBVIOUS

LEMMA ProductGrows ==
    ASSUME NEW a \in Nat, NEW b \in Nat
    PROVE  (a + 1) * b = a * b + b
OBVIOUS

LEMMA LeftNat == ASSUME NEW s \in WorkerStates PROVE Left(s) \in Nat
<1>1. /\ s.retries \in Nat /\ Round - s.retries \in Nat /\ Round - 1 - s.retries \in Nat
  BY RoundFacts DEF WorkerStates
<1> QED BY <1>1 DEF Left

LEMMA ShareNat ==
    ASSUME WorkersTypeOK, NEW w \in Workers, NEW g
    PROVE  Share(w, g) \in Nat
BY LeftNat DEF WorkersTypeOK, Share

LEMMA WorkingNat ==
    ASSUME WorkersTypeOK, NEW g
    PROVE  [w \in Workers |-> Share(w, g)] \in [Workers -> Nat] /\ Working(g) \in Nat
<1>1. [w \in Workers |-> Share(w, g)] \in [Workers -> Nat]
  BY ShareNat
<1> QED BY <1>1, TotalNat, WorkersAssumption DEF Working

LEMMA WorkingNatNext ==
    ASSUME WorkersTypeOK', NEW g
    PROVE  /\ [w \in Workers |-> Share(w, g)'] \in [Workers -> Nat]
           /\ Working(g)' \in Nat
<1>1. [w \in Workers |-> Share(w, g)'] \in [Workers -> Nat]
  BY LeftNat DEF WorkersTypeOK, Share
<1>2. Working(g)' = SumFunction([w \in Workers |-> Share(w, g)'])
  BY DEF Working
<1> QED BY <1>1, <1>2, TotalNat, WorkersAssumption

LEMMA ComingNat ==
    ASSUME WorkersTypeOK, NEW g \in GenIds
    PROVE  /\ [r \in 0 .. MaxRetries |-> Carried(g, r)] \in [0 .. MaxRetries -> Nat]
           /\ Coming(g) \in Nat
<1>1. ASSUME NEW r \in 0 .. MaxRetries PROVE Carried(g, r) \in Nat
  <2>1. broker[<<g, r>>] \in Nat
    BY WorkersAssumption DEF WorkersTypeOK, Messages
  <2> QED BY <2>1, RoundFacts, Product DEF Carried
<1>2. [r \in 0 .. MaxRetries |-> Carried(g, r)] \in [0 .. MaxRetries -> Nat]
  BY <1>1
<1> QED BY <1>2, TotalNat, RoundFacts DEF Coming

LEMMA ComingNatNext ==
    ASSUME WorkersTypeOK', NEW g \in GenIds
    PROVE  /\ [r \in 0 .. MaxRetries |-> Carried(g, r)'] \in [0 .. MaxRetries -> Nat]
           /\ Coming(g)' \in Nat
<1>1. ASSUME NEW r \in 0 .. MaxRetries PROVE Carried(g, r)' \in Nat
  <2>1. broker'[<<g, r>>] \in Nat
    BY WorkersAssumption DEF WorkersTypeOK, Messages
  <2> QED BY <2>1, RoundFacts, Product DEF Carried
<1>2. [r \in 0 .. MaxRetries |-> Carried(g, r)'] \in [0 .. MaxRetries -> Nat]
  BY <1>1
<1>3. Coming(g)' = SumFunction([r \in 0 .. MaxRetries |-> Carried(g, r)'])
  BY DEF Coming
<1> QED BY <1>2, <1>3, TotalNat, RoundFacts

LEMMA BudgetNumbers ==
    ASSUME StoreInv, WorkersTypeOK, NEW g \in GenIds, Exists(g)
    PROVE  /\ gens[g].attempts \in Nat /\ Coming(g) \in Nat /\ Working(g) \in Nat
           /\ Due(g) \in {0, Round} /\ Loss(g) \in {0, Round} /\ Round \in Nat
           /\ faults \in Nat
<1>1. gens[g].attempts \in Nat
  BY RowFacts, RowNumbers
<1>2. faults \in Nat
  BY WorkersAssumption DEF WorkersTypeOK
<1> QED BY <1>1, <1>2, ComingNat, WorkingNat, RoundFacts DEF Due, Loss

\* Messages

SameMessages(g) == \A r \in 0 .. MaxRetries : broker'[<<g, r>>] = broker[<<g, r>>]

LEMMA ComingStays ==
    ASSUME NEW g, SameMessages(g)
    PROVE  Coming(g)' = Coming(g)
<1>1. \A r \in 0 .. MaxRetries : Carried(g, r)' = Carried(g, r)
  BY DEF SameMessages, Carried
<1>2. [r \in 0 .. MaxRetries |-> Carried(g, r)]' = [r \in 0 .. MaxRetries |-> Carried(g, r)]
  BY <1>1
<1> QED BY <1>2 DEF Coming

LEMMA ComingAdds ==
    ASSUME WorkersTypeOK, WorkersTypeOK', NEW g \in GenIds, NEW r \in 0 .. MaxRetries,
           Enqueue(g, r)
    PROVE  /\ Coming(g)' = Coming(g) + (Round - r) /\ Coming(g) \in Nat
           /\ \A h \in GenIds : h # g => SameMessages(h)
<1> DEFINE f == [q \in 0 .. MaxRetries |-> Carried(g, q)]
           h == [q \in 0 .. MaxRetries |-> Carried(g, q)']
<1>1. /\ broker \in [Messages -> 0 .. MaxCopies]
      /\ broker' = [broker EXCEPT ![<<g, r>>] = @ + 1]
      /\ \A i \in GenIds, q \in 0 .. MaxRetries : <<i, q>> \in Messages
  BY DEF Enqueue, WorkersTypeOK, Messages
<1>2. f \in [0 .. MaxRetries -> Nat] /\ h \in [0 .. MaxRetries -> Nat]
  BY ComingNat, ComingNatNext
<1>3. /\ broker'[<<g, r>>] = broker[<<g, r>>] + 1 /\ broker[<<g, r>>] \in Nat
      /\ \A i \in GenIds, q \in 0 .. MaxRetries :
            <<i, q>> # <<g, r>> => broker'[<<i, q>>] = broker[<<i, q>>]
  BY <1>1, WorkersAssumption
<1>4. h[r] = f[r] + (Round - r) /\ f[r] \in Nat
  BY <1>2, <1>3, RoundFacts, ProductGrows DEF Carried
<1>5. \A q \in 0 .. MaxRetries \ {r} : h[q] = f[q]
  BY <1>3 DEF Carried
<1>6. Coming(g) = SumFunction(f) /\ Coming(g)' = SumFunction(h)
  BY DEF Coming
<1>7. \A i \in GenIds : i # g => SameMessages(i)
  BY <1>3 DEF SameMessages
<1> HIDE DEF f, h
<1>8. /\ SumFunction(f) \in Nat /\ SumFunction(h) \in Nat
      /\ SumFunction(h) + f[r] = SumFunction(f) + h[r]
  BY <1>2, <1>5, TotalChanges, RoundFacts
<1> QED BY <1>4, <1>6, <1>7, <1>8, RoundFacts

LEMMA ComingDrops ==
    ASSUME WorkersTypeOK, WorkersTypeOK', NEW g \in GenIds, NEW r \in 0 .. MaxRetries,
           broker[<<g, r>>] > 0, broker' = [broker EXCEPT ![<<g, r>>] = @ - 1]
    PROVE  /\ Coming(g) = Coming(g)' + (Round - r) /\ Coming(g)' \in Nat
           /\ \A h \in GenIds : h # g => SameMessages(h)
<1> DEFINE f == [q \in 0 .. MaxRetries |-> Carried(g, q)]
           h == [q \in 0 .. MaxRetries |-> Carried(g, q)']
<1>1. /\ broker \in [Messages -> 0 .. MaxCopies]
      /\ \A i \in GenIds, q \in 0 .. MaxRetries : <<i, q>> \in Messages
  BY DEF WorkersTypeOK, Messages
<1>2. f \in [0 .. MaxRetries -> Nat] /\ h \in [0 .. MaxRetries -> Nat]
  BY ComingNat, ComingNatNext
<1>3. /\ broker[<<g, r>>] = broker'[<<g, r>>] + 1 /\ broker'[<<g, r>>] \in Nat
      /\ \A i \in GenIds, q \in 0 .. MaxRetries :
            <<i, q>> # <<g, r>> => broker'[<<i, q>>] = broker[<<i, q>>]
  BY <1>1, WorkersAssumption
<1>4. f[r] = h[r] + (Round - r) /\ h[r] \in Nat
  BY <1>2, <1>3, RoundFacts, ProductGrows DEF Carried
<1>5. \A q \in 0 .. MaxRetries \ {r} : h[q] = f[q]
  BY <1>3 DEF Carried
<1>6. Coming(g) = SumFunction(f) /\ Coming(g)' = SumFunction(h)
  BY DEF Coming
<1>7. \A i \in GenIds : i # g => SameMessages(i)
  BY <1>3 DEF SameMessages
<1> HIDE DEF f, h
<1>8. /\ SumFunction(f) \in Nat /\ SumFunction(h) \in Nat
      /\ SumFunction(h) + f[r] = SumFunction(f) + h[r]
  BY <1>2, <1>5, TotalChanges, RoundFacts
<1> QED BY <1>4, <1>6, <1>7, <1>8, RoundFacts

\* Workers

LEMMA WorkingStays ==
    ASSUME NEW g, \A w \in Workers : Share(w, g)' = Share(w, g)
    PROVE  Working(g)' = Working(g)
<1>1. [w \in Workers |-> Share(w, g)]' = [w \in Workers |-> Share(w, g)]
  OBVIOUS
<1> QED BY <1>1 DEF Working

LEMMA WorkingMoves ==
    ASSUME WorkersTypeOK, WorkersTypeOK', NEW x \in Workers,
           \A y \in Workers : y # x => worker'[y] = worker[y], NEW g
    PROVE  /\ Working(g)' + Share(x, g) = Working(g) + Share(x, g)'
           /\ Working(g) \in Nat /\ Working(g)' \in Nat
           /\ Share(x, g) \in Nat /\ Share(x, g)' \in Nat
<1> DEFINE f == [w \in Workers |-> Share(w, g)]
           h == [w \in Workers |-> Share(w, g)']
<1>1. f \in [Workers -> Nat] /\ h \in [Workers -> Nat]
  BY WorkingNat, WorkingNatNext
<1>2. \A y \in Workers \ {x} : h[y] = f[y]
  BY DEF Share
<1>3. Working(g) = SumFunction(f) /\ Working(g)' = SumFunction(h)
  BY DEF Working
<1>4. f[x] = Share(x, g) /\ h[x] = Share(x, g)'
  OBVIOUS
<1>5. f[x] \in Nat /\ h[x] \in Nat
  BY <1>1
<1> HIDE DEF f, h
<1>6. /\ SumFunction(f) \in Nat /\ SumFunction(h) \in Nat
      /\ SumFunction(h) + f[x] = SumFunction(f) + h[x]
  BY <1>1, <1>2, TotalChanges, WorkersAssumption
<1> QED BY <1>3, <1>4, <1>5, <1>6

\* What a step must not do: raise the budget of g, without a fault, or by more than
\* two deliveries with one.
Afforded(g) ==
    \/ Budget(g)' <= Budget(g)
    \/ faults' = faults + 1 /\ Budget(g)' <= Budget(g) + 2 * Round

LEMMA Affords ==
    ASSUME StoreInv, StoreInv', WorkersTypeOK, WorkersTypeOK', NEW g \in GenIds,
           Exists(g), Exists(g)',
           \/ Owed(g)' <= Owed(g) /\ (Adrift(g)' => Adrift(g))
           \/ Owed(g)' <= Owed(g) + Round /\ Adrift(g) /\ ~Adrift(g)'
           \/ Owed(g)' <= Owed(g) + Round /\ faults' = faults + 1
    PROVE  Afforded(g)
<1>1. Owed(g) \in Nat /\ Round \in Nat /\ Loss(g) \in {0, Round}
  BY BudgetNumbers DEF Owed, Due
<1>2. Owed(g)' \in Nat
  <2>1. gens'[g].attempts \in Nat
    BY RowNumbers DEF StoreInv, StoreTypeOK, Exists
  <2>2. Due(g)' \in Nat
    BY <1>1 DEF Due
  <2> QED BY <2>1, <2>2, WorkingNatNext, ComingNatNext DEF Owed
<1>3. /\ Adrift(g)' => Loss(g)' = Round
      /\ ~Adrift(g)' => Loss(g)' = 0
      /\ Adrift(g) => Loss(g) = Round
      /\ ~Adrift(g) => Loss(g) = 0
  BY DEF Loss
<1>4. Budget(g) = Owed(g) + Loss(g) /\ Budget(g)' = Owed(g)' + Loss(g)'
  BY DEF Budget
<1>5. CASE Owed(g)' <= Owed(g) /\ (Adrift(g)' => Adrift(g))
  <2>1. Budget(g)' <= Budget(g)
    BY <1>1, <1>2, <1>3, <1>4, <1>5
  <2> QED BY <2>1 DEF Afforded
<1>6. CASE Owed(g)' <= Owed(g) + Round /\ Adrift(g) /\ ~Adrift(g)'
  <2>1. Budget(g)' <= Budget(g)
    BY <1>1, <1>2, <1>3, <1>4, <1>6
  <2> QED BY <2>1 DEF Afforded
<1>7. CASE Owed(g)' <= Owed(g) + Round /\ faults' = faults + 1
  <2>1. Budget(g)' <= Budget(g) + 2 * Round
    BY <1>1, <1>2, <1>3, <1>4, <1>7
  <2> QED BY <1>7, <2>1 DEF Afforded
<1> QED BY <1>5, <1>6, <1>7

\* A generation that a step does not touch keeps its budget.
LEMMA Untouched ==
    ASSUME StoreInv, WorkersTypeOK, NEW g \in GenIds, Exists(g),
           gens'[g] = gens[g], outbox'[g] = outbox[g], SameMessages(g),
           \A w \in Workers : worker'[w] = worker[w]
                              \/ (worker[w].gen # g /\ worker'[w].gen # g)
    PROVE  Afforded(g)
<1>1. Coming(g)' = Coming(g)
  BY ComingStays
<1>2. Working(g)' = Working(g)
  <2>1. \A w \in Workers : Share(w, g)' = Share(w, g)
    BY DEF Share
  <2> QED BY <2>1, WorkingStays
<1>3. Due(g)' = Due(g)
  BY DEF Due
<1>4. Attended(g)' <=> Attended(g)
  BY DEF Attended
<1>5. Waits(g)' <=> Waits(g)
  BY DEF Waits, SameMessages
<1>6. Loss(g)' = Loss(g)
  BY <1>4, <1>5 DEF Loss, Adrift, IsStatus, Exists
<1>7. Budget(g)' = Budget(g)
  BY <1>1, <1>2, <1>3, <1>6 DEF Budget, Owed
<1>8. Budget(g) \in Nat
  BY BudgetNumbers DEF Budget, Owed
<1> QED BY <1>7, <1>8 DEF Afforded

\* A row that stays as it is is not given up, if who holds it stays and what would
\* claim it does too.
SameHold(g) ==
    /\ gens'[g] # None
    /\ gens'[g].status = gens[g].status /\ gens'[g].token = gens[g].token
    /\ gens'[g].lease = gens[g].lease /\ gens'[g].attempts = gens[g].attempts

LEMMA SteadyRow ==
    ASSUME NEW g \in GenIds, Exists(g), SameHold(g),
           \A w \in Workers : worker[w].gen = g /\ HoldsClaim(g, worker[w].token)
              => worker'[w].gen = g /\ worker'[w].token = worker[w].token,
           IsStatus(g, "queued") /\ Waits(g) => Waits(g)'
    PROVE  Adrift(g)' => Adrift(g)
<1>1. IsStatus(g, "processing") /\ Attended(g) => Attended(g)'
  BY DEF Attended, HoldsClaim, SameHold, IsStatus
<1>2. \A s : IsStatus(g, s)' <=> IsStatus(g, s)
  BY DEF SameHold, IsStatus, Exists
<1> QED BY <1>1, <1>2 DEF Adrift, SameHold

\* Worker x goes from s to t.
LEMMA Gone ==
    ASSUME WorkersTypeOK, NEW x \in Workers, Finish(x)
    PROVE  /\ \A y \in Workers : y # x => worker'[y] = worker[y]
           /\ worker'[x].pc = "idle" /\ \A g \in GenIds : worker'[x].gen # g
<1>1. Idle.pc = "idle" /\ Idle.gen = None
  BY DEF Idle
<1> QED BY <1>1, WorkersAssumption DEF Finish, WorkersTypeOK

LEMMA Going ==
    ASSUME WorkersTypeOK, NEW x \in Workers, NEW step, Goto(x, step)
    PROVE  /\ \A y \in Workers : y # x => worker'[y] = worker[y]
           /\ worker'[x].pc = step /\ worker'[x].gen = worker[x].gen
           /\ worker'[x].retries = worker[x].retries /\ worker'[x].token = worker[x].token
           /\ worker'[x].failover = worker[x].failover
           /\ worker'[x].provider = worker[x].provider
           /\ worker'[x].request = worker[x].request
<1> DEFINE s == [worker[x] EXCEPT !.pc = step]
<1>1. worker[x] \in WorkerStates
  BY DEF WorkersTypeOK
<1>2. /\ s.pc = step /\ s.gen = worker[x].gen /\ s.retries = worker[x].retries
      /\ s.token = worker[x].token /\ s.failover = worker[x].failover
      /\ s.provider = worker[x].provider /\ s.request = worker[x].request
  BY <1>1 DEF WorkerStates
<1>3. worker' = [worker EXCEPT ![x] = s]
  BY DEF Goto
<1> HIDE DEF s
<1> QED BY <1>2, <1>3, OneMoves

\* Along the steps of a delivery nothing is gained.
LEMMA LeftFalls ==
    ASSUME NEW s \in WorkerStates, NEW t \in WorkerStates, t.retries = s.retries,
           t.failover = s.failover,
           \/ s.pc \in {"submit", "save", "poll", "complete"}
              /\ t.pc \in {"save", "poll", "complete"}
           \/ s.pc \in {"submit", "save", "poll", "complete"} /\ ~s.failover
              /\ t.pc \in {"requeue", "failover"}
           \/ s.pc = "requeue" /\ t.pc = "publish"
           \/ s.pc = "failover" /\ t.pc = "switch"
           \/ t.pc \in {"idle", "fail", "giveUp"}
    PROVE  Left(t) <= Left(s)
<1>1. Left(s) \in Nat
  BY LeftNat
<1>2. s.retries \in 0 .. MaxRetries /\ Round \in Nat /\ Round - s.retries >= 2
  BY RoundFacts DEF WorkerStates
<1>3. CASE t.pc \in {"idle", "fail", "giveUp"}
  BY <1>1, <1>3 DEF Left
<1>4. CASE /\ s.pc \in {"submit", "save", "poll", "complete"}
           /\ t.pc \in {"save", "poll", "complete"}
  BY <1>1, <1>4 DEF Left
<1>5. CASE /\ s.pc \in {"submit", "save", "poll", "complete"} /\ ~s.failover
           /\ t.pc \in {"requeue", "failover"}
  <2>1. Left(s) = Round - 1 - s.retries
    BY <1>5 DEF Left
  <2>2. Left(t) = 1 \/ Left(t) = Round - 1 - t.retries
    BY <1>5 DEF Left
  <2> QED BY <1>2, <2>1, <2>2
<1>6. CASE s.pc = "requeue" /\ t.pc = "publish"
  BY <1>1, <1>6 DEF Left
<1>7. CASE s.pc = "failover" /\ t.pc = "switch"
  BY <1>1, <1>7 DEF Left
<1> QED BY <1>3, <1>4, <1>5, <1>6, <1>7

\* What a worker step costs, if no message is sent or received.
LEMMA Moves ==
    ASSUME WorkersTypeOK, WorkersTypeOK', NEW x \in Workers,
           \A y \in Workers : y # x => worker'[y] = worker[y],
           NEW g \in GenIds, outbox'[g] = outbox[g], SameMessages(g),
           gens[g].attempts \in Nat, gens'[g].attempts \in Nat,
           gens'[g].attempts + Share(x, g)' <= gens[g].attempts + Share(x, g)
    PROVE  Owed(g)' <= Owed(g)
<1>1. /\ Working(g)' + Share(x, g) = Working(g) + Share(x, g)'
      /\ Working(g) \in Nat /\ Working(g)' \in Nat
      /\ Share(x, g) \in Nat /\ Share(x, g)' \in Nat
  BY WorkingMoves
<1>2. Coming(g)' = Coming(g) /\ Coming(g) \in Nat
  BY ComingStays, ComingNat
<1>3. Due(g)' = Due(g) /\ Due(g) \in Nat
  BY RoundFacts DEF Due
<1>4. gens'[g].attempts + Working(g)' <= gens[g].attempts + Working(g)
  BY <1>1
<1>5. /\ Owed(g)' = gens'[g].attempts + Coming(g)' + Working(g)' + Due(g)'
      /\ Owed(g) = gens[g].attempts + Coming(g) + Working(g) + Due(g)
  BY DEF Owed
<1> QED BY <1>1, <1>2, <1>3, <1>4, <1>5

LEMMA AttemptsOfWrites ==
    ASSUME NEW row \in Rows, NEW p, NEW r
    PROVE  /\ Submitted(row, p, r).attempts = row.attempts
           /\ Submitted(row, p, r).status = row.status
           /\ Submitted(row, p, r).token = row.token
           /\ Submitted(row, p, r).lease = row.lease
           /\ Completed(row, <<p, r>>).attempts = row.attempts
           /\ Completed(row, <<p, r>>).status = "completed"
BY DEF Submitted, Completed, Rows

LEMMA AttemptsOfRows ==
    ASSUME NEW row \in Rows
    PROVE  /\ Claimed(row).attempts = row.attempts + 1
           /\ Claimed(row).status = "processing" /\ Claimed(row).lease = "live"
           /\ Claimed(row).token = row.attempts + 1
           /\ Released(row).attempts = row.attempts /\ Released(row).status = "queued"
           /\ Failed(row).attempts = row.attempts /\ Failed(row).status = "failed"
           /\ Queued(row).attempts = row.attempts /\ Queued(row).status = "queued"
           /\ Expired(row).attempts = row.attempts /\ Expired(row).lease = "expired"
           /\ Aged(row).attempts = row.attempts /\ Aged(row).status = row.status
           /\ Aged(row).token = row.token /\ Aged(row).lease = row.lease
BY DEF Claimed, Released, Failed, Queued, Expired, Aged, Rows

\* The row of a generation and the transactions of the worker that has it.
LEMMA RowWritten ==
    ASSUME StoreInv, NEW g \in GenIds, NEW row, gens' = [gens EXCEPT ![g] = row]
    PROVE  gens'[g] = row /\ \A h \in GenIds : h # g => gens'[h] = gens[h]
BY DEF StoreInv, StoreTypeOK

-----------------------------------------------------------------------------
\* What the steps of a worker cost

\* Worker x works on g in this step, and no message or outbox event moves.
Works(x, g) ==
    /\ worker[x].gen = g
    /\ \A y \in Workers : y # x => worker'[y] = worker[y]
    /\ outbox'[g] = outbox[g]
    /\ SameMessages(g)

LEMMA Spends ==
    ASSUME StoreInv, StoreInv', WorkersTypeOK, WorkersTypeOK', NEW x \in Workers,
           NEW g \in GenIds, Exists(g), Exists(g)', Works(x, g),
           gens'[g].attempts + Share(x, g)' <= gens[g].attempts + Share(x, g),
           (Adrift(g)' => Adrift(g)) \/ faults' = faults + 1
    PROVE  Afforded(g)
<1>1. gens[g].attempts \in Nat
  BY RowFacts, RowNumbers
<1>2. gens'[g].attempts \in Nat
  BY RowNumbers DEF StoreInv, StoreTypeOK, Exists
<1>3. Owed(g)' <= Owed(g)
  BY <1>1, <1>2, Moves DEF Works
<1>4. Owed(g) \in Nat /\ Round \in Nat
  BY BudgetNumbers DEF Owed, Due
<1>5. Owed(g)' \in Nat
  <2>1. Due(g)' \in Nat
    BY <1>4 DEF Due
  <2> QED BY <1>2, <2>1, WorkingNatNext, ComingNatNext DEF Owed
<1>6. Owed(g)' <= Owed(g) + Round
  BY <1>3, <1>4, <1>5
<1> QED BY <1>3, <1>6, Affords

LEMMA SharesNext ==
    ASSUME WorkersTypeOK, WorkersTypeOK', NEW x \in Workers, NEW g, worker[x].gen = g
    PROVE  /\ worker[x] \in WorkerStates /\ worker'[x] \in WorkerStates
           /\ Share(x, g) = Left(worker[x]) /\ Left(worker[x]) \in Nat
           /\ worker'[x].gen = g => Share(x, g)' = Left(worker'[x])
           /\ worker'[x].gen # g => Share(x, g)' = 0
           /\ Share(x, g)' \in Nat /\ Left(worker'[x]) \in Nat
<1>1. worker[x] \in WorkerStates /\ worker'[x] \in WorkerStates
  BY DEF WorkersTypeOK
<1> QED BY <1>1, LeftNat DEF Share

\* The row stays and x goes on with it.
LEMMA GoingOn ==
    ASSUME StoreInv, StoreInv', WorkersTypeOK, WorkersTypeOK', NEW x \in Workers,
           NEW g \in GenIds, Exists(g), Works(x, g), SameHold(g),
           worker'[x].gen = g, worker'[x].token = worker[x].token,
           worker[x].pc \notin {"claim", "publish"},
           Left(worker'[x]) <= Left(worker[x])
    PROVE  Afforded(g)
<1>1. gens'[g].attempts + Share(x, g)' <= gens[g].attempts + Share(x, g)
  <2>1. gens[g].attempts \in Nat
    BY RowFacts, RowNumbers
  <2> QED BY <2>1, SharesNext DEF Works, SameHold
<1>2. Adrift(g)' => Adrift(g)
  <2>1. \A w \in Workers : worker[w].gen = g /\ HoldsClaim(g, worker[w].token)
            => worker'[w].gen = g /\ worker'[w].token = worker[w].token
    BY DEF Works
  <2>2. Waits(g) => Waits(g)'
    BY DEF Waits, Works, SameMessages
  <2> QED BY <2>1, <2>2, SteadyRow
<1>3. Exists(g)'
  BY DEF SameHold, Exists
<1> QED BY <1>1, <1>2, <1>3, Spends

\* The row stays and x, which does not hold it, ends.
LEMMA GivingUp ==
    ASSUME StoreInv, StoreInv', WorkersTypeOK, WorkersTypeOK', NEW x \in Workers,
           NEW g \in GenIds, Exists(g), Works(x, g), gens'[g] = gens[g],
           worker'[x].gen # g, ~HoldsClaim(g, worker[x].token),
           IsStatus(g, "queued") => worker[x].pc \notin {"claim", "publish"}
    PROVE  Afforded(g)
<1>1. gens'[g].attempts + Share(x, g)' <= gens[g].attempts + Share(x, g)
  <2>1. gens[g].attempts \in Nat
    BY RowFacts, RowNumbers
  <2> QED BY <2>1, SharesNext DEF Works
<1>2. Adrift(g)' => Adrift(g)
  <2>1. \A w \in Workers : worker[w].gen = g /\ HoldsClaim(g, worker[w].token)
            => worker'[w].gen = g /\ worker'[w].token = worker[w].token
    BY DEF Works
  <2>2. IsStatus(g, "queued") /\ Waits(g) => Waits(g)'
    BY DEF Waits, Works, SameMessages
  <2>3. SameHold(g)
    BY DEF SameHold, Exists
  <2> QED BY <2>1, <2>2, <2>3, SteadyRow
<1>3. Exists(g)'
  BY DEF Exists
<1> QED BY <1>1, <1>2, <1>3, Spends

\* The row is settled, or queued for x to claim or publish.
LEMMA HandingOver ==
    ASSUME StoreInv, StoreInv', WorkersTypeOK, WorkersTypeOK', NEW x \in Workers,
           NEW g \in GenIds, Exists(g), Works(x, g), gens'[g] # None,
           gens'[g].attempts = gens[g].attempts,
           \/ gens'[g].status \in Terminal /\ worker'[x].gen # g
           \/ /\ gens'[g].status = "queued" /\ worker'[x].pc \in {"claim", "publish"}
              /\ worker'[x].gen = g /\ Left(worker'[x]) <= Left(worker[x])
    PROVE  Afforded(g)
<1>1. gens'[g].attempts + Share(x, g)' <= gens[g].attempts + Share(x, g)
  <2>1. gens[g].attempts \in Nat
    BY RowFacts, RowNumbers
  <2> QED BY <2>1, SharesNext DEF Works
<1>2. ~Adrift(g)'
  BY DEF Adrift, IsStatus, Waits, Terminal
<1>3. Exists(g)'
  BY DEF Exists
<1> QED BY <1>1, <1>2, <1>3, Spends

\* The row is claimed: the claim is paid for by what x had left.
LEMMA Claiming ==
    ASSUME StoreInv, StoreInv', WorkersTypeOK, WorkersTypeOK', NEW x \in Workers,
           NEW g \in GenIds, Exists(g), Exists(g)', Works(x, g), At(x, "claim"),
           gens'[g] = Claimed(gens[g]), worker'[x].gen = g,
           worker'[x].pc \in {"submit", "poll"}, worker'[x].token = gens'[g].token,
           worker'[x].retries = worker[x].retries,
           worker'[x].failover = worker[x].failover
    PROVE  Afforded(g)
<1>1. gens[g] \in Rows /\ gens[g].attempts \in Nat
  BY RowFacts, RowNumbers
<1>2. /\ gens'[g].attempts = gens[g].attempts + 1
      /\ gens'[g].status = "processing" /\ gens'[g].lease = "live"
  BY <1>1, AttemptsOfRows
<1>3. Left(worker[x]) = Left(worker'[x]) + 1
  <2>1. worker[x].retries \in Nat /\ Round \in Nat
    BY SharesNext, RoundFacts DEF Works, WorkerStates
  <2>2. Left(worker[x]) = IF worker[x].failover THEN 1 ELSE Round - worker[x].retries
    BY DEF Left, At
  <2>3. Left(worker'[x]) = IF worker[x].failover THEN 0 ELSE Round - 1 - worker[x].retries
    BY DEF Left
  <2> QED BY <2>1, <2>2, <2>3
<1>4. gens'[g].attempts + Share(x, g)' <= gens[g].attempts + Share(x, g)
  BY <1>1, <1>2, <1>3, SharesNext DEF Works
<1>5. ~Adrift(g)'
  BY <1>2 DEF Adrift, IsStatus, Attended
<1> QED BY <1>4, <1>5, Spends

\* A worker that ends or goes on works on its generation alone.
LEMMA WorksAlone ==
    ASSUME WorkersTypeOK, NEW x \in Workers, NEW g \in GenIds, worker[x].gen = g,
           UNCHANGED outbox, UNCHANGED broker,
           \/ Finish(x)
           \/ \E step : Goto(x, step)
    PROVE  Works(x, g)
BY Gone, Going DEF Works, SameMessages

\* What the program itself may do to a row it has no claim on any more.
LEMMA Refused ==
    ASSUME Base, StoreInv', WorkersTypeOK', Resting, SavesUnsaved, NEW x \in Workers,
           NEW g \in GenIds, worker[x].gen = g, UNCHANGED <<storeVars, broker>>, Finish(x),
           \/ At(x, "claim") /\ ~MayClaim(g)
           \/ At(x, "save") /\ ~MaySave(g, worker[x].token)
           \/ At(x, "complete") /\ ~HoldsClaim(g, worker[x].token)
           \/ (At(x, "fail") \/ At(x, "giveUp")) /\ ~MayFail(g, worker[x].token)
    PROVE  Afforded(g)
<1>1. Exists(g) /\ Works(x, g) /\ gens'[g] = gens[g] /\ worker'[x].gen # g
  BY WorkerFacts, WorksAlone, Gone DEF storeVars, Base
<1>2. ~HoldsClaim(g, worker[x].token)
  BY DEF Resting, SavesUnsaved, At, MaySave, MayFail, HoldsClaim, Base, StoreInv,
         SettlementCoherence, IsStatus
<1>3. IsStatus(g, "queued") => worker[x].pc \notin {"claim", "publish"}
  BY DEF MayClaim, At
<1> QED BY <1>1, <1>2, <1>3, GivingUp DEF Base

LEMMA Proceeds ==
    ASSUME Base, StoreInv', WorkersTypeOK', NEW x \in Workers,
           NEW g \in GenIds, worker[x].gen = g, UNCHANGED <<outbox, broker>>,
           SameHold(g), NEW step, Goto(x, step),
           \/ At(x, "save") /\ step = "poll"
           \/ At(x, "poll") /\ step = "complete"
           \/ At(x, "requeue") /\ step = "publish"
           \/ At(x, "failover") /\ step = "switch"
           \/ worker[x].pc \in {"failover", "switch"} /\ step = "giveUp"
           \/ /\ worker[x].pc \in {"submit", "save", "poll", "complete"}
              /\ \E kind : step = AfterError(x, kind)
    PROVE  Afforded(g)
<1>1. Exists(g) /\ Works(x, g)
  BY WorkerFacts, WorksAlone DEF Base
<1>2. /\ worker'[x].pc = step /\ worker'[x].gen = g
      /\ worker'[x].retries = worker[x].retries /\ worker'[x].token = worker[x].token
      /\ worker'[x].failover = worker[x].failover
  BY Going DEF Base
<1>3. Left(worker'[x]) <= Left(worker[x])
  <2>1. worker[x] \in WorkerStates /\ worker'[x] \in WorkerStates
    BY SharesNext DEF Base
  <2>2. ASSUME NEW kind
        PROVE  /\ AfterError(x, kind) \in {"fail", "giveUp", "requeue", "failover"}
               /\ worker[x].failover => AfterError(x, kind) \in {"fail", "giveUp"}
    BY AfterErrorSteps
  <2>3. worker[x].failover \in BOOLEAN
    BY <2>1 DEF WorkerStates
  <2>4. CASE /\ worker[x].pc \in {"submit", "save", "poll", "complete"}
             /\ \E kind : step = AfterError(x, kind)
    <3>1. step \in {"fail", "giveUp"} \/ (~worker[x].failover /\ step \in {"requeue", "failover"})
      BY <2>2, <2>4
    <3> QED BY <1>2, <2>1, <2>4, <3>1, LeftFalls
  <2> QED BY <1>2, <2>1, <2>4, LeftFalls DEF At
<1>4. worker[x].pc \notin {"claim", "publish"}
  BY DEF At
<1> QED BY <1>1, <1>2, <1>3, <1>4, GoingOn DEF Base

\* The transactions of a worker that holds its row.
LEMMA HandsOver ==
    ASSUME Base, StoreInv', StoreTypeOK', WorkersTypeOK', NEW x \in Workers,
           NEW g \in GenIds, worker[x].gen = g, Exists(g)', UNCHANGED <<outbox, broker>>,
           \/ At(x, "complete") /\ CompleteRow(x) /\ Finish(x)
           \/ (At(x, "fail") \/ At(x, "giveUp")) /\ FailAndRefund(g, worker[x].token) /\ Finish(x)
           \/ At(x, "requeue") /\ Requeue(g, worker[x].token) /\ Goto(x, "publish")
           \/ At(x, "switch") /\ Requeue(g, worker[x].token)
              /\ worker' = [worker EXCEPT ![x].pc = "claim", ![x].failover = TRUE]
    PROVE  Afforded(g)
<1>1. Exists(g) /\ gens[g] \in Rows /\ worker[x] \in WorkerStates
  BY WorkerFacts, RowFacts DEF Base
<1>2. gens'[g] # None
  BY DEF Exists
<1>3. CASE At(x, "complete") /\ CompleteRow(x) /\ Finish(x)
  <2>1. gens'[g] = Completed(gens[g], AnswerOf(x))
    BY <1>3, RowWritten DEF CompleteRow, Complete, Base
  <2>2. gens'[g].attempts = gens[g].attempts /\ gens'[g].status \in Terminal
    BY <1>1, <2>1, AttemptsOfWrites DEF Terminal, AnswerOf
  <2>3. Works(x, g) /\ worker'[x].gen # g
    BY <1>3, WorksAlone, Gone DEF Base
  <2> QED BY <1>1, <1>2, <2>2, <2>3, HandingOver DEF Base
<1>4. CASE (At(x, "fail") \/ At(x, "giveUp")) /\ FailAndRefund(g, worker[x].token) /\ Finish(x)
  <2>1. gens'[g] = Failed(gens[g])
    BY <1>4, RowWritten DEF FailAndRefund, Base
  <2>2. gens'[g].attempts = gens[g].attempts /\ gens'[g].status \in Terminal
    BY <1>1, <2>1, AttemptsOfRows DEF Terminal
  <2>3. Works(x, g) /\ worker'[x].gen # g
    BY <1>4, WorksAlone, Gone DEF Base
  <2> QED BY <1>1, <1>2, <2>2, <2>3, HandingOver DEF Base
<1>5. ASSUME Requeue(g, worker[x].token)
      PROVE  gens'[g].attempts = gens[g].attempts /\ gens'[g].status = "queued"
  <2>1. gens'[g] = Released(gens[g])
    BY <1>5, RowWritten DEF Requeue, Base
  <2> QED BY <1>1, <2>1, AttemptsOfRows
<1>6. CASE At(x, "requeue") /\ Requeue(g, worker[x].token) /\ Goto(x, "publish")
  <2>1. /\ worker'[x].pc = "publish" /\ worker'[x].gen = g
        /\ worker'[x].retries = worker[x].retries
        /\ worker'[x].failover = worker[x].failover
    BY <1>6, Going DEF Base
  <2>2. worker'[x] \in WorkerStates
    BY SharesNext DEF Base
  <2>3. Left(worker'[x]) <= Left(worker[x])
    BY <1>1, <1>6, <2>1, <2>2, LeftFalls DEF At
  <2>4. Works(x, g)
    BY <1>6, WorksAlone DEF Base
  <2> QED BY <1>1, <1>2, <1>5, <1>6, <2>1, <2>3, <2>4, HandingOver DEF Base
<1>7. CASE /\ At(x, "switch") /\ Requeue(g, worker[x].token)
           /\ worker' = [worker EXCEPT ![x].pc = "claim", ![x].failover = TRUE]
  <2> DEFINE s == [worker[x] EXCEPT !.pc = "claim", !.failover = TRUE]
  <2>1. s.pc = "claim" /\ s.gen = g /\ s.failover
    BY <1>1 DEF WorkerStates
  <2>2. worker'[x] = s /\ \A y \in Workers : y # x => worker'[y] = worker[y]
    BY <1>7 DEF Base, WorkersTypeOK
  <2> HIDE DEF s
  <2>3. Left(worker'[x]) = 1 /\ Left(worker[x]) = 1
    BY <1>7, <2>1, <2>2 DEF Left, At
  <2>4. Works(x, g)
    BY <2>2 DEF Works, SameMessages
  <2>5. /\ worker'[x].pc \in {"claim", "publish"} /\ worker'[x].gen = g
        /\ Left(worker'[x]) <= Left(worker[x])
    BY <2>1, <2>2, <2>3
  <2>6. gens'[g].attempts = gens[g].attempts /\ gens'[g].status = "queued"
    BY <1>5, <1>7
  <2> QED BY <1>1, <1>2, <2>4, <2>5, <2>6, HandingOver DEF Base
<1> QED BY <1>3, <1>4, <1>6, <1>7

\* A step on other generations: rows, events and messages of g stay.
LEMMA EnqueuesElsewhere ==
    ASSUME WorkersTypeOK, NEW h \in GenIds, NEW r \in 0 .. MaxRetries, NEW n,
           broker' = [broker EXCEPT ![<<h, r>>] = n], NEW g \in GenIds, g # h
    PROVE  SameMessages(g)
BY DEF WorkersTypeOK, Messages, SameMessages

\* A worker leaves alone what it does not work on.
LEMMA WorksElsewhere ==
    ASSUME Base, NEW x \in Workers, WorkerDoes(x), NEW g \in GenIds,
           worker[x].gen # g, worker'[x].gen # g
    PROVE  /\ \A y \in Workers : y # x => worker'[y] = worker[y]
           /\ outbox'[g] = outbox[g] /\ gens'[g] = gens[g] /\ SameMessages(g)
<1>1. \A y \in Workers : y # x => worker'[y] = worker[y]
  BY WorkerStepMoves DEF Moved, Base
<1>2. UNCHANGED outbox
  BY DEF WorkerDoes, Receive, Claim, Submit, Save, Poll, Finalize, ProviderError, RequeueRow,
         PublishRetry, ReadRequestId, Switch, Fail, storeVars, StartProcessing, SaveRequest,
         SaveProviderRequest, CompleteRow, Complete, Requeue, FailAndRefund
<1>3. gens'[g] = gens[g]
  <2>1. \/ UNCHANGED gens
        \/ \E row : gens' = [gens EXCEPT ![worker[x].gen] = row]
    BY DEF WorkerDoes, Receive, Claim, Submit, Save, Poll, Finalize, ProviderError, RequeueRow,
           PublishRetry, ReadRequestId, Switch, Fail, storeVars, StartProcessing, SaveRequest,
           SaveProviderRequest, CompleteRow, Complete, Requeue, FailAndRefund
  <2> QED BY <2>1 DEF Base, StoreInv, StoreTypeOK
<1>4. SameMessages(g)
  <2>1. CASE UNCHANGED broker
    BY <2>1 DEF SameMessages
  <2>2. CASE PublishRetry(x)
    <3>1. worker[x].gen \in GenIds /\ NextRetries(x) \in 0 .. MaxRetries
      <4>1. At(x, "publish")
        BY <2>2 DEF PublishRetry
      <4>2. worker[x].retries < MaxRetries /\ worker[x].retries \in 0 .. MaxRetries
            /\ worker[x].gen \in GenIds
        BY <4>1, WorkerFacts DEF At, Fits, WorkerStates
      <4> QED BY <4>2, WorkersAssumption DEF NextRetries
    <3> QED BY <2>2, <3>1, EnqueuesElsewhere DEF PublishRetry, Enqueue, Base
  <2>3. CASE \E h \in GenIds, r \in 0 .. MaxRetries : Receive(x, h, r)
    <3>1. PICK h \in GenIds, r \in 0 .. MaxRetries : Receive(x, h, r)
      BY <2>3
    <3> DEFINE s == [Idle EXCEPT !.pc = "claim", !.gen = h, !.retries = r]
    <3>2. s.gen = h
      BY DEF Idle
    <3>3. worker'[x] = s
      BY <3>1 DEF Receive, Base, WorkersTypeOK
    <3> HIDE DEF s
    <3> QED BY <3>1, <3>2, <3>3, EnqueuesElsewhere DEF Receive, Base
  <2> QED BY <2>1, <2>2, <2>3 DEF WorkerDoes, Claim, Submit, Save, Poll, Finalize,
                ProviderError, RequeueRow, ReadRequestId, Switch, Fail
<1> QED BY <1>1, <1>2, <1>3, <1>4

LEMMA WorkerElsewhere ==
    ASSUME Base, NEW x \in Workers, WorkerDoes(x), NEW g \in GenIds, Exists(g),
           worker[x].gen # g, worker'[x].gen # g
    PROVE  Afforded(g)
BY WorksElsewhere, Untouched DEF Base

LEMMA SubmitAfforded ==
    ASSUME Base, StoreInv', WorkersTypeOK', NEW x \in Workers, NEW g \in GenIds,
           worker[x].gen = g, Submit(x)
    PROVE  Afforded(g)
<1> DEFINE s == [worker[x] EXCEPT !.request = worker[x].token, !.pc = "save"]
<1>1. worker[x] \in WorkerStates /\ Exists(g) /\ At(x, "submit")
  BY WorkerFacts DEF Submit
<1>2. /\ s.pc = "save" /\ s.gen = g /\ s.retries = worker[x].retries
      /\ s.token = worker[x].token /\ s.failover = worker[x].failover
  BY <1>1 DEF WorkerStates
<1>3. worker'[x] = s /\ \A y \in Workers : y # x => worker'[y] = worker[y]
  BY DEF Submit, Base, WorkersTypeOK
<1>4. Works(x, g)
  BY <1>3 DEF Works, SameMessages, Submit, storeVars
<1>5. SameHold(g)
  BY <1>1 DEF SameHold, Submit, storeVars, Exists
<1>6. /\ worker'[x].pc = "save" /\ worker'[x].gen = g /\ worker'[x].token = worker[x].token
      /\ worker'[x].retries = worker[x].retries /\ worker'[x].failover = worker[x].failover
  BY <1>2, <1>3
<1>7. Left(worker'[x]) <= Left(worker[x])
  <2>1. worker'[x] \in WorkerStates
    BY SharesNext DEF Base
  <2> QED BY <1>1, <1>6, <2>1, LeftFalls DEF At
<1> QED BY <1>1, <1>4, <1>5, <1>6, <1>7, GoingOn DEF Base, At

LEMMA ClaimAfforded ==
    ASSUME Base, StoreInv', WorkersTypeOK', Resting, SavesUnsaved, NEW x \in Workers,
           NEW g \in GenIds, worker[x].gen = g, Exists(g)', Claim(x)
    PROVE  Afforded(g)
<1>1. CASE Finish(x) /\ ~MayClaim(g) /\ UNCHANGED storeVars
  BY <1>1, Refused DEF Claim
<1>2. CASE ~ (Finish(x) /\ ~MayClaim(g) /\ UNCHANGED storeVars)
  <2> DEFINE s == [worker[x] EXCEPT !.token = gens'[g].token, !.request = gens[g].requestId,
                        !.provider = ProviderFor(x), !.pc = FirstStep(g)]
  <2>1. /\ At(x, "claim") /\ StartProcessing(g) /\ worker' = [worker EXCEPT ![x] = s]
        /\ UNCHANGED broker
    BY <1>2 DEF Claim, DropWhenRefused, Base, WorkersTypeOK
  <2>2. worker[x] \in WorkerStates /\ Exists(g)
    BY <2>1, WorkerFacts DEF At
  <2>3. /\ s.pc = FirstStep(g) /\ s.gen = g /\ s.token = gens'[g].token
        /\ s.retries = worker[x].retries /\ s.failover = worker[x].failover
    BY <2>2 DEF WorkerStates
  <2>4. worker'[x] = s /\ \A y \in Workers : y # x => worker'[y] = worker[y]
    BY <2>1 DEF Base, WorkersTypeOK
  <2>5. gens'[g] = Claimed(gens[g])
    BY <2>1, RowWritten DEF StartProcessing, Base
  <2>6. Works(x, g)
    BY <2>1, <2>4 DEF Works, SameMessages, StartProcessing
  <2> HIDE DEF s
  <2>7. /\ worker'[x].pc \in {"submit", "poll"} /\ worker'[x].gen = g
        /\ worker'[x].token = gens'[g].token /\ worker'[x].retries = worker[x].retries
        /\ worker'[x].failover = worker[x].failover
    BY <2>3, <2>4 DEF FirstStep
  <2>8. StoreInv /\ WorkersTypeOK /\ At(x, "claim") /\ Exists(g)
    BY <2>1, <2>2 DEF Base
  <2> QED BY <2>5, <2>6, <2>7, <2>8, Claiming
<1> QED BY <1>1, <1>2

\* A message takes over what its sender had left.
LEMMA PublishAfforded ==
    ASSUME Base, StoreInv', WorkersTypeOK', Resting, NEW x \in Workers, NEW g \in GenIds,
           worker[x].gen = g, Exists(g)', PublishRetry(x)
    PROVE  Afforded(g)
<1> DEFINE r == NextRetries(x)
<1>1. /\ At(x, "publish") /\ Enqueue(g, r) /\ Finish(x) /\ UNCHANGED storeVars
  BY DEF PublishRetry
<1>2. worker[x] \in WorkerStates /\ Exists(g) /\ worker[x].retries < MaxRetries
  BY <1>1, WorkerFacts DEF At, Fits
<1>3. worker[x].retries \in Nat /\ r = worker[x].retries + 1 /\ r \in 0 .. MaxRetries
  BY <1>2, WorkersAssumption DEF WorkerStates, NextRetries
<1>4. Left(worker[x]) = Round - r /\ Round - r \in Nat
  <2>1. Left(worker[x]) = Round - 1 - worker[x].retries
    BY <1>1 DEF Left, At
  <2>2. Round \in Nat /\ Round - r \in Nat
    BY <1>3, RoundFacts
  <2> HIDE DEF r
  <2> QED BY <1>3, <2>1, <2>2
<1>5. Coming(g)' = Coming(g) + (Round - r) /\ Coming(g) \in Nat
  BY <1>1, <1>3, ComingAdds DEF Base
<1>6. /\ \A y \in Workers : y # x => worker'[y] = worker[y]
      /\ worker'[x].gen # g
  BY <1>1, Gone DEF Base
<1>7. /\ Working(g)' + Share(x, g) = Working(g) + Share(x, g)'
      /\ Working(g) \in Nat /\ Working(g)' \in Nat
      /\ Share(x, g) = Round - r /\ Share(x, g)' = 0
  BY <1>4, <1>6, WorkingMoves, SharesNext DEF Base
<1>8. gens'[g] = gens[g] /\ Due(g)' = Due(g) /\ gens[g].attempts \in Nat /\ Due(g) \in Nat
  BY <1>1, <1>2, RowFacts, RowNumbers, RoundFacts DEF storeVars, Due, Base
<1>9. Owed(g)' <= Owed(g)
  BY <1>4, <1>5, <1>7, <1>8 DEF Owed
<1>10. Adrift(g)' => Adrift(g)
  <2>1. ~HoldsClaim(g, worker[x].token)
    BY <1>1 DEF Resting, At
  <2>2. broker'[<<g, r>>] > 0
    <3>1. <<g, r>> \in Messages
      BY <1>3 DEF Messages
    <3>2. broker'[<<g, r>>] = broker[<<g, r>>] + 1 /\ broker[<<g, r>>] \in Nat
      BY <1>1, <3>1, WorkersAssumption DEF Enqueue, Base, WorkersTypeOK
    <3> QED BY <3>2
  <2>3. Waits(g)'
    BY <1>3, <2>2 DEF Waits
  <2>4. SameHold(g)
    BY <1>2, <1>8 DEF SameHold, Exists
  <2> QED BY <1>2, <1>6, <2>1, <2>3, <2>4, SteadyRow
<1> QED BY <1>2, <1>9, <1>10, Affords DEF Base

LEMMA ReceiveAfforded ==
    ASSUME Base, StoreInv', WorkersTypeOK', NEW x \in Workers, NEW g \in GenIds,
           NEW r \in 0 .. MaxRetries, Receive(x, g, r)
    PROVE  Afforded(g)
<1> DEFINE s == [Idle EXCEPT !.pc = "claim", !.gen = g, !.retries = r]
<1>1. /\ s.pc = "claim" /\ s.gen = g /\ s.retries = r /\ s.failover = FALSE
  BY DEF Idle
<1>2. worker'[x] = s /\ \A y \in Workers : y # x => worker'[y] = worker[y]
  BY DEF Receive, Base, WorkersTypeOK
<1> HIDE DEF s
<1>3. Exists(g) /\ worker[x].gen # g
  <2>1. <<g, r>> \in Messages /\ <<g, r>>[1] = g
    BY DEF Messages
  <2>2. Exists(g)
    BY <2>1 DEF Base, ResultInv, MessagesExist, Receive
  <2> QED BY <2>2, WorkerFacts DEF Receive
<1>4. /\ Coming(g) = Coming(g)' + (Round - r) /\ Coming(g)' \in Nat /\ Round - r \in Nat
  BY ComingDrops, RoundFacts DEF Receive, Base
<1>5. Share(x, g) = 0 /\ Share(x, g)' = Round - r
  BY <1>1, <1>2, <1>3 DEF Share, Left
<1>6. /\ Working(g)' + Share(x, g) = Working(g) + Share(x, g)'
      /\ Working(g) \in Nat /\ Working(g)' \in Nat
  BY <1>2, WorkingMoves DEF Base
<1>7. gens'[g] = gens[g] /\ Due(g)' = Due(g) /\ gens[g].attempts \in Nat /\ Due(g) \in Nat
  BY <1>3, RowFacts, RowNumbers, RoundFacts DEF Receive, storeVars, Due, Base
<1>8. Owed(g)' <= Owed(g)
  BY <1>4, <1>5, <1>6, <1>7 DEF Owed
<1>9. Adrift(g)' => Adrift(g)
  <2>1. Waits(g)'
    BY <1>1, <1>2 DEF Waits
  <2>2. SameHold(g)
    BY <1>3, <1>7 DEF SameHold, Exists
  <2> QED BY <1>2, <1>3, <2>1, <2>2, SteadyRow
<1>10. Exists(g)'
  BY <1>3, <1>7 DEF Exists
<1> QED BY <1>3, <1>8, <1>9, <1>10, Affords DEF Base

LEMMA WorkersAfford ==
    ASSUME Base, StoreInv', StoreTypeOK', WorkersTypeOK', Resting, SavesUnsaved,
           NEW x \in Workers, WorkerDoes(x), NEW g \in GenIds, Exists(g), Exists(g)'
    PROVE  Afforded(g)
<1>1. CASE worker[x].gen # g /\ worker'[x].gen # g
  BY <1>1, WorkerElsewhere
<1>2. CASE worker[x].gen # g /\ worker'[x].gen = g
  <2>1. Moved(x)
    BY WorkerStepMoves DEF Base
  <2>2. At(x, "idle")
    <3>1. worker'[x].pc # "idle"
      BY <1>2, WorkersAssumption DEF WorkersTypeOK, Fits
    <3> QED BY <1>2, <2>1, <3>1 DEF Moved
  <2>3. PICK h \in GenIds, r \in 0 .. MaxRetries : Receive(x, h, r)
    BY <2>2 DEF WorkerDoes, Claim, Submit, Save, Poll, Finalize, ProviderError, RequeueRow,
                PublishRetry, ReadRequestId, Switch, Fail, At
  <2> DEFINE s == [Idle EXCEPT !.pc = "claim", !.gen = h, !.retries = r]
  <2>4. s.gen = h
    BY DEF Idle
  <2>5. worker'[x] = s
    BY <2>3 DEF Receive, Base, WorkersTypeOK
  <2> HIDE DEF s
  <2> QED BY <1>2, <2>3, <2>4, <2>5, ReceiveAfforded
<1>3. CASE worker[x].gen = g
  <2> DEFINE t == worker[x].token
  <2>0. gens[g] \in Rows /\ ~At(x, "idle")
    BY <1>3, WorkerFacts, RowFacts DEF Base
  <2>1. SameHold(g) \/ gens'[g] # gens[g]
    BY DEF SameHold, Exists
  <2>2. CASE Claim(x)
    BY <1>3, <2>2, ClaimAfforded
  <2>3. CASE Submit(x)
    BY <1>3, <2>3, SubmitAfforded
  <2>4. CASE Save(x)
    <3>1. CASE SaveRequest(x) /\ Goto(x, "poll")
      <4>1. gens'[g] = Submitted(gens[g], worker[x].provider, worker[x].request)
        BY <1>3, <3>1, RowWritten DEF SaveRequest, SaveProviderRequest, Base
      <4>2. SameHold(g)
        <5>1. /\ gens'[g].attempts = gens[g].attempts
              /\ gens'[g].status = gens[g].status /\ gens'[g].token = gens[g].token
              /\ gens'[g].lease = gens[g].lease
          BY <2>0, <4>1 DEF Submitted, Rows
        <5> QED BY <2>0, <5>1 DEF SameHold, Exists
      <4> QED BY <1>3, <2>4, <3>1, <4>2, Proceeds
                 DEF Save, SaveRequest, SaveProviderRequest
    <3>2. CASE ~MaySave(g, t) /\ Finish(x) /\ UNCHANGED storeVars
      BY <1>3, <2>4, <3>2, Refused DEF Save
    <3> QED BY <1>3, <2>4, <3>1, <3>2 DEF Save
  <2>5. CASE Poll(x)
    BY <1>3, <2>1, <2>5, Proceeds DEF Poll, storeVars
  <2>6. CASE Finalize(x)
    BY <1>3, <2>6, HandsOver, Refused DEF Finalize, CompleteRow, Complete, storeVars
  <2>7. CASE ProviderError(x)
    <3>1. SameHold(g) /\ UNCHANGED <<outbox, broker>> /\ worker[x].pc \in {"submit", "poll"}
      BY <2>1, <2>7 DEF ProviderError, storeVars, At
    <3>2. PICK kind : Goto(x, AfterError(x, kind))
      BY <2>7 DEF ProviderError
    <3> QED BY <1>3, <3>1, <3>2, Proceeds
  <2>8. CASE RequeueRow(x)
    <3>1. CASE Requeue(g, t)
      BY <1>3, <2>8, <3>1, HandsOver DEF RequeueRow, Requeue
    <3>2. CASE UNCHANGED storeVars
      BY <1>3, <2>1, <2>8, <3>2, Proceeds DEF RequeueRow, storeVars
    <3> QED BY <1>3, <2>8, <3>1, <3>2 DEF RequeueRow
  <2>9. CASE PublishRetry(x)
    BY <1>3, <2>9, PublishAfforded
  <2>10. CASE ReadRequestId(x)
    <3>1. SameHold(g) /\ UNCHANGED <<outbox, broker>> /\ At(x, "failover")
      BY <2>1, <2>10 DEF ReadRequestId, storeVars
    <3>2. Goto(x, "switch") \/ Goto(x, "giveUp")
      BY <2>10 DEF ReadRequestId
    <3> QED BY <1>3, <3>1, <3>2, Proceeds DEF At
  <2>11. CASE Switch(x)
    <3>1. CASE Requeue(g, t) /\ worker' = [worker EXCEPT ![x].pc = "claim",
                                                         ![x].failover = TRUE]
      BY <1>3, <2>11, <3>1, HandsOver DEF Switch, Requeue
    <3>2. CASE Goto(x, "giveUp") /\ UNCHANGED storeVars
      BY <1>3, <2>1, <2>11, <3>2, Proceeds DEF Switch, storeVars, At
    <3> QED BY <1>3, <2>11, <3>1, <3>2 DEF Switch
  <2>12. CASE Fail(x)
    <3>1. CASE FailAndRefund(g, t)
      BY <1>3, <2>12, <3>1, HandsOver DEF Fail, FailAndRefund
    <3>2. CASE ~MayFail(g, t) /\ UNCHANGED storeVars
      BY <1>3, <2>12, <3>2, Refused DEF Fail, storeVars
    <3> QED BY <1>3, <2>12, <3>1, <3>2 DEF Fail
  <2>13. ASSUME NEW h \in GenIds, NEW r \in 0 .. MaxRetries, Receive(x, h, r)
         PROVE  FALSE
    BY <2>0, <2>13 DEF Receive
  <2> QED BY <2>2, <2>3, <2>4, <2>5, <2>6, <2>7, <2>8, <2>9, <2>10, <2>11, <2>12, <2>13
             DEF WorkerDoes
<1> QED BY <1>1, <1>2, <1>3

-----------------------------------------------------------------------------
\* What faults and jobs cost

\* One more delivery in the broker: with no more work than before, one more is owed.
LEMMA Delivers ==
    ASSUME Base, WorkersTypeOK', NEW g \in GenIds, Exists(g), gens'[g].attempts = gens[g].attempts,
           NEW r \in 0 .. MaxRetries, Enqueue(g, r),
           Working(g)' <= Working(g), Working(g)' \in Nat
    PROVE  /\ outbox'[g] = outbox[g] => Owed(g)' <= Owed(g) + Round
           /\ outbox[g] = "pending" /\ outbox'[g] = "processed" => Owed(g)' <= Owed(g)
<1>1. /\ Coming(g)' = Coming(g) + (Round - r) /\ Coming(g) \in Nat
      /\ Round - r \in Nat /\ Round - r <= Round /\ Round \in Nat
  BY ComingAdds, RoundFacts DEF Base
<1>2. gens[g].attempts \in Nat /\ Working(g) \in Nat
  BY BudgetNumbers DEF Base
<1>3. Due(g) \in Nat
  BY <1>1 DEF Due
<1>4. /\ outbox'[g] = outbox[g] => Due(g)' = Due(g)
      /\ outbox[g] = "pending" /\ outbox'[g] = "processed" => Due(g) = Round /\ Due(g)' = 0
  BY DEF Due
<1>5. /\ Owed(g) = gens[g].attempts + Coming(g) + Working(g) + Due(g)
      /\ Owed(g)' = gens[g].attempts + Coming(g)' + Working(g)' + Due(g)'
  BY DEF Owed
<1> QED BY <1>1, <1>2, <1>3, <1>4, <1>5

LEMMA RedeliverAfforded ==
    ASSUME Base, StoreInv', WorkersTypeOK', NEW x \in Workers, Redeliver(x),
           NEW g \in GenIds, Exists(g)
    PROVE  Afforded(g)
<1> DEFINE h == worker[x].gen
           r == worker[x].retries
<1>1. h \in GenIds /\ r \in 0 .. MaxRetries
  BY WorkerFacts DEF Redeliver, WorkerStates
<1>2. \A y \in Workers : y # x => worker'[y] = worker[y]
  BY Gone DEF Redeliver, Base
<1>3. worker'[x] = worker[x] \/ \A i \in GenIds : worker'[x].gen # i
  BY Gone DEF Redeliver, Base
<1>4. gens'[g] = gens[g] /\ outbox'[g] = outbox[g]
  BY DEF Redeliver, storeVars
<1>5. CASE g # h
  <2>1. SameMessages(g)
    BY <1>1, <1>5, EnqueuesElsewhere DEF Redeliver, Enqueue, Base
  <2> QED BY <1>2, <1>3, <1>4, <1>5, <2>1, Untouched DEF Base
<1>6. CASE g = h
  <2>1. Share(x, g)' = 0 \/ Share(x, g)' = Share(x, g)
    BY <1>3 DEF Share
  <2>2. /\ Working(g)' + Share(x, g) = Working(g) + Share(x, g)'
        /\ Working(g) \in Nat /\ Working(g)' \in Nat /\ Share(x, g) \in Nat
    BY <1>2, WorkingMoves DEF Base
  <2>3. Working(g)' <= Working(g)
    BY <2>1, <2>2
  <2>4. Owed(g)' <= Owed(g) + Round
    BY <1>1, <1>4, <1>6, <2>2, <2>3, Delivers DEF Redeliver
  <2>5. Exists(g)' /\ faults' = faults + 1
    BY <1>4 DEF Exists, Redeliver, Fault
  <2> QED BY <2>4, <2>5, Affords DEF Base
<1> QED BY <1>5, <1>6

LEMMA TaskErrorAfforded ==
    ASSUME Base, StoreInv', WorkersTypeOK', NEW x \in Workers, TaskError(x),
           NEW g \in GenIds, Exists(g), Exists(g)'
    PROVE  Afforded(g)
<1> DEFINE h == worker[x].gen
<1>1. h \in GenIds /\ Exists(h) /\ gens[h] \in Rows /\ gens[g] \in Rows
  BY WorkerFacts, RowFacts DEF TaskError, At, Base
<1>2. /\ \A y \in Workers : y # x => worker'[y] = worker[y]
      /\ worker'[x].gen # g
  BY Gone DEF TaskError, Base
<1>3. /\ outbox' = outbox /\ SameMessages(g)
      /\ \/ UNCHANGED gens
         \/ At(x, "claim") /\ gens' = [gens EXCEPT ![h] = Claimed(gens[h])]
  BY DEF TaskError, StartProcessing, storeVars, SameMessages
<1>4. CASE g # h
  <2>1. gens'[g] = gens[g]
    BY <1>3, <1>4 DEF Base, StoreInv, StoreTypeOK
  <2> QED BY <1>2, <1>3, <1>4, <2>1, Untouched DEF Base
<1>5. CASE g = h
  <2>1. gens[g].attempts \in Nat /\ Share(x, g) \in Nat /\ Share(x, g)' = 0
        /\ Share(x, g) = Left(worker[x])
    BY <1>1, <1>2, <1>5, RowNumbers, SharesNext DEF Base
  <2>2. gens'[g].attempts + Share(x, g)' <= gens[g].attempts + Share(x, g)
    <3>1. CASE UNCHANGED gens
      BY <2>1, <3>1
    <3>2. CASE At(x, "claim") /\ gens' = [gens EXCEPT ![h] = Claimed(gens[h])]
      <4>1. gens'[g].attempts = gens[g].attempts + 1
        <5>1. gens'[g] = Claimed(gens[g])
          BY <1>1, <1>5, <3>2, RowWritten DEF Base
        <5> QED BY <1>1, <5>1, AttemptsOfRows
      <4>2. Left(worker[x]) >= 1
        <5>1. worker[x].retries \in 0 .. MaxRetries
          BY WorkerFacts DEF WorkerStates
        <5>2. Round - worker[x].retries >= 2 /\ Round - worker[x].retries \in Nat
          BY <5>1, RoundFacts
        <5> QED BY <3>2, <5>2 DEF Left, At
      <4> QED BY <2>1, <4>1, <4>2
    <3> QED BY <1>3, <3>1, <3>2
  <2>3. Works(x, g) /\ faults' = faults + 1
    BY <1>2, <1>3, <1>5 DEF Works, TaskError, Fault
  <2> QED BY <2>2, <2>3, Spends DEF Base
<1> QED BY <1>4, <1>5

LEMMA ErrorAfforded ==
    ASSUME Base, StoreInv', WorkersTypeOK', NEW x \in Workers,
           WriteError(x) \/ AnswerLost(x),
           NEW g \in GenIds, Exists(g), Exists(g)'
    PROVE  Afforded(g)
<1> DEFINE h == worker[x].gen
<1>1. worker[x].pc \in {"submit", "save", "complete"} /\ faults' = faults + 1
  BY DEF WriteError, AnswerLost, At, Fault
<1>2. PICK kind : Goto(x, AfterError(x, kind))
  BY DEF WriteError, AnswerLost
<1>3. /\ h \in GenIds /\ gens[h] \in Rows /\ worker[x] \in WorkerStates
      /\ gens[g] \in Rows
  BY <1>1, WorkerFacts, RowFacts DEF At, Base
<1>4. /\ \A y \in Workers : y # x => worker'[y] = worker[y]
      /\ worker'[x].pc = AfterError(x, kind) /\ worker'[x].gen = h
      /\ worker'[x].retries = worker[x].retries /\ worker'[x].failover = worker[x].failover
  BY <1>2, Going DEF Base
<1>5. /\ UNCHANGED <<outbox, broker>> /\ SameMessages(g)
      /\ \/ UNCHANGED gens
         \/ gens' = [gens EXCEPT ![h] = Submitted(gens[h], worker[x].provider, worker[x].request)]
         \/ gens' = [gens EXCEPT ![h] = Completed(gens[h], AnswerOf(x))]
  BY DEF WriteError, AnswerLost, SaveRequest, SaveProviderRequest, CompleteRow, Complete,
         storeVars, SameMessages
<1>6. CASE g # h
  <2>1. gens'[g] = gens[g]
    BY <1>5, <1>6 DEF Base, StoreInv, StoreTypeOK
  <2> QED BY <1>4, <1>5, <1>6, <2>1, Untouched DEF Base
<1>7. CASE g = h
  <2>1. gens'[g].attempts = gens[g].attempts /\ gens[g].attempts \in Nat
    <3>1. \/ gens'[g] = gens[g]
          \/ gens'[g] = Submitted(gens[g], worker[x].provider, worker[x].request)
          \/ gens'[g] = Completed(gens[g], AnswerOf(x))
      BY <1>5, <1>7, RowWritten DEF Base
    <3> QED BY <1>3, <3>1, AttemptsOfWrites, RowNumbers DEF AnswerOf
  <2>2. Left(worker'[x]) <= Left(worker[x])
    <3>1. worker'[x] \in WorkerStates
      BY DEF WorkersTypeOK
    <3>2. /\ AfterError(x, kind) \in {"fail", "giveUp", "requeue", "failover"}
          /\ worker[x].failover => AfterError(x, kind) \in {"fail", "giveUp"}
      BY AfterErrorSteps
    <3>3. worker[x].failover \in BOOLEAN
      BY <1>3 DEF WorkerStates
    <3> QED BY <1>1, <1>3, <1>4, <3>1, <3>2, <3>3, LeftFalls
  <2>3. gens'[g].attempts + Share(x, g)' <= gens[g].attempts + Share(x, g)
    BY <1>4, <1>7, <2>1, <2>2, SharesNext DEF Base
  <2>4. Works(x, g)
    BY <1>4, <1>5, <1>7 DEF Works
  <2> QED BY <1>1, <2>3, <2>4, Spends DEF Base
<1> QED BY <1>6, <1>7

LEMMA BrokerAfforded ==
    ASSUME Base, StoreInv', WorkersTypeOK', NEW h \in GenIds,
           DispatchAborts(h) \/ \E r \in 0 .. MaxRetries : LoseMessage(h, r),
           NEW g \in GenIds, Exists(g)
    PROVE  Afforded(g)
<1>1. /\ gens'[g] = gens[g] /\ outbox'[g] = outbox[g] /\ UNCHANGED worker
      /\ faults' = faults + 1 /\ Exists(g)'
  BY DEF DispatchAborts, LoseMessage, storeVars, Fault, Exists
<1>2. 0 \in 0 .. MaxRetries
  BY RoundFacts
<1>3. CASE g # h
  <2>1. SameMessages(g)
    BY <1>2, <1>3, EnqueuesElsewhere DEF DispatchAborts, LoseMessage, Enqueue, Base
  <2> QED BY <1>1, <2>1, Untouched DEF Base
<1>4. CASE g = h
  <2>1. Working(g)' = Working(g) /\ Working(g) \in Nat /\ Working(g)' \in Nat
    <3>1. \A w \in Workers : Share(w, g)' = Share(w, g)
      BY <1>1 DEF Share
    <3> QED BY <3>1, WorkingStays, WorkingNat DEF Base
  <2>2. Owed(g)' <= Owed(g) + Round
    <3>1. CASE DispatchAborts(h)
      BY <1>1, <1>2, <1>4, <2>1, <3>1, Delivers DEF DispatchAborts
    <3>2. ASSUME NEW r \in 0 .. MaxRetries, LoseMessage(h, r)
          PROVE  Owed(g)' <= Owed(g) + Round
      <4>1. /\ Coming(g) = Coming(g)' + (Round - r) /\ Coming(g)' \in Nat
            /\ Round - r \in Nat /\ Round \in Nat
        BY <1>4, <3>2, ComingDrops, RoundFacts DEF LoseMessage, Base
      <4>2. gens[g].attempts \in Nat /\ Due(g)' = Due(g) /\ Due(g) \in {0, Round}
        BY <1>1, BudgetNumbers DEF Base, Due
      <4> QED BY <1>1, <2>1, <4>1, <4>2 DEF Owed
    <3> QED BY <3>1, <3>2
  <2> QED BY <1>1, <2>2, Affords DEF Base
<1> QED BY <1>3, <1>4

LEMMA FaultsAfford ==
    ASSUME Base, StoreInv', WorkersTypeOK', FaultsDo, NEW g \in GenIds, Exists(g), Exists(g)'
    PROVE  Afforded(g)
BY RedeliverAfforded, TaskErrorAfforded, ErrorAfforded, BrokerAfforded DEF FaultsDo

LEMMA DispatchAfforded ==
    ASSUME Base, StoreInv', WorkersTypeOK', NEW h \in GenIds, DispatchEvent(h),
           NEW g \in GenIds, Exists(g), Exists(g)'
    PROVE  Afforded(g)
<1> DEFINE row == IF IsStatus(h, "created") THEN Queued(gens[h]) ELSE gens[h]
<1>1. /\ gens' = [gens EXCEPT ![h] = row] /\ Enqueue(h, 0) /\ UNCHANGED worker
      /\ outbox[h] = "pending" /\ outbox' = [outbox EXCEPT ![h] = "processed"]
  BY DEF DispatchEvent, DispatchOutbox
<1>2. 0 \in 0 .. MaxRetries
  BY RoundFacts
<1>3. gens'[h] = row /\ (g # h => gens'[g] = gens[g])
  BY <1>1, RowWritten DEF Base
<1>4. CASE g # h
  <2>1. outbox'[g] = outbox[g]
    BY <1>1, <1>4 DEF Base, StoreInv, StoreTypeOK
  <2>2. SameMessages(g)
    BY <1>1, <1>2, <1>4, EnqueuesElsewhere DEF Enqueue, Base
  <2> QED BY <1>1, <1>3, <1>4, <2>1, <2>2, Untouched DEF Base
<1>5. CASE g = h
  <2>1. gens[g] \in Rows /\ outbox'[g] = "processed"
    BY <1>1, <1>5, RowFacts DEF Base, StoreInv, StoreTypeOK
  <2>2. gens'[g].attempts = gens[g].attempts
    BY <1>3, <1>5, <2>1, AttemptsOfRows
  <2>3. Working(g)' = Working(g) /\ Working(g) \in Nat /\ Working(g)' \in Nat
    <3>1. \A w \in Workers : Share(w, g)' = Share(w, g)
      BY <1>1 DEF Share
    <3> QED BY <3>1, WorkingStays, WorkingNat DEF Base
  <2>4. Owed(g)' <= Owed(g)
    BY <1>1, <1>2, <1>5, <2>1, <2>2, <2>3, Delivers
  <2>5. Waits(g)'
    <3>1. <<g, 0>> \in Messages
      BY <1>2 DEF Messages
    <3>2. broker'[<<g, 0>>] = broker[<<g, 0>>] + 1 /\ broker[<<g, 0>>] \in Nat
      BY <1>1, <1>5, <3>1, WorkersAssumption DEF Enqueue, Base, WorkersTypeOK
    <3> QED BY <1>2, <3>2 DEF Waits
  <2>6. Adrift(g)' => Adrift(g)
    <3>1. CASE IsStatus(g, "created")
      <4>1. gens'[g].status = "queued"
        BY <1>3, <1>5, <2>1, <3>1, AttemptsOfRows
      <4> QED BY <2>5, <4>1 DEF Adrift, IsStatus
    <3>2. CASE ~IsStatus(g, "created")
      <4>1. gens'[g] = gens[g]
        BY <1>3, <1>5, <3>2
      <4>2. SameHold(g)
        BY <4>1 DEF SameHold, Exists
      <4> QED BY <1>1, <2>5, <4>2, SteadyRow
    <3> QED BY <3>1, <3>2
  <2> QED BY <2>4, <2>6, Affords DEF Base
<1> QED BY <1>4, <1>5

\* A row alone changes, and no claim is made: nothing more is owed.
LEMMA RowAlone ==
    ASSUME Base, NEW g \in GenIds, UNCHANGED <<worker, broker>>, outbox'[g] = outbox[g],
           Exists(g), gens'[g].attempts = gens[g].attempts
    PROVE  Owed(g)' = Owed(g) /\ Owed(g) \in Nat
<1>1. Working(g)' = Working(g)
  <2>1. \A w \in Workers : Share(w, g)' = Share(w, g)
    BY DEF Share
  <2> QED BY <2>1, WorkingStays
<1>2. Coming(g)' = Coming(g)
  BY ComingStays DEF SameMessages
<1>3. Owed(g) \in Nat
  BY BudgetNumbers DEF Base, Owed
<1> QED BY <1>1, <1>2, <1>3 DEF Owed, Due

\* A lease expires unattended, or by a fault; a queued row goes stale.
LEMMA TimeAfforded ==
    ASSUME Base, StoreInv', WorkersTypeOK', NEW h \in GenIds, ExpireLease(h) \/ GoStale(h),
           NEW g \in GenIds, Exists(g), Exists(g)'
    PROVE  Afforded(g)
<1>1. /\ UNCHANGED <<worker, broker, outbox>>
      /\ gens' = [gens EXCEPT ![h] = Expired(gens[h])]
            \/ gens' = [gens EXCEPT ![h] = Aged(gens[h])]
  BY DEF ExpireLease, GoStale, LeaseExpires, QueuedGoesStale, taskVars
<1>2. g # h => gens'[g] = gens[g]
  BY <1>1, RowWritten DEF Base
<1>3. CASE g # h
  BY <1>1, <1>2, <1>3, Untouched DEF Base, SameMessages
<1>4. CASE g = h
  <2>1. gens[g] \in Rows /\ Round \in Nat
    BY RowFacts, RoundFacts DEF Base
  <2>2. gens'[g] = Expired(gens[g]) \/ gens'[g] = Aged(gens[g])
    BY <1>1, <1>4, RowWritten DEF Base
  <2>3. Owed(g)' = Owed(g) /\ Owed(g) \in Nat
    BY <1>1, <2>1, <2>2, RowAlone, AttemptsOfRows
  <2>4. CASE ExpireLease(h) /\ Attended(g)
    <3>1. faults' = faults + 1
      BY <1>4, <2>4 DEF ExpireLease, Fault
    <3> QED BY <2>1, <2>3, <3>1, Affords DEF Base
  <2>5. CASE ExpireLease(h) /\ ~Attended(g)
    <3>1. Adrift(g)
      BY <1>4, <2>5 DEF Adrift, ExpireLease, LeaseExpires
    <3> QED BY <2>3, <3>1, Affords DEF Base
  <2>6. CASE GoStale(h)
    <3>1. gens'[g] = Aged(gens[g])
      BY <1>4, <2>6, RowWritten DEF GoStale, QueuedGoesStale, Base
    <3>2. SameHold(g)
      BY <2>1, <3>1, AttemptsOfRows DEF SameHold, Exists
    <3>3. Waits(g)' <=> Waits(g)
      BY <1>1 DEF Waits
    <3>4. Adrift(g)' => Adrift(g)
      BY <1>1, <3>2, <3>3, SteadyRow
    <3> QED BY <2>3, <3>4, Affords DEF Base
  <2> QED BY <2>4, <2>5, <2>6
<1> QED BY <1>3, <1>4

\* Recovery dispatches anew what was adrift, or commits a fault.
LEMMA RecoverAfforded ==
    ASSUME Base, StoreInv', WorkersTypeOK', NEW S \in SUBSET StaleGens, Recover(S),
           NEW g \in GenIds, Exists(g), Exists(g)'
    PROVE  Afforded(g)
<1>1. /\ UNCHANGED <<worker, broker>>
      /\ gens'[g] = IF g \in S /\ IsStatus(g, "processing") THEN Released(gens[g]) ELSE gens[g]
      /\ outbox'[g] = IF g \in S THEN "pending" ELSE outbox[g]
  BY DEF Recover, RecoverStale
<1>2. CASE g \notin S
  BY <1>1, <1>2, Untouched DEF Base, SameMessages
<1>3. CASE g \in S
  <2>1. gens[g] \in Rows /\ Round \in Nat
    BY RowFacts, RoundFacts DEF Base
  <2>2. gens'[g].attempts = gens[g].attempts /\ gens'[g].status = "queued"
    BY <1>1, <1>3, <2>1, AttemptsOfRows DEF StaleGens, IsStatus
  <2>3. Owed(g)' <= Owed(g) + Round
    <3>1. Working(g)' = Working(g) /\ Coming(g)' = Coming(g)
      <4>1. \A w \in Workers : Share(w, g)' = Share(w, g)
        BY <1>1 DEF Share
      <4>2. SameMessages(g)
        BY <1>1 DEF SameMessages
      <4> QED BY <4>1, <4>2, WorkingStays, ComingStays
    <3>2. Due(g)' = Round
      BY <1>1, <1>3 DEF Due
    <3> QED BY <2>2, <3>1, <3>2, BudgetNumbers DEF Base, Owed
  <2>4. ~Adrift(g)'
    BY <1>1, <1>3, <2>2 DEF Adrift, IsStatus, Waits
  <2>5. Adrift(g) \/ faults' = faults + 1
    <3>1. CASE IsStatus(g, "processing")
      BY <1>3, <3>1 DEF Adrift, StaleGens, IsStatus
    <3>2. CASE IsStatus(g, "queued") /\ InHand(g)
      BY <1>3, <3>2 DEF Recover, Fault
    <3>3. CASE IsStatus(g, "queued") /\ ~InHand(g)
      BY <3>3 DEF Adrift, Waits, InHand
    <3> QED BY <1>3, <3>1, <3>2, <3>3 DEF StaleGens
  <2> QED BY <2>3, <2>4, <2>5, Affords DEF Base
<1> QED BY <1>2, <1>3

LEMMA JobsAfford ==
    ASSUME Base, StoreInv', WorkersTypeOK', JobsDo, NEW g \in GenIds, Exists(g), Exists(g)'
    PROVE  Afforded(g)
BY DispatchAfforded, TimeAfforded, RecoverAfforded DEF JobsDo

-----------------------------------------------------------------------------
\* The budget over a whole behaviour

\* A generation that a client creates is owed one delivery.
LEMMA CreationBudget ==
    ASSUME Base, WorkersTypeOK', NEW g \in GenIds, NEW u \in Users, NEW k \in Keys,
           NEW r \in Requests, NEW c \in Costs, CreateAndCharge(g, u, k, r, c),
           UNCHANGED taskVars
    PROVE  Budget(g)' = Round /\ Round \in Nat
<1>1. gens'[g] = NewRow(u, k, r, c) /\ outbox'[g] = "pending" /\ ~Exists(g)
  BY DEF CreateAndCharge, Base, StoreInv, StoreTypeOK
<1>2. gens'[g].attempts = 0 /\ gens'[g].status = "created"
  BY <1>1 DEF NewRow
<1>3. Coming(g)' = 0
  <2> DEFINE f == [q \in 0 .. MaxRetries |-> Carried(g, q)']
  <2>1. ASSUME NEW q \in 0 .. MaxRetries PROVE Carried(g, q)' = 0
    <3>1. <<g, q>> \in Messages /\ <<g, q>>[1] = g
      BY DEF Messages
    <3>2. broker[<<g, q>>] \in Nat /\ ~ (broker[<<g, q>>] > 0)
      BY <1>1, <3>1, WorkersAssumption
         DEF Base, WorkersTypeOK, ResultInv, MessagesExist, Exists
    <3>3. broker'[<<g, q>>] = 0
      BY <3>2 DEF taskVars
    <3> QED BY <3>3, RoundFacts DEF Carried
  <2>2. f \in [0 .. MaxRetries -> Nat] /\ \A q \in 0 .. MaxRetries : f[q] = 0
    BY <2>1, ComingNatNext
  <2>3. Coming(g)' = SumFunction(f)
    BY DEF Coming
  <2> HIDE DEF f
  <2> QED BY <2>2, <2>3, TotalOfZeros, RoundFacts
<1>4. Working(g)' = 0
  <2> DEFINE f == [w \in Workers |-> Share(w, g)']
  <2>1. ASSUME NEW w \in Workers PROVE Share(w, g)' = 0
    <3>1. worker[w].gen # g
      BY <1>1, WorkerFacts
    <3> QED BY <3>1 DEF Share, taskVars
  <2>2. f \in [Workers -> Nat] /\ \A w \in Workers : f[w] = 0
    BY <2>1
  <2>3. Working(g)' = SumFunction(f)
    BY DEF Working
  <2> HIDE DEF f
  <2> QED BY <2>2, <2>3, TotalOfZeros, WorkersAssumption
<1>5. Due(g)' = Round /\ Loss(g)' = 0 /\ Round \in Nat
  BY <1>1, <1>2, RoundFacts DEF Due, Loss, Adrift, IsStatus
<1> QED BY <1>2, <1>3, <1>4, <1>5 DEF Budget, Owed

\* Only clients create generations.
LEMMA OnlyClientsCreate ==
    ASSUME Base, StoreInv', NEW g \in GenIds, Exists(g)',
           (\E x \in Workers : WorkerDoes(x)) \/ JobsDo \/ FaultsDo
    PROVE  Exists(g)
<1>1. outbox'[g] # "none" /\ outbox \in [GenIds -> {"none", "pending", "processed"}]
  BY DEF StoreInv, CreatedIsPending, Base, StoreTypeOK
<1>2. UNCHANGED outbox \/ outbox[g] # "none" \/ Exists(g)
  <2>1. CASE \E x \in Workers : WorkerDoes(x)
    BY <2>1
       DEF WorkerDoes, Receive, Claim, Submit, Save, Poll, Finalize, ProviderError,
           RequeueRow, PublishRetry, ReadRequestId, Switch, Fail, storeVars, StartProcessing,
           SaveRequest, SaveProviderRequest, CompleteRow, Complete, Requeue, FailAndRefund
  <2>2. CASE FaultsDo
    BY <2>2
       DEF FaultsDo, Redeliver, TaskError, WriteError, AnswerLost, DispatchAborts, LoseMessage,
           storeVars, StartProcessing, SaveRequest, SaveProviderRequest, CompleteRow, Complete
  <2>3. ASSUME NEW h \in GenIds, DispatchEvent(h)
        PROVE  outbox[g] # "none"
    <3>1. outbox[h] = "pending" /\ (g # h => outbox'[g] = outbox[g])
      BY <1>1, <2>3 DEF DispatchEvent, DispatchOutbox
    <3> QED BY <1>1, <3>1
  <2>4. ASSUME NEW h \in GenIds, ExpireLease(h) \/ GoStale(h)
        PROVE  UNCHANGED outbox
    BY <2>4 DEF ExpireLease, GoStale, LeaseExpires, QueuedGoesStale
  <2>5. ASSUME NEW S \in SUBSET StaleGens, Recover(S)
        PROVE  outbox[g] # "none" \/ Exists(g)
    <3>1. g \in S \/ outbox'[g] = outbox[g]
      BY <2>5 DEF Recover, RecoverStale
    <3> QED BY <1>1, <3>1 DEF StaleGens, IsStatus
  <2> QED BY <2>1, <2>2, <2>3, <2>4, <2>5 DEF JobsDo
<1> QED BY <1>1, <1>2 DEF Base, StoreInv, CreatedIsPending

\* The faults of a step.
LEMMA FaultsCount ==
    ASSUME Base, [WorkersNext]_vars
    PROVE  faults \in Nat /\ faults' \in {faults, faults + 1}
<1>1. faults \in Nat
  BY WorkersAssumption DEF Base, WorkersTypeOK
<1>2. faults' \in {faults, faults + 1}
  BY DEF WorkersNext, ClientsDo, JobsDo, FaultsDo, WorkerDoes, Receive, Claim, Submit, Save,
         Poll, Finalize, ProviderError, RequeueRow, PublishRetry, ReadRequestId, Switch, Fail,
         DispatchEvent, ExpireLease, GoStale, Recover, Redeliver, TaskError, WriteError,
         AnswerLost, DispatchAborts, LoseMessage, Fault, taskVars, vars
<1> QED BY <1>1, <1>2

\* A generation that exists affords the step; a new one has the budget of one delivery.
LEMMA StepAfforded ==
    ASSUME Base, StoreInv', StoreTypeOK', WorkersTypeOK', Resting, SavesUnsaved,
           [WorkersNext]_vars, NEW g \in GenIds, Exists(g)'
    PROVE  (Exists(g) /\ Afforded(g)) \/ (Budget(g)' = Round /\ Round \in Nat)
<1>1. CASE UNCHANGED vars
  BY <1>1, Untouched DEF vars, storeVars, taskVars, SameMessages, Exists, Base
<1>2. CASE ClientsDo
  <2>1. ASSUME NEW h \in GenIds, NEW u \in Users, NEW k \in Keys, NEW r \in Requests,
               NEW c \in Costs, CreateAndCharge(h, u, k, r, c)
        PROVE  (Exists(g) /\ Afforded(g)) \/ (Budget(g)' = Round /\ Round \in Nat)
    <3>1. CASE g = h
      BY <1>2, <2>1, <3>1, CreationBudget DEF ClientsDo
    <3>2. CASE g # h
      <4>1. gens'[g] = gens[g] /\ outbox'[g] = outbox[g] /\ UNCHANGED <<worker, broker>>
        BY <1>2, <2>1, <3>2
           DEF CreateAndCharge, ClientsDo, taskVars, Base, StoreInv, StoreTypeOK
      <4> QED BY <4>1, Untouched DEF Base, SameMessages, Exists
    <3> QED BY <3>1, <3>2
  <2>2. ASSUME NEW u \in Users, RegisterUser(u) \/ \E p \in PaymentIds, a \in Amounts :
                                                      ApplyCredit(p, u, a)
        PROVE  Exists(g) /\ Afforded(g)
    <3>1. UNCHANGED <<gens, outbox, worker, broker>>
      BY <1>2, <2>2 DEF RegisterUser, ApplyCredit, ClientsDo, taskVars
    <3> QED BY <3>1, Untouched DEF Base, SameMessages, Exists
  <2> QED BY <1>2, <2>1, <2>2 DEF ClientsDo, ClientStep
<1>3. CASE (\E x \in Workers : WorkerDoes(x)) \/ JobsDo \/ FaultsDo
  BY <1>3, OnlyClientsCreate, WorkersAfford, JobsAfford, FaultsAfford
<1> QED BY <1>1, <1>2, <1>3 DEF WorkersNext

LEMMA BudgetStep ==
    ASSUME Base, StoreInv', StoreTypeOK', WorkersTypeOK', Resting, SavesUnsaved, Budgeted,
           [WorkersNext]_vars
    PROVE  Budgeted'
<1> SUFFICES ASSUME NEW g \in GenIds, Exists(g)'
             PROVE  Budget(g)' <= Round + faults' * (2 * Round)
  BY DEF Budgeted
<1>1. /\ faults \in Nat /\ faults' \in {faults, faults + 1}
      /\ Round \in Nat /\ 2 * Round \in Nat
  BY FaultsCount, RoundFacts
<1>2. Budget(g)' \in Nat
  <2>1. gens'[g].attempts \in Nat
    BY RowNumbers DEF StoreTypeOK, Exists
  <2>2. Due(g)' \in Nat /\ Loss(g)' \in Nat
    BY <1>1 DEF Due, Loss
  <2> QED BY <2>1, <2>2, WorkingNatNext, ComingNatNext DEF Budget, Owed
<1> DEFINE before == faults * (2 * Round)
           after == faults' * (2 * Round)
<1>3. /\ before \in Nat /\ after \in Nat
      /\ faults' = faults + 1 => after = before + 2 * Round
      /\ faults' = faults => after = before
  <2>1. CASE faults' = faults
    BY <1>1, <2>1, Product
  <2>2. CASE faults' = faults + 1
    <3>1. (faults + 1) * (2 * Round) = before + 2 * Round /\ before \in Nat
      BY <1>1, Product, ProductGrows
    <3> QED BY <1>1, <2>2, <3>1
  <2> QED BY <1>1, <2>1, <2>2
<1>4. Exists(g) => Budget(g) <= Round + before /\ Budget(g) \in Nat
  BY BudgetNumbers DEF Budgeted, Budget, Owed, Base
<1>5. Budget(g)' <= Round + after
  <2> HIDE DEF before, after
  <2>1. CASE Exists(g) /\ Afforded(g)
    BY <1>1, <1>2, <1>3, <1>4, <2>1 DEF Afforded
  <2>2. CASE Budget(g)' = Round
    BY <1>1, <1>3, <2>2
  <2> QED BY <2>1, <2>2, StepAfforded
<1> QED BY <1>5

LEMMA BudgetInit == ASSUME WorkersInit PROVE BudgetInv
<1>1. /\ \A w \in Workers : worker[w] = Idle
      /\ \A g \in GenIds : ~Exists(g)
  BY DEF WorkersInit, StoreInit, Exists
<1>2. Idle.pc = "idle"
  BY DEF Idle
<1> QED BY <1>1, <1>2 DEF BudgetInv, Resting, SavesUnsaved, Budgeted, At

\* For all constants: without faults a generation is claimed at most max_retries + 1
\* times and once for the fallback, and each fault adds at most two such rounds.
THEOREM AttemptsAreBounded == WorkersSpec => []AttemptsBounded
<1>1. WorkersInit => BudgetInv
  BY BudgetInit
<1>2. /\ Base /\ ClaimsInv /\ BudgetInv /\ [WorkersNext]_vars /\ (Base /\ ClaimsInv)'
      => BudgetInv'
  <2> SUFFICES ASSUME Base, ClaimsInv, BudgetInv, [WorkersNext]_vars, Base'
               PROVE  BudgetInv'
    OBVIOUS
  <2>1. StoreInv' /\ StoreTypeOK' /\ WorkersTypeOK'
    BY DEF Base, StoreInv
  <2>2. Resting /\ SavesUnsaved /\ Budgeted /\ TokensApart /\ SubmitsUnsaved
    BY DEF BudgetInv, ClaimsInv
  <2>3. Resting' /\ SavesUnsaved' /\ Budgeted'
    BY <2>1, <2>2, RestingStep, SavesStep, BudgetStep
  <2> QED BY <2>3 DEF BudgetInv
<1>3. Base /\ BudgetInv => AttemptsBounded
  <2> SUFFICES ASSUME Base, BudgetInv, NEW g \in GenIds, Exists(g)
               PROVE  gens[g].attempts <= (MaxRetries + 2) * (1 + 2 * faults)
    BY DEF AttemptsBounded
  <2>1. /\ gens[g].attempts \in Nat /\ Coming(g) \in Nat /\ Working(g) \in Nat
        /\ Due(g) \in {0, Round} /\ Loss(g) \in {0, Round} /\ Round \in Nat /\ faults \in Nat
    BY BudgetNumbers DEF Base
  <2>2. Budget(g) <= Round + faults * (2 * Round) /\ faults * (2 * Round) \in Nat
    BY <2>1, Product DEF BudgetInv, Budgeted
  <2>3. gens[g].attempts <= Budget(g)
    BY <2>1 DEF Budget, Owed
  <2>4. Budget(g) \in Nat
    BY <2>1 DEF Budget, Owed
  <2>5. Round + faults * (2 * Round) = Round * (1 + 2 * faults)
    BY <2>1
  <2>6. gens[g].attempts <= Round * (1 + 2 * faults)
    <3>1. Round + faults * (2 * Round) \in Nat
      BY <2>1, <2>2
    <3> QED BY <2>1, <2>2, <2>3, <2>4, <2>5, <3>1
  <2> QED BY <2>6 DEF Round
<1> QED BY <1>1, <1>2, <1>3, ClaimsHold, PTL DEF WorkersSpec
-----------------------------------------------------------------------------
\* Without a fault every generation is in one hand, and its answer comes from the
\* provider that issued the request.

CalmAt(g) ==
    /\ InOneHand(g) /\ ClaimsAttended(g) /\ AnswersIssued(g)
    /\ \A w \in Workers : Busy(w, g) => Undisturbed(worker[w])

LEMMA CalmEverywhere ==
    ASSUME WorkersTypeOK
    PROVE  CalmInv <=> (faults = 0 => \A g \in GenIds : CalmAt(g))
<1>1. ASSUME NEW w \in Workers
      PROVE  (\E g \in GenIds : Busy(w, g)) \/ Undisturbed(worker[w])
  <2>1. CASE At(w, "idle")
    BY <2>1 DEF At, Undisturbed, NothingSaved
  <2>2. CASE ~At(w, "idle")
    BY <2>2, BusyFacts DEF Busy
  <2> QED BY <2>1, <2>2
<1> QED BY <1>1 DEF CalmInv, CalmAt

LEMMA CalmEverywhereNext ==
    ASSUME WorkersTypeOK', \A g \in GenIds : CalmAt(g)'
    PROVE  CalmInv'
<1>1. ASSUME NEW w \in Workers
      PROVE  (\E g \in GenIds : Busy(w, g)') \/ Undisturbed(worker[w])'
  <2>1. CASE worker'[w].pc = "idle"
    BY <2>1 DEF Undisturbed, NothingSaved
  <2>2. CASE worker'[w].pc # "idle"
    <3>1. worker'[w] \in WorkerStates /\ Fits(worker[w])'
      BY DEF WorkersTypeOK
    <3> QED BY <2>2, <3>1 DEF Busy, Fits, WorkerStates
  <2> QED BY <2>1, <2>2
<1> QED BY <1>1 DEF CalmInv, CalmAt

\* A step that does not touch g.
LEMMA CalmElsewhere ==
    ASSUME NEW g \in GenIds, CalmAt(g), gens'[g] = gens[g], outbox'[g] = outbox[g],
           SameMessages(g), submitted[g] \subseteq submitted'[g],
           \A w \in Workers : worker'[w] = worker[w]
                              \/ (worker[w].gen # g /\ worker'[w].gen # g)
    PROVE  CalmAt(g)'
<1>1. \A w \in Workers : Busy(w, g)' => Busy(w, g) /\ worker'[w] = worker[w]
  BY DEF Busy
<1>2. \A w \in Workers : Busy(w, g) => Busy(w, g)' /\ worker'[w] = worker[w]
  BY DEF Busy
<1>3. InOneHand(g)'
  BY <1>1 DEF CalmAt, InOneHand, Queues, SameMessages
<1>4. ClaimsAttended(g)'
  BY <1>2 DEF CalmAt, ClaimsAttended, IsStatus, Exists
<1>5. AnswersIssued(g)'
  BY DEF CalmAt, AnswersIssued, IsStatus, Exists
<1>6. ASSUME NEW w \in Workers, Busy(w, g)'
      PROVE  Undisturbed(worker[w])'
  <2>1. worker'[w] = worker[w] /\ worker[w].gen = g /\ Undisturbed(worker[w])
    BY <1>1, <1>6 DEF CalmAt, Busy
  <2> QED BY <2>1 DEF Undisturbed, NothingSaved
<1> QED BY <1>3, <1>4, <1>5, <1>6 DEF CalmAt

\* Who works on g works on it alone: it goes on with it, or lets go of it.
LEMMA CalmWorks ==
    ASSUME NEW g \in GenIds, CalmAt(g), NEW x \in Workers, Works(x, g),
           ClaimsAttended(g)', AnswersIssued(g)',
           worker'[x].gen = g => Undisturbed(worker[x])'
    PROVE  CalmAt(g)'
<1>1. \A w \in Workers : Busy(w, g)' => w = x
  BY DEF CalmAt, InOneHand, Busy, Works
<1>2. InOneHand(g)'
  <2>1. \A r \in 0 .. MaxRetries : ~Queues(g, r)'
    BY DEF CalmAt, InOneHand, Busy, Queues, Works, SameMessages
  <2> QED BY <1>1, <2>1 DEF CalmAt, InOneHand, Busy, Works
<1>3. \A w \in Workers : Busy(w, g)' => Undisturbed(worker[w])'
  BY <1>1 DEF Busy
<1> QED BY <1>2, <1>3 DEF CalmAt

\* A row that is being processed is processed by who is at work on it.
LEMMA CalmHolder ==
    ASSUME NEW g \in GenIds, CalmAt(g), NEW x \in Workers, worker[x].gen = g,
           IsStatus(g, "processing")
    PROVE  /\ HoldsClaim(g, worker[x].token) /\ gens[g].lease = "live"
           /\ worker[x].pc \notin {"claim", "publish"}
<1>1. PICK w \in Workers : Busy(w, g) /\ worker[w].token = gens[g].token
                           /\ worker[w].pc \notin {"claim", "publish"}
  BY DEF CalmAt, ClaimsAttended
<1>2. w = x
  BY <1>1 DEF CalmAt, InOneHand, Busy
<1> QED BY <1>1, <1>2 DEF CalmAt, ClaimsAttended, HoldsClaim

\* A worker ends, or goes on, and its row moves or not.
LEMMA CalmMoves ==
    ASSUME Base, NEW g \in GenIds, CalmAt(g), NEW x \in Workers, worker[x].gen = g,
           UNCHANGED <<outbox, broker>>, submitted[g] \subseteq submitted'[g],
           \/ gens'[g] = gens[g]
           \/ AnswersIssued(g)' /\ gens'[g].requestId = gens[g].requestId,
           \/ Finish(x) /\ ~IsStatus(g, "processing")'
           \/ \E step : /\ Goto(x, step)
                        /\ step \notin {"claim", "submit", "save", "poll"}
                        /\ step = "switch" => gens[g].requestId = 0
                        /\ step = "publish" => ~IsStatus(g, "processing")'
                        /\ step = "complete" => At(x, "poll")
                        /\ gens'[g] = gens[g] \/ ~IsStatus(g, "processing")'
    PROVE  CalmAt(g)'
<1>1. Works(x, g)
  BY WorksAlone DEF Base
<1>2. AnswersIssued(g)'
  BY DEF CalmAt, AnswersIssued, IsStatus, Exists
<1>3. CASE Finish(x) /\ ~IsStatus(g, "processing")'
  <2>1. worker'[x].gen # g
    BY <1>3, Gone DEF Base
  <2>2. ClaimsAttended(g)'
    BY <1>3 DEF ClaimsAttended
  <2> QED BY <1>1, <1>2, <2>1, <2>2, CalmWorks
<1>4. ASSUME NEW step, Goto(x, step), step \notin {"claim", "submit", "save", "poll"},
             step = "switch" => gens[g].requestId = 0,
             step = "publish" => ~IsStatus(g, "processing")',
             step = "complete" => At(x, "poll"),
             gens'[g] = gens[g] \/ ~IsStatus(g, "processing")'
      PROVE  CalmAt(g)'
  <2>1. /\ worker'[x].pc = step /\ worker'[x].gen = g /\ worker'[x].token = worker[x].token
        /\ worker'[x].provider = worker[x].provider /\ worker'[x].request = worker[x].request
    BY <1>4, Going DEF Base
  <2>2. ClaimsAttended(g)'
    <3>1. CASE ~IsStatus(g, "processing")'
      BY <3>1 DEF ClaimsAttended
    <3>2. CASE IsStatus(g, "processing")' /\ gens'[g] = gens[g]
      <4>1. IsStatus(g, "processing")
        BY <3>2 DEF IsStatus, Exists
      <4>2. gens[g].lease = "live" /\ worker[x].token = gens[g].token
        BY <4>1, CalmHolder DEF HoldsClaim
      <4> QED BY <1>4, <2>1, <3>2, <4>2 DEF ClaimsAttended, Busy
    <3> QED BY <1>4, <3>1, <3>2
  <2>3. gens'[g].requestId = gens[g].requestId
    OBVIOUS
  <2>4. At(x, "poll") => <<worker[x].provider, worker[x].request>> \in submitted[g]
    BY DEF CalmAt, Busy, Undisturbed, NothingSaved, At
  <2>5. Undisturbed(worker[x])'
    BY <1>4, <2>1, <2>3, <2>4 DEF Undisturbed, NothingSaved
  <2> QED BY <1>1, <1>2, <2>2, <2>5, CalmWorks
<1> QED BY <1>3, <1>4

LEMMA CalmUnsaved ==
    ASSUME NEW g \in GenIds, CalmAt(g), NEW x \in Workers, worker[x].gen = g,
           At(x, "submit") \/ At(x, "save") \/ At(x, "switch")
    PROVE  gens[g].requestId = 0
BY DEF CalmAt, Busy, Undisturbed, NothingSaved, At

\* Nobody refuses who works on a row that is being processed.
LEMMA CalmRefused ==
    ASSUME Base, NEW g \in GenIds, CalmAt(g), NEW x \in Workers, worker[x].gen = g,
           UNCHANGED <<storeVars, broker, submitted>>, Finish(x),
           \/ At(x, "claim") /\ ~MayClaim(g)
           \/ At(x, "save") /\ ~MaySave(g, worker[x].token)
           \/ At(x, "complete") /\ ~HoldsClaim(g, worker[x].token)
           \/ (At(x, "fail") \/ At(x, "giveUp")) /\ ~MayFail(g, worker[x].token)
    PROVE  CalmAt(g)'
<1>1. At(x, "save") => gens[g].requestId = 0
  BY CalmUnsaved
<1>2. IsStatus(g, "processing") => ~gens[g].refunded
  BY DEF Base, StoreInv, SettlementCoherence, IsStatus
<1>3. ~IsStatus(g, "processing")
  BY <1>1, <1>2, CalmHolder DEF At, MaySave, MayFail, HoldsClaim
<1>4. ~IsStatus(g, "processing")'
  BY <1>3 DEF storeVars, IsStatus, Exists
<1> QED BY <1>4, CalmMoves DEF storeVars

\* Who settles a row answers with what its issuer said.
LEMMA CalmSettles ==
    ASSUME Base, NEW g \in GenIds, CalmAt(g), NEW x \in Workers, worker[x].gen = g,
           UNCHANGED <<broker, submitted>>,
           \/ At(x, "complete") /\ CompleteRow(x) /\ Finish(x)
           \/ FailAndRefund(g, worker[x].token) /\ Finish(x)
           \/ Requeue(g, worker[x].token) /\ Goto(x, "publish")
    PROVE  CalmAt(g)'
<1>1. /\ Exists(g) /\ UNCHANGED outbox
      /\ \/ gens' = [gens EXCEPT ![g] = Completed(gens[g], AnswerOf(x))] /\ At(x, "complete")
         \/ gens' = [gens EXCEPT ![g] = Failed(gens[g])]
         \/ gens' = [gens EXCEPT ![g] = Released(gens[g])]
  BY DEF CompleteRow, Complete, FailAndRefund, Requeue, HoldsClaim, MayFail, IsStatus
<1>2. gens[g] \in Rows
  BY <1>1, RowFacts DEF Base
<1>3. /\ gens'[g].requestId = gens[g].requestId /\ gens'[g].status # "processing"
      /\ gens'[g].status = "completed" => gens'[g].result \in submitted'[g]
  <2>1. CASE gens' = [gens EXCEPT ![g] = Completed(gens[g], AnswerOf(x))] /\ At(x, "complete")
    <3>1. gens'[g] = Completed(gens[g], AnswerOf(x))
      BY <2>1, RowWritten DEF Base
    <3>2. AnswerOf(x) \in submitted[g]
      BY <2>1 DEF CalmAt, Busy, Undisturbed, At, AnswerOf
    <3> QED BY <1>2, <3>1, <3>2 DEF Completed, Rows
  <2>2. CASE gens' = [gens EXCEPT ![g] = Failed(gens[g])]
    <3>1. gens'[g] = Failed(gens[g])
      BY <2>2, RowWritten DEF Base
    <3> QED BY <1>2, <3>1 DEF Failed, Rows
  <2>3. CASE gens' = [gens EXCEPT ![g] = Released(gens[g])]
    <3>1. gens'[g] = Released(gens[g])
      BY <2>3, RowWritten DEF Base
    <3> QED BY <1>2, <3>1 DEF Released, Rows
  <2> QED BY <1>1, <2>1, <2>2, <2>3
<1>4. ~IsStatus(g, "processing")' /\ AnswersIssued(g)'
  BY <1>3 DEF IsStatus, AnswersIssued
<1> QED BY <1>1, <1>3, <1>4, CalmMoves

\* The request of a new row state is saved by who submitted it.
LEMMA CalmSaves ==
    ASSUME Base, NEW g \in GenIds, CalmAt(g), NEW x \in Workers, worker[x].gen = g,
           UNCHANGED <<broker, submitted>>, At(x, "save"), SaveRequest(x), Goto(x, "poll")
    PROVE  CalmAt(g)'
<1>1. /\ HoldsClaim(g, worker[x].token) /\ Exists(g) /\ UNCHANGED outbox
      /\ gens' = [gens EXCEPT ![g] = Submitted(gens[g], worker[x].provider, worker[x].request)]
  BY DEF SaveRequest, SaveProviderRequest, MaySave, HoldsClaim, IsStatus
<1>2. gens[g] \in Rows /\ gens[g].lease = "live"
  BY <1>1, RowFacts, CalmHolder DEF Base, HoldsClaim
<1>3. gens'[g] = Submitted(gens[g], worker[x].provider, worker[x].request)
  BY <1>1, RowWritten DEF Base
<1>4. /\ gens'[g].status = "processing" /\ gens'[g].lease = "live"
      /\ gens'[g].token = worker[x].token
  BY <1>1, <1>2, <1>3 DEF Submitted, Rows, HoldsClaim, IsStatus
<1>5. /\ worker'[x].pc = "poll" /\ worker'[x].gen = g /\ worker'[x].token = worker[x].token
      /\ worker'[x].provider = worker[x].provider /\ worker'[x].request = worker[x].request
  BY Going DEF Base
<1>6. ClaimsAttended(g)' /\ AnswersIssued(g)'
  BY <1>4, <1>5 DEF ClaimsAttended, AnswersIssued, IsStatus, Busy
<1>7. <<worker[x].provider, worker[x].request>> \in submitted[g]
  BY WorkerFacts DEF Tracks, At
<1>8. Undisturbed(worker[x])'
  BY <1>5, <1>7 DEF Undisturbed, NothingSaved
<1>9. Works(x, g)
  BY <1>1, WorksAlone DEF Base
<1> QED BY <1>6, <1>8, <1>9, CalmWorks

LEMMA CalmSubmits ==
    ASSUME Base, NEW g \in GenIds, CalmAt(g), NEW x \in Workers, worker[x].gen = g, Submit(x)
    PROVE  CalmAt(g)'
<1> DEFINE s == [worker[x] EXCEPT !.request = worker[x].token, !.pc = "save"]
<1>1. worker[x] \in WorkerStates /\ At(x, "submit") /\ gens[g].requestId = 0
  BY WorkerFacts, CalmUnsaved DEF Submit
<1>2. s.pc = "save" /\ s.gen = g /\ s.token = worker[x].token
  BY <1>1 DEF WorkerStates
<1>3. /\ worker'[x] = s /\ \A y \in Workers : y # x => worker'[y] = worker[y]
      /\ UNCHANGED <<gens, outbox, broker>> /\ submitted[g] \subseteq submitted'[g]
  BY DEF Submit, storeVars, Base, WorkersTypeOK
<1> HIDE DEF s
<1>4. Works(x, g)
  BY <1>3 DEF Works, SameMessages
<1>5. AnswersIssued(g)'
  BY <1>3 DEF CalmAt, AnswersIssued, IsStatus, Exists
<1>6. ClaimsAttended(g)'
  <2>1. IsStatus(g, "processing") => gens[g].lease = "live" /\ gens[g].token = worker[x].token
    BY CalmHolder DEF HoldsClaim
  <2> QED BY <1>2, <1>3, <2>1 DEF ClaimsAttended, IsStatus, Exists, Busy
<1>7. Undisturbed(worker[x])'
  BY <1>1, <1>2, <1>3 DEF Undisturbed, NothingSaved
<1> QED BY <1>4, <1>5, <1>6, <1>7, CalmWorks

\* A claim finds the row unheld; the provider it polls is the one that issued the
\* saved id, for a claim made for the fallback finds none saved.
LEMMA CalmClaims ==
    ASSUME Base, NEW g \in GenIds, CalmAt(g), NEW x \in Workers, worker[x].gen = g, Claim(x)
    PROVE  CalmAt(g)'
<1>1. CASE Finish(x) /\ ~MayClaim(g) /\ UNCHANGED storeVars
  BY <1>1, CalmRefused DEF Claim
<1>2. CASE ~ (Finish(x) /\ ~MayClaim(g) /\ UNCHANGED storeVars)
  <2> DEFINE s == [worker[x] EXCEPT !.token = gens'[g].token, !.request = gens[g].requestId,
                        !.provider = ProviderFor(x), !.pc = FirstStep(g)]
  <2>1. /\ At(x, "claim") /\ StartProcessing(g) /\ worker' = [worker EXCEPT ![x] = s]
        /\ UNCHANGED <<outbox, broker, submitted>>
    BY <1>2 DEF Claim, DropWhenRefused, Base, WorkersTypeOK, StartProcessing
  <2>2. /\ worker[x] \in WorkerStates /\ gens[g] \in Rows /\ Exists(g)
        /\ gens[g].status # "completed"
    BY <2>1, WorkerFacts, RowFacts DEF At, Base, StartProcessing, MayClaim, IsStatus
  <2>3. /\ s.pc = FirstStep(g) /\ s.gen = g /\ s.token = gens'[g].token
        /\ s.provider = ProviderFor(x) /\ s.request = gens[g].requestId
    BY <2>2 DEF WorkerStates
  <2>4. worker'[x] = s /\ \A y \in Workers : y # x => worker'[y] = worker[y]
    BY <2>1 DEF Base, WorkersTypeOK
  <2> HIDE DEF s
  <2>5. gens'[g] = Claimed(gens[g])
    BY <2>1, RowWritten DEF StartProcessing, Base
  <2>6. /\ gens'[g].status = "processing" /\ gens'[g].lease = "live"
        /\ gens'[g].requestId = gens[g].requestId
    BY <2>2, <2>5 DEF Claimed, Rows
  <2>7. Works(x, g)
    BY <2>1, <2>4 DEF Works, SameMessages
  <2>8. ClaimsAttended(g)' /\ AnswersIssued(g)'
    <3>1. worker'[x].pc \in {"submit", "poll"}
      BY <2>3, <2>4 DEF FirstStep
    <3> QED BY <2>3, <2>4, <2>6, <3>1 DEF ClaimsAttended, AnswersIssued, IsStatus, Busy
  <2>9. gens[g].requestId # 0 => <<ProviderFor(x), gens[g].requestId>> \in submitted[g]
    <3>1. ASSUME gens[g].requestId # 0
          PROVE  ProviderFor(x) = gens[g].provider
      <4>1. <<gens[g].provider, gens[g].requestId>> \in submitted[g]
        BY <2>2, <3>1 DEF Base, ResultInv, RequestsKept
      <4>2. submitted[g] \subseteq ProviderRequests
        BY DEF Base, WorkersTypeOK
      <4>3. gens[g].provider # None
        BY <4>1, <4>2, WorkersAssumption DEF ProviderRequests
      <4>4. ~worker[x].failover
        BY <2>1, <3>1 DEF CalmAt, Busy, Undisturbed, NothingSaved, At
      <4> QED BY <4>3, <4>4 DEF ProviderFor
    <3> QED BY <2>2, <3>1 DEF Base, ResultInv, RequestsKept
  <2>10. Undisturbed(worker[x])'
    <3>1. FirstStep(g) = "submit" => gens[g].requestId = 0
      BY DEF FirstStep
    <3>2. FirstStep(g) = "poll" => gens[g].requestId # 0
      BY DEF FirstStep
    <3>3. FirstStep(g) \in {"submit", "poll"}
      BY DEF FirstStep
    <3> QED BY <2>1, <2>3, <2>4, <2>6, <2>9, <3>1, <3>2, <3>3 DEF Undisturbed, NothingSaved
  <2> QED BY <2>7, <2>8, <2>10, CalmWorks
<1> QED BY <1>1, <1>2

\* The row goes back to the queue for the fallback, with nothing saved.
LEMMA CalmSwitches ==
    ASSUME Base, NEW g \in GenIds, CalmAt(g), NEW x \in Workers, worker[x].gen = g,
           At(x, "switch"), Requeue(g, worker[x].token), UNCHANGED <<broker, submitted>>,
           worker' = [worker EXCEPT ![x].pc = "claim", ![x].failover = TRUE]
    PROVE  CalmAt(g)'
<1> DEFINE s == [worker[x] EXCEPT !.pc = "claim", !.failover = TRUE]
<1>1. worker[x] \in WorkerStates /\ gens[g] \in Rows /\ gens[g].requestId = 0
  BY WorkerFacts, RowFacts, CalmUnsaved DEF Requeue, HoldsClaim, IsStatus, Base
<1>2. s.pc = "claim" /\ s.gen = g
  BY <1>1 DEF WorkerStates
<1>3. worker'[x] = s /\ \A y \in Workers : y # x => worker'[y] = worker[y]
  BY DEF Base, WorkersTypeOK
<1> HIDE DEF s
<1>4. gens'[g] = Released(gens[g]) /\ UNCHANGED outbox
  BY RowWritten DEF Requeue, Base
<1>5. gens'[g].status = "queued" /\ gens'[g].requestId = 0
  BY <1>1, <1>4 DEF Released, Rows
<1>6. Works(x, g)
  BY <1>3, <1>4 DEF Works, SameMessages
<1>7. ClaimsAttended(g)' /\ AnswersIssued(g)'
  BY <1>5 DEF ClaimsAttended, AnswersIssued, IsStatus
<1>8. Undisturbed(worker[x])'
  BY <1>2, <1>3, <1>5 DEF Undisturbed
<1> QED BY <1>6, <1>7, <1>8, CalmWorks

\* What is in the broker after a message of g is added to it or taken from it.
LEMMA MessageCounts ==
    ASSUME Base, NEW g \in GenIds, NEW r \in 0 .. MaxRetries, NEW n,
           broker' = [broker EXCEPT ![<<g, r>>] = n]
    PROVE  /\ broker'[<<g, r>>] = n /\ broker[<<g, r>>] \in Nat
           /\ \A q \in 0 .. MaxRetries : q # r => broker'[<<g, q>>] = broker[<<g, q>>]
<1>1. <<g, r>> \in Messages /\ \A q \in 0 .. MaxRetries : <<g, q>> \in Messages
  BY DEF Messages
<1>2. broker \in [Messages -> 0 .. MaxCopies]
  BY DEF Base, WorkersTypeOK
<1>3. broker[<<g, r>>] \in Nat
  BY <1>1, <1>2, WorkersAssumption
<1> QED BY <1>1, <1>2, <1>3

\* The one message there is goes to the one worker there is.
LEMMA CalmReceives ==
    ASSUME Base, NEW g \in GenIds, CalmAt(g), NEW x \in Workers, NEW r \in 0 .. MaxRetries,
           Receive(x, g, r)
    PROVE  CalmAt(g)'
<1> DEFINE s == [Idle EXCEPT !.pc = "claim", !.gen = g, !.retries = r]
<1>1. s.pc = "claim" /\ s.gen = g /\ s.failover = FALSE
  BY DEF Idle
<1>2. /\ worker'[x] = s /\ \A y \in Workers : y # x => worker'[y] = worker[y]
      /\ UNCHANGED <<gens, outbox, submitted>>
      /\ Queues(g, r) /\ broker' = [broker EXCEPT ![<<g, r>>] = broker[<<g, r>>] - 1]
  BY DEF Receive, storeVars, Base, WorkersTypeOK, Queues
<1> HIDE DEF s
<1>3. /\ outbox[g] # "pending" /\ broker[<<g, r>>] = 1
      /\ \A q \in 0 .. MaxRetries : Queues(g, q) => q = r
      /\ \A w \in Workers : ~Busy(w, g)
  BY <1>2 DEF CalmAt, InOneHand
<1>4. \A q \in 0 .. MaxRetries : ~Queues(g, q)'
  <2>1. broker'[<<g, r>>] = 0
    <3>1. <<g, r>> \in Messages
      BY DEF Messages
    <3>2. broker'[<<g, r>>] = broker[<<g, r>>] - 1
      BY <1>2, <3>1 DEF Base, WorkersTypeOK
    <3> QED BY <1>3, <3>2
  <2>2. \A q \in 0 .. MaxRetries : q # r => ~Queues(g, q)'
    BY <1>2, <1>3, MessageCounts DEF Queues
  <2> QED BY <2>1, <2>2 DEF Queues
<1>5. \A w \in Workers : Busy(w, g)' => w = x
  BY <1>2, <1>3 DEF Busy
<1>6. InOneHand(g)'
  BY <1>2, <1>3, <1>4, <1>5 DEF InOneHand
<1>7. ~IsStatus(g, "processing")'
  BY <1>2, <1>3 DEF CalmAt, ClaimsAttended, IsStatus, Exists
<1>8. AnswersIssued(g)'
  BY <1>2 DEF CalmAt, AnswersIssued, IsStatus, Exists
<1>9. Undisturbed(worker[x])'
  BY <1>1, <1>2 DEF Undisturbed, NothingSaved
<1> QED BY <1>5, <1>6, <1>7, <1>8, <1>9 DEF CalmAt, ClaimsAttended, Busy

\* A message of g that nobody works on, about a row nobody processes.
LEMMA CalmEnqueues ==
    ASSUME Base, NEW g \in GenIds, NEW r \in 0 .. MaxRetries, Enqueue(g, r),
           \A q \in 0 .. MaxRetries : ~Queues(g, q),
           \A w \in Workers : ~Busy(w, g)',
           outbox'[g] # "pending", ~IsStatus(g, "processing")', AnswersIssued(g)'
    PROVE  CalmAt(g)'
<1>1. broker' = [broker EXCEPT ![<<g, r>>] = broker[<<g, r>>] + 1]
  BY DEF Enqueue
<1>2. \A q \in 0 .. MaxRetries : q # r => ~Queues(g, q)'
  BY <1>1, MessageCounts DEF Queues
<1>3. broker'[<<g, r>>] = 1
  <2>0. <<g, r>> \in Messages
    BY DEF Messages
  <2>1. broker'[<<g, r>>] = broker[<<g, r>>] + 1 /\ broker[<<g, r>>] \in Nat
    BY <1>1, <2>0, WorkersAssumption DEF Base, WorkersTypeOK
  <2> QED BY <2>1 DEF Queues
<1>4. InOneHand(g)'
  BY <1>2, <1>3 DEF InOneHand
<1> QED BY <1>4 DEF CalmAt, ClaimsAttended

LEMMA CalmPublishes ==
    ASSUME Base, NEW g \in GenIds, CalmAt(g), NEW x \in Workers, worker[x].gen = g,
           PublishRetry(x)
    PROVE  CalmAt(g)'
<1> DEFINE r == NextRetries(x)
<1>1. At(x, "publish") /\ Enqueue(g, r) /\ Finish(x) /\ UNCHANGED <<gens, outbox, submitted>>
  BY DEF PublishRetry, storeVars
<1>2. r \in 0 .. MaxRetries
  <2>1. worker[x].retries \in Nat /\ worker[x].retries < MaxRetries
    BY <1>1, WorkerFacts, WorkersAssumption DEF At, Fits, WorkerStates
  <2> QED BY <2>1, WorkersAssumption DEF NextRetries
<1>3. outbox[g] # "pending" /\ \A q \in 0 .. MaxRetries : ~Queues(g, q)
  BY <1>2 DEF CalmAt, InOneHand, Busy
<1>4. \A w \in Workers : ~Busy(w, g)'
  BY <1>1, Gone DEF CalmAt, InOneHand, Busy, Base
<1>5. ~IsStatus(g, "processing")'
  BY <1>1, CalmHolder DEF At, IsStatus, Exists
<1>6. AnswersIssued(g)'
  BY <1>1 DEF CalmAt, AnswersIssued, IsStatus, Exists
<1> HIDE DEF r
<1> QED BY <1>1, <1>2, <1>3, <1>4, <1>5, <1>6, CalmEnqueues

LEMMA CalmWorker ==
    ASSUME Base, WorkersTypeOK', NEW x \in Workers, WorkerDoes(x), NEW g \in GenIds, CalmAt(g)
    PROVE  CalmAt(g)'
<1> DEFINE t == worker[x].token
<1>1. CASE worker[x].gen # g /\ worker'[x].gen # g
  <2>1. submitted[g] \subseteq submitted'[g]
    BY DEF WorkerDoes, Receive, Claim, Submit, Save, Poll, Finalize, ProviderError, RequeueRow,
           PublishRetry, ReadRequestId, Switch, Fail, Base, WorkersTypeOK
  <2> QED BY <1>1, <2>1, WorksElsewhere, CalmElsewhere
<1>2. CASE worker[x].gen # g /\ worker'[x].gen = g
  <2>1. worker'[x].pc # "idle"
    BY <1>2, WorkersAssumption DEF WorkersTypeOK, Fits
  <2>2. At(x, "idle")
    BY <1>2, <2>1, WorkerStepMoves DEF Moved, Base
  <2>3. PICK h \in GenIds, r \in 0 .. MaxRetries : Receive(x, h, r)
    BY <2>2 DEF WorkerDoes, Claim, Submit, Save, Poll, Finalize, ProviderError, RequeueRow,
                PublishRetry, ReadRequestId, Switch, Fail, At
  <2>4. worker'[x].gen = h
    <3> DEFINE s == [Idle EXCEPT !.pc = "claim", !.gen = h, !.retries = r]
    <3>1. s.gen = h
      BY DEF Idle
    <3>2. worker'[x] = s
      BY <2>3 DEF Receive, Base, WorkersTypeOK
    <3> HIDE DEF s
    <3> QED BY <3>1, <3>2
  <2> QED BY <1>2, <2>3, <2>4, CalmReceives
<1>3. CASE worker[x].gen = g
  <2>0. ~At(x, "idle")
    BY <1>3, WorkerFacts
  <2>1. CASE Claim(x) \/ Submit(x) \/ PublishRetry(x)
    BY <1>3, <2>1, CalmClaims, CalmSubmits, CalmPublishes
  <2>2. CASE Save(x)
    BY <1>3, <2>2, CalmSaves, CalmRefused DEF Save, SaveRequest, SaveProviderRequest, storeVars
  <2>3. CASE Finalize(x) \/ Fail(x)
    BY <1>3, <2>3, CalmSettles, CalmRefused DEF Finalize, Fail, storeVars
  <2>4. CASE Poll(x)
    BY <1>3, <2>4, CalmMoves DEF Poll, storeVars
  <2>5. CASE ProviderError(x)
    BY <1>3, <2>5, AfterErrorSteps, CalmMoves DEF ProviderError, storeVars
  <2>6. CASE RequeueRow(x)
    <3>1. CASE Requeue(g, t)
      BY <1>3, <2>6, <3>1, CalmSettles DEF RequeueRow
    <3>2. CASE ~HoldsClaim(g, t) /\ UNCHANGED storeVars
      <4>1. ~IsStatus(g, "processing")'
        BY <1>3, <3>2, CalmHolder DEF storeVars, IsStatus, Exists
      <4> QED BY <1>3, <2>6, <3>2, <4>1, CalmMoves DEF RequeueRow, storeVars
    <3> QED BY <1>3, <2>6, <3>1, <3>2 DEF RequeueRow
  <2>7. CASE ReadRequestId(x)
    BY <1>3, <2>7, CalmMoves DEF ReadRequestId, storeVars
  <2>8. CASE Switch(x)
    <3>1. CASE Goto(x, "giveUp") /\ UNCHANGED storeVars
      BY <1>3, <2>8, <3>1, CalmMoves DEF Switch, storeVars
    <3> QED BY <1>3, <2>8, <3>1, CalmSwitches DEF Switch
  <2>9. ~ \E h \in GenIds, r \in 0 .. MaxRetries : Receive(x, h, r)
    BY <2>0 DEF Receive
  <2> QED BY <2>1, <2>2, <2>3, <2>4, <2>5, <2>6, <2>7, <2>8, <2>9 DEF WorkerDoes
<1> QED BY <1>1, <1>2, <1>3

\* The outbox job sends the one message there is to be.
LEMMA CalmDispatches ==
    ASSUME Base, NEW h \in GenIds, DispatchEvent(h), NEW g \in GenIds, CalmAt(g)
    PROVE  CalmAt(g)'
<1> DEFINE row == IF IsStatus(h, "created") THEN Queued(gens[h]) ELSE gens[h]
<1>1. /\ gens' = [gens EXCEPT ![h] = row] /\ Enqueue(h, 0) /\ UNCHANGED <<worker, submitted>>
      /\ outbox[h] = "pending" /\ outbox' = [outbox EXCEPT ![h] = "processed"]
  BY DEF DispatchEvent, DispatchOutbox
<1>2. 0 \in 0 .. MaxRetries
  BY RoundFacts
<1>3. gens'[h] = row /\ (g # h => gens'[g] = gens[g])
  BY <1>1, RowWritten DEF Base
<1>4. CASE g # h
  <2>1. outbox'[g] = outbox[g]
    BY <1>1, <1>4 DEF Base, StoreInv, StoreTypeOK
  <2>2. SameMessages(g)
    BY <1>1, <1>2, <1>4, EnqueuesElsewhere DEF Enqueue, Base
  <2> QED BY <1>1, <1>3, <1>4, <2>1, <2>2, CalmElsewhere
<1>5. CASE g = h
  <2>1. /\ \A q \in 0 .. MaxRetries : ~Queues(g, q)
        /\ \A w \in Workers : ~Busy(w, g) /\ ~Busy(w, g)'
    BY <1>1, <1>2, <1>5 DEF CalmAt, InOneHand, Busy
  <2>2. outbox'[g] = "processed"
    BY <1>1, <1>5 DEF Base, StoreInv, StoreTypeOK
  <2>3. ~IsStatus(g, "processing")
    BY <2>1 DEF CalmAt, ClaimsAttended
  <2>4. ~IsStatus(g, "processing")' /\ AnswersIssued(g)'
    <3>1. CASE IsStatus(g, "created")
      <4>1. gens'[g].status = "queued"
        BY <1>3, <1>5, <3>1, RowFacts, AttemptsOfRows DEF IsStatus, Base
      <4> QED BY <4>1 DEF IsStatus, AnswersIssued
    <3>2. CASE ~IsStatus(g, "created")
      <4>1. gens'[g] = gens[g]
        BY <1>3, <1>5, <3>2
      <4> QED BY <1>1, <2>3, <4>1 DEF CalmAt, IsStatus, AnswersIssued, Exists
    <3> QED BY <3>1, <3>2
  <2> QED BY <1>1, <1>2, <1>5, <2>1, <2>2, <2>4, CalmEnqueues
<1> QED BY <1>4, <1>5

\* A row that grows old, or that recovery gives back to the outbox, is nobody's.
LEMMA CalmAges ==
    ASSUME Base, NEW h \in GenIds, GoStale(h), NEW g \in GenIds, CalmAt(g)
    PROVE  CalmAt(g)'
<1>1. /\ UNCHANGED <<worker, broker, outbox, submitted>> /\ IsStatus(h, "queued")
      /\ gens' = [gens EXCEPT ![h] = Aged(gens[h])]
  BY DEF GoStale, QueuedGoesStale, taskVars
<1>2. gens'[h] = Aged(gens[h]) /\ (g # h => gens'[g] = gens[g])
  BY <1>1, RowWritten DEF Base
<1>3. CASE g # h
  BY <1>1, <1>2, <1>3, CalmElsewhere DEF SameMessages
<1>4. CASE g = h
  <2>1. gens'[g].status = "queued" /\ gens'[g].requestId = gens[g].requestId
    BY <1>1, <1>2, <1>4, RowFacts, AttemptsOfRows, RequestsOfRows DEF IsStatus, Base
  <2>2. ClaimsAttended(g)' /\ AnswersIssued(g)'
    BY <2>1 DEF ClaimsAttended, AnswersIssued, IsStatus
  <2>3. InOneHand(g)'
    BY <1>1 DEF CalmAt, InOneHand, Busy, Queues
  <2>4. ASSUME NEW w \in Workers, Busy(w, g)'
        PROVE  Undisturbed(worker[w])'
    <3>1. worker'[w] = worker[w] /\ worker[w].gen = g /\ Undisturbed(worker[w])
      BY <1>1, <2>4 DEF CalmAt, Busy
    <3> QED BY <1>1, <2>1, <3>1 DEF Undisturbed
  <2> QED BY <2>2, <2>3, <2>4 DEF CalmAt
<1> QED BY <1>3, <1>4

LEMMA CalmRecovers ==
    ASSUME Base, NEW S \in SUBSET StaleGens, Recover(S), faults \in Nat, faults' = faults,
           NEW g \in GenIds, CalmAt(g)
    PROVE  CalmAt(g)'
<1>1. /\ UNCHANGED <<worker, broker, submitted>>
      /\ gens'[g] = IF g \in S /\ IsStatus(g, "processing") THEN Released(gens[g]) ELSE gens[g]
      /\ outbox'[g] = IF g \in S THEN "pending" ELSE outbox[g]
  BY DEF Recover, RecoverStale
<1>2. CASE g \notin S
  BY <1>1, <1>2, CalmElsewhere DEF SameMessages
<1>3. CASE g \in S
  <2>1. IsStatus(g, "queued")
    BY <1>3 DEF StaleGens, CalmAt, ClaimsAttended
  <2>2. ~InHand(g)
    BY <1>3, <2>1 DEF Recover, Fault
  <2>3. gens'[g] = gens[g]
    BY <1>1, <2>1 DEF IsStatus
  <2>4. /\ \A q \in 0 .. MaxRetries : ~Queues(g, q)'
        /\ \A w \in Workers : ~Busy(w, g)'
    BY <1>1, <2>2 DEF InHand, Queues, Busy
  <2>5. InOneHand(g)'
    BY <2>4 DEF InOneHand
  <2>6. ClaimsAttended(g)' /\ AnswersIssued(g)'
    BY <2>1, <2>3 DEF ClaimsAttended, AnswersIssued, IsStatus
  <2> QED BY <2>4, <2>5, <2>6 DEF CalmAt
<1> QED BY <1>2, <1>3

\* A lease that runs out without a fault would be one that nobody attends to.
LEMMA CalmJobs ==
    ASSUME Base, JobsDo, faults \in Nat, faults' = faults, \A h \in GenIds : CalmAt(h),
           NEW g \in GenIds
    PROVE  CalmAt(g)'
<1>1. ASSUME NEW h \in GenIds, ExpireLease(h)
      PROVE  FALSE
  <2>1. Attended(h)
    BY <1>1 DEF ExpireLease, LeaseExpires, CalmAt, ClaimsAttended, Attended, Busy
  <2> QED BY <1>1, <2>1 DEF ExpireLease, Fault
<1> QED BY <1>1, CalmDispatches, CalmAges, CalmRecovers DEF JobsDo

LEMMA CalmClients ==
    ASSUME Base, ClientsDo, NEW g \in GenIds, CalmAt(g)
    PROVE  CalmAt(g)'
<1>1. UNCHANGED <<worker, broker, submitted>>
  BY DEF ClientsDo, taskVars
<1>2. ASSUME NEW h \in GenIds, NEW u \in Users, NEW k \in Keys, NEW r \in Requests,
             NEW c \in Costs, CreateAndCharge(h, u, k, r, c)
      PROVE  CalmAt(g)'
  <2>1. CASE g # h
    <3>1. gens'[g] = gens[g] /\ outbox'[g] = outbox[g]
      BY <1>2, <2>1 DEF CreateAndCharge, Base, StoreInv, StoreTypeOK
    <3> QED BY <1>1, <3>1, CalmElsewhere DEF SameMessages
  <2>2. CASE g = h
    <3>1. ~Exists(g) /\ gens'[g] = NewRow(u, k, r, c)
      BY <1>2, <2>2 DEF CreateAndCharge, Base, StoreInv, StoreTypeOK
    <3>2. \A w \in Workers : ~Busy(w, g)'
      BY <1>1, <3>1, WorkerFacts DEF Busy
    <3>3. \A q \in 0 .. MaxRetries : ~Queues(g, q)'
      <4>1. ASSUME NEW q \in 0 .. MaxRetries PROVE ~Queues(g, q)
        <5>1. <<g, q>> \in Messages /\ <<g, q>>[1] = g
          BY DEF Messages
        <5> QED BY <3>1, <5>1 DEF Base, ResultInv, MessagesExist, Queues
      <4> QED BY <1>1, <4>1 DEF Queues
    <3>4. gens'[g].status = "created"
      BY <3>1 DEF NewRow
    <3>5. InOneHand(g)' /\ ClaimsAttended(g)' /\ AnswersIssued(g)'
      BY <3>2, <3>3, <3>4 DEF InOneHand, ClaimsAttended, AnswersIssued, IsStatus
    <3> QED BY <3>2, <3>5 DEF CalmAt
  <2> QED BY <2>1, <2>2
<1>3. ASSUME NEW u \in Users, RegisterUser(u) \/ \E p \in PaymentIds, a \in Amounts :
                                                    ApplyCredit(p, u, a)
      PROVE  CalmAt(g)'
  <2>1. UNCHANGED <<gens, outbox>>
    BY <1>3 DEF RegisterUser, ApplyCredit
  <2> QED BY <1>1, <2>1, CalmElsewhere DEF SameMessages
<1> QED BY <1>2, <1>3 DEF ClientsDo, ClientStep

LEMMA CalmStep ==
    ASSUME Base, WorkersTypeOK', CalmInv, [WorkersNext]_vars
    PROVE  CalmInv'
<1>1. faults \in Nat /\ faults' \in {faults, faults + 1}
  BY FaultsCount
<1>2. CASE faults' # 0
  BY <1>2 DEF CalmInv
<1>3. CASE faults' = 0
  <2>1. faults = 0 /\ faults' = faults
    BY <1>1, <1>3
  <2>2. \A g \in GenIds : CalmAt(g)
    BY <2>1, CalmEverywhere DEF Base
  <2>3. ~FaultsDo
    BY <2>1 DEF FaultsDo, Redeliver, TaskError, WriteError, AnswerLost, DispatchAborts,
                LoseMessage, Fault
  <2>4. ASSUME NEW g \in GenIds
        PROVE  CalmAt(g)'
    <3>1. CASE UNCHANGED vars
      BY <2>2, <3>1, CalmElsewhere DEF vars, storeVars, taskVars, SameMessages
    <3> QED BY <1>1, <2>1, <2>2, <2>3, <3>1, CalmWorker, CalmJobs, CalmClients DEF WorkersNext
  <2> QED BY <2>4, CalmEverywhereNext
<1> QED BY <1>2, <1>3

LEMMA CalmInit == ASSUME WorkersInit PROVE CalmInv
<1>1. /\ \A w \in Workers : worker[w].gen = None /\ worker[w].pc = "idle"
      /\ \A g \in GenIds : ~Exists(g)
      /\ \A g \in GenIds, r \in 0 .. MaxRetries : broker[<<g, r>>] = 0
  BY DEF WorkersInit, StoreInit, Exists, Idle, Messages
<1>2. ASSUME NEW g \in GenIds
      PROVE  InOneHand(g) /\ ClaimsAttended(g) /\ AnswersIssued(g)
  <2>1. g # None
    BY WorkersAssumption
  <2> QED BY <1>1, <2>1
             DEF InOneHand, ClaimsAttended, AnswersIssued, Busy, Queues, IsStatus
<1> QED BY <1>1, <1>2 DEF CalmInv, Undisturbed, NothingSaved

\* For all constants: the result of a completed generation is what a provider said of
\* the request whose id the row keeps; that provider issued the id, unless there was a
\* fault, when it may be the fallback, asked about an id it never issued.
THEOREM ResultsAreSaved == WorkersSpec => []ResultFromSavedRequest
<1>1. WorkersInit => CalmInv
  BY CalmInit
<1>2. Base /\ CalmInv /\ [WorkersNext]_vars /\ Base' => CalmInv'
  BY CalmStep DEF Base
<1>3. Base /\ CalmInv => ResultFromSavedRequest
  <2> SUFFICES ASSUME Base, CalmInv, NEW g \in GenIds, IsStatus(g, "completed")
               PROVE  LET answer == gens[g].result IN
                      /\ answer[2] = gens[g].requestId
                      /\ \/ answer \in submitted[g]
                         \/ /\ faults > 0 /\ answer[1] = Fallback
                            /\ \E p \in Providers : <<p, answer[2]>> \in submitted[g]
    BY DEF ResultFromSavedRequest
  <2> DEFINE answer == gens[g].result
  <2>1. gens[g] \in Rows /\ answer # None
    BY RowFacts DEF IsStatus, Base, StoreInv, SettlementCoherence
  <2>2. answer \in ProviderRequests /\ answer = <<answer[1], answer[2]>>
    BY <2>1 DEF Rows, ProviderRequests
  <2>3. answer[2] = gens[g].requestId /\ AnswerFits(g, answer[1], answer[2])
    BY DEF Base, ResultInv, RequestsKept, IsStatus
  <2>4. faults \in Nat
    BY WorkersAssumption DEF Base, WorkersTypeOK
  <2>5. CASE faults = 0
    <3>1. answer \in submitted[g]
      BY <2>5 DEF CalmInv, AnswersIssued
    <3> QED BY <2>3, <3>1
  <2>6. CASE faults > 0
    BY <2>2, <2>3, <2>6 DEF AnswerFits
  <2> QED BY <2>4, <2>5, <2>6
<1> QED BY <1>1, <1>2, <1>3, ClaimsHold, PTL DEF WorkersSpec

=============================================================================
