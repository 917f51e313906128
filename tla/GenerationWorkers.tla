-------------------------- MODULE GenerationWorkers --------------------------
(***************************************************************************)
(* The Celery task generation.process over the tables of GenerationStore:  *)
(* workers that claim a generation, submit it to a provider, poll, settle, *)
(* requeue or fail over; the Redis broker between them; the outbox and     *)
(* recovery jobs; and what can go wrong around all of these.               *)
(*                                                                         *)
(* A worker's step is the code between two commits or two remote calls.    *)
(* The message a worker holds is acknowledged when its task ends           *)
(* (acks_late), so a worker that dies gives it back.                       *)
(***************************************************************************)
EXTENDS GenerationStore

CONSTANTS
    Workers,    \* worker processes (prefetch 1: one message each)
    Primary,    \* settings.generation_provider
    Fallback,   \* settings.fallback_generation_provider; Primary: no failover
    MaxRetries, \* max_retries of the task
    MaxCopies,  \* bound: copies of one message in the broker
    MaxFaults   \* bound: faults in a behaviour

ASSUME WorkersAssumption ==
    /\ Primary \in Providers /\ Fallback \in Providers
    /\ MaxRetries \in Nat /\ MaxCopies \in Nat \ {0} /\ MaxFaults \in Nat
    /\ IsFiniteSet(Workers) /\ IsFiniteSet(Providers)
    /\ None \notin Providers /\ None \notin GenIds

VARIABLES
    worker,    \* what each worker is doing, with its snapshot of the row
    broker,    \* copies of each message <<generation, request.retries>>
    submitted, \* submitted[g]: the requests to which a provider gave an id
    unanswered, \* unanswered[g]: requests accepted whose answer was lost
    faults     \* faults so far

taskVars == <<worker, broker, submitted, unanswered, faults>>
vars == <<storeVars, taskVars>>

Messages == GenIds \X (0 .. MaxRetries)

Steps == {"idle", "claim", "submit", "save", "poll", "complete", "requeue",
          "publish", "failover", "switch", "giveUp", "fail"}

Idle == [pc |-> "idle", gen |-> None, retries |-> 0, token |-> 0,
         provider |-> None, request |-> 0, failover |-> FALSE]

WorkersInit ==
    /\ StoreInit
    /\ worker = [w \in Workers |-> Idle]
    /\ broker = [m \in Messages |-> 0]
    /\ submitted = [g \in GenIds |-> {}]
    /\ unanswered = [g \in GenIds |-> 0]
    /\ faults = 0

At(w, step) == worker[w].pc = step
Goto(w, step) == worker' = [worker EXCEPT ![w].pc = step]
Finish(w) == worker' = [worker EXCEPT ![w] = Idle]

Enqueue(g, r) ==
    /\ broker[<<g, r>>] < MaxCopies
    /\ broker' = [broker EXCEPT ![<<g, r>>] = @ + 1]

Fault == faults < MaxFaults /\ faults' = faults + 1

-----------------------------------------------------------------------------
\* process_generation_once

Receive(w, g, r) ==
    /\ At(w, "idle")
    /\ broker[<<g, r>>] > 0
    /\ broker' = [broker EXCEPT ![<<g, r>>] = @ - 1]
    /\ worker' = [worker EXCEPT ![w] =
                     [Idle EXCEPT !.pc = "claim", !.gen = g, !.retries = r]]
    /\ UNCHANGED <<storeVars, submitted, unanswered, faults>>

\* mutant of ProviderFor: the provider that issued the saved id is forgotten
ProviderFromSettings(w) == IF worker[w].failover THEN Fallback ELSE Primary

\* The provider is the one forced by failover, else the row's, else the default.
ProviderFor(w) ==
    IF worker[w].failover THEN Fallback
    ELSE IF gens[worker[w].gen].provider = None THEN Primary
    ELSE gens[worker[w].gen].provider

AlwaysPoll(g) == "poll"                \* mutants of FirstStep: nothing is submitted,
AlwaysSubmit(g) == "submit"            \* or the saved request is ignored
FirstStep(g) == IF gens[g].requestId = 0 THEN "submit" ELSE "poll"

RetryWhenRefused(w) == Goto(w, "publish")   \* mutant of DropWhenRefused
DropWhenRefused(w) == Finish(w)

Claim(w) ==
    LET g == worker[w].gen
    IN  /\ At(w, "claim")
        /\ \/ /\ StartProcessing(g)
              /\ worker' = [worker EXCEPT
                    ![w].token = gens'[g].token, ![w].request = gens[g].requestId,
                    ![w].provider = ProviderFor(w),
                    ![w].pc = FirstStep(g)]
           \/ /\ ~MayClaim(g)
              /\ DropWhenRefused(w)
              /\ UNCHANGED storeVars
        /\ UNCHANGED <<broker, submitted, unanswered, faults>>

Submit(w) ==
    LET g == worker[w].gen
    IN  /\ At(w, "submit")
        /\ submitted' = [submitted EXCEPT
              ![g] = @ \cup {<<worker[w].provider, worker[w].token>>}]
        /\ worker' = [worker EXCEPT ![w].request = worker[w].token, ![w].pc = "save"]
        /\ UNCHANGED <<storeVars, broker, unanswered, faults>>

SaveRequest(w) ==
    SaveProviderRequest(worker[w].gen, worker[w].token, worker[w].provider, worker[w].request)

Save(w) ==
    /\ At(w, "save")
    /\ \/ SaveRequest(w) /\ Goto(w, "poll")
       \/ /\ ~MaySave(worker[w].gen, worker[w].token)
          /\ Finish(w)
          /\ UNCHANGED storeVars
    /\ UNCHANGED <<broker, submitted, unanswered, faults>>

\* get_result: the selected provider is asked about the id at hand, and what it
\* says is taken as it comes.  A provider that never issued the id may fail
\* (ProviderError) or answer with data of its own, as fake does for any id.
AnswerOf(w) == <<worker[w].provider, worker[w].request>>

Poll(w) ==
    /\ At(w, "poll")
    /\ Goto(w, "complete")
    /\ UNCHANGED <<storeVars, broker, submitted, unanswered, faults>>

CompleteRow(w) == Complete(worker[w].gen, worker[w].token, AnswerOf(w))

Finalize(w) ==
    /\ At(w, "complete")
    /\ \/ CompleteRow(w)
       \/ ~HoldsClaim(worker[w].gen, worker[w].token) /\ UNCHANGED storeVars
    /\ Finish(w)
    /\ UNCHANGED <<broker, submitted, unanswered, faults>>

-----------------------------------------------------------------------------
\* The error handlers of process_generation and _try_failover

\* mutant of MayRetry: one retry is never made
OneRetryLess(w) == ~worker[w].failover /\ worker[w].retries + 1 < MaxRetries
MayRetry(w) == ~worker[w].failover /\ worker[w].retries < MaxRetries

\* "fail" refunds because the error was permanent, "giveUp" because there is
\* nothing left to try; both are the same fail_and_refund.
AfterError(w, kind) ==
    IF kind = "permanent" THEN "fail"
    ELSE IF MayRetry(w) THEN "requeue"
    ELSE IF ~worker[w].failover /\ kind = "temporary" /\ Fallback # Primary
    THEN "failover"
    ELSE "giveUp"

ProviderError(w) ==
    /\ At(w, "submit") \/ At(w, "poll")
    /\ \E kind \in {"temporary", "permanent", "unexpected"} :
          Goto(w, AfterError(w, kind))
    /\ UNCHANGED <<storeVars, broker, submitted, unanswered, faults>>

\* Whether or not the row was requeued, the retry is published next.
RequeueRow(w) ==
    /\ At(w, "requeue")
    /\ \/ Requeue(worker[w].gen, worker[w].token)
       \/ ~HoldsClaim(worker[w].gen, worker[w].token) /\ UNCHANGED storeVars
    /\ Goto(w, "publish")
    /\ UNCHANGED <<broker, submitted, unanswered, faults>>

SameRetries(w) == worker[w].retries    \* mutant of NextRetries: never counted
NextRetries(w) == worker[w].retries + 1

PublishRetry(w) ==
    /\ At(w, "publish")
    /\ Enqueue(worker[w].gen, NextRetries(w))
    /\ Finish(w)
    /\ UNCHANGED <<storeVars, submitted, unanswered, faults>>

ReadRequestId(w) ==
    /\ At(w, "failover")
    /\ Goto(w, IF gens[worker[w].gen].requestId = 0 THEN "switch" ELSE "giveUp")
    /\ UNCHANGED <<storeVars, broker, submitted, unanswered, faults>>

\* The requeue of _try_failover; the row is then claimed anew for the fallback.
Switch(w) ==
    /\ At(w, "switch")
    /\ \/ /\ Requeue(worker[w].gen, worker[w].token)
          /\ worker' = [worker EXCEPT ![w].pc = "claim", ![w].failover = TRUE]
       \/ /\ ~HoldsClaim(worker[w].gen, worker[w].token)
          /\ Goto(w, "giveUp")
          /\ UNCHANGED storeVars
    /\ UNCHANGED <<broker, submitted, unanswered, faults>>

Fail(w) ==
    /\ At(w, "fail") \/ At(w, "giveUp")
    /\ \/ FailAndRefund(worker[w].gen, worker[w].token)
       \/ ~MayFail(worker[w].gen, worker[w].token) /\ UNCHANGED storeVars
    /\ Finish(w)
    /\ UNCHANGED <<broker, submitted, unanswered, faults>>

-----------------------------------------------------------------------------
\* The periodic jobs and the clock.  A timeout that fires on work somebody is
\* still doing, or on a message that still waits, counts as a fault.

DispatchEvent(g) ==
    /\ DispatchOutbox(g)
    /\ Enqueue(g, 0)
    /\ UNCHANGED <<worker, submitted, unanswered, faults>>

\* What counts as a fault: no code asks this, it only tells a timeout that fires
\* as it should from one that fires on work in progress.
Attended(g) == \E w \in Workers : worker[w].gen = g /\ worker[w].token = gens[g].token

InHand(g) ==
    \/ outbox[g] = "pending"
    \/ \E w \in Workers : worker[w].gen = g
    \/ \E r \in 0 .. MaxRetries : broker[<<g, r>>] > 0

Recover(S) ==
    /\ RecoverStale(S)
    /\ IF \E g \in S : IsStatus(g, "queued") /\ InHand(g)
       THEN Fault ELSE UNCHANGED faults
    /\ UNCHANGED <<worker, broker, submitted, unanswered>>

ExpireLease(g) ==
    /\ LeaseExpires(g)
    /\ IF Attended(g) THEN Fault ELSE UNCHANGED faults
    /\ UNCHANGED <<worker, broker, submitted, unanswered>>

GoStale(g) == QueuedGoesStale(g) /\ UNCHANGED taskVars

-----------------------------------------------------------------------------
\* Faults

\* A worker dies, or the broker gives its message to somebody else as well
\* (visibility timeout): the message is delivered again.
Redeliver(w) ==
    /\ ~At(w, "idle")
    /\ Fault
    /\ Enqueue(worker[w].gen, worker[w].retries)
    /\ Finish(w) \/ UNCHANGED worker
    /\ UNCHANGED <<storeVars, submitted, unanswered>>

LoseMessage(g, r) ==
    /\ Fault
    /\ broker[<<g, r>>] > 0
    /\ broker' = [broker EXCEPT ![<<g, r>>] = @ - 1]
    /\ UNCHANGED <<storeVars, worker, submitted, unanswered>>

\* A database or broker call outside the handlers fails: the task ends, its
\* message is acknowledged, and a claim may have been committed all the same.
TaskError(w) ==
    /\ worker[w].pc \in {"claim", "requeue", "publish", "failover", "switch",
                          "giveUp", "fail"}
    /\ Fault
    /\ \/ At(w, "claim") /\ StartProcessing(worker[w].gen)
       \/ UNCHANGED storeVars
    /\ Finish(w)
    /\ UNCHANGED <<broker, submitted, unanswered>>

\* The same inside the handlers: an unexpected error of a claimed generation,
\* after the write was committed or before.
WriteError(w) ==
    /\ Fault
    /\ \/ At(w, "save") /\ SaveRequest(w)
       \/ At(w, "complete") /\ CompleteRow(w)
       \/ (At(w, "save") \/ At(w, "complete")) /\ UNCHANGED storeVars
    /\ Goto(w, AfterError(w, "unexpected"))
    /\ UNCHANGED <<broker, submitted, unanswered>>

\* The provider accepts the request and the connection breaks before its answer,
\* or the answer has no request id.
AnswerLost(w) ==
    LET g == worker[w].gen
    IN  /\ At(w, "submit")
        /\ Fault
        /\ unanswered' = [unanswered EXCEPT ![g] = @ + 1]
        /\ \E kind \in {"temporary", "permanent"} : Goto(w, AfterError(w, kind))
        /\ UNCHANGED <<storeVars, broker, submitted>>

\* dispatch_outbox_batch publishes before it commits, and the commit fails.
DispatchAborts(g) ==
    /\ outbox[g] = "pending"
    /\ Fault
    /\ Enqueue(g, 0)
    /\ UNCHANGED <<storeVars, worker, submitted, unanswered>>

-----------------------------------------------------------------------------
WorkerDoes(w) ==
    \/ \E g \in GenIds, r \in 0 .. MaxRetries : Receive(w, g, r)
    \/ Claim(w) \/ Submit(w) \/ Save(w) \/ Poll(w) \/ Finalize(w)
    \/ ProviderError(w) \/ RequeueRow(w) \/ PublishRetry(w)
    \/ ReadRequestId(w) \/ Switch(w) \/ Fail(w)

JobsDo ==
    \/ \E g \in GenIds : DispatchEvent(g) \/ ExpireLease(g) \/ GoStale(g)
    \/ \E S \in (SUBSET StaleGens) \ {{}} : Recover(S)

FaultsDo ==
    \/ \E w \in Workers : Redeliver(w) \/ TaskError(w) \/ WriteError(w) \/ AnswerLost(w)
    \/ \E g \in GenIds : DispatchAborts(g)
    \/ \E g \in GenIds, r \in 0 .. MaxRetries : LoseMessage(g, r)

ClientsDo == ClientStep /\ UNCHANGED taskVars

WorkersNext ==
    \/ ClientsDo
    \/ \E w \in Workers : WorkerDoes(w)
    \/ JobsDo
    \/ FaultsDo

WorkersSpec == WorkersInit /\ [][WorkersNext]_vars

\* Workers keep running, beat keeps starting the two jobs, a batch of 20 gets
\* to every stale row, and time passes for work nobody attends to.
Fairness ==
    /\ \A w \in Workers : WF_vars(WorkerDoes(w))
    /\ \A g \in GenIds :
          /\ WF_vars(DispatchEvent(g))
          /\ WF_vars(ExpireLease(g) /\ ~Attended(g))
          /\ WF_vars(GoStale(g))
          /\ WF_vars(~InHand(g) /\ Recover({g}))
          /\ WF_vars(IsStatus(g, "processing") /\ Recover({g}))

FairSpec == WorkersSpec /\ Fairness

-----------------------------------------------------------------------------
\* Properties

WorkerStates ==
    [pc : Steps, gen : GenIds \cup {None}, retries : 0 .. MaxRetries,
     token : Tokens, provider : Providers \cup {None}, request : Tokens,
     failover : BOOLEAN]

Fits(s) ==
    /\ s.pc = "idle" <=> s.gen = None
    /\ s.pc \in {"save", "poll", "complete"} => s.request # 0
    /\ s.pc \notin {"idle", "claim"} => s.token # 0 /\ s.provider \in Providers
    /\ s.pc \in {"requeue", "publish"} => s.retries < MaxRetries
    /\ s.pc \in {"failover", "switch", "giveUp"} \/ s.failover => s.retries = MaxRetries

\* A worker is at a step of process_generation with a snapshot that fits it: a
\* message, a claim and a provider while it works, a request id once it saves or
\* polls, a retry left whenever it is about to publish one, and none left when
\* it fails over or gives up.
WorkersTypeOK ==
    /\ worker \in [Workers -> WorkerStates]
    /\ \A w \in Workers : Fits(worker[w])
    /\ broker \in [Messages -> 0 .. MaxCopies]
    /\ submitted \in [GenIds -> SUBSET ProviderRequests]
    /\ unanswered \in [GenIds -> Nat]
    /\ faults \in 0 .. MaxFaults

\* A retry is charged to a claim and no retry is left out: message number r of a
\* generation exists only after r claims, and a task hands a generation to the
\* fallback or gives it up for temporary or unexpected errors only after
\* max_retries + 1 claims (process_generation).
RetriesCountClaims ==
    /\ \A g \in GenIds, r \in 1 .. MaxRetries :
          broker[<<g, r>>] > 0 => Exists(g) /\ gens[g].attempts >= r
    /\ \A w \in Workers : LET g == worker[w].gen IN
          /\ worker[w].pc \in {"requeue", "publish"}
                => gens[g].attempts >= worker[w].retries + 1
          /\ worker[w].pc \in {"failover", "switch", "giveUp"}
                => gens[g].attempts >= MaxRetries + 1

\* Retries, failover, redelivery and recovery do not feed each other: without
\* faults a generation is claimed at most max_retries + 1 times and once for
\* the fallback; a fault adds at most two such rounds, the redelivered message
\* and the one recovery dispatches anew.
AttemptsBounded ==
    \A g \in GenIds : Exists(g) =>
        gens[g].attempts <= (MaxRetries + 2) * (1 + 2 * faults)

\* Without faults a provider accepts one paid request per generation, however
\* often it is retried, and each fault costs at most one more.
PaidRequestsBounded ==
    \A g \in GenIds : Cardinality(submitted[g]) + unanswered[g] <= 1 + faults

\* What the client gets is what a provider said of the request whose id the row
\* keeps, whichever worker polled and whoever took the claim over in between: it
\* comes from the provider that issued the id, and only after a fault may it come
\* from the fallback, asked about an id it did not issue.  The row's provider
\* outlives retries, failover and takeover for this (process_generation_once).
ResultFromSavedRequest ==
    \A g \in GenIds : IsStatus(g, "completed") =>
        LET answer == gens[g].result IN
        /\ answer[2] = gens[g].requestId
        /\ \/ answer \in submitted[g]
           \/ /\ faults > 0 /\ answer[1] = Fallback
              /\ \E p \in Providers : <<p, answer[2]>> \in submitted[g]

\* Why: messages are about rows, a worker's claim is one of the row's claims, and
\* a worker that polls polls the saved request as long as its claim stands.
MessagesExist == \A m \in Messages : broker[m] > 0 => Exists(m[1])

\* p answers about r because it issued r for g, or as the fallback.
AnswerFits(g, p, r) ==
    \/ <<p, r>> \in submitted[g]
    \/ p = Fallback /\ \E q \in Providers : <<q, r>> \in submitted[g]

RequestsKept ==
    \A g \in GenIds : Exists(g) =>
        /\ gens[g].requestId # 0 /\ gens[g].status # "completed" =>
              <<gens[g].provider, gens[g].requestId>> \in submitted[g]
        /\ gens[g].status = "completed" =>
              /\ gens[g].result[2] = gens[g].requestId
              /\ AnswerFits(g, gens[g].result[1], gens[g].result[2])

Tracks(s) ==
    s.pc # "idle" =>
        /\ Exists(s.gen) /\ s.token <= gens[s.gen].attempts
        /\ s.pc = "save" => <<s.provider, s.request>> \in submitted[s.gen]
        /\ s.pc \in {"poll", "complete"} => AnswerFits(s.gen, s.provider, s.request)
        /\ s.pc \in {"poll", "complete"} /\ HoldsClaim(s.gen, s.token) =>
              gens[s.gen].requestId = s.request

ResultInv == MessagesExist /\ RequestsKept /\ \A w \in Workers : Tracks(worker[w])

\* And why nobody but the issuer answers without a fault: every generation is
\* then in one hand, a worker, one message or the outbox, and a live claim is
\* always some worker's, so no worker's reading of requestId or of the row's
\* claim goes out of date.
Busy(w, g) == worker[w].gen = g
Queues(g, r) == broker[<<g, r>>] > 0

InOneHand(g) ==
    /\ \A v, w \in Workers : Busy(v, g) /\ Busy(w, g) => v = w
    /\ \A w \in Workers, r \in 0 .. MaxRetries :
          Busy(w, g) => ~Queues(g, r) /\ outbox[g] # "pending"
    /\ \A r, q \in 0 .. MaxRetries :
          Queues(g, r) =>
              /\ outbox[g] # "pending" /\ broker[<<g, r>>] = 1
              /\ Queues(g, q) => q = r

ClaimsAttended(g) ==
    IsStatus(g, "processing") =>
        /\ gens[g].lease = "live"
        /\ \E w \in Workers : /\ Busy(w, g) /\ worker[w].token = gens[g].token
                             /\ worker[w].pc \notin {"claim", "publish"}

NothingSaved(s) ==
    s.pc \in {"submit", "save", "switch"} \/ (s.pc = "claim" /\ s.failover)

Undisturbed(s) ==
    /\ NothingSaved(s) => gens[s.gen].requestId = 0
    /\ s.pc \in {"poll", "complete"} => <<s.provider, s.request>> \in submitted[s.gen]

AnswersIssued(g) == IsStatus(g, "completed") => gens[g].result \in submitted[g]

CalmInv ==
    faults = 0 =>
        /\ \A g \in GenIds : InOneHand(g) /\ ClaimsAttended(g) /\ AnswersIssued(g)
        /\ \A w \in Workers : Undisturbed(worker[w])

\* While a worker attends to a generation under a live lease nobody else moves
\* it: no fenced worker, second copy of the message, dispatch or recovery.
HolderMovesAlone ==
    \A w \in Workers, g \in GenIds :
        (/\ worker[w].gen = g /\ IsStatus(g, "processing")
         /\ worker[w].token = gens[g].token /\ gens[g].lease = "live"
         /\ worker'[w] = worker[w])
            => gens'[g] \in {gens[g], Expired(gens[g])}
LeaseIsExclusive == [][HolderMovesAlone]_vars

\* Every paid generation is eventually delivered or refunded, whatever crashes,
\* gets lost, is delivered twice or fails on the way.
EveryChargeSettles ==
    \A g \in GenIds :
        Exists(g) ~> (Exists(g) /\ gens[g].status \in Terminal)

-----------------------------------------------------------------------------
\* What the documentation says and the code does not do

\* docs/architecture.md: of the transitions out of created only
\* created -> queued is allowed.
CreatedOnlyToQueued ==
    [][\A g \in GenIds : IsStatus(g, "created") =>
          gens'[g].status \in {"created", "queued"}]_vars

\* README.md: a retry continues with the saved request and creates no new paid
\* generation.  Requests whose answer was lost, a limitation README.md admits, do
\* not count here.
OnePaidRequest == \A g \in GenIds : Cardinality(submitted[g]) <= 1

\* README.md, docs/architecture.md: once a provider gave its request id the
\* generation stays with that provider.
ProviderKeptAfterRequest ==
    [][\A g \in GenIds : Exists(g) /\ gens[g].requestId # 0 =>
          gens'[g].provider = gens[g].provider]_vars
=============================================================================
