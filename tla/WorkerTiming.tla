----------------------------- MODULE WorkerTiming -----------------------------
(***************************************************************************)
(* How long things take: HTTP calls to Fal, the polling loop with its      *)
(* deadline, the lease of a claim, the broker's visibility timeout, and    *)
(* recovery with its limited batch, oldest row first.  Time is counted in  *)
(* ticks; database calls take none, so a handler is one step between two   *)
(* waits.  GenerationWorkers has the interleavings inside a handler, this  *)
(* module the durations that GenerationWorkers leaves open.                *)
(***************************************************************************)
EXTENDS Integers, FiniteSets

CONSTANTS
    Gens,           \* generations, all of them charged and in the outbox
    Workers,        \* worker processes
    HttpTime,       \* the longest call to a provider
    PollInterval,   \* settings.fal_poll_interval_seconds
    PollDeadline,   \* settings.fal_request_timeout_seconds
    Lease,          \* settings.processing_lease_seconds
    QueuedRecovery, \* settings.queued_recovery_seconds
    Visibility,     \* visibility_timeout of the broker
    Batch,          \* rows that one run of recovery takes
    MaxRetries,     \* max_retries of the task
    HasFallback,    \* a fallback provider is configured
    MaxCrashes,     \* bound: workers that die
    Nothing         \* no generation, no worker

\* Submit, then poll: the last status call may begin a poll interval after a
\* deadline that was just not reached; then the result is fetched.
LongestClaim == HttpTime + (PollDeadline + PollInterval + HttpTime) + HttpTime

ASSUME TimingAssumption ==
    /\ HttpTime \in Nat \ {0} /\ PollInterval \in Nat \ {0} /\ PollDeadline \in Nat
    /\ Lease \in Nat /\ Visibility \in Nat /\ QueuedRecovery \in Nat
    /\ LongestClaim < Lease
    /\ HttpTime + LongestClaim < Visibility
    /\ Batch \in Nat \ {0} /\ MaxRetries \in Nat /\ MaxCrashes \in Nat
    /\ HasFallback \in BOOLEAN
    /\ Nothing \notin Gens /\ Nothing \notin Workers

VARIABLES
    row,     \* the generations
    older,   \* pairs of rows of which the first has the older updated_at
    pending, \* generations with an unprocessed outbox event
    broker,  \* messages that wait, <<generation, request.retries>>
    worker,  \* what each worker does, and for how long it still may
    crashes  \* workers that died so far

vars == <<row, older, pending, broker, worker, crashes>>

Messages == Gens \X (0 .. MaxRetries)

Idle == [pc |-> "idle", gen |-> Nothing, retries |-> 0, failover |-> FALSE,
         left |-> 0, deadline |-> 0, held |-> 0]

Init ==
    /\ row = [g \in Gens |-> [status |-> "created", holder |-> Nothing, lease |-> 0,
                              age |-> 0, requested |-> FALSE]]
    /\ older = {}
    /\ pending = Gens
    /\ broker = {}
    /\ worker = [w \in Workers |-> Idle]
    /\ crashes = 0

\* The rows of S are written with updated_at = now().
Refreshed(S) == (older \ (S \X Gens)) \cup ((Gens \ S) \X S)

Fresh(r) == [r EXCEPT !.age = 0]

\* Row g becomes r; every write of one row is one of these.
Write(g, r) ==
    /\ row' = [row EXCEPT ![g] = Fresh(r)]
    /\ older' = Refreshed({g})

Busy(w) == worker[w].pc # "idle"
Holds(w) == LET r == row[worker[w].gen] IN r.status = "processing" /\ r.holder = w

Released(r) == [r EXCEPT !.status = "queued", !.holder = Nothing, !.lease = 0]
Done(r) == [r EXCEPT !.status = "done", !.holder = Nothing, !.lease = 0]
Requested(r) == [r EXCEPT !.requested = TRUE]
Leased(r, w) == [r EXCEPT !.status = "processing", !.holder = w, !.lease = Lease]

-----------------------------------------------------------------------------
\* process_generation: a message is received and its row claimed

MayClaim(g) ==
    \/ row[g].status \in {"created", "queued"}
    \/ row[g].status = "processing" /\ row[g].lease = 0

Polling(state) ==
    [state EXCEPT !.pc = "status", !.left = HttpTime, !.deadline = PollDeadline]
Submitting(state) == [state EXCEPT !.pc = "submit", !.left = HttpTime]

With(g, r) == [Idle EXCEPT !.gen = g, !.retries = r]

\* With a saved request id the worker polls, otherwise it submits.
Begin(state, r) == IF r.requested THEN Polling(state) ELSE Submitting(state)

Receive(w, g, r) ==
    /\ ~Busy(w)
    /\ <<g, r>> \in broker
    /\ broker' = broker \ {<<g, r>>}
    /\ IF MayClaim(g)
       THEN /\ Write(g, Leased(row[g], w))
            /\ worker' = [worker EXCEPT ![w] = Begin(With(g, r), row[g])]
       ELSE UNCHANGED <<row, older, worker>>
    /\ UNCHANGED <<pending, crashes>>

-----------------------------------------------------------------------------
\* FalGenerationProvider: answers, and the polling loop

At(w, pc) == worker[w].pc = pc
Waiting(state, pc, time) == [state EXCEPT !.pc = pc, !.left = time]
Wait(w, pc, time) == worker' = [worker EXCEPT ![w] = Waiting(@, pc, time)]
Finish(w) == worker' = [worker EXCEPT ![w] = Idle]

\* _raise_for_status and the handlers around it.
Answers == {"ok", "busy", "refused", "none", "malformed", "not an object"}

\* busy: HTTP 408, 409, 425, 429 or 5xx; refused: any other error status; none:
\* a timeout or a broken connection.
ErrorKind(answer) ==
    CASE answer \in {"busy", "none"} -> "temporary"
      [] answer \in {"refused", "malformed"} -> "permanent"
      [] answer = "not an object" -> "unexpected"

\* The saved id, or nothing when the claim is gone.
Submitted(w) ==
    /\ At(w, "submit")
    /\ LET g == worker[w].gen IN
       IF Holds(w) /\ ~row[g].requested
       THEN /\ Write(g, Requested(row[g]))
            /\ worker' = [worker EXCEPT ![w] = Polling(@)]
       ELSE Finish(w) /\ UNCHANGED <<row, older>>
    /\ UNCHANGED <<pending, broker, crashes>>

DeadlineOfPoll(w) == FALSE            \* mutant of DeadlinePassed: set anew at each poll
DeadlinePassed(w) == worker[w].deadline = 0

StatusPending(w) ==
    /\ At(w, "status")
    /\ ~DeadlinePassed(w)
    /\ Wait(w, "sleep", PollInterval)
    /\ UNCHANGED <<row, older, pending, broker, crashes>>

WakeUp(w) ==
    /\ At(w, "sleep") /\ worker[w].left = 0
    /\ Wait(w, "status", HttpTime)
    /\ UNCHANGED <<row, older, pending, broker, crashes>>

StatusCompleted(w) ==
    /\ At(w, "status")
    /\ Wait(w, "fetch", HttpTime)
    /\ UNCHANGED <<row, older, pending, broker, crashes>>

Fetched(w) ==
    /\ At(w, "fetch")
    /\ LET g == worker[w].gen IN
       IF Holds(w) THEN Write(g, Done(row[g])) ELSE UNCHANGED <<row, older>>
    /\ Finish(w)
    /\ UNCHANGED <<pending, broker, crashes>>

-----------------------------------------------------------------------------
\* process_generation: the handlers of the three kinds of errors

Requeue(w) ==
    LET g == worker[w].gen
    IN  /\ IF Holds(w) THEN Write(g, Released(row[g])) ELSE UNCHANGED <<row, older>>
        /\ broker' = broker \cup {<<g, worker[w].retries + 1>>}
        /\ Finish(w)

Fail(w) ==
    LET g == worker[w].gen
    IN  /\ IF Holds(w) THEN Write(g, Done(row[g])) ELSE UNCHANGED <<row, older>>
        /\ Finish(w)
        /\ UNCHANGED broker

OnceMore(w) == worker[w].retries <= MaxRetries   \* mutant of MayRetry: off by one
MayRetry(w) == worker[w].retries < MaxRetries

EvenWithRequest(w) == Holds(w)        \* mutant of MaySwitch: the saved id is not asked for
MaySwitch(w) == Holds(w) /\ ~row[worker[w].gen].requested

FailingOver(state) == [state EXCEPT !.failover = TRUE]

\* The claim is given up and taken again for the fallback, in the same task.
Switch(w) ==
    LET g == worker[w].gen
    IN  /\ Write(g, Leased(row[g], w))
        /\ worker' = [worker EXCEPT ![w] = Begin(FailingOver(@), row[g])]
        /\ UNCHANGED broker

Handle(w, kind) ==
    /\ IF worker[w].failover \/ kind = "permanent" THEN Fail(w)
       ELSE IF MayRetry(w) THEN Requeue(w)
       ELSE IF kind = "temporary" /\ HasFallback /\ MaySwitch(w) THEN Switch(w)
       ELSE Fail(w)
    /\ UNCHANGED <<pending, crashes>>

CallFails(w) ==
    /\ worker[w].pc \in {"submit", "status", "fetch"}
    /\ \E answer \in Answers \ {"ok"} :
          /\ answer = "not an object" => ~At(w, "fetch")   \* any JSON is a result
          /\ Handle(w, ErrorKind(answer))

\* A status that is neither pending nor completed is permanent.
StatusFailed(w) == At(w, "status") /\ Handle(w, "permanent")

PollingTimesOut(w) == At(w, "status") /\ DeadlinePassed(w) /\ Handle(w, "temporary")

-----------------------------------------------------------------------------
\* The periodic jobs, crashes and time

Dispatch(g) ==
    /\ g \in pending
    /\ pending' = pending \ {g}
    /\ broker' = broker \cup {<<g, 0>>}
    /\ IF row[g].status = "created"
       THEN Write(g, Released(row[g])) ELSE UNCHANGED <<row, older>>
    /\ UNCHANGED <<worker, crashes>>

\* mutant of Stale: lost queue entries are ignored
ExpiredOnly == {g \in Gens : row[g].status = "processing" /\ row[g].lease = 0}
Stale == {g \in Gens : \/ row[g].status = "processing" /\ row[g].lease = 0
                       \/ row[g].status = "queued" /\ row[g].age > QueuedRecovery}

\* ORDER BY updated_at LIMIT Batch
OldestFirst(S) ==
    /\ S \subseteq Stale
    /\ Cardinality(S) <= Batch
    /\ Cardinality(S) = Batch \/ S = Stale
    /\ \A g \in S, h \in Stale \ S : <<h, g>> \notin older

\* Stale queued rows keep their updated_at.
Recover ==
    \E S \in SUBSET Stale :
       /\ S # {} /\ OldestFirst(S)
       /\ LET expired == {g \in S : row[g].status = "processing"}
          IN  /\ row' = [g \in Gens |-> IF g \in expired
                            THEN Fresh(Released(row[g])) ELSE row[g]]
              /\ older' = Refreshed(expired)
       /\ pending' = pending \cup S
       /\ UNCHANGED <<broker, worker, crashes>>

\* A worker dies.  Its message comes back or is lost; if it dies between the
\* requeue and the publication of a retry, the row is queued already.
Crash(w) ==
    LET g == worker[w].gen
    IN  /\ Busy(w)
        /\ crashes < MaxCrashes
        /\ crashes' = crashes + 1
        /\ \/ UNCHANGED <<row, older>>
           \/ MayRetry(w) /\ Holds(w) /\ Write(g, Released(row[g]))
        /\ broker' \in {broker, broker \cup {<<g, worker[w].retries>>}}
        /\ Finish(w)
        /\ UNCHANGED pending

Less(n) == IF n > 0 THEN n - 1 ELSE 0

Aged(r) ==
    [r EXCEPT !.lease = Less(@), !.age = IF @ > QueuedRecovery THEN @ ELSE @ + 1]
Going(state) ==
    [state EXCEPT !.left = @ - 1, !.deadline = Less(@), !.held = @ + 1]

\* Nobody waits longer than its wait.  Ages beyond QueuedRecovery are alike.
Tick ==
    /\ \A w \in Workers : Busy(w) => worker[w].left > 0
    /\ row' = [g \in Gens |-> Aged(row[g])]
    /\ worker' = [w \in Workers |-> IF Busy(w) THEN Going(worker[w]) ELSE Idle]
    /\ UNCHANGED <<older, pending, broker, crashes>>

WorkerDoes(w) ==
    \/ Submitted(w) \/ StatusPending(w) \/ WakeUp(w) \/ StatusCompleted(w) \/ Fetched(w)
    \/ CallFails(w) \/ StatusFailed(w) \/ PollingTimesOut(w)

Next ==
    \/ \E w \in Workers : WorkerDoes(w) \/ Crash(w)
    \/ \E w \in Workers, g \in Gens, r \in 0 .. MaxRetries : Receive(w, g, r)
    \/ \E g \in Gens : Dispatch(g)
    \/ Recover
    \/ Tick

Spec == Init /\ [][Next]_vars

\* Calls and waits end, time passes, beat starts the jobs, and the broker is a
\* queue: a message that waits is received although others come after it.
Fairness ==
    /\ \A w \in Workers : WF_vars(WorkerDoes(w))
    /\ \A m \in Messages : SF_vars(\E w \in Workers : Receive(w, m[1], m[2]))
    /\ \A g \in Gens : WF_vars(Dispatch(g))
    /\ WF_vars(Recover)
    /\ WF_vars(Tick)

FairSpec == Spec /\ Fairness

-----------------------------------------------------------------------------
\* Properties

RowStates ==
    [status : {"created", "queued", "processing", "done"},
     holder : Workers \cup {Nothing}, lease : 0 .. Lease,
     age : 0 .. QueuedRecovery + 1, requested : BOOLEAN]

WorkerStates ==
    [pc : {"idle", "submit", "status", "sleep", "fetch"}, gen : Gens \cup {Nothing},
     retries : 0 .. MaxRetries, failover : BOOLEAN,
     left : Nat, deadline : 0 .. PollDeadline, held : Nat]

\* Rows, messages and workers have their shapes; retries never pass max_retries,
\* and a worker is idle exactly when it has no message.
TimingTypeOK ==
    /\ row \in [Gens -> RowStates]
    /\ older \subseteq Gens \X Gens
    /\ pending \subseteq Gens
    /\ broker \subseteq Messages
    /\ worker \in [Workers -> WorkerStates]
    /\ \A w \in Workers : Busy(w) <=> worker[w].gen # Nothing
    /\ crashes \in 0 .. MaxCrashes

\* A worker that lives still holds its row, under a live lease, whatever the
\* provider does: the polling deadline and the HTTP timeouts end every claim in
\* time (get_result, processing_lease_seconds).  So nobody takes a generation
\* over from a worker that is merely slow.
LeaseOutlivesWork ==
    \A w \in Workers : Busy(w) => Holds(w) /\ row[worker[w].gen].lease > 0

\* A task, failover and all, ends before the broker gives its message to somebody
\* else: failover happens only where the first claim ended with its submit.
VisibilityOutlivesTask == \A w \in Workers : Busy(w) => worker[w].held < Visibility

RetriesStop == <>[][\A w \in Workers : ~(WorkerDoes(w) /\ Requeue(w))]_vars

\* Every generation ends, unless retries go on for ever, although providers may
\* never finish or fail for good, a worker dies, and recovery takes a limited
\* batch in which rows that merely wait come first and stay
\* (recover_stale_generations_batch).
EveryRowEnds == RetriesStop => \A g \in Gens : <>(row[g].status = "done")

-----------------------------------------------------------------------------
\* What the documentation says and the code does not do

\* README.md, docs/architecture.md: a task has three attempts and then, without a
\* saved request, the fallback; the duplicate of a queued task that recovery
\* publishes is safe.  So temporary errors for ever end in a refund, too.
RetriesRunOut == \A g \in Gens : <>(row[g].status = "done")
=============================================================================
