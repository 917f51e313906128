--------------------------- MODULE CallbackDelivery ---------------------------
(***************************************************************************)
(* Delivery of client webhooks: the callback_outbox rows, the dispatcher   *)
(* that reserves them and enqueues tasks, the workers that claim a row,    *)
(* POST to the client and record the outcome, and real time, which the     *)
(* reservation, the retry delay and the delivery lease are made of.        *)
(*                                                                         *)
(* Timestamps are countdowns: a column holds how many ticks it is ahead of *)
(* now, 0 when it is NULL or past.  A claim token is the number of the     *)
(* claim, 0 for NULL.                                                      *)
(***************************************************************************)
EXTENDS Integers, FiniteSets

CONSTANTS
    Events,      \* callback_outbox rows, one per finished generation
    Workers,     \* worker processes
    MaxAttempts, \* CALLBACK_MAX_ATTEMPTS
    RetryDelay,  \* CALLBACK_RETRY_DELAY_SECONDS, in ticks
    Reservation, \* CALLBACK_DISPATCH_RESERVATION_SECONDS, in ticks
    Lease,       \* callback_delivery_lease_seconds, in ticks
    PostTime,    \* ticks a delivery takes at most when nothing stalls
    MaxCopies,   \* bound: copies of a task in the broker
    MaxFaults,   \* bound: crashes, redeliveries, lost tasks, database errors
    MaxStalls,   \* bound: workers that pause for longer than PostTime
    None         \* no event

ASSUME CallbackAssumption ==
    /\ MaxAttempts \in Nat \ {0} /\ RetryDelay \in Nat \ {0}
    /\ Reservation \in Nat /\ Lease \in Nat /\ PostTime \in Nat
    \* A claim outlives its POST, by enough to keep the next POST away.
    /\ PostTime < Lease /\ RetryDelay + PostTime <= Lease
    /\ MaxCopies \in Nat \ {0} /\ MaxFaults \in Nat /\ MaxStalls \in Nat
    /\ None \notin Events

VARIABLES
    row,    \* callback_outbox
    worker, \* what each worker is doing
    broker, \* copies of each event's task in the broker
    posts,  \* POSTs sent for each event
    since,  \* ticks since the last POST of each event, up to RetryDelay
    accepted, \* events for which some POST was answered with 2xx
    aborted,  \* events whose dispatcher failed and has yet to clear up
    faults, stalls

env == <<posts, since, accepted, aborted, faults, stalls>>
vars == <<row, worker, broker, env>>

NewEvent == [attempts |-> 0, nextIn |-> 0, reserved |-> 0, inFlight |-> 0,
             token |-> 0, delivered |-> FALSE]

Idle == [pc |-> "idle", event |-> None, token |-> 0, ok |-> FALSE,
         age |-> 0, stalled |-> FALSE]

Init ==
    /\ row = [e \in Events |-> NewEvent]
    /\ worker = [w \in Workers |-> Idle]
    /\ broker = [e \in Events |-> 0]
    /\ posts = [e \in Events |-> 0]
    /\ since = [e \in Events |-> RetryDelay]
    /\ accepted = {} /\ aborted = {}
    /\ faults = 0 /\ stalls = 0

At(w, step) == worker[w].pc = step
Busy(w) == ~At(w, "idle")
Finish(w) == worker' = [worker EXCEPT ![w] = Idle]
Fault == faults < MaxFaults /\ faults' = faults + 1

Enqueue(e) == broker[e] < MaxCopies /\ broker' = [broker EXCEPT ![e] = @ + 1]

\* mutants of Due: one attempt too many; the lease ignored; delivery ignored;
\* an open claim waited for instead of its lease
DueOnceMore(e) ==
    ~row[e].delivered /\ row[e].attempts <= MaxAttempts /\ row[e].nextIn = 0 /\ row[e].inFlight = 0
DueAnyLease(e) ==
    ~row[e].delivered /\ row[e].attempts < MaxAttempts /\ row[e].nextIn = 0
DueAgain(e) ==
    row[e].attempts < MaxAttempts /\ row[e].nextIn = 0 /\ row[e].inFlight = 0
DueUnclaimed(e) ==
    ~row[e].delivered /\ row[e].attempts < MaxAttempts /\ row[e].nextIn = 0 /\ row[e].token = 0

Due(e) ==
    /\ ~row[e].delivered
    /\ row[e].attempts < MaxAttempts
    /\ row[e].nextIn = 0
    /\ row[e].inFlight = 0

-----------------------------------------------------------------------------
\* dispatch_callback_outbox_batch

Reserved(r, left) == [r EXCEPT !.reserved = left]

\* The reservation counts from the start of the batch, which may lie back.
Dispatch(e) ==
    /\ Due(e) /\ row[e].reserved = 0
    /\ \E left \in 0 .. Reservation : row' = [row EXCEPT ![e] = Reserved(@, left)]
    /\ Enqueue(e)
    /\ UNCHANGED <<worker, env>>

\* The task is published before the reservation is committed, and publishing or
\* the commit fails.  The handler clears the reservation in a transaction of its
\* own, by which time it may be the reservation of another dispatcher.
DispatchAborts(e) ==
    /\ Due(e) /\ row[e].reserved = 0
    /\ Fault
    /\ aborted' = aborted \cup {e}
    /\ Enqueue(e) \/ UNCHANGED broker
    /\ UNCHANGED <<row, worker, posts, since, accepted, stalls>>

ClearReservation(e) ==
    /\ e \in aborted
    /\ aborted' = aborted \ {e}
    /\ row' = [row EXCEPT ![e] = Reserved(@, 0)]
    /\ UNCHANGED <<worker, broker, posts, since, accepted, faults, stalls>>

-----------------------------------------------------------------------------
\* deliver_generation_callback

With(e) == [Idle EXCEPT !.pc = "claim", !.event = e]

Receive(w, e) ==
    /\ At(w, "idle")
    /\ broker[e] > 0
    /\ broker' = [broker EXCEPT ![e] = @ - 1]
    /\ worker' = [worker EXCEPT ![w] = With(e)]
    /\ UNCHANGED <<row, env>>

\* mutant of Claimed: the attempt is not counted
ClaimedUncounted(r) ==
    [r EXCEPT !.token = r.attempts + 1, !.inFlight = Lease, !.reserved = 0]

Claimed(r) ==
    [r EXCEPT !.attempts = r.attempts + 1, !.token = r.attempts + 1,
              !.inFlight = Lease, !.reserved = 0]

\* The worker learns the token of its claim.
Granted(s, n) ==
    [s EXCEPT !.pc = "post", !.token = n, !.age = 0, !.stalled = FALSE]

Claim(w) ==
    LET e == worker[w].event
    IN  /\ At(w, "claim")
        /\ \/ /\ Due(e)
              /\ row' = [row EXCEPT ![e] = Claimed(@)]
              /\ worker' = [worker EXCEPT ![w] = Granted(@, row[e].attempts + 1)]
           \/ ~Due(e) /\ Finish(w) /\ UNCHANGED row
        /\ UNCHANGED <<broker, env>>

Posted(s) == [s EXCEPT !.pc = "answer"]

Post(w) ==
    LET e == worker[w].event
    IN  /\ At(w, "post")
        /\ posts' = [posts EXCEPT ![e] = @ + 1]
        /\ since' = [since EXCEPT ![e] = 0]
        /\ worker' = [worker EXCEPT ![w] = Posted(@)]
        /\ UNCHANGED <<row, broker, accepted, aborted, faults, stalls>>

Answered(s, ok) == [s EXCEPT !.pc = "report", !.ok = ok]

\* 2xx, or anything else: another status, a timeout, a transport error.
Answer(w) ==
    /\ At(w, "answer")
    /\ \E ok \in BOOLEAN :
          /\ worker' = [worker EXCEPT ![w] = Answered(@, ok)]
          /\ accepted' = IF ok THEN accepted \cup {worker[w].event} ELSE accepted
    /\ UNCHANGED <<row, broker, posts, since, aborted, faults, stalls>>

\* mutants of Reported: every outcome is a delivery; no delay after an error
ReportedDelivered(r, ok) ==
    [r EXCEPT !.token = 0, !.inFlight = 0, !.reserved = 0, !.delivered = TRUE]
ReportedAtOnce(r, ok) ==
    [r EXCEPT !.token = 0, !.inFlight = 0, !.reserved = 0, !.delivered = r.delivered \/ ok]

Reported(r, ok) ==
    [r EXCEPT !.token = 0, !.inFlight = 0, !.reserved = 0,
              !.delivered = r.delivered \/ ok,
              !.nextIn = IF ok THEN r.nextIn ELSE RetryDelay]

AnyClaim(w) == TRUE                    \* mutant of HoldsClaim: no fence
HoldsClaim(w) == row[worker[w].event].token = worker[w].token

\* finish_callback_delivery
Report(w) ==
    LET e == worker[w].event
    IN  /\ At(w, "report")
        /\ row' = [row EXCEPT ![e] = IF HoldsClaim(w)
                                     THEN Reported(@, worker[w].ok) ELSE @]
        /\ Finish(w)
        /\ UNCHANGED <<broker, env>>

-----------------------------------------------------------------------------
\* Faults and time

\* A worker dies, or the broker hands its task to somebody else as well.
Redeliver(w) ==
    /\ Busy(w)
    /\ Fault
    /\ Enqueue(worker[w].event)
    /\ Finish(w) \/ UNCHANGED worker
    /\ UNCHANGED <<row, posts, since, accepted, aborted, stalls>>

LoseTask(e) ==
    /\ broker[e] > 0
    /\ Fault
    /\ broker' = [broker EXCEPT ![e] = @ - 1]
    /\ UNCHANGED <<row, worker, posts, since, accepted, aborted, stalls>>

\* An error that no handler catches: the task ends and is acknowledged.  A
\* claim may have been committed.
TaskError(w) ==
    /\ Busy(w)
    /\ Fault
    /\ \/ /\ At(w, "claim") /\ Due(worker[w].event)
          /\ row' = [row EXCEPT ![worker[w].event] = Claimed(@)]
       \/ UNCHANGED row
    /\ Finish(w)
    /\ UNCHANGED <<broker, posts, since, accepted, aborted, stalls>>

Stalling(s) == [s EXCEPT !.stalled = TRUE]

Stall(w) ==
    /\ worker[w].pc \in {"post", "answer", "report"} /\ ~worker[w].stalled
    /\ stalls < MaxStalls
    /\ stalls' = stalls + 1
    /\ worker' = [worker EXCEPT ![w] = Stalling(@)]
    /\ UNCHANGED <<row, broker, posts, since, accepted, aborted, faults>>

Less(n) == IF n = 0 THEN 0 ELSE n - 1

Elapsed(r) ==
    [r EXCEPT !.nextIn = Less(@), !.reserved = Less(@), !.inFlight = Less(@)]
Older(s) == [s EXCEPT !.age = @ + 1]

\* A worker that is not stalled is done within PostTime ticks of its claim.
Tick ==
    /\ \A w \in Workers : Busy(w) => worker[w].stalled \/ worker[w].age < PostTime
    /\ row' = [e \in Events |-> Elapsed(row[e])]
    /\ worker' = [w \in Workers |-> IF Busy(w) /\ ~worker[w].stalled
                                   THEN Older(worker[w]) ELSE worker[w]]
    /\ since' = [e \in Events |-> IF since[e] < RetryDelay THEN since[e] + 1 ELSE since[e]]
    /\ UNCHANGED <<broker, posts, accepted, aborted, faults, stalls>>

WorkerDoes(w) ==
    \/ \E e \in Events : Receive(w, e)
    \/ Claim(w) \/ Post(w) \/ Answer(w) \/ Report(w)

FaultsDo ==
    \/ \E w \in Workers : Redeliver(w) \/ TaskError(w) \/ Stall(w)
    \/ \E e \in Events : DispatchAborts(e) \/ LoseTask(e)

Next ==
    \/ \E e \in Events : Dispatch(e) \/ ClearReservation(e)
    \/ \E w \in Workers : WorkerDoes(w)
    \/ FaultsDo
    \/ Tick

Spec == Init /\ [][Next]_vars

\* Beat keeps starting the dispatcher, workers keep running, time passes.
FairSpec ==
    /\ Spec
    /\ \A e \in Events : WF_vars(Dispatch(e))
    /\ \A w \in Workers : WF_vars(WorkerDoes(w))
    /\ WF_vars(Tick)

-----------------------------------------------------------------------------
\* Properties

RowStates ==
    [attempts : 0 .. MaxAttempts, nextIn : 0 .. RetryDelay,
     reserved : 0 .. Reservation, inFlight : 0 .. Lease,
     token : 0 .. MaxAttempts, delivered : BOOLEAN]

WorkerStates ==
    [pc : {"idle", "claim", "post", "answer", "report"}, event : Events \cup {None},
     token : 0 .. MaxAttempts, ok : BOOLEAN, age : 0 .. PostTime, stalled : BOOLEAN]

\* Rows, workers and messages have their shapes: attempt_count stays within
\* CALLBACK_MAX_ATTEMPTS and the countdowns within what the code writes.
CallbackTypeOK ==
    /\ row \in [Events -> RowStates]
    /\ worker \in [Workers -> WorkerStates]
    /\ broker \in [Events -> 0 .. MaxCopies]
    /\ posts \in [Events -> Nat] /\ since \in [Events -> 0 .. RetryDelay]
    /\ accepted \subseteq Events /\ aborted \subseteq Events

Claiming(e) == {w \in Workers : At(w, "post") /\ worker[w].event = e}

\* Every POST was paid for with an attempt before it was sent, and an attempt is
\* spent without a POST only by a worker that is about to send it or by a fault:
\* the client never sees more than CALLBACK_MAX_ATTEMPTS deliveries, however
\* often a task is dispatched or delivered twice.
PostsMatchAttempts ==
    \A e \in Events :
        /\ posts[e] + Cardinality(Claiming(e)) <= row[e].attempts
        /\ row[e].attempts <= posts[e] + Cardinality(Claiming(e)) + faults

\* Two workers send the same event at the same time only when one of them has
\* outlived its delivery lease.
Sending(w, e) == worker[w].event = e /\ worker[w].pc \in {"post", "answer", "report"}
OneSender ==
    \A e \in Events, v, w \in Workers :
        v # w /\ Sending(v, e) /\ Sending(w, e) => worker[v].stalled \/ worker[w].stalled

\* While a delivery lease runs, the claim under it stands: a late report of an
\* earlier claim, another dispatch or a duplicate task does not end it.
ClaimStands ==
    [][\A w \in Workers, e \in Events :
          (/\ Sending(w, e) /\ row[e].token = worker[w].token /\ row[e].inFlight > 0
           /\ worker'[w] = worker[w]) => row'[e].token = row[e].token]_vars

\* An event is marked delivered only if the client answered a POST with 2xx.
DeliveredWasAccepted ==
    \A e \in Events : row[e].delivered => e \in accepted

\* While no worker stalls, POSTs of an event are at least the retry delay apart,
\* whatever is lost, crashes or is delivered twice (README.md, 15 seconds).
PostSent(e) == posts'[e] # posts[e]
SpacedUnlessStalled ==
    [][\A e \in Events : PostSent(e) /\ stalls = 0 => since[e] = RetryDelay]_vars

\* Once a delivery is recorded no worker starts another, unless it stalled
\* after its own claim.
QuietAfterDelivery ==
    [][\A e \in Events : row[e].delivered /\ PostSent(e) =>
          \E w \in Workers : Sending(w, e) /\ worker[w].stalled]_vars

\* No event is forgotten: it ends delivered or with its attempts used up.
EveryEventEnds ==
    \A e \in Events : <>(row[e].delivered \/ row[e].attempts = MaxAttempts)

\* README.md says of all POSTs what SpacedUnlessStalled says of unstalled ones.
AlwaysSpaced ==
    [][\A e \in Events : PostSent(e) => since[e] = RetryDelay]_vars
=============================================================================
