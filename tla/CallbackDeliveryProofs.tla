------------------------ MODULE CallbackDeliveryProofs ------------------------
(***************************************************************************)
(* Proofs about CallbackDelivery for any number of events and workers and  *)
(* all times that meet CallbackAssumption: attempts pay for POSTs, claims  *)
(* of an event exclude each other, and POSTs keep their distance while no  *)
(* worker stalls.                                                          *)
(***************************************************************************)
EXTENDS CallbackDelivery, FiniteSetTheorems, TLAPS

-----------------------------------------------------------------------------
\* The inductive invariant

Shapes ==
    /\ CallbackTypeOK
    /\ faults \in Nat /\ stalls \in Nat
    /\ \A w \in Workers : Busy(w) => worker[w].event \in Events

\* Tokens number the claims of an event, and no two workers have the same.
TokensApart ==
    \A e \in Events, w \in Workers : Sending(w, e) =>
        /\ worker[w].token >= 1 /\ worker[w].token <= row[e].attempts
        /\ \A v \in Workers :
              v # w /\ Sending(v, e) => worker[v].token # worker[w].token

\* A worker that is not stalled holds the row, with what its age leaves of the
\* lease, and the event still waits for its report.
ClaimsHold ==
    \A e \in Events, w \in Workers : Sending(w, e) /\ ~worker[w].stalled =>
        /\ row[e].token = worker[w].token
        /\ row[e].inFlight + worker[w].age >= Lease
        /\ ~row[e].delivered

StallsCounted == \A w \in Workers : worker[w].stalled => stalls > 0

AnswersKept ==
    /\ \A w \in Workers : At(w, "report") /\ worker[w].ok => worker[w].event \in accepted
    /\ DeliveredWasAccepted

\* A POST of late keeps the next claim away: by the lease it was sent under, by
\* the retry delay once it is reported as failed, for ever once it succeeded.
KeptAway(e) ==
    \/ row[e].delivered
    \/ since[e] = RetryDelay
    \/ row[e].nextIn + since[e] >= RetryDelay
    \/ row[e].inFlight + since[e] >= RetryDelay

Spaced ==
    stalls = 0 => /\ \A e \in Events : KeptAway(e)
                  /\ \A e \in Events, w \in Workers :
                        At(w, "post") /\ worker[w].event = e => since[e] = RetryDelay

Counted ==
    /\ \A e \in Events : IsFiniteSet(Claiming(e))
    /\ PostsMatchAttempts

CallbackInv ==
    Shapes /\ TokensApart /\ ClaimsHold /\ StallsCounted /\ AnswersKept /\ Spaced /\ Counted

-----------------------------------------------------------------------------
\* What the operators on rows and on workers do to each field

LEMMA Times ==
    /\ MaxAttempts \in Nat /\ MaxAttempts > 0
    /\ RetryDelay \in Nat /\ RetryDelay > 0
    /\ Reservation \in Nat /\ Lease \in Nat /\ PostTime \in Nat
    /\ PostTime < Lease /\ RetryDelay + PostTime <= Lease
    /\ None \notin Events
BY CallbackAssumption

LEMMA LessRanges ==
    /\ \A n \in 0 .. RetryDelay : Less(n) \in 0 .. RetryDelay
    /\ \A n \in 0 .. Reservation : Less(n) \in 0 .. Reservation
    /\ \A n \in 0 .. Lease : Less(n) \in 0 .. Lease
BY Times DEF Less

LEMMA Fields ==
    /\ \A r \in RowStates :
          /\ r.attempts \in 0 .. MaxAttempts /\ r.nextIn \in 0 .. RetryDelay
          /\ r.inFlight \in 0 .. Lease /\ r.token \in 0 .. MaxAttempts
          /\ r.reserved \in 0 .. Reservation /\ r.delivered \in BOOLEAN
    /\ \A s \in WorkerStates :
          /\ s.pc \in {"idle", "claim", "post", "answer", "report"}
          /\ s.event \in Events \cup {None} /\ s.token \in 0 .. MaxAttempts
          /\ s.age \in 0 .. PostTime /\ s.ok \in BOOLEAN /\ s.stalled \in BOOLEAN
BY DEF RowStates, WorkerStates

LEMMA NewRow ==
    /\ NewEvent \in RowStates
    /\ NewEvent.attempts = 0 /\ ~NewEvent.delivered
BY Times DEF NewEvent, RowStates

LEMMA ReservedRow ==
    ASSUME NEW r \in RowStates, NEW n \in 0 .. Reservation
    PROVE  /\ Reserved(r, n) \in RowStates
           /\ Reserved(r, n).attempts = r.attempts /\ Reserved(r, n).nextIn = r.nextIn
           /\ Reserved(r, n).inFlight = r.inFlight /\ Reserved(r, n).token = r.token
           /\ Reserved(r, n).delivered = r.delivered
BY DEF Reserved, RowStates

LEMMA ClaimedRow ==
    ASSUME NEW r \in RowStates, r.attempts < MaxAttempts
    PROVE  /\ Claimed(r) \in RowStates
           /\ Claimed(r).attempts = r.attempts + 1 /\ Claimed(r).nextIn = r.nextIn
           /\ Claimed(r).inFlight = Lease /\ Claimed(r).token = r.attempts + 1
           /\ Claimed(r).delivered = r.delivered
<1>1. r.attempts + 1 \in 0 .. MaxAttempts /\ Lease \in 0 .. Lease /\ 0 \in 0 .. Reservation
  BY Times, Fields
<1> QED BY <1>1 DEF Claimed, RowStates

LEMMA ReportedRow ==
    ASSUME NEW r \in RowStates, NEW ok \in BOOLEAN
    PROVE  /\ Reported(r, ok) \in RowStates
           /\ Reported(r, ok).attempts = r.attempts /\ Reported(r, ok).token = 0
           /\ Reported(r, ok).inFlight = 0
           /\ Reported(r, ok).delivered = (r.delivered \/ ok)
           /\ ~ok => Reported(r, ok).nextIn = RetryDelay
           /\ ok => Reported(r, ok).nextIn = r.nextIn
<1>1. /\ RetryDelay \in 0 .. RetryDelay /\ 0 \in 0 .. Lease
      /\ 0 \in 0 .. Reservation /\ 0 \in 0 .. MaxAttempts
  BY Times
<1> QED BY <1>1 DEF Reported, RowStates

LEMMA ElapsedRow ==
    ASSUME NEW r \in RowStates
    PROVE  /\ Elapsed(r) \in RowStates
           /\ Elapsed(r).attempts = r.attempts /\ Elapsed(r).token = r.token
           /\ Elapsed(r).nextIn = Less(r.nextIn) /\ Elapsed(r).inFlight = Less(r.inFlight)
           /\ Elapsed(r).delivered = r.delivered
BY LessRanges DEF Elapsed, RowStates

LEMMA ZeroRanges ==
    /\ 0 \in 0 .. MaxAttempts /\ 0 \in 0 .. PostTime
    /\ 0 \in 0 .. RetryDelay /\ 0 \in 0 .. Reservation /\ 0 \in 0 .. Lease
BY Times

LEMMA IdleState ==
    /\ Idle \in WorkerStates /\ Idle.pc = "idle" /\ ~Idle.stalled
BY ZeroRanges DEF Idle, WorkerStates

LEMMA StartState ==
    ASSUME NEW e \in Events
    PROVE  /\ With(e) \in WorkerStates
           /\ With(e).pc = "claim" /\ With(e).event = e /\ ~With(e).stalled
BY ZeroRanges DEF With, Idle, WorkerStates

LEMMA GrantedState ==
    ASSUME NEW s \in WorkerStates, NEW n \in 0 .. MaxAttempts
    PROVE  /\ Granted(s, n) \in WorkerStates
           /\ Granted(s, n).pc = "post" /\ Granted(s, n).event = s.event
           /\ Granted(s, n).token = n /\ Granted(s, n).age = 0 /\ ~Granted(s, n).stalled
BY ZeroRanges DEF Granted, WorkerStates

LEMMA PostedState ==
    ASSUME NEW s \in WorkerStates
    PROVE  /\ Posted(s) \in WorkerStates
           /\ Posted(s).pc = "answer" /\ Posted(s).event = s.event
           /\ Posted(s).token = s.token /\ Posted(s).age = s.age
           /\ Posted(s).stalled = s.stalled
BY DEF Posted, WorkerStates

LEMMA AnsweredState ==
    ASSUME NEW s \in WorkerStates, NEW ok \in BOOLEAN
    PROVE  /\ Answered(s, ok) \in WorkerStates
           /\ Answered(s, ok).pc = "report" /\ Answered(s, ok).event = s.event
           /\ Answered(s, ok).token = s.token /\ Answered(s, ok).age = s.age
           /\ Answered(s, ok).stalled = s.stalled /\ Answered(s, ok).ok = ok
BY DEF Answered, WorkerStates

LEMMA StallingState ==
    ASSUME NEW s \in WorkerStates
    PROVE  /\ Stalling(s) \in WorkerStates
           /\ Stalling(s).pc = s.pc /\ Stalling(s).event = s.event
           /\ Stalling(s).token = s.token /\ Stalling(s).age = s.age
           /\ Stalling(s).stalled /\ Stalling(s).ok = s.ok
BY DEF Stalling, WorkerStates

LEMMA OlderState ==
    ASSUME NEW s \in WorkerStates, s.age < PostTime
    PROVE  /\ Older(s) \in WorkerStates
           /\ Older(s).pc = s.pc /\ Older(s).event = s.event
           /\ Older(s).token = s.token /\ Older(s).age = s.age + 1
           /\ Older(s).stalled = s.stalled /\ Older(s).ok = s.ok
<1>1. s.age + 1 \in 0 .. PostTime
  BY Times, Fields
<1> QED BY <1>1 DEF Older, WorkerStates

-----------------------------------------------------------------------------
\* Steps that touch neither the claims of rows nor what workers do under them

RowsKept ==
    \A e \in Events :
        /\ row'[e].attempts = row[e].attempts /\ row'[e].nextIn = row[e].nextIn
        /\ row'[e].inFlight = row[e].inFlight /\ row'[e].token = row[e].token
        /\ row'[e].delivered = row[e].delivered

\* Workers go on as they were, or give up their work or begin some.
WorkersKept ==
    \A w \in Workers : \/ worker'[w] = worker[w]
                       \/ worker'[w].pc \in {"idle", "claim"} /\ ~worker'[w].stalled

\* What such a step preserves.
LEMMA KeptStep ==
    ASSUME CallbackInv, RowsKept, WorkersKept, UNCHANGED <<since, accepted, stalls>>
    PROVE  (TokensApart /\ ClaimsHold /\ StallsCounted /\ AnswersKept /\ Spaced)'
<1> USE DEF CallbackInv
<1>1. \A w \in Workers, e \in Events :
        Sending(w, e)' => Sending(w, e) /\ worker'[w] = worker[w]
  BY DEF WorkersKept, Sending
<1>2. TokensApart'
  BY <1>1 DEF TokensApart, RowsKept
<1>3. ClaimsHold'
  BY <1>1 DEF ClaimsHold, RowsKept
<1>4. StallsCounted'
  BY DEF StallsCounted, WorkersKept
<1>5. AnswersKept'
  BY DEF AnswersKept, DeliveredWasAccepted, At, RowsKept, WorkersKept
<1>6. Spaced'
  BY DEF Spaced, KeptAway, At, RowsKept, WorkersKept
<1> QED BY <1>2, <1>3, <1>4, <1>5, <1>6

\* Neither a POST nor an attempt nor a worker about to send is new.
LEMMA SameCount ==
    ASSUME Counted, faults' >= faults, UNCHANGED posts, faults \in Nat, faults' \in Nat,
           \A e \in Events : /\ Claiming(e)' = Claiming(e)
                             /\ row'[e].attempts = row[e].attempts
                             /\ row[e].attempts \in Nat /\ posts[e] \in Nat
    PROVE  Counted'
<1> SUFFICES ASSUME NEW e \in Events
             PROVE  /\ IsFiniteSet(Claiming(e)')
                    /\ posts'[e] + Cardinality(Claiming(e)') <= row'[e].attempts
                    /\ row'[e].attempts <= posts'[e] + Cardinality(Claiming(e)') + faults'
  BY DEF Counted, PostsMatchAttempts
<1> DEFINE C == Claiming(e)
<1>1. /\ IsFiniteSet(C) /\ Cardinality(C) \in Nat
      /\ posts[e] + Cardinality(C) <= row[e].attempts
      /\ row[e].attempts <= posts[e] + Cardinality(C) + faults
  BY FS_CardinalityType DEF Counted, PostsMatchAttempts
<1>2. Claiming(e)' = C
  OBVIOUS
<1> HIDE DEF C
<1> QED BY <1>1, <1>2

\* A worker about to send gives up: its attempt is lost to a fault.
LEMMA LostCount ==
    ASSUME Counted, faults' = faults + 1, UNCHANGED posts, faults \in Nat,
           NEW w \in Workers,
           \A e \in Events : /\ Claiming(e)' = Claiming(e) \ {w}
                             /\ row'[e].attempts = row[e].attempts
                             /\ row[e].attempts \in Nat /\ posts[e] \in Nat
    PROVE  Counted'
<1> SUFFICES ASSUME NEW e \in Events
             PROVE  /\ IsFiniteSet(Claiming(e)')
                    /\ posts'[e] + Cardinality(Claiming(e)') <= row'[e].attempts
                    /\ row'[e].attempts <= posts'[e] + Cardinality(Claiming(e)') + faults'
  BY DEF Counted, PostsMatchAttempts
<1> DEFINE C == Claiming(e)
<1> DEFINE D == Claiming(e)'
<1>1. /\ IsFiniteSet(C) /\ Cardinality(C) \in Nat
      /\ posts[e] + Cardinality(C) <= row[e].attempts
      /\ row[e].attempts <= posts[e] + Cardinality(C) + faults
  BY FS_CardinalityType DEF Counted, PostsMatchAttempts
<1>2. D = C \ {w}
  OBVIOUS
<1> HIDE DEF C, D
<1>3. /\ IsFiniteSet(D) /\ Cardinality(D) \in Nat
      /\ Cardinality(D) \in {Cardinality(C), Cardinality(C) - 1}
  BY <1>1, <1>2, FS_RemoveElement, FS_CardinalityType
<1>4. /\ posts'[e] + Cardinality(D) <= row'[e].attempts
      /\ row'[e].attempts <= posts'[e] + Cardinality(D) + faults'
  BY <1>1, <1>3
<1> QED BY <1>3, <1>4 DEF D

\* A step that keeps rows and workers and their count keeps the invariant.
LEMMA KeptInv ==
    ASSUME CallbackInv, Shapes', RowsKept, WorkersKept, Counted',
           UNCHANGED <<since, accepted, stalls>>
    PROVE  CallbackInv'
BY KeptStep DEF CallbackInv

LEMMA Typed ==
    ASSUME CallbackInv
    PROVE  /\ row \in [Events -> RowStates]
           /\ worker \in [Workers -> WorkerStates]
           /\ broker \in [Events -> 0 .. MaxCopies] /\ MaxCopies \in Nat
           /\ posts \in [Events -> Nat] /\ since \in [Events -> 0 .. RetryDelay]
           /\ accepted \subseteq Events /\ aborted \subseteq Events
           /\ faults \in Nat /\ stalls \in Nat /\ Counted
           /\ \A e \in Events : row[e].attempts \in Nat /\ posts[e] \in Nat
           /\ \A w \in Workers : Busy(w) => worker[w].event \in Events
<1>1. \A e \in Events : row[e] \in RowStates => row[e].attempts \in Nat
  BY Fields, Times
<1> QED BY <1>1, CallbackAssumption DEF CallbackInv, Shapes, CallbackTypeOK

LEMMA EnqueueTypes ==
    ASSUME CallbackInv, NEW e \in Events, Enqueue(e) \/ UNCHANGED broker
    PROVE  broker' \in [Events -> 0 .. MaxCopies]
<1>1. CASE Enqueue(e)
  <2>1. broker[e] + 1 \in 0 .. MaxCopies
    BY <1>1, Typed DEF Enqueue
  <2> QED BY <1>1, <2>1, Typed DEF Enqueue
<1>2. CASE UNCHANGED broker
  BY <1>2, Typed
<1> QED BY <1>1, <1>2

LEMMA TakeTypes ==
    ASSUME CallbackInv, NEW e \in Events, broker[e] > 0,
           broker' = [broker EXCEPT ![e] = @ - 1]
    PROVE  broker' \in [Events -> 0 .. MaxCopies]
<1>1. broker[e] - 1 \in 0 .. MaxCopies
  BY Typed
<1> QED BY <1>1, Typed

LEMMA FinishTypes ==
    ASSUME CallbackInv, NEW w \in Workers, Finish(w)
    PROVE  /\ worker' \in [Workers -> WorkerStates]
           /\ WorkersKept
           /\ \A v \in Workers : Busy(v)' => worker'[v].event \in Events
           /\ \A v \in Workers : v # w => worker'[v] = worker[v]
           /\ worker'[w].pc = "idle" /\ ~worker'[w].stalled
           /\ \A e \in Events : Claiming(e)' = Claiming(e) \ {w}
<1>1. \A v \in Workers : worker'[v] = IF v = w THEN Idle ELSE worker[v]
  BY Typed DEF Finish
<1>2. worker' \in [Workers -> WorkerStates]
  BY Typed, IdleState DEF Finish
<1>3. WorkersKept
  BY <1>1, IdleState DEF WorkersKept
<1>4. \A v \in Workers : Busy(v)' => worker'[v].event \in Events
  BY <1>1, Typed, IdleState DEF Busy, At
<1>5. \A e \in Events : Claiming(e)' = Claiming(e) \ {w}
  BY <1>1, IdleState DEF Claiming, At
<1> QED BY <1>1, <1>2, <1>3, <1>4, <1>5, IdleState

LEMMA ShapesFrom ==
    ASSUME CallbackInv, row' \in [Events -> RowStates], worker' \in [Workers -> WorkerStates],
           broker' \in [Events -> 0 .. MaxCopies], posts' \in [Events -> Nat],
           since' \in [Events -> 0 .. RetryDelay], accepted' \subseteq Events,
           aborted' \subseteq Events, faults' \in Nat, stalls' \in Nat,
           \A w \in Workers : Busy(w)' => worker'[w].event \in Events
    PROVE  Shapes'
BY DEF Shapes, CallbackTypeOK

LEMMA DispatchKeeps ==
    ASSUME CallbackInv, NEW e \in Events, Dispatch(e) \/ ClearReservation(e)
    PROVE  CallbackInv'
<1>1. PICK n \in 0 .. Reservation : row' = [row EXCEPT ![e] = Reserved(@, n)]
  BY Times DEF Dispatch, ClearReservation
<1>2. row[e] \in RowStates
  BY Typed
<1>3. RowsKept /\ row' \in [Events -> RowStates]
  <2>1. \A x \in Events : row'[x] = IF x = e THEN Reserved(row[e], n) ELSE row[x]
    BY <1>1, Typed
  <2>2. RowsKept
    BY <2>1, <1>2, ReservedRow DEF RowsKept
  <2> QED BY <2>2, <1>1, <1>2, ReservedRow, Typed
<1>4. /\ broker' \in [Events -> 0 .. MaxCopies] /\ aborted' \subseteq Events
      /\ UNCHANGED <<worker, posts, since, accepted, faults, stalls>>
  BY Typed, EnqueueTypes DEF Dispatch, ClearReservation, env
<1>5. Shapes'
  BY <1>3, <1>4, Typed, ShapesFrom DEF Busy, At
<1>6. WorkersKept
  BY <1>4 DEF WorkersKept
<1>7. Counted'
  <2>1. \A x \in Events : Claiming(x)' = Claiming(x)
    BY <1>4 DEF Claiming, At
  <2> QED BY <2>1, <1>3, <1>4, Typed, SameCount DEF RowsKept
<1> QED BY <1>3, <1>4, <1>5, <1>6, <1>7, KeptInv

\* A failed dispatch and a lost task change no row and no worker.
LEMMA FaultKeeps ==
    ASSUME CallbackInv, NEW e \in Events, DispatchAborts(e) \/ LoseTask(e)
    PROVE  CallbackInv'
<1>1. /\ UNCHANGED <<row, worker, posts, since, accepted, stalls>>
      /\ faults' = faults + 1 /\ aborted' \subseteq Events
  BY Typed DEF DispatchAborts, LoseTask, Fault
<1>2. broker' \in [Events -> 0 .. MaxCopies]
  BY EnqueueTypes, TakeTypes DEF DispatchAborts, LoseTask
<1>3. Shapes'
  BY <1>1, <1>2, Typed, ShapesFrom DEF Busy, At
<1>4. RowsKept /\ WorkersKept
  BY <1>1 DEF RowsKept, WorkersKept
<1>5. Counted'
  <2>1. \A x \in Events : Claiming(x)' = Claiming(x)
    BY <1>1 DEF Claiming, At
  <2> QED BY <2>1, <1>1, Typed, SameCount
<1> QED BY <1>1, <1>3, <1>4, <1>5, KeptInv

LEMMA ReceiveKeeps ==
    ASSUME CallbackInv, NEW w \in Workers, NEW e \in Events, Receive(w, e)
    PROVE  CallbackInv'
<1>1. /\ worker[w].pc = "idle" /\ worker' = [worker EXCEPT ![w] = With(e)]
      /\ UNCHANGED <<row, posts, since, accepted, aborted, faults, stalls>>
  BY DEF Receive, At, env
<1>2. broker' \in [Events -> 0 .. MaxCopies]
  BY TakeTypes DEF Receive
<1>3. \A v \in Workers : worker'[v] = IF v = w THEN With(e) ELSE worker[v]
  BY <1>1, Typed
<1>4. worker' \in [Workers -> WorkerStates]
  BY <1>1, StartState, Typed
<1>5. Shapes'
  <2>1. \A v \in Workers : Busy(v)' => worker'[v].event \in Events
    BY <1>3, StartState, Typed DEF Busy, At
  <2> QED BY <2>1, <1>1, <1>2, <1>4, Typed, ShapesFrom
<1>6. RowsKept /\ WorkersKept
  BY <1>1, <1>3, StartState DEF RowsKept, WorkersKept
<1>7. Counted'
  <2>1. \A x \in Events : Claiming(x)' = Claiming(x)
    BY <1>1, <1>3, StartState DEF Claiming, At
  <2> QED BY <2>1, <1>1, Typed, SameCount
<1> QED BY <1>1, <1>5, <1>6, <1>7, KeptInv

\* The task ends without an effect on its row: a claim is refused, or the
\* worker dies, loses its message to another one, or fails.
LEMMA EndKeeps ==
    ASSUME CallbackInv, NEW w \in Workers,
           \/ ~At(w, "post") /\ faults' = faults
           \/ faults' = faults + 1,
           broker' \in [Events -> 0 .. MaxCopies],
           Finish(w),
           UNCHANGED <<row, posts, since, accepted, aborted, stalls>>
    PROVE  CallbackInv'
<1>1. Shapes'
  BY FinishTypes, Typed, ShapesFrom
<1>2. RowsKept /\ WorkersKept
  BY FinishTypes DEF RowsKept
<1>3. Counted'
  <2>1. CASE ~At(w, "post") /\ faults' = faults
    <3>1. \A x \in Events : Claiming(x)' = Claiming(x)
      BY <2>1, FinishTypes DEF Claiming
    <3> QED BY <2>1, <3>1, Typed, SameCount
  <2>2. CASE faults' = faults + 1
    BY <2>2, FinishTypes, Typed, LostCount
  <2> QED BY <2>1, <2>2
<1> QED BY <1>1, <1>2, <1>3, KeptInv

LEMMA RedeliverKeeps ==
    ASSUME CallbackInv, NEW w \in Workers, Redeliver(w)
    PROVE  CallbackInv'
<1>1. /\ UNCHANGED <<row, posts, since, accepted, aborted, stalls>>
      /\ faults' = faults + 1
  BY DEF Redeliver, Fault
<1>2. broker' \in [Events -> 0 .. MaxCopies]
  BY Typed, EnqueueTypes DEF Redeliver
<1>3. CASE Finish(w)
  BY <1>1, <1>2, <1>3, EndKeeps
<1>4. CASE UNCHANGED worker
  <2>1. Shapes'
    BY <1>1, <1>2, <1>4, Typed, ShapesFrom DEF Busy, At
  <2>2. RowsKept /\ WorkersKept
    BY <1>1, <1>4 DEF RowsKept, WorkersKept
  <2>3. \A x \in Events : Claiming(x)' = Claiming(x)
    BY <1>4 DEF Claiming, At
  <2>4. Counted'
    BY <2>3, <1>1, Typed, SameCount
  <2> QED BY <1>1, <2>1, <2>2, <2>4, KeptInv
<1> QED BY <1>3, <1>4 DEF Redeliver

-----------------------------------------------------------------------------
\* A claim

\* Nobody that may be claimed has a sender that is not stalled, and its last POST
\* lies back far enough.
LEMMA DueIsFree ==
    ASSUME CallbackInv, NEW e \in Events, Due(e)
    PROVE  /\ \A w \in Workers : Sending(w, e) => worker[w].stalled
           /\ stalls = 0 => since[e] = RetryDelay
           /\ row[e].attempts < MaxAttempts /\ ~row[e].delivered
<1>1. row[e] \in RowStates /\ since[e] \in 0 .. RetryDelay
  BY Typed
<1>2. \A w \in Workers : Sending(w, e) => worker[w].stalled
  <2> SUFFICES ASSUME NEW w \in Workers, Sending(w, e), ~worker[w].stalled PROVE FALSE
    OBVIOUS
  <2>1. row[e].inFlight + worker[w].age >= Lease
    BY DEF CallbackInv, ClaimsHold
  <2>2. worker[w].age \in 0 .. PostTime
    BY Typed, Fields
  <2> QED BY <2>1, <2>2, Times DEF Due
<1>3. stalls = 0 => since[e] = RetryDelay
  BY <1>1, Times DEF CallbackInv, Spaced, KeptAway, Due
<1> QED BY <1>2, <1>3 DEF Due

LEMMA ClaimedRows ==
    ASSUME CallbackInv, NEW e \in Events, Due(e), row' = [row EXCEPT ![e] = Claimed(@)]
    PROVE  /\ row' \in [Events -> RowStates]
           /\ \A x \in Events : row'[x] = IF x = e THEN Claimed(row[e]) ELSE row[x]
           /\ row'[e].attempts = row[e].attempts + 1 /\ row'[e].token = row[e].attempts + 1
           /\ row'[e].inFlight = Lease /\ row'[e].nextIn = row[e].nextIn
           /\ row'[e].delivered = row[e].delivered
<1>1. row[e] \in RowStates /\ row[e].attempts < MaxAttempts
  BY Typed DEF Due
<1>2. Claimed(row[e]) \in RowStates
  BY <1>1, ClaimedRow
<1>3. \A x \in Events : row'[x] = IF x = e THEN Claimed(row[e]) ELSE row[x]
  BY Typed
<1>4. row' \in [Events -> RowStates]
  BY <1>2, Typed
<1> QED BY <1>1, <1>3, <1>4, ClaimedRow

\* A claim that is committed, by a worker that goes on with it or that fails.
LEMMA ClaimKeeps ==
    ASSUME CallbackInv, NEW w \in Workers, NEW e \in Events,
           worker[w].event = e, At(w, "claim"), Due(e),
           row' = [row EXCEPT ![e] = Claimed(@)],
           UNCHANGED <<broker, posts, since, accepted, aborted, stalls>>,
           \/ /\ worker' = [worker EXCEPT ![w] = Granted(@, row[e].attempts + 1)]
              /\ UNCHANGED faults
           \/ Finish(w) /\ faults' = faults + 1
    PROVE  CallbackInv'
<1>1. /\ row[e] \in RowStates /\ worker[w] \in WorkerStates
      /\ row[e].attempts + 1 \in 0 .. MaxAttempts /\ row[e].attempts \in Nat
  BY Typed, Fields, DueIsFree, Times
<1> DEFINE goes == worker' = [worker EXCEPT ![w] = Granted(@, row[e].attempts + 1)]
<1>2. /\ worker' \in [Workers -> WorkerStates]
      /\ \A v \in Workers : v # w => worker'[v] = worker[v]
      /\ \/ /\ worker'[w].pc = "post" /\ worker'[w].event = e
            /\ worker'[w].token = row[e].attempts + 1
            /\ worker'[w].age = 0 /\ faults' = faults
         \/ worker'[w].pc = "idle" /\ faults' = faults + 1
      /\ ~worker'[w].stalled
  <2>1. CASE goes /\ faults' = faults
    <3>1. /\ worker' \in [Workers -> WorkerStates]
          /\ \A v \in Workers :
                worker'[v] = IF v = w THEN Granted(worker[w], row[e].attempts + 1)
                             ELSE worker[v]
      BY <1>1, <2>1, Typed, GrantedState
    <3> QED BY <1>1, <2>1, <3>1, GrantedState
  <2>2. CASE Finish(w) /\ faults' = faults + 1
    BY <2>2, FinishTypes
  <2> QED BY <2>1, <2>2
<1> HIDE DEF goes
<1>3. \A v \in Workers, x \in Events : Sending(v, x)' =>
          \/ v # w /\ Sending(v, x) /\ worker'[v] = worker[v]
          \/ /\ v = w /\ x = e /\ worker'[w].token = row[e].attempts + 1
             /\ worker'[w].age = 0
  BY <1>2 DEF Sending
<1>4. Shapes'
  <2>1. \A v \in Workers : Busy(v)' => worker'[v].event \in Events
    BY <1>2, Typed DEF Busy, At
  <2>2. row' \in [Events -> RowStates]
    BY ClaimedRows
  <2>3. /\ broker' \in [Events -> 0 .. MaxCopies] /\ posts' \in [Events -> Nat]
        /\ since' \in [Events -> 0 .. RetryDelay] /\ accepted' \subseteq Events
        /\ aborted' \subseteq Events /\ stalls' \in Nat /\ faults' \in Nat
    BY <1>2, Typed
  <2> QED BY <1>2, <2>1, <2>2, <2>3, ShapesFrom
<1>5. TokensApart'
  <2>1. \A v \in Workers, x \in Events : Sending(v, x) =>
           /\ worker[v].token >= 1 /\ worker[v].token <= row[x].attempts
           /\ worker[v].token \in Nat /\ row[x].attempts \in Nat
    BY Typed, Fields, Times DEF CallbackInv, TokensApart
  <2>2. \A x \in Events : row'[x].attempts = IF x = e THEN row[e].attempts + 1
                                            ELSE row[x].attempts
    BY ClaimedRows
  <2> SUFFICES ASSUME NEW x \in Events, NEW v \in Workers, Sending(v, x)'
               PROVE  /\ worker'[v].token >= 1 /\ worker'[v].token <= row'[x].attempts
                      /\ \A u \in Workers : u # v /\ Sending(u, x)'
                            => worker'[u].token # worker'[v].token
    BY DEF TokensApart
  <2>3. worker'[v].token >= 1 /\ worker'[v].token <= row'[x].attempts
    BY <1>1, <1>3, <2>1, <2>2
  <2>4. ASSUME NEW u \in Workers, u # v, Sending(u, x)'
        PROVE  worker'[u].token # worker'[v].token
    BY <1>1, <1>3, <2>1, <2>4 DEF CallbackInv, TokensApart
  <2> QED BY <2>3, <2>4
<1>6. ClaimsHold'
  <2> SUFFICES ASSUME NEW x \in Events, NEW v \in Workers, Sending(v, x)',
                      ~worker'[v].stalled
               PROVE  /\ row'[x].token = worker'[v].token
                      /\ row'[x].inFlight + worker'[v].age >= Lease
                      /\ ~row'[x].delivered
    BY DEF ClaimsHold
  <2>1. CASE v = w
    <3>1. x = e /\ worker'[v].token = row[e].attempts + 1 /\ worker'[v].age = 0
      BY <1>3, <2>1
    <3>2. /\ row'[e].token = row[e].attempts + 1 /\ row'[e].inFlight = Lease
          /\ row'[e].delivered = row[e].delivered /\ ~row[e].delivered
      BY ClaimedRows, DueIsFree
    <3> QED BY <3>1, <3>2, Times
  <2>2. CASE v # w
    <3>1. Sending(v, x) /\ worker'[v] = worker[v]
      BY <1>3, <2>2
    <3>2. x # e
      BY <3>1, DueIsFree
    <3> QED BY <3>1, <3>2, ClaimedRows DEF CallbackInv, ClaimsHold
  <2> QED BY <2>1, <2>2
<1>7. StallsCounted'
  BY <1>2 DEF CallbackInv, StallsCounted
<1>8. AnswersKept'
  BY <1>2, ClaimedRows DEF CallbackInv, AnswersKept, DeliveredWasAccepted, At
<1>9. Spaced'
  <2> SUFFICES ASSUME stalls = 0
               PROVE  /\ \A x \in Events : KeptAway(x)'
                      /\ \A x \in Events, v \in Workers :
                            At(v, "post")' /\ worker'[v].event = x => since'[x] = RetryDelay
    BY DEF Spaced
  <2>1. \A x \in Events : KeptAway(x)'
    BY ClaimedRows, DueIsFree DEF CallbackInv, Spaced, KeptAway
  <2>2. \A x \in Events, v \in Workers :
           At(v, "post")' /\ worker'[v].event = x => since'[x] = RetryDelay
    BY <1>2, DueIsFree DEF CallbackInv, Spaced, At
  <2> QED BY <2>1, <2>2
<1>10. Counted'
  <2> SUFFICES ASSUME NEW x \in Events
               PROVE  /\ IsFiniteSet(Claiming(x)')
                      /\ posts'[x] + Cardinality(Claiming(x)') <= row'[x].attempts
                      /\ row'[x].attempts <= posts'[x] + Cardinality(Claiming(x)') + faults'
    BY DEF Counted, PostsMatchAttempts
  <2> DEFINE C == Claiming(x)
  <2> DEFINE D == Claiming(x)'
  <2>1. /\ IsFiniteSet(C) /\ Cardinality(C) \in Nat
        /\ posts[x] + Cardinality(C) <= row[x].attempts
        /\ row[x].attempts <= posts[x] + Cardinality(C) + faults
    BY FS_CardinalityType DEF CallbackInv, Counted, PostsMatchAttempts
  <2>2. \/ D = C /\ x = e /\ faults' = faults + 1
        \/ D = C \cup {w} /\ w \notin C /\ x = e /\ faults' = faults
        \/ D = C /\ x # e /\ faults' >= faults
    <3>1. w \notin C
      BY DEF Claiming, At
    <3>2. faults' \in {faults, faults + 1} /\ faults \in Nat
      BY <1>2, Typed
    <3> QED BY <1>2, <3>1, <3>2 DEF Claiming, At
  <2>3. row'[x].attempts = IF x = e THEN row[x].attempts + 1 ELSE row[x].attempts
    BY ClaimedRows
  <2> HIDE DEF C, D
  <2>4. /\ IsFiniteSet(D) /\ Cardinality(D) \in Nat
        /\ D = C => Cardinality(D) = Cardinality(C)
        /\ D = C \cup {w} /\ w \notin C => Cardinality(D) = Cardinality(C) + 1
    BY <2>1, <2>2, FS_AddElement, FS_CardinalityType
  <2>5. posts'[x] = posts[x] /\ posts[x] \in Nat /\ row[x].attempts \in Nat /\ faults \in Nat
    BY Typed
  <2>6. /\ posts'[x] + Cardinality(D) <= row'[x].attempts
        /\ row'[x].attempts <= posts'[x] + Cardinality(D) + faults'
    BY <1>2, <2>1, <2>2, <2>3, <2>4, <2>5
  <2> QED BY <2>4, <2>6 DEF D
<1> QED BY <1>4, <1>5, <1>6, <1>7, <1>8, <1>9, <1>10 DEF CallbackInv

LEMMA ClaimActionKeeps ==
    ASSUME CallbackInv, NEW w \in Workers, Claim(w)
    PROVE  CallbackInv'
<1> DEFINE e == worker[w].event
<1>1. At(w, "claim") /\ e \in Events
      /\ UNCHANGED <<broker, posts, since, accepted, aborted, faults, stalls>>
  BY Typed DEF Claim, env, Busy, At
<1>2. CASE Due(e)
  <2>1. /\ row' = [row EXCEPT ![e] = Claimed(@)]
        /\ worker' = [worker EXCEPT ![w] = Granted(@, row[e].attempts + 1)]
    BY <1>2 DEF Claim
  <2> HIDE DEF e
  <2> QED BY <1>1, <1>2, <2>1, ClaimKeeps DEF e
<1>3. CASE ~Due(e)
  <2>1. Finish(w) /\ UNCHANGED row
    BY <1>3 DEF Claim
  <2> QED BY <1>1, <2>1, Typed, EndKeeps DEF At
<1> QED BY <1>2, <1>3

LEMMA TaskErrorKeeps ==
    ASSUME CallbackInv, NEW w \in Workers, TaskError(w)
    PROVE  CallbackInv'
<1> DEFINE e == worker[w].event
<1>1. e \in Events /\ Finish(w) /\ faults' = faults + 1
      /\ UNCHANGED <<broker, posts, since, accepted, aborted, stalls>>
  BY Typed DEF TaskError, Fault
<1>2. CASE At(w, "claim") /\ Due(e) /\ row' = [row EXCEPT ![e] = Claimed(@)]
  BY <1>1, <1>2, ClaimKeeps
<1>3. CASE UNCHANGED row
  BY <1>1, <1>3, Typed, EndKeeps
<1> QED BY <1>2, <1>3 DEF TaskError

-----------------------------------------------------------------------------
\* Steps of a worker under its claim, and time

\* A worker that goes on, or stalls, keeps its claim as it was.
LEMMA GoesOn ==
    ASSUME CallbackInv, NEW w \in Workers, NEW s \in WorkerStates,
           worker[w].pc \in {"post", "answer", "report"},
           s.pc \in {"post", "answer", "report"},
           s.event = worker[w].event, s.token = worker[w].token, s.age = worker[w].age,
           worker[w].stalled => s.stalled,
           worker' = [worker EXCEPT ![w] = s],
           UNCHANGED row
    PROVE  /\ TokensApart' /\ ClaimsHold'
           /\ worker' \in [Workers -> WorkerStates]
           /\ \A v \in Workers : worker'[v] = IF v = w THEN s ELSE worker[v]
           /\ \A v \in Workers : Busy(v)' => worker'[v].event \in Events
           /\ worker[w].event \in Events
<1>1. \A v \in Workers : worker'[v] = IF v = w THEN s ELSE worker[v]
  BY Typed
<1>2. worker' \in [Workers -> WorkerStates]
  BY Typed
<1>3. \A v \in Workers, x \in Events : Sending(v, x)' =>
          /\ Sending(v, x) /\ worker'[v].token = worker[v].token
          /\ worker'[v].age = worker[v].age
          /\ worker[v].stalled => worker'[v].stalled
  BY <1>1 DEF Sending
<1>4. TokensApart'
  BY <1>3 DEF CallbackInv, TokensApart
<1>5. ClaimsHold'
  BY <1>3 DEF CallbackInv, ClaimsHold
<1>6. worker[w].event \in Events
  BY Typed DEF Busy, At
<1>7. \A v \in Workers : Busy(v)' => worker'[v].event \in Events
  BY <1>1, <1>6, Typed DEF Busy, At
<1> QED BY <1>1, <1>2, <1>4, <1>5, <1>6, <1>7

LEMMA PostKeeps ==
    ASSUME CallbackInv, NEW w \in Workers, Post(w)
    PROVE  CallbackInv'
<1> DEFINE e == worker[w].event
<1> DEFINE s == Posted(worker[w])
<1>1. /\ worker[w].pc = "post" /\ worker[w] \in WorkerStates
      /\ posts' = [posts EXCEPT ![e] = @ + 1] /\ since' = [since EXCEPT ![e] = 0]
      /\ worker' = [worker EXCEPT ![w] = s]
      /\ UNCHANGED <<row, broker, accepted, aborted, faults, stalls>>
  BY Typed DEF Post, At
<1>2. /\ s \in WorkerStates /\ s.pc = "answer" /\ s.event = e
      /\ s.token = worker[w].token /\ s.age = worker[w].age
      /\ s.stalled = worker[w].stalled
  BY <1>1, PostedState
<1> HIDE DEF s
<1>3. /\ TokensApart' /\ ClaimsHold'
      /\ worker' \in [Workers -> WorkerStates]
      /\ \A v \in Workers : worker'[v] = IF v = w THEN s ELSE worker[v]
      /\ \A v \in Workers : Busy(v)' => worker'[v].event \in Events
      /\ e \in Events
  BY <1>1, <1>2, GoesOn
<1>4. Sending(w, e)
  BY <1>1 DEF Sending
<1> HIDE DEF e
<1>5. posts' \in [Events -> Nat] /\ since' \in [Events -> 0 .. RetryDelay]
  BY <1>1, <1>3, Typed, ZeroRanges
<1>6. \A x \in Events : /\ posts'[x] = IF x = e THEN posts[e] + 1 ELSE posts[x]
                        /\ since'[x] = IF x = e THEN 0 ELSE since[x]
  BY <1>1, Typed
<1>7. Shapes'
  BY <1>1, <1>3, <1>5, Typed, ShapesFrom
<1>8. StallsCounted'
  BY <1>1, <1>2, <1>3 DEF CallbackInv, StallsCounted
<1>9. AnswersKept'
  BY <1>1, <1>2, <1>3 DEF CallbackInv, AnswersKept, DeliveredWasAccepted, At
<1>10. Spaced'
  <2> SUFFICES ASSUME stalls = 0
               PROVE  /\ \A x \in Events : KeptAway(x)'
                      /\ \A x \in Events, v \in Workers :
                            At(v, "post")' /\ worker'[v].event = x => since'[x] = RetryDelay
    BY <1>1 DEF Spaced
  <2>1. \A v \in Workers : ~worker[v].stalled
    BY Times DEF CallbackInv, StallsCounted
  <2>2. row[e].inFlight >= RetryDelay
    <3>1. row[e].inFlight + worker[w].age >= Lease
      BY <1>3, <1>4, <2>1 DEF CallbackInv, ClaimsHold
    <3>2. worker[w].age \in 0 .. PostTime /\ row[e].inFlight \in 0 .. Lease
      BY <1>3, Typed, Fields
    <3> QED BY <3>1, <3>2, Times
  <2>3. \A x \in Events : KeptAway(x)'
    <3>1. row[e].inFlight \in 0 .. Lease
      BY <1>3, Typed, Fields
    <3> QED BY <1>1, <1>6, <2>2, <3>1, Times DEF CallbackInv, Spaced, KeptAway
  <2>4. \A v \in Workers : v # w => ~Sending(v, e)
    BY <1>3, <1>4, <2>1 DEF CallbackInv, ClaimsHold, TokensApart
  <2>5. ASSUME NEW x \in Events, NEW v \in Workers, At(v, "post")', worker'[v].event = x
        PROVE  since'[x] = RetryDelay
    <3>1. v # w
      BY <1>2, <1>3, <2>5 DEF At
    <3>2. worker'[v] = worker[v] /\ At(v, "post") /\ worker[v].event = x
      BY <1>3, <2>5, <3>1 DEF At
    <3>3. x # e
      BY <3>1, <3>2, <2>4 DEF Sending, At
    <3> QED BY <1>6, <3>2, <3>3 DEF CallbackInv, Spaced
  <2> QED BY <2>3, <2>5
<1>11. Counted'
  <2> SUFFICES ASSUME NEW x \in Events
               PROVE  /\ IsFiniteSet(Claiming(x)')
                      /\ posts'[x] + Cardinality(Claiming(x)') <= row'[x].attempts
                      /\ row'[x].attempts <= posts'[x] + Cardinality(Claiming(x)') + faults'
    BY DEF Counted, PostsMatchAttempts
  <2> DEFINE C == Claiming(x)
  <2> DEFINE D == Claiming(x)'
  <2>1. /\ IsFiniteSet(C) /\ Cardinality(C) \in Nat
        /\ posts[x] + Cardinality(C) <= row[x].attempts
        /\ row[x].attempts <= posts[x] + Cardinality(C) + faults
    BY FS_CardinalityType DEF CallbackInv, Counted, PostsMatchAttempts
  <2>2. /\ x = e => w \in C /\ D = C \ {w}
        /\ x # e => D = C
    BY <1>1, <1>2, <1>3 DEF Claiming, At, e
  <2> HIDE DEF C, D
  <2>3. /\ IsFiniteSet(D)
        /\ x = e => Cardinality(D) = Cardinality(C) - 1
        /\ x # e => Cardinality(D) = Cardinality(C)
    BY <2>1, <2>2, FS_RemoveElement
  <2>4. posts[x] \in Nat /\ row[x].attempts \in Nat /\ faults \in Nat
    BY Typed
  <2>5. /\ posts'[x] + Cardinality(D) <= row'[x].attempts
        /\ row'[x].attempts <= posts'[x] + Cardinality(D) + faults'
    BY <1>1, <1>6, <2>1, <2>3, <2>4
  <2> QED BY <2>3, <2>5 DEF D
<1> QED BY <1>3, <1>7, <1>8, <1>9, <1>10, <1>11 DEF CallbackInv

LEMMA AnswerKeeps ==
    ASSUME CallbackInv, NEW w \in Workers, Answer(w)
    PROVE  CallbackInv'
<1> DEFINE e == worker[w].event
<1>1. PICK ok \in BOOLEAN :
         /\ worker' = [worker EXCEPT ![w] = Answered(@, ok)]
         /\ accepted' = IF ok THEN accepted \cup {e} ELSE accepted
  BY DEF Answer
<1> DEFINE s == Answered(worker[w], ok)
<1>2. /\ worker[w].pc = "answer" /\ worker[w] \in WorkerStates
      /\ UNCHANGED <<row, broker, posts, since, aborted, faults, stalls>>
  BY Typed DEF Answer, At
<1>3. /\ s \in WorkerStates /\ s.pc = "report" /\ s.event = e
      /\ s.token = worker[w].token /\ s.age = worker[w].age
      /\ s.stalled = worker[w].stalled /\ s.ok = ok
  BY <1>2, AnsweredState
<1>4. worker' = [worker EXCEPT ![w] = s]
  BY <1>1
<1> HIDE DEF s
<1>5. /\ TokensApart' /\ ClaimsHold'
      /\ worker' \in [Workers -> WorkerStates]
      /\ \A v \in Workers : worker'[v] = IF v = w THEN s ELSE worker[v]
      /\ \A v \in Workers : Busy(v)' => worker'[v].event \in Events
      /\ e \in Events
  BY <1>2, <1>3, <1>4, GoesOn
<1>6. accepted \subseteq accepted' /\ accepted' \subseteq Events
  BY <1>1, <1>5, Typed
<1>7. Shapes'
  BY <1>2, <1>5, <1>6, Typed, ShapesFrom
<1>8. StallsCounted'
  BY <1>2, <1>3, <1>5 DEF CallbackInv, StallsCounted
<1>9. AnswersKept'
  BY <1>1, <1>2, <1>3, <1>5, <1>6
     DEF CallbackInv, AnswersKept, DeliveredWasAccepted, At
<1>10. Spaced'
  BY <1>2, <1>3, <1>5 DEF CallbackInv, Spaced, KeptAway, At
<1>11. Counted'
  <2>1. \A x \in Events : Claiming(x)' = Claiming(x)
    BY <1>2, <1>3, <1>5 DEF Claiming, At
  <2> QED BY <2>1, <1>2, Typed, SameCount
<1> QED BY <1>5, <1>7, <1>8, <1>9, <1>10, <1>11 DEF CallbackInv

LEMMA StallKeeps ==
    ASSUME CallbackInv, NEW w \in Workers, Stall(w)
    PROVE  CallbackInv'
<1> DEFINE s == Stalling(worker[w])
<1>1. /\ worker[w].pc \in {"post", "answer", "report"} /\ worker[w] \in WorkerStates
      /\ worker' = [worker EXCEPT ![w] = s]
      /\ UNCHANGED <<row, broker, posts, since, accepted, aborted, faults>>
      /\ stalls' = stalls + 1
  BY Typed DEF Stall, At
<1>2. /\ s \in WorkerStates /\ s.pc = worker[w].pc /\ s.event = worker[w].event
      /\ s.token = worker[w].token /\ s.age = worker[w].age /\ s.ok = worker[w].ok
      /\ s.stalled
  BY <1>1, StallingState
<1> HIDE DEF s
<1>3. /\ TokensApart' /\ ClaimsHold'
      /\ worker' \in [Workers -> WorkerStates]
      /\ \A v \in Workers : worker'[v] = IF v = w THEN s ELSE worker[v]
      /\ \A v \in Workers : Busy(v)' => worker'[v].event \in Events
  BY <1>1, <1>2, GoesOn
<1>4. stalls' > 0 /\ stalls' \in Nat
  BY <1>1, Typed
<1>5. Shapes'
  BY <1>1, <1>3, <1>4, Typed, ShapesFrom
<1>6. StallsCounted' /\ Spaced'
  BY <1>4 DEF StallsCounted, Spaced
<1>7. AnswersKept'
  BY <1>1, <1>2, <1>3 DEF CallbackInv, AnswersKept, DeliveredWasAccepted, At
<1>8. Counted'
  <2>1. \A x \in Events : Claiming(x)' = Claiming(x)
    BY <1>1, <1>2, <1>3 DEF Claiming, At
  <2> QED BY <2>1, <1>1, Typed, SameCount
<1> QED BY <1>3, <1>5, <1>6, <1>7, <1>8 DEF CallbackInv

\* A report under a claim that stands ends it; nobody else has its token.
LEMMA ReportKeeps ==
    ASSUME CallbackInv, NEW w \in Workers, Report(w)
    PROVE  CallbackInv'
<1> DEFINE e == worker[w].event
<1> DEFINE r == Reported(row[e], worker[w].ok)
<1>1. /\ worker[w].pc = "report" /\ worker[w] \in WorkerStates /\ Finish(w)
      /\ UNCHANGED <<broker, posts, since, accepted, aborted, faults, stalls>>
      /\ e \in Events
  BY Typed DEF Report, At, env, Busy
<1>2. CASE ~HoldsClaim(w)
  <2>1. row' = row
    BY <1>2, Typed DEF Report
  <2> QED BY <1>1, <2>1, Typed, EndKeeps DEF At
<1>3. CASE HoldsClaim(w)
  <2>1. row[e] \in RowStates /\ worker[w].ok \in BOOLEAN
    BY <1>1, Typed, Fields
  <2>2. /\ r \in RowStates
        /\ r.attempts = row[e].attempts /\ r.inFlight = 0
        /\ r.delivered = (row[e].delivered \/ worker[w].ok)
        /\ ~worker[w].ok => r.nextIn = RetryDelay
    BY <2>1, ReportedRow
  <2>3. row' = [row EXCEPT ![e] = r]
    BY <1>3 DEF Report
  <2>4. row[e].token = worker[w].token
    BY <1>3 DEF HoldsClaim
  <2>5. Sending(w, e)
    BY <1>1 DEF Sending
  <2> HIDE DEF r, e
  <2>6. /\ \A x \in Events : row'[x] = IF x = e THEN r ELSE row[x]
        /\ row' \in [Events -> RowStates]
    BY <2>2, <2>3, Typed
  <2>7. Shapes'
    BY <1>1, <2>6, FinishTypes, Typed, ShapesFrom
  <2>8. \A v \in Workers, x \in Events : Sending(v, x)' =>
           Sending(v, x) /\ worker'[v] = worker[v] /\ v # w
    BY <1>1, FinishTypes DEF Sending
  <2>9. TokensApart'
    BY <2>2, <2>6, <2>8 DEF CallbackInv, TokensApart
  <2>10. ClaimsHold'
    <3> SUFFICES ASSUME NEW x \in Events, NEW v \in Workers, Sending(v, x)',
                        ~worker'[v].stalled
                 PROVE  /\ row'[x].token = worker'[v].token
                        /\ row'[x].inFlight + worker'[v].age >= Lease
                        /\ ~row'[x].delivered
      BY DEF ClaimsHold
    <3>1. Sending(v, x) /\ worker'[v] = worker[v] /\ v # w
      BY <2>8
    <3>2. /\ row[x].token = worker[v].token
          /\ row[x].inFlight + worker[v].age >= Lease
          /\ ~row[x].delivered
      BY <3>1 DEF CallbackInv, ClaimsHold
    <3>3. x # e
      BY <1>1, <2>4, <2>5, <3>1, <3>2 DEF CallbackInv, TokensApart
    <3> QED BY <2>6, <3>1, <3>2, <3>3
  <2>11. StallsCounted'
    BY <1>1, FinishTypes DEF CallbackInv, StallsCounted
  <2>12. AnswersKept'
    <3>1. worker[w].ok => e \in accepted
      BY <1>1 DEF CallbackInv, AnswersKept, At, e
    <3>2. DeliveredWasAccepted'
      BY <1>1, <2>2, <2>6, <3>1 DEF CallbackInv, AnswersKept, DeliveredWasAccepted
    <3>3. \A v \in Workers : At(v, "report")' => v # w /\ worker'[v] = worker[v]
      BY <1>1, FinishTypes DEF At
    <3> QED BY <1>1, <3>2, <3>3 DEF CallbackInv, AnswersKept, At
  <2>13. Spaced'
    <3> SUFFICES ASSUME stalls = 0
                 PROVE  /\ \A x \in Events : KeptAway(x)'
                        /\ \A x \in Events, v \in Workers :
                              At(v, "post")' /\ worker'[v].event = x
                                => since'[x] = RetryDelay
      BY <1>1 DEF Spaced
    <3>1. ASSUME NEW x \in Events PROVE KeptAway(x)'
      <4>1. CASE x # e
        BY <1>1, <2>6, <4>1 DEF CallbackInv, Spaced, KeptAway
      <4>2. CASE x = e /\ worker[w].ok
        BY <2>2, <2>6, <4>2 DEF KeptAway
      <4>3. CASE x = e /\ ~worker[w].ok
        <5>1. row'[x].nextIn = RetryDelay /\ since'[x] \in 0 .. RetryDelay
          BY <1>1, <2>2, <2>6, <4>3, Typed
        <5> QED BY <5>1, Times DEF KeptAway
      <4> QED BY <2>1, <4>1, <4>2, <4>3
    <3>2. \A x \in Events, v \in Workers :
             At(v, "post")' /\ worker'[v].event = x => since'[x] = RetryDelay
      BY <1>1, FinishTypes DEF CallbackInv, Spaced, At
    <3> QED BY <3>1, <3>2
  <2>14. Counted'
    <3>1. \A x \in Events : Claiming(x)' = Claiming(x)
      BY <1>1, FinishTypes DEF Claiming, At
    <3>2. \A x \in Events : row'[x].attempts = row[x].attempts
      BY <2>2, <2>6
    <3> QED BY <3>1, <3>2, <1>1, Typed, SameCount
  <2> QED BY <2>7, <2>9, <2>10, <2>11, <2>12, <2>13, <2>14 DEF CallbackInv
<1> QED BY <1>2, <1>3

LEMMA TickKeeps ==
    ASSUME CallbackInv, Tick
    PROVE  CallbackInv'
<1>1. /\ UNCHANGED <<broker, posts, accepted, aborted, faults, stalls>>
      /\ \A w \in Workers : Busy(w) => worker[w].stalled \/ worker[w].age < PostTime
  BY DEF Tick
<1>2. /\ \A x \in Events : row'[x] = Elapsed(row[x])
      /\ \A x \in Events : since'[x] = IF since[x] < RetryDelay THEN since[x] + 1
                                       ELSE since[x]
      /\ \A w \in Workers : worker'[w] = IF Busy(w) /\ ~worker[w].stalled
                                        THEN Older(worker[w]) ELSE worker[w]
  BY DEF Tick
<1>3. /\ row' \in [Events -> RowStates]
      /\ \A x \in Events :
            /\ row[x] \in RowStates
            /\ row'[x].attempts = row[x].attempts /\ row'[x].token = row[x].token
            /\ row'[x].nextIn = Less(row[x].nextIn)
            /\ row'[x].inFlight = Less(row[x].inFlight)
            /\ row'[x].delivered = row[x].delivered
  BY <1>2, ElapsedRow, Typed DEF Tick
<1>4. \A w \in Workers :
         /\ worker'[w] \in WorkerStates
         /\ worker'[w].pc = worker[w].pc /\ worker'[w].event = worker[w].event
         /\ worker'[w].token = worker[w].token /\ worker'[w].ok = worker[w].ok
         /\ worker'[w].stalled = worker[w].stalled
         /\ Busy(w) /\ ~worker[w].stalled
              => worker'[w].age = worker[w].age + 1 /\ worker[w].age < PostTime
  <2> SUFFICES ASSUME NEW w \in Workers
               PROVE  /\ worker'[w] \in WorkerStates
                      /\ worker'[w].pc = worker[w].pc /\ worker'[w].event = worker[w].event
                      /\ worker'[w].token = worker[w].token /\ worker'[w].ok = worker[w].ok
                      /\ worker'[w].stalled = worker[w].stalled
                      /\ Busy(w) /\ ~worker[w].stalled
                           => /\ worker'[w].age = worker[w].age + 1
                              /\ worker[w].age < PostTime
    OBVIOUS
  <2>1. worker[w] \in WorkerStates
    BY Typed
  <2>2. CASE Busy(w) /\ ~worker[w].stalled
    BY <1>1, <1>2, <2>1, <2>2, OlderState
  <2>3. CASE ~(Busy(w) /\ ~worker[w].stalled)
    BY <1>2, <2>1, <2>3
  <2> QED BY <2>2, <2>3
<1>5. worker' \in [Workers -> WorkerStates]
  BY <1>4 DEF Tick
<1>6. since' \in [Events -> 0 .. RetryDelay]
  <2>1. \A x \in Events :
           (IF since[x] < RetryDelay THEN since[x] + 1 ELSE since[x]) \in 0 .. RetryDelay
    BY Typed, Times
  <2> QED BY <2>1 DEF Tick
<1>7. Shapes'
  <2>1. \A w \in Workers : Busy(w)' => worker'[w].event \in Events
    BY <1>4, Typed DEF Busy, At
  <2> QED BY <1>1, <1>3, <1>5, <1>6, <2>1, Typed, ShapesFrom
<1>8. \A w \in Workers, x \in Events : Sending(w, x)' => Sending(w, x) /\ Busy(w)
  BY <1>4 DEF Sending, Busy, At
<1>9. TokensApart'
  BY <1>3, <1>4, <1>8 DEF CallbackInv, TokensApart
<1>10. ClaimsHold'
  <2> SUFFICES ASSUME NEW x \in Events, NEW w \in Workers, Sending(w, x)',
                      ~worker'[w].stalled
               PROVE  /\ row'[x].token = worker'[w].token
                      /\ row'[x].inFlight + worker'[w].age >= Lease
                      /\ ~row'[x].delivered
    BY DEF ClaimsHold
  <2>1. /\ Sending(w, x) /\ Busy(w) /\ ~worker[w].stalled
        /\ worker'[w].age = worker[w].age + 1 /\ worker[w].age < PostTime
    BY <1>4, <1>8
  <2>2. /\ row[x].token = worker[w].token
        /\ row[x].inFlight + worker[w].age >= Lease
        /\ ~row[x].delivered
    BY <2>1 DEF CallbackInv, ClaimsHold
  <2>3. row[x].inFlight \in 0 .. Lease /\ worker[w].age \in 0 .. PostTime
    BY Typed, Fields
  <2>4. row'[x].inFlight + worker'[w].age >= Lease
    BY <1>3, <2>1, <2>2, <2>3, Times DEF Less
  <2> QED BY <1>3, <1>4, <2>2, <2>4
<1>11. StallsCounted'
  BY <1>1, <1>4 DEF CallbackInv, StallsCounted
<1>12. AnswersKept'
  BY <1>1, <1>3, <1>4 DEF CallbackInv, AnswersKept, DeliveredWasAccepted, At
<1>13. Spaced'
  <2> SUFFICES ASSUME stalls = 0
               PROVE  /\ \A x \in Events : KeptAway(x)'
                      /\ \A x \in Events, w \in Workers :
                            At(w, "post")' /\ worker'[w].event = x => since'[x] = RetryDelay
    BY <1>1 DEF Spaced
  <2>1. ASSUME NEW x \in Events PROVE KeptAway(x)'
    <3>1. KeptAway(x)
      BY DEF CallbackInv, Spaced
    <3>2. /\ row[x].nextIn \in 0 .. RetryDelay /\ row[x].inFlight \in 0 .. Lease
          /\ since[x] \in 0 .. RetryDelay
      BY Typed, Fields
    <3> QED BY <1>2, <1>3, <3>1, <3>2, Times DEF KeptAway, Less
  <2>2. \A x \in Events, w \in Workers :
           At(w, "post")' /\ worker'[w].event = x => since'[x] = RetryDelay
    BY <1>2, <1>4, Times DEF CallbackInv, Spaced, At
  <2> QED BY <2>1, <2>2
<1>14. Counted'
  <2>1. \A x \in Events : Claiming(x)' = Claiming(x)
    BY <1>4 DEF Claiming, At
  <2> QED BY <2>1, <1>1, <1>3, Typed, SameCount
<1> QED BY <1>7, <1>9, <1>10, <1>11, <1>12, <1>13, <1>14 DEF CallbackInv

-----------------------------------------------------------------------------
\* Init, Next, and the theorems

LEMMA InitEstablishes == Init => CallbackInv
<1> SUFFICES ASSUME Init PROVE CallbackInv
  OBVIOUS
<1>1. /\ \A e \in Events : row[e] = NewEvent /\ posts[e] = 0 /\ since[e] = RetryDelay
      /\ \A w \in Workers : worker[w] = Idle
      /\ accepted = {} /\ aborted = {} /\ faults = 0 /\ stalls = 0
  BY DEF Init
<1>2. /\ row \in [Events -> RowStates] /\ worker \in [Workers -> WorkerStates]
      /\ broker \in [Events -> 0 .. MaxCopies] /\ posts \in [Events -> Nat]
      /\ since \in [Events -> 0 .. RetryDelay]
  <2>1. 0 \in 0 .. MaxCopies /\ RetryDelay \in 0 .. RetryDelay
    BY Times, CallbackAssumption
  <2> QED BY <2>1, NewRow, IdleState DEF Init
<1>3. Shapes
  BY <1>1, <1>2, IdleState DEF Shapes, CallbackTypeOK, Busy, At
<1>4. TokensApart /\ ClaimsHold
  BY <1>1, IdleState DEF TokensApart, ClaimsHold, Sending
<1>5. StallsCounted /\ AnswersKept
  BY <1>1, IdleState, NewRow DEF StallsCounted, AnswersKept, DeliveredWasAccepted, At
<1>6. Spaced
  BY <1>1, IdleState DEF Spaced, KeptAway, At
<1>7. Counted
  <2>1. \A e \in Events : Claiming(e) = {}
    BY <1>1, IdleState DEF Claiming, At
  <2>2. \A e \in Events : IsFiniteSet(Claiming(e)) /\ Cardinality(Claiming(e)) = 0
    BY <2>1, FS_EmptySet
  <2> QED BY <1>1, <2>2, NewRow DEF Counted, PostsMatchAttempts
<1> QED BY <1>3, <1>4, <1>5, <1>6, <1>7 DEF CallbackInv

LEMMA StutterKeeps == CallbackInv /\ UNCHANGED vars => CallbackInv'
<1> SUFFICES ASSUME CallbackInv, UNCHANGED vars PROVE CallbackInv'
  OBVIOUS
<1>1. UNCHANGED <<row, worker, broker, posts, since, accepted, aborted, faults, stalls>>
  BY DEF vars, env
<1>2. Shapes'
  BY <1>1, Typed, ShapesFrom DEF Busy, At
<1>3. RowsKept /\ WorkersKept
  BY <1>1 DEF RowsKept, WorkersKept
<1>4. \A x \in Events : Claiming(x)' = Claiming(x)
  BY <1>1 DEF Claiming, At
<1>5. Counted'
  BY <1>1, <1>4, Typed, SameCount
<1> QED BY <1>1, <1>2, <1>3, <1>5, KeptInv

LEMMA NextPreserves == CallbackInv /\ [Next]_vars => CallbackInv'
<1> SUFFICES ASSUME CallbackInv, [Next]_vars PROVE CallbackInv'
  OBVIOUS
<1>1. ASSUME NEW e \in Events, Dispatch(e) \/ ClearReservation(e) PROVE CallbackInv'
  BY <1>1, DispatchKeeps
<1>2. ASSUME NEW w \in Workers, WorkerDoes(w) PROVE CallbackInv'
  BY <1>2, ReceiveKeeps, ClaimActionKeeps, PostKeeps, AnswerKeeps, ReportKeeps DEF WorkerDoes
<1>3. CASE FaultsDo
  BY <1>3, RedeliverKeeps, TaskErrorKeeps, StallKeeps, FaultKeeps DEF FaultsDo
<1>4. CASE Tick
  BY <1>4, TickKeeps
<1>5. CASE UNCHANGED vars
  BY <1>5, StutterKeeps
<1> QED BY <1>1, <1>2, <1>3, <1>4, <1>5 DEF Next

\* Tokens, leases, answers and counts fit together in every reachable state.
THEOREM CallbackInvariant == Spec => []CallbackInv
BY InitEstablishes, NextPreserves, PTL DEF Spec

\* The shapes of rows, workers and tasks (CallbackOutboxModel).
THEOREM CallbacksTypeCorrect == Spec => []CallbackTypeOK
<1>1. CallbackInv => CallbackTypeOK
  BY DEF CallbackInv, Shapes
<1> QED BY <1>1, CallbackInvariant, PTL

\* Each POST has its attempt, and an attempt without a POST has its fault
\* (claim_callback_delivery counts before deliver_callback_once sends).
THEOREM AttemptsPayForPosts == Spec => []PostsMatchAttempts
<1>1. CallbackInv => PostsMatchAttempts
  BY DEF CallbackInv, Counted
<1> QED BY <1>1, CallbackInvariant, PTL

\* Two workers send one event only if one of them has stalled: both would hold
\* the row otherwise, with different tokens (claim_token, in_flight_until).
THEOREM SendersExclude == Spec => []OneSender
<1>1. CallbackInv => OneSender
  BY DEF CallbackInv, OneSender, ClaimsHold, TokensApart
<1> QED BY <1>1, CallbackInvariant, PTL

\* delivered_at is set for a 2xx answer only (finish_callback_delivery).
THEOREM DeliveriesAreReal == Spec => []DeliveredWasAccepted
<1>1. CallbackInv => DeliveredWasAccepted
  BY DEF CallbackInv, AnswersKept
<1> QED BY <1>1, CallbackInvariant, PTL

\* Only the sending of a worker at its POST counts a POST.
LEMMA OnlyPostSends ==
    ASSUME CallbackInv, [Next]_vars, NEW e \in Events, PostSent(e)
    PROVE  \E w \in Workers : At(w, "post") /\ worker[w].event = e
<1>1. PICK w \in Workers : Post(w)
  BY DEF PostSent, Next, WorkerDoes, FaultsDo, vars, env, Dispatch, ClearReservation,
         Receive, Claim, Answer, Report, Redeliver, TaskError, Stall, DispatchAborts,
         LoseTask, Tick
<1> QED BY <1>1, Typed DEF Post, PostSent

\* No POST comes within the retry delay of the one before, as long as no worker
\* stalls: until then every sender's lease covers the delay that is left.
THEOREM PostsAreSpaced == Spec => SpacedUnlessStalled
<1>1. ASSUME CallbackInv, [Next]_vars
      PROVE  [\A e \in Events : PostSent(e) /\ stalls = 0 => since[e] = RetryDelay]_vars
  BY <1>1, OnlyPostSends DEF CallbackInv, Spaced
<1> QED BY <1>1, CallbackInvariant, PTL DEF Spec, SpacedUnlessStalled

\* After delivered_at is set only a worker that stalled can still send.
THEOREM DeliveriesAreLast == Spec => QuietAfterDelivery
<1>1. ASSUME CallbackInv, [Next]_vars
      PROVE  [\A e \in Events : row[e].delivered /\ PostSent(e) =>
                 \E w \in Workers : Sending(w, e) /\ worker[w].stalled]_vars
  <2> SUFFICES ASSUME NEW e \in Events, row[e].delivered, PostSent(e)
               PROVE  \E w \in Workers : Sending(w, e) /\ worker[w].stalled
    OBVIOUS
  <2>1. PICK w \in Workers : At(w, "post") /\ worker[w].event = e
    BY <1>1, OnlyPostSends
  <2>2. Sending(w, e)
    BY <2>1 DEF Sending, At
  <2> QED BY <1>1, <2>2 DEF CallbackInv, ClaimsHold
<1> QED BY <1>1, CallbackInvariant, PTL DEF Spec, QuietAfterDelivery

\* The step of one action, for a worker w that keeps sending under its claim.
LEMMA TokenStays ==
    ASSUME CallbackInv, [Next]_vars, NEW w \in Workers, NEW e \in Events,
           Sending(w, e), row[e].token = worker[w].token, row[e].inFlight > 0,
           worker'[w] = worker[w]
    PROVE  row'[e].token = row[e].token
<1>1. CASE UNCHANGED row
  BY <1>1
<1>2. ASSUME NEW x \in Events, Dispatch(x) \/ ClearReservation(x)
      PROVE  row'[e].token = row[e].token
  <2>1. PICK n \in 0 .. Reservation : row' = [row EXCEPT ![x] = Reserved(@, n)]
    BY <1>2, Times DEF Dispatch, ClearReservation
  <2>2. row'[e] = IF e = x THEN Reserved(row[x], n) ELSE row[e]
    BY <2>1, Typed
  <2> QED BY <2>2, Typed, ReservedRow
<1>3. ASSUME NEW x \in Events, Due(x), row' = [row EXCEPT ![x] = Claimed(@)]
      PROVE  row'[e].token = row[e].token
  <2>1. x # e
    BY <1>3, Typed, Fields, Times DEF Due
  <2> QED BY <1>3, <2>1, Typed
<1>4. ASSUME NEW v \in Workers, Claim(v) \/ TaskError(v)
      PROVE  row'[e].token = row[e].token
  <2>1. worker[v].event \in Events
    BY <1>4, Typed DEF Claim, TaskError, Busy, At
  <2>2. \/ UNCHANGED row
        \/ /\ Due(worker[v].event)
           /\ row' = [row EXCEPT ![worker[v].event] = Claimed(@)]
    BY <1>4 DEF Claim, TaskError
  <2> QED BY <1>1, <1>3, <2>1, <2>2
<1>5. ASSUME NEW v \in Workers, Report(v)
      PROVE  row'[e].token = row[e].token
  <2> DEFINE x == worker[v].event
  <2>1. v # w
    <3>1. worker'[v] = Idle
      BY <1>5, Typed DEF Report, Finish
    <3> QED BY <3>1, IdleState DEF Sending
  <2>2. CASE x # e
    BY <1>5, <2>2, Typed DEF Report
  <2>3. CASE x = e
    <3>1. Sending(v, e)
      BY <1>5, <2>3 DEF Report, Sending, At
    <3>2. ~HoldsClaim(v)
      BY <2>1, <2>3, <3>1 DEF CallbackInv, TokensApart, HoldsClaim
    <3> QED BY <1>5, <2>3, <3>2, Typed DEF Report
  <2> QED BY <2>2, <2>3
<1>6. CASE Tick
  BY <1>6, ElapsedRow, Typed DEF Tick
<1>7. ASSUME NEW v \in Workers, NEW x \in Events,
             \/ Receive(v, x) \/ Post(v) \/ Answer(v) \/ Redeliver(v) \/ Stall(v)
             \/ DispatchAborts(x) \/ LoseTask(x)
      PROVE  UNCHANGED row
  BY <1>7 DEF Receive, Post, Answer, Redeliver, Stall, DispatchAborts, LoseTask
<1>8. CASE UNCHANGED vars
  BY <1>1, <1>8 DEF vars
<1> QED
  BY <1>1, <1>2, <1>4, <1>5, <1>6, <1>7, <1>8 DEF Next, WorkerDoes, FaultsDo

\* A claim under a live lease ends only by its own worker: a late report has
\* another token, and the row is not due for a new claim (finish_callback_delivery).
THEOREM ClaimsStand == Spec => ClaimStands
<1>1. ASSUME CallbackInv, [Next]_vars
      PROVE  [\A w \in Workers, e \in Events :
                 (/\ Sending(w, e) /\ row[e].token = worker[w].token /\ row[e].inFlight > 0
                  /\ worker'[w] = worker[w]) => row'[e].token = row[e].token]_vars
  BY <1>1, TokenStays
<1> QED BY <1>1, CallbackInvariant, PTL DEF Spec, ClaimStands
=============================================================================
