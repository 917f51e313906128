-------------------------- MODULE WorkerTimingProofs --------------------------
(***************************************************************************)
(* Proofs about WorkerTiming for every number of generations and workers   *)
(* and for all durations that meet TimingAssumption: a worker that lives   *)
(* keeps its claim, and its task ends before the visibility timeout.       *)
(***************************************************************************)
EXTENDS WorkerTiming, TLAPS

-----------------------------------------------------------------------------
\* The inductive invariant

\* How a busy worker's state s and the row r it works on belong together.  The
\* lease counts down from the claim on, so Lease - r.lease is the claim's age;
\* with what the worker may still wait it stays within the part of LongestClaim
\* that ends with the wait.  A failover adds the submit it follows to the task.
Claim(w, s, r) ==
    /\ r.status = "processing" /\ r.holder = w
    /\ s.pc = "submit" => Lease - r.lease + s.left <= HttpTime
    /\ s.pc # "submit" => r.requested
    /\ s.pc \in {"status", "sleep"} /\ s.deadline > 0
         => Lease - r.lease + s.deadline <= HttpTime + PollDeadline
    /\ s.pc = "sleep" => Lease - r.lease + s.left <= HttpTime + PollDeadline + PollInterval
    /\ s.pc = "status" => Lease - r.lease + s.left <= LongestClaim - HttpTime
    /\ s.pc = "fetch" => Lease - r.lease + s.left <= LongestClaim
    /\ s.held <= Lease - r.lease + (IF s.failover THEN HttpTime ELSE 0)

ClaimFine(w) == Busy(w) => Claim(w, worker[w], row[worker[w].gen])

TimingInv == TimingTypeOK /\ \A w \in Workers : ClaimFine(w)

-----------------------------------------------------------------------------
\* The arithmetic of the durations.
LEMMA Durations ==
    /\ HttpTime \in Nat /\ HttpTime > 0 /\ PollInterval \in Nat /\ PollInterval > 0
    /\ PollDeadline \in Nat /\ Lease \in Nat /\ Visibility \in Nat
    /\ LongestClaim \in Nat
    /\ LongestClaim = HttpTime + HttpTime + HttpTime + PollDeadline + PollInterval
    /\ LongestClaim < Lease /\ HttpTime + LongestClaim < Visibility
BY TimingAssumption DEF LongestClaim

LEMMA Ranges ==
    /\ 0 \in 0 .. Lease /\ Lease \in 0 .. Lease
    /\ 0 \in 0 .. QueuedRecovery + 1 /\ 0 \in 0 .. MaxRetries
    /\ 0 \in 0 .. PollDeadline /\ PollDeadline \in 0 .. PollDeadline
    /\ \A n \in 0 .. Lease : Less(n) \in 0 .. Lease
    /\ \A n \in 0 .. PollDeadline : Less(n) \in 0 .. PollDeadline
    /\ \A n \in 0 .. QueuedRecovery + 1 :
          (IF n > QueuedRecovery THEN n ELSE n + 1) \in 0 .. QueuedRecovery + 1
<1>1. Lease \in Nat /\ QueuedRecovery \in Nat /\ MaxRetries \in Nat /\ PollDeadline \in Nat
  BY TimingAssumption
<1> QED BY <1>1 DEF Less

-----------------------------------------------------------------------------
\* What the operators on rows and on workers do to each field

LEMMA RowOperators ==
    ASSUME NEW r \in RowStates
    PROVE  /\ /\ Fresh(r) \in RowStates
              /\ Fresh(r).status = r.status /\ Fresh(r).holder = r.holder
              /\ Fresh(r).lease = r.lease /\ Fresh(r).requested = r.requested
           /\ Released(r) \in RowStates
           /\ Done(r) \in RowStates
           /\ /\ Requested(r) \in RowStates
              /\ Requested(r).status = r.status /\ Requested(r).holder = r.holder
              /\ Requested(r).lease = r.lease /\ Requested(r).requested
BY Ranges DEF RowStates, Fresh, Released, Done, Requested

LEMMA LeasedRow ==
    ASSUME NEW r \in RowStates, NEW w \in Workers
    PROVE  /\ Leased(r, w) \in RowStates
           /\ Leased(r, w).status = "processing" /\ Leased(r, w).holder = w
           /\ Leased(r, w).lease = Lease /\ Leased(r, w).requested = r.requested
BY Ranges DEF RowStates, Leased

LEMMA AgedRow ==
    ASSUME NEW r \in RowStates
    PROVE  /\ Aged(r) \in RowStates
           /\ Aged(r).status = r.status /\ Aged(r).holder = r.holder
           /\ Aged(r).lease = Less(r.lease) /\ Aged(r).requested = r.requested
BY Ranges DEF RowStates, Aged

LEMMA IdleState == Idle \in WorkerStates /\ Idle.pc = "idle" /\ Idle.gen = Nothing
BY Ranges DEF Idle, WorkerStates

LEMMA StartState ==
    ASSUME NEW g \in Gens, NEW n \in 0 .. MaxRetries
    PROVE  /\ With(g, n) \in WorkerStates
           /\ With(g, n).gen = g /\ ~With(g, n).failover /\ With(g, n).held = 0
BY Ranges DEF With, Idle, WorkerStates

LEMMA WaitingState ==
    ASSUME NEW s \in WorkerStates, NEW pc \in {"status", "sleep", "fetch"}, NEW time \in Nat
    PROVE  /\ Waiting(s, pc, time) \in WorkerStates
           /\ Waiting(s, pc, time).pc = pc /\ Waiting(s, pc, time).left = time
           /\ Waiting(s, pc, time).gen = s.gen /\ Waiting(s, pc, time).held = s.held
           /\ Waiting(s, pc, time).deadline = s.deadline
           /\ Waiting(s, pc, time).failover = s.failover
BY DEF Waiting, WorkerStates

LEMMA PollingState ==
    ASSUME NEW s \in WorkerStates
    PROVE  /\ Polling(s) \in WorkerStates
           /\ Polling(s).pc = "status" /\ Polling(s).left = HttpTime
           /\ Polling(s).deadline = PollDeadline /\ Polling(s).gen = s.gen
           /\ Polling(s).failover = s.failover /\ Polling(s).held = s.held
BY Ranges, Durations DEF Polling, WorkerStates

LEMMA SubmittingState ==
    ASSUME NEW s \in WorkerStates
    PROVE  /\ Submitting(s) \in WorkerStates
           /\ Submitting(s).pc = "submit" /\ Submitting(s).left = HttpTime
           /\ Submitting(s).gen = s.gen
           /\ Submitting(s).failover = s.failover /\ Submitting(s).held = s.held
BY Durations DEF Submitting, WorkerStates

LEMMA FailingOverState ==
    ASSUME NEW s \in WorkerStates
    PROVE  /\ FailingOver(s) \in WorkerStates
           /\ FailingOver(s).failover
           /\ FailingOver(s).gen = s.gen /\ FailingOver(s).held = s.held
BY DEF FailingOver, WorkerStates

LEMMA GoingState ==
    ASSUME NEW s \in WorkerStates, s.left > 0
    PROVE  /\ Going(s) \in WorkerStates
           /\ Going(s).left = s.left - 1 /\ Going(s).deadline = Less(s.deadline)
           /\ Going(s).held = s.held + 1
           /\ Going(s).pc = s.pc /\ Going(s).gen = s.gen
           /\ Going(s).failover = s.failover
<1>1. s.left - 1 \in Nat /\ s.held + 1 \in Nat /\ Less(s.deadline) \in 0 .. PollDeadline
  BY Ranges DEF WorkerStates
<1> QED BY <1>1 DEF Going, WorkerStates

LEMMA Fields ==
    /\ \A r \in RowStates : r.lease \in 0 .. Lease /\ r.requested \in BOOLEAN
    /\ \A s \in WorkerStates :
          /\ s.pc \in {"idle", "submit", "status", "sleep", "fetch"}
          /\ s.left \in Nat /\ s.deadline \in 0 .. PollDeadline /\ s.held \in Nat
          /\ s.failover \in BOOLEAN /\ s.retries \in 0 .. MaxRetries
          /\ s.gen \in Gens \cup {Nothing}
BY DEF RowStates, WorkerStates

\* A claim that was in time stays so, and so does its task.
LEMMA ClaimInTime ==
    ASSUME NEW w \in Workers, NEW s \in WorkerStates, NEW r \in RowStates,
           s.pc # "idle", Claim(w, s, r)
    PROVE  r.lease > 0 /\ s.held < Visibility
<1>1. /\ s.left \in Nat /\ r.lease \in 0 .. Lease /\ s.held \in Nat
      /\ s.pc \in {"submit", "status", "sleep", "fetch"}
  BY Fields
<1>2. Lease - r.lease <= LongestClaim
  BY <1>1, Durations DEF Claim
<1>3. s.held <= Lease - r.lease + HttpTime
  BY <1>1, Durations DEF Claim
<1> QED BY <1>1, <1>2, <1>3, Durations

\* Every claim starts in time, with or without a saved request id.
LEMMA BeginInTime ==
    ASSUME NEW w \in Workers, NEW s \in WorkerStates, NEW r \in RowStates,
           s.held <= IF s.failover THEN HttpTime ELSE 0
    PROVE  /\ Begin(s, r) \in WorkerStates
           /\ Begin(s, r).pc # "idle" /\ Begin(s, r).gen = s.gen
           /\ Claim(w, Begin(s, r), Fresh(Leased(r, w)))
<1> DEFINE new == Fresh(Leased(r, w))
<1>1. /\ new.status = "processing" /\ new.holder = w
      /\ new.lease = Lease /\ new.requested = r.requested
  BY LeasedRow, RowOperators
<1> HIDE DEF new
<1>2. CASE r.requested
  <2>1. Begin(s, r) = Polling(s)
    BY <1>2 DEF Begin
  <2>2. Claim(w, Polling(s), new)
    BY <1>1, <1>2, PollingState, Fields, Durations DEF Claim
  <2> QED BY <2>1, <2>2, PollingState DEF new
<1>3. CASE ~r.requested
  <2>1. Begin(s, r) = Submitting(s)
    BY <1>3 DEF Begin
  <2>2. Claim(w, Submitting(s), new)
    BY <1>1, SubmittingState, Fields, Durations DEF Claim
  <2> QED BY <2>1, <2>2, SubmittingState DEF new
<1> QED BY <1>2, <1>3

-----------------------------------------------------------------------------
\* What a write disturbs

LEMMA TypesOf ==
    ASSUME TimingTypeOK
    PROVE  /\ \A g \in Gens : row[g] \in RowStates
           /\ \A w \in Workers :
                 /\ worker[w] \in WorkerStates
                 /\ Busy(w) => worker[w].gen \in Gens
                 /\ Busy(w) <=> worker[w].pc # "idle"
BY DEF TimingTypeOK, Busy, WorkerStates

LEMMA WriteKeepsTypes ==
    ASSUME TimingTypeOK, NEW g \in Gens, NEW r \in RowStates, Write(g, r)
    PROVE  /\ row' \in [Gens -> RowStates] /\ older' \subseteq Gens \X Gens
           /\ row'[g] = Fresh(r)
           /\ \A h \in Gens : h # g => row'[h] = row[h]
<1>1. Fresh(r) \in RowStates
  BY RowOperators
<1>2. row' = [row EXCEPT ![g] = Fresh(r)] /\ older' = Refreshed({g})
  BY DEF Write
<1> HIDE DEF Write
<1> QED BY <1>1, <1>2 DEF TimingTypeOK, Refreshed

\* Worker w goes over to state s.
LEMMA WorkerKeepsTypes ==
    ASSUME TimingTypeOK, NEW w \in Workers, NEW s \in WorkerStates,
           worker' = [worker EXCEPT ![w] = s]
    PROVE  /\ worker' \in [Workers -> WorkerStates]
           /\ worker'[w] = s
           /\ \A v \in Workers : v # w => worker'[v] = worker[v]
BY DEF TimingTypeOK

\* Nobody works on a row that may be claimed, that is new, or whose lease ran out.
LEMMA FreeRow ==
    ASSUME TimingInv, NEW g \in Gens,
           MayClaim(g) \/ row[g].status # "processing" \/ row[g].lease = 0
    PROVE  \A v \in Workers : Busy(v) => worker[v].gen # g
<1> SUFFICES ASSUME NEW v \in Workers, Busy(v), worker[v].gen = g PROVE FALSE
  OBVIOUS
<1>1. Claim(v, worker[v], row[g])
  BY DEF TimingInv, ClaimFine
<1>2. worker[v] \in WorkerStates /\ worker[v].pc # "idle" /\ row[g] \in RowStates
  BY TypesOf DEF TimingInv, Busy
<1>3. row[g].lease > 0 /\ row[g].lease # 0
  BY <1>1, <1>2, ClaimInTime, Fields
<1>4. row[g].status = "processing"
  BY <1>1 DEF Claim
<1> QED BY <1>3, <1>4 DEF MayClaim

\* No two workers work on one generation.
LEMMA OneWorkerEach ==
    ASSUME TimingInv, NEW w \in Workers, NEW v \in Workers, v # w, Busy(w), Busy(v)
    PROVE  worker[v].gen # worker[w].gen
BY DEF TimingInv, ClaimFine, Claim

\* A step of w that writes row g at most, a row nobody else works on, leaves the
\* claims of the others alone.
LEMMA OthersKeep ==
    ASSUME TimingInv, NEW w \in Workers, NEW g,
           \A v \in Workers : v # w => worker'[v] = worker[v],
           \A h \in Gens : h # g => row'[h] = row[h],
           \A v \in Workers : v # w /\ Busy(v) => worker[v].gen # g
    PROVE  \A v \in Workers : v # w => ClaimFine(v)'
<1> SUFFICES ASSUME NEW v \in Workers, v # w, Busy(v)' PROVE ClaimFine(v)'
  BY DEF ClaimFine
<1>1. worker'[v] = worker[v] /\ Busy(v)
  BY DEF Busy
<1>2. worker[v].gen \in Gens /\ worker[v].gen # g
  <2>1. TimingTypeOK
    BY DEF TimingInv
  <2>2. worker[v].gen \in Gens
    BY <1>1, <2>1, TypesOf
  <2>3. worker[v].gen # g
    BY <1>1 DEF Busy
  <2> QED BY <2>2, <2>3
<1>3. row'[worker[v].gen] = row[worker[v].gen]
  BY <1>2
<1>4. Claim(v, worker[v], row[worker[v].gen])
  BY <1>1 DEF TimingInv, ClaimFine
<1> QED BY <1>1, <1>3, <1>4 DEF ClaimFine

\* The same for a busy w and its own row.
LEMMA OwnRowOnly ==
    ASSUME TimingInv, NEW w \in Workers, Busy(w),
           \A v \in Workers : v # w => worker'[v] = worker[v],
           \A h \in Gens : h # worker[w].gen => row'[h] = row[h]
    PROVE  \A v \in Workers : v # w => ClaimFine(v)'
<1>1. \A v \in Workers : v # w /\ Busy(v) => worker[v].gen # worker[w].gen
  BY OneWorkerEach
<1> DEFINE g == worker[w].gen
<1>2. \A h \in Gens : h # g => row'[h] = row[h]
  OBVIOUS
<1>3. \A v \in Workers : v # w /\ Busy(v) => worker[v].gen # g
  BY <1>1
<1> HIDE DEF g
<1> QED BY <1>2, <1>3, OthersKeep

-----------------------------------------------------------------------------
\* The steps of a task

LEMMA InitEstablishes == Init => TimingInv
<1> SUFFICES ASSUME Init PROVE TimingInv
  OBVIOUS
<1>1. row \in [Gens -> RowStates]
  BY Ranges DEF Init, RowStates
<1>2. worker \in [Workers -> WorkerStates] /\ \A w \in Workers : worker[w] = Idle
  BY IdleState DEF Init
<1>3. \A w \in Workers : ~Busy(w) /\ worker[w].gen = Nothing
  BY <1>2, IdleState DEF Busy
<1>4. crashes \in 0 .. MaxCrashes
  BY TimingAssumption DEF Init
<1>5. TimingTypeOK
  BY <1>1, <1>2, <1>3, <1>4 DEF Init, TimingTypeOK
<1> QED BY <1>3, <1>5 DEF TimingInv, ClaimFine

LEMMA ReceiveKeeps ==
    ASSUME TimingInv, NEW w \in Workers, NEW g \in Gens, NEW n \in 0 .. MaxRetries,
           Receive(w, g, n)
    PROVE  TimingInv'
<1> DEFINE new == Begin(With(g, n), row[g])
<1>1. TimingTypeOK /\ row[g] \in RowStates /\ broker' \subseteq Messages
  BY TypesOf DEF TimingInv, TimingTypeOK, Receive
<1>2. CASE MayClaim(g)
  <2>1. /\ Write(g, Leased(row[g], w))
        /\ worker' = [worker EXCEPT ![w] = new]
        /\ UNCHANGED <<pending, crashes>>
    BY <1>2 DEF Receive
  <2>2. /\ new \in WorkerStates /\ new.pc # "idle" /\ new.gen = g
        /\ Claim(w, new, Fresh(Leased(row[g], w)))
    <3>1. /\ With(g, n) \in WorkerStates /\ With(g, n).gen = g
          /\ With(g, n).held <= IF With(g, n).failover THEN HttpTime ELSE 0
      BY StartState
    <3> QED BY <1>1, <3>1, BeginInTime
  <2> HIDE DEF new
  <2>3. /\ worker' \in [Workers -> WorkerStates] /\ worker'[w] = new
        /\ \A v \in Workers : v # w => worker'[v] = worker[v]
    BY <1>1, <2>1, <2>2, WorkerKeepsTypes
  <2>4. /\ row' \in [Gens -> RowStates] /\ older' \subseteq Gens \X Gens
        /\ row'[g] = Fresh(Leased(row[g], w))
        /\ \A h \in Gens : h # g => row'[h] = row[h]
    BY <1>1, <2>1, LeasedRow, WriteKeepsTypes
  <2>5. ClaimFine(w)'
    BY <2>2, <2>3, <2>4 DEF ClaimFine
  <2>6. \A v \in Workers : v # w => ClaimFine(v)'
    BY <1>2, <2>3, <2>4, FreeRow, OthersKeep
  <2>7. \A v \in Workers : Busy(v)' <=> worker'[v].gen # Nothing
    BY <1>1, <2>2, <2>3, TimingAssumption DEF Busy, TimingTypeOK
  <2>8. TimingTypeOK'
    BY <1>1, <2>1, <2>3, <2>4, <2>7 DEF TimingTypeOK
  <2> QED BY <2>5, <2>6, <2>8 DEF TimingInv
<1>3. CASE ~MayClaim(g)
  <2>1. UNCHANGED <<row, older, worker, pending, crashes>>
    BY <1>3 DEF Receive
  <2> QED BY <1>1, <2>1 DEF TimingInv, TimingTypeOK, ClaimFine, Busy
<1> QED BY <1>2, <1>3

\* A step of a task ends it, or leaves a claim that is in time.
LEMMA TaskStep ==
    ASSUME TimingInv, NEW w \in Workers, Busy(w), NEW s \in WorkerStates,
           worker' = [worker EXCEPT ![w] = s],
           row' \in [Gens -> RowStates], older' \subseteq Gens \X Gens,
           \A h \in Gens : h # worker[w].gen => row'[h] = row[h],
           pending' \subseteq Gens, broker' \subseteq Messages, crashes' \in 0 .. MaxCrashes,
           \/ s.pc = "idle" /\ s.gen = Nothing
           \/ /\ s.pc # "idle" /\ s.gen = worker[w].gen
              /\ Claim(w, s, row'[worker[w].gen])
    PROVE  TimingInv'
<1>1. TimingTypeOK /\ worker[w].gen \in Gens
  BY TypesOf DEF TimingInv
<1>2. /\ worker' \in [Workers -> WorkerStates] /\ worker'[w] = s
      /\ \A v \in Workers : v # w => worker'[v] = worker[v]
  BY <1>1, WorkerKeepsTypes
<1>3. \A v \in Workers : v # w => ClaimFine(v)'
  BY <1>2, OwnRowOnly
<1>4. ClaimFine(w)'
  BY <1>2 DEF ClaimFine, Busy
<1>5. \A v \in Workers : Busy(v)' <=> worker'[v].gen # Nothing
  BY <1>1, <1>2, TimingAssumption DEF Busy, TimingTypeOK
<1>6. TimingTypeOK'
  BY <1>2, <1>5 DEF TimingTypeOK
<1> QED BY <1>3, <1>4, <1>6 DEF TimingInv

\* A worker writes its own row or none.
LEMMA OwnWrite ==
    ASSUME TimingInv, NEW w \in Workers, Busy(w), NEW r \in RowStates,
           Write(worker[w].gen, r) \/ UNCHANGED <<row, older>>
    PROVE  /\ row' \in [Gens -> RowStates] /\ older' \subseteq Gens \X Gens
           /\ \A h \in Gens : h # worker[w].gen => row'[h] = row[h]
           /\ Write(worker[w].gen, r) => row'[worker[w].gen] = Fresh(r)
<1>1. TimingTypeOK /\ worker[w].gen \in Gens
  BY TypesOf DEF TimingInv
<1>2. CASE Write(worker[w].gen, r)
  BY <1>1, <1>2, WriteKeepsTypes
<1>3. CASE UNCHANGED <<row, older>> /\ ~Write(worker[w].gen, r)
  BY <1>1, <1>3 DEF TimingTypeOK
<1> QED BY <1>2, <1>3

\* However a task ends, and whatever it last wrote.
LEMMA TaskEnds ==
    ASSUME TimingInv, NEW w \in Workers, Busy(w), Finish(w), NEW r \in RowStates,
           Write(worker[w].gen, r) \/ UNCHANGED <<row, older>>,
           pending' \subseteq Gens, broker' \subseteq Messages, crashes' \in 0 .. MaxCrashes
    PROVE  TimingInv'
<1>1. /\ row' \in [Gens -> RowStates] /\ older' \subseteq Gens \X Gens
      /\ \A h \in Gens : h # worker[w].gen => row'[h] = row[h]
  BY OwnWrite
<1>2. worker' = [worker EXCEPT ![w] = Idle]
  BY DEF Finish
<1> QED BY <1>1, <1>2, IdleState, TaskStep

\* What is known of a busy worker.
LEMMA BusyFacts ==
    ASSUME TimingInv, NEW w \in Workers, Busy(w)
    PROVE  /\ worker[w] \in WorkerStates /\ worker[w].gen \in Gens
           /\ row[worker[w].gen] \in RowStates
           /\ Claim(w, worker[w], row[worker[w].gen])
           /\ pending \subseteq Gens /\ broker \subseteq Messages
           /\ crashes \in 0 .. MaxCrashes
BY TypesOf DEF TimingInv, TimingTypeOK, ClaimFine

-----------------------------------------------------------------------------
\* The polling loop

LEMMA PollInTime ==
    ASSUME NEW w \in Workers, NEW s \in WorkerStates, NEW r \in RowStates,
           s.pc = "submit", Claim(w, s, r)
    PROVE  Claim(w, Polling(s), Fresh(Requested(r)))
BY RowOperators, PollingState, Fields, Durations DEF Claim

LEMMA SleepInTime ==
    ASSUME NEW w \in Workers, NEW s \in WorkerStates, NEW r \in RowStates,
           s.pc = "status", s.deadline # 0, Claim(w, s, r)
    PROVE  Claim(w, Waiting(s, "sleep", PollInterval), r)
<1> DEFINE new == Waiting(s, "sleep", PollInterval)
<1>1. /\ new.pc = "sleep" /\ new.left = PollInterval /\ new.held = s.held
      /\ new.deadline = s.deadline /\ new.failover = s.failover
  BY WaitingState, Durations
<1> HIDE DEF new
<1>2. Claim(w, new, r)
  BY <1>1, Fields, Durations DEF Claim
<1> QED BY <1>2 DEF new

LEMMA WakeInTime ==
    ASSUME NEW w \in Workers, NEW s \in WorkerStates, NEW r \in RowStates,
           s.pc = "sleep", s.left = 0, Claim(w, s, r)
    PROVE  Claim(w, Waiting(s, "status", HttpTime), r)
<1> DEFINE new == Waiting(s, "status", HttpTime)
<1>1. /\ new.pc = "status" /\ new.left = HttpTime /\ new.held = s.held
      /\ new.deadline = s.deadline /\ new.failover = s.failover
  BY WaitingState, Durations
<1> HIDE DEF new
<1>2. Claim(w, new, r)
  BY <1>1, Fields, Durations DEF Claim
<1> QED BY <1>2 DEF new

LEMMA FetchInTime ==
    ASSUME NEW w \in Workers, NEW s \in WorkerStates, NEW r \in RowStates,
           s.pc = "status", Claim(w, s, r)
    PROVE  Claim(w, Waiting(s, "fetch", HttpTime), r)
<1> DEFINE new == Waiting(s, "fetch", HttpTime)
<1>1. /\ new.pc = "fetch" /\ new.left = HttpTime /\ new.held = s.held
      /\ new.deadline = s.deadline /\ new.failover = s.failover
  BY WaitingState, Durations
<1> HIDE DEF new
<1>2. Claim(w, new, r)
  BY <1>1, Fields, Durations DEF Claim
<1> QED BY <1>2 DEF new

LEMMA SubmittedKeeps ==
    ASSUME TimingInv, NEW w \in Workers, Submitted(w)
    PROVE  TimingInv'
<1> DEFINE g == worker[w].gen
<1>1. /\ worker[w].pc = "submit" /\ Busy(w)
      /\ UNCHANGED <<pending, broker, crashes>>
  BY DEF Submitted, At, Busy
<1>2. CASE Holds(w) /\ ~row[g].requested
  <2>1. /\ Write(g, Requested(row[g]))
        /\ worker' = [worker EXCEPT ![w] = Polling(worker[w])]
    BY <1>2 DEF Submitted
  <2>2. Requested(row[g]) \in RowStates
    BY <1>1, BusyFacts, RowOperators
  <2>3. /\ row' \in [Gens -> RowStates] /\ older' \subseteq Gens \X Gens
        /\ \A h \in Gens : h # g => row'[h] = row[h]
        /\ row'[g] = Fresh(Requested(row[g]))
    BY <1>1, <2>1, <2>2, OwnWrite
  <2>4. /\ Polling(worker[w]) \in WorkerStates
        /\ Polling(worker[w]).pc # "idle" /\ Polling(worker[w]).gen = g
        /\ Claim(w, Polling(worker[w]), row'[g])
    BY <1>1, <2>3, BusyFacts, PollingState, PollInTime
  <2> QED BY <1>1, <2>1, <2>3, <2>4, BusyFacts, TaskStep
<1>3. CASE ~(Holds(w) /\ ~row[g].requested)
  BY <1>1, <1>3, BusyFacts, TaskEnds DEF Submitted
<1> QED BY <1>2, <1>3

\* The three steps of the loop only wait.
LEMMA WaitKeeps ==
    ASSUME TimingInv, NEW w \in Workers, Busy(w),
           NEW pc \in {"status", "sleep", "fetch"}, NEW time \in Nat,
           Wait(w, pc, time), UNCHANGED <<row, older, pending, broker, crashes>>,
           Claim(w, Waiting(worker[w], pc, time), row[worker[w].gen])
    PROVE  TimingInv'
<1> DEFINE s == Waiting(worker[w], pc, time)
<1>1. /\ s \in WorkerStates /\ s.pc # "idle" /\ s.gen = worker[w].gen
  <2>1. worker[w] \in WorkerStates
    BY BusyFacts
  <2> QED BY <2>1, WaitingState
<1>2. worker' = [worker EXCEPT ![w] = s]
  BY DEF Wait
<1>3. row' \in [Gens -> RowStates] /\ older' \subseteq Gens \X Gens
  BY DEF TimingInv, TimingTypeOK
<1>4. Claim(w, s, row'[worker[w].gen])
  <2>1. row' = row
    OBVIOUS
  <2> QED BY <2>1
<1> HIDE DEF s
<1> QED BY <1>1, <1>2, <1>3, <1>4, BusyFacts, TaskStep

LEMMA LoopKeeps ==
    ASSUME TimingInv, NEW w \in Workers,
           StatusPending(w) \/ WakeUp(w) \/ StatusCompleted(w)
    PROVE  TimingInv'
<1>1. /\ worker[w].pc \in {"status", "sleep"} /\ Busy(w)
      /\ UNCHANGED <<row, older, pending, broker, crashes>>
  BY DEF StatusPending, WakeUp, StatusCompleted, At, Busy
<1>2. CASE StatusPending(w)
  <2>1. /\ worker[w].pc = "status" /\ worker[w].deadline # 0
        /\ Wait(w, "sleep", PollInterval)
    BY <1>2 DEF StatusPending, At, DeadlinePassed
  <2> QED BY <1>1, <2>1, BusyFacts, SleepInTime, WaitKeeps, Durations
<1>3. CASE WakeUp(w)
  <2>1. worker[w].pc = "sleep" /\ worker[w].left = 0 /\ Wait(w, "status", HttpTime)
    BY <1>3 DEF WakeUp, At
  <2> QED BY <1>1, <2>1, BusyFacts, WakeInTime, WaitKeeps, Durations
<1>4. CASE StatusCompleted(w)
  <2>1. worker[w].pc = "status" /\ Wait(w, "fetch", HttpTime)
    BY <1>4 DEF StatusCompleted, At
  <2> QED BY <1>1, <2>1, BusyFacts, FetchInTime, WaitKeeps, Durations
<1> QED BY <1>2, <1>3, <1>4

-----------------------------------------------------------------------------
\* Results and errors

LEMMA FetchedKeeps ==
    ASSUME TimingInv, NEW w \in Workers, Fetched(w)
    PROVE  TimingInv'
<1>1. /\ Busy(w) /\ Finish(w) /\ UNCHANGED <<pending, broker, crashes>>
      /\ Write(worker[w].gen, Done(row[worker[w].gen])) \/ UNCHANGED <<row, older>>
  BY DEF Fetched, At, Busy
<1>2. Done(row[worker[w].gen]) \in RowStates
  BY <1>1, BusyFacts, RowOperators
<1> QED BY <1>1, <1>2, BusyFacts, TaskEnds

LEMMA FailKeeps ==
    ASSUME TimingInv, NEW w \in Workers, Busy(w), Fail(w), UNCHANGED <<pending, crashes>>
    PROVE  TimingInv'
<1>1. /\ Finish(w) /\ UNCHANGED <<pending, broker, crashes>>
      /\ Write(worker[w].gen, Done(row[worker[w].gen])) \/ UNCHANGED <<row, older>>
  BY DEF Fail
<1>2. Done(row[worker[w].gen]) \in RowStates
  BY BusyFacts, RowOperators
<1> QED BY <1>1, <1>2, BusyFacts, TaskEnds

LEMMA RequeueKeeps ==
    ASSUME TimingInv, NEW w \in Workers, Busy(w), MayRetry(w), Requeue(w),
           UNCHANGED <<pending, crashes>>
    PROVE  TimingInv'
<1>1. /\ Finish(w) /\ broker' = broker \cup {<<worker[w].gen, worker[w].retries + 1>>}
      /\ Write(worker[w].gen, Released(row[worker[w].gen])) \/ UNCHANGED <<row, older>>
  BY DEF Requeue
<1>2. Released(row[worker[w].gen]) \in RowStates
  BY BusyFacts, RowOperators
<1>3. worker[w].retries + 1 \in 0 .. MaxRetries
  <2>1. worker[w] \in WorkerStates
    BY BusyFacts
  <2>2. worker[w].retries \in 0 .. MaxRetries
    BY <2>1, Fields
  <2> QED BY <2>2, TimingAssumption DEF MayRetry
<1>4. broker' \subseteq Messages
  BY <1>1, <1>3, BusyFacts DEF Messages
<1> QED BY <1>1, <1>2, <1>4, BusyFacts, TaskEnds

\* The failover starts a claim of its own, after a submit at most.
LEMMA SwitchKeeps ==
    ASSUME TimingInv, NEW w \in Workers, Busy(w), ~worker[w].failover, MaySwitch(w),
           Switch(w), UNCHANGED <<pending, crashes>>
    PROVE  TimingInv'
<1> DEFINE g == worker[w].gen
           s == FailingOver(worker[w])
           new == Begin(s, row[g])
<1>1. /\ Write(g, Leased(row[g], w)) /\ UNCHANGED broker
      /\ worker' = [worker EXCEPT ![w] = new]
  BY DEF Switch
<1>2. /\ worker[w] \in WorkerStates /\ g \in Gens /\ row[g] \in RowStates
      /\ Claim(w, worker[w], row[g]) /\ ~row[g].requested
  BY BusyFacts DEF MaySwitch
<1>3. s \in WorkerStates /\ s.failover /\ s.gen = g /\ s.held = worker[w].held
  BY <1>2, FailingOverState
<1>4. worker[w].held <= HttpTime
  <2>1. worker[w].pc = "submit"
    BY <1>2 DEF Claim
  <2> QED BY <1>2, <2>1, Fields, Durations DEF Claim
<1>5. s.held <= IF s.failover THEN HttpTime ELSE 0
  BY <1>3, <1>4
<1> HIDE DEF s
<1>6. /\ new \in WorkerStates /\ new.pc # "idle" /\ new.gen = g
      /\ Claim(w, new, Fresh(Leased(row[g], w)))
  BY <1>2, <1>3, <1>5, BeginInTime
<1> HIDE DEF new
<1>7. Leased(row[g], w) \in RowStates
  BY <1>2, LeasedRow
<1>8. /\ row' \in [Gens -> RowStates] /\ older' \subseteq Gens \X Gens
      /\ \A h \in Gens : h # g => row'[h] = row[h]
      /\ row'[g] = Fresh(Leased(row[g], w))
  BY <1>1, <1>7, OwnWrite
<1> QED BY <1>1, <1>6, <1>8, BusyFacts, TaskStep

LEMMA HandleKeeps ==
    ASSUME TimingInv, NEW w \in Workers, Busy(w), NEW kind, Handle(w, kind)
    PROVE  TimingInv'
<1>1. /\ UNCHANGED <<pending, crashes>>
      /\ \/ Fail(w)
         \/ MayRetry(w) /\ Requeue(w)
         \/ ~worker[w].failover /\ MaySwitch(w) /\ Switch(w)
  BY DEF Handle
<1>2. CASE Fail(w)
  BY <1>1, <1>2, FailKeeps
<1>3. CASE MayRetry(w) /\ Requeue(w)
  BY <1>1, <1>3, RequeueKeeps
<1>4. CASE ~worker[w].failover /\ MaySwitch(w) /\ Switch(w)
  BY <1>1, <1>4, SwitchKeeps
<1> QED BY <1>1, <1>2, <1>3, <1>4

LEMMA ErrorsKeep ==
    ASSUME TimingInv, NEW w \in Workers,
           CallFails(w) \/ StatusFailed(w) \/ PollingTimesOut(w)
    PROVE  TimingInv'
<1>1. Busy(w)
  BY DEF CallFails, StatusFailed, PollingTimesOut, At, Busy
<1>2. \E kind : Handle(w, kind)
  BY DEF CallFails, StatusFailed, PollingTimesOut
<1> QED BY <1>1, <1>2, HandleKeeps

-----------------------------------------------------------------------------
\* The periodic jobs, crashes and time

\* A job writes rows nobody works on.
LEMMA JobStep ==
    ASSUME TimingInv, UNCHANGED <<worker, crashes>>,
           row' \in [Gens -> RowStates], older' \subseteq Gens \X Gens,
           pending' \subseteq Gens, broker' \subseteq Messages,
           \A v \in Workers : Busy(v) => row'[worker[v].gen] = row[worker[v].gen]
    PROVE  TimingInv'
<1>1. TimingTypeOK'
  BY DEF TimingInv, TimingTypeOK, Busy
<1>2. ASSUME NEW v \in Workers, Busy(v)' PROVE ClaimFine(v)'
  <2>1. Busy(v) /\ worker'[v] = worker[v]
    BY <1>2 DEF Busy
  <2>2. Claim(v, worker[v], row[worker[v].gen])
    BY <2>1 DEF TimingInv, ClaimFine
  <2>3. row'[worker[v].gen] = row[worker[v].gen]
    BY <2>1
  <2> QED BY <2>1, <2>2, <2>3 DEF ClaimFine
<1> QED BY <1>1, <1>2 DEF TimingInv, ClaimFine

LEMMA DispatchKeeps ==
    ASSUME TimingInv, NEW g \in Gens, Dispatch(g)
    PROVE  TimingInv'
<1>1. /\ UNCHANGED <<worker, crashes>>
      /\ pending' \subseteq Gens /\ broker' \subseteq Messages
  BY Ranges DEF Dispatch, TimingInv, TimingTypeOK, Messages
<1>2. TimingTypeOK /\ row[g] \in RowStates
  BY TypesOf DEF TimingInv
<1>3. CASE row[g].status = "created"
  <2>1. Write(g, Released(row[g])) /\ Released(row[g]) \in RowStates
    BY <1>2, <1>3, RowOperators DEF Dispatch
  <2>2. /\ row' \in [Gens -> RowStates] /\ older' \subseteq Gens \X Gens
        /\ \A h \in Gens : h # g => row'[h] = row[h]
    BY <1>2, <2>1, WriteKeepsTypes
  <2>3. \A v \in Workers : Busy(v) => worker[v].gen # g /\ worker[v].gen \in Gens
    BY <1>2, <1>3, FreeRow, TypesOf DEF MayClaim
  <2> QED BY <1>1, <2>2, <2>3, JobStep
<1>4. CASE row[g].status # "created"
  <2>1. row' = row /\ older' = older
    BY <1>4 DEF Dispatch
  <2> QED BY <1>1, <1>2, <2>1, JobStep DEF TimingTypeOK
<1> QED BY <1>3, <1>4

LEMMA RecoverKeeps ==
    ASSUME TimingInv, Recover
    PROVE  TimingInv'
<1>1. PICK S \in SUBSET Stale :
        LET expired == {g \in S : row[g].status = "processing"}
        IN  /\ row' = [g \in Gens |-> IF g \in expired
                          THEN Fresh(Released(row[g])) ELSE row[g]]
            /\ older' = Refreshed(expired)
            /\ pending' = pending \cup S
            /\ UNCHANGED <<broker, worker, crashes>>
  BY DEF Recover
<1> DEFINE expired == {g \in S : row[g].status = "processing"}
<1>2. TimingTypeOK /\ \A g \in Gens : row[g] \in RowStates
  BY TypesOf DEF TimingInv
<1>3. S \subseteq Gens /\ expired \subseteq Gens
  BY DEF Stale
<1>4. \A g \in expired : row[g].lease = 0
  BY DEF Stale
<1>5. \A g \in Gens : Fresh(Released(row[g])) \in RowStates
  BY <1>2, RowOperators
<1>6. row' = [g \in Gens |-> IF g \in expired
                THEN Fresh(Released(row[g])) ELSE row[g]]
  BY <1>1
<1>7. older' = Refreshed(expired)
  BY <1>1
<1> HIDE DEF expired
<1>8. row' \in [Gens -> RowStates]
  BY <1>2, <1>5, <1>6
<1>9. older' \subseteq Gens \X Gens
  BY <1>2, <1>3, <1>7 DEF Refreshed, TimingTypeOK
<1>10. \A v \in Workers : Busy(v) => worker[v].gen \notin expired /\ worker[v].gen \in Gens
  BY <1>2, <1>3, <1>4, FreeRow, TypesOf
<1>11. \A v \in Workers : Busy(v) => row'[worker[v].gen] = row[worker[v].gen]
  BY <1>6, <1>10
<1>12. /\ pending' \subseteq Gens /\ broker' \subseteq Messages
       /\ UNCHANGED <<worker, crashes>>
  BY <1>1, <1>2, <1>3 DEF TimingTypeOK
<1> QED BY <1>8, <1>9, <1>11, <1>12, JobStep

LEMMA CrashKeeps ==
    ASSUME TimingInv, NEW w \in Workers, Crash(w)
    PROVE  TimingInv'
<1>1. /\ Busy(w) /\ Finish(w) /\ UNCHANGED pending
      /\ Write(worker[w].gen, Released(row[worker[w].gen])) \/ UNCHANGED <<row, older>>
      /\ broker' \in {broker, broker \cup {<<worker[w].gen, worker[w].retries>>}}
      /\ crashes < MaxCrashes /\ crashes' = crashes + 1
  BY DEF Crash
<1>2. Released(row[worker[w].gen]) \in RowStates
  BY <1>1, BusyFacts, RowOperators
<1>3. worker[w].retries \in 0 .. MaxRetries
  <2>1. worker[w] \in WorkerStates
    BY <1>1, BusyFacts
  <2> QED BY <2>1, Fields
<1>4. broker' \subseteq Messages
  BY <1>1, <1>3, BusyFacts DEF Messages
<1>5. crashes' \in 0 .. MaxCrashes
  BY <1>1, BusyFacts, TimingAssumption
<1> QED BY <1>1, <1>2, <1>4, <1>5, BusyFacts, TaskEnds

\* Time takes from the lease what it takes from the wait and from the deadline.
LEMMA GoingInTime ==
    ASSUME NEW w \in Workers, NEW s \in WorkerStates, NEW r \in RowStates,
           s.pc # "idle", s.left > 0, Claim(w, s, r)
    PROVE  Claim(w, Going(s), Aged(r))
<1> DEFINE new == Going(s)
           aged == Aged(r)
<1>1. r.lease \in Nat /\ r.lease > 0 /\ s.deadline \in Nat /\ s.left \in Nat /\ s.held \in Nat
  BY ClaimInTime, Fields
<1>2. /\ aged.status = r.status /\ aged.holder = r.holder
      /\ aged.lease = r.lease - 1 /\ aged.requested = r.requested
  BY <1>1, AgedRow DEF Less
<1>3. /\ new.left = s.left - 1 /\ new.held = s.held + 1
      /\ new.deadline = (IF s.deadline > 0 THEN s.deadline - 1 ELSE 0)
      /\ new.pc = s.pc /\ new.failover = s.failover
  BY GoingState DEF Less
<1> HIDE DEF new, aged
<1>4. Claim(w, new, aged)
  BY <1>1, <1>2, <1>3, Durations DEF Claim
<1> QED BY <1>4 DEF new, aged

LEMMA TickKeeps ==
    ASSUME TimingInv, Tick
    PROVE  TimingInv'
<1>1. TimingTypeOK
  BY DEF TimingInv
<1>2. \A g \in Gens : row[g] \in RowStates /\ Aged(row[g]) \in RowStates
  BY <1>1, TypesOf, AgedRow
<1>3. row' = [g \in Gens |-> Aged(row[g])] /\ row' \in [Gens -> RowStates]
  BY <1>2 DEF Tick
<1>4. ASSUME NEW v \in Workers
      PROVE  /\ worker'[v] \in WorkerStates
             /\ Busy(v)' <=> worker'[v].gen # Nothing
             /\ ClaimFine(v)'
  <2>1. worker'[v] = IF Busy(v) THEN Going(worker[v]) ELSE Idle
    BY DEF Tick
  <2>2. CASE Busy(v)
    <3> DEFINE s == worker[v]
               g == worker[v].gen
    <3>1. /\ s \in WorkerStates /\ g \in Gens /\ row[g] \in RowStates
          /\ s.pc # "idle" /\ s.left > 0 /\ Claim(v, s, row[g])
      BY <2>2, BusyFacts DEF Tick, Busy
    <3>2. Claim(v, Going(s), Aged(row[g]))
      BY <3>1, GoingInTime
    <3>3. Going(s) \in WorkerStates /\ Going(s).pc # "idle" /\ Going(s).gen = g
      BY <3>1, GoingState
    <3>4. worker'[v] = Going(s) /\ row'[g] = Aged(row[g])
      BY <1>3, <2>1, <2>2, <3>1
    <3> QED BY <3>1, <3>2, <3>3, <3>4, TimingAssumption DEF ClaimFine, Busy
  <2>3. CASE ~Busy(v)
    BY <2>1, <2>3, IdleState DEF ClaimFine, Busy
  <2> QED BY <2>2, <2>3
<1>5. worker' \in [Workers -> WorkerStates]
  <2>1. worker' = [v \in Workers |-> IF Busy(v) THEN Going(worker[v]) ELSE Idle]
    BY DEF Tick
  <2> QED BY <1>4, <2>1
<1>6. UNCHANGED <<older, pending, broker, crashes>>
  BY DEF Tick
<1>7. TimingTypeOK'
  BY <1>1, <1>3, <1>4, <1>5, <1>6 DEF TimingTypeOK
<1> QED BY <1>4, <1>7 DEF TimingInv

LEMMA TimingInductive == TimingInv /\ [Next]_vars => TimingInv'
<1> SUFFICES ASSUME TimingInv, [Next]_vars PROVE TimingInv'
  OBVIOUS
<1>1. ASSUME NEW w \in Workers, WorkerDoes(w) PROVE TimingInv'
  BY <1>1, SubmittedKeeps, LoopKeeps, FetchedKeeps, ErrorsKeep DEF WorkerDoes
<1>2. CASE UNCHANGED vars
  BY <1>2 DEF vars, TimingInv, TimingTypeOK, ClaimFine, Busy
<1> QED BY <1>1, <1>2, ReceiveKeeps, CrashKeeps, DispatchKeeps, RecoverKeeps, TickKeeps DEF Next

-----------------------------------------------------------------------------
\* The theorems

\* Rows, messages and workers have their shapes, and every claim is in time.
THEOREM TimingInvariant == Spec => []TimingInv
<1>1. Init => TimingInv
  BY InitEstablishes
<1>2. TimingInv /\ [Next]_vars => TimingInv'
  BY TimingInductive
<1> QED BY <1>1, <1>2, PTL DEF Spec

\* Rows, messages and workers have their shapes, and retries never pass max_retries.
THEOREM TimingTypeCorrect == Spec => []TimingTypeOK
<1>1. TimingInv => TimingTypeOK
  BY DEF TimingInv
<1> QED BY <1>1, TimingInvariant, PTL

LEMMA InvGivesTime == TimingInv => LeaseOutlivesWork /\ VisibilityOutlivesTask
<1> SUFFICES ASSUME TimingInv, NEW w \in Workers
             PROVE  /\ Busy(w) => Holds(w) /\ row[worker[w].gen].lease > 0
                    /\ Busy(w) => worker[w].held < Visibility
  BY DEF LeaseOutlivesWork, VisibilityOutlivesTask
<1>1. CASE Busy(w)
  <2>1. /\ worker[w] \in WorkerStates /\ row[worker[w].gen] \in RowStates
        /\ worker[w].pc # "idle" /\ Claim(w, worker[w], row[worker[w].gen])
    BY <1>1, BusyFacts DEF Busy
  <2> QED BY <2>1, ClaimInTime DEF Holds, Claim
<1>2. CASE ~Busy(w)
  BY <1>2
<1> QED BY <1>1, <1>2

\* A worker that lives holds its row under a live lease, for all durations in which
\* submit, polling deadline, one more interval and the fetch fit into the lease.
THEOREM LeaseSuffices == Spec => []LeaseOutlivesWork
BY TimingInvariant, InvGivesTime, PTL

\* A task, failover and all, ends before its message is given to somebody else.
THEOREM VisibilitySuffices == Spec => []VisibilityOutlivesTask
BY TimingInvariant, InvGivesTime, PTL
=============================================================================
