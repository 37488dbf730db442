---------------------------- MODULE WorkerProofs ----------------------------
(***************************************************************************)
(* Proofs about the processes that do the work, for any jobs, calls,       *)
(* workers, hosts and requests:                                            *)
(*   - DurableJob, for any keys, priorities and policy: one open attempt,  *)
(*     that of the lease; attempts and checkpoints in bounds and in order; *)
(*     one job and one result per key; workers fenced by the clock;        *)
(*   - HandlerHost (Hh): a call is in one place until it is answered, and  *)
(*     is answered once, whatever its hosts do;                            *)
(*   - UploadSession (Us): a group is registered whole, and the objects     *)
(*     that are needed go only by the compensation of their own upload.    *)
(***************************************************************************)
EXTENDS DurableJob, Integers, FiniteSetTheorems, TLAPS

CONSTANTS Slots, Size, Requests, Garbage                     \* HandlerHost
VARIABLES pool, launching, fatal, queue, hosts, req

CONSTANTS Members, Doubled, Ages, MaxPuts, Uploaders, Finalizers,   \* UploadSession
  Crashes
VARIABLES session, registered, store, puts, up, fin, clean

Hh == INSTANCE HandlerHost
Us == INSTANCE UploadSession

-----------------------------------------------------------------------------
(* Durable jobs. *)

\* What assertRetryPolicy and validateEnqueue demand; None is nothing else.
DurableJobAssumption ==
  /\ JobPolicyAssumption
  /\ MaxReplays \in Nat /\ MaxSequence \in Nat
  /\ Priority \in [Jobs -> Int]
  /\ None \notin Workers /\ None \notin Jobs
  /\ None \notin [job : Jobs, token : Nat, resume : Nat]

Outcomes == {"ACTIVE", "SUCCEEDED", "RETRY_SCHEDULED", "DEAD_LETTER", "LEASE_EXPIRED", "CANCELLED"}
Bookkeeping ==
  [state : JobState, input : Inputs \union {None}, avail : 0..Backoff,
   cycle : 0..MaximumAttempts, replays : 0..MaxReplays,
   lease : [worker : Workers \union {None}, token : Nat, left : 0..LeaseDuration]]
Handle == [job : Jobs, token : Nat, resume : Nat]

-----------------------------------------------------------------------------
(* The inductive invariant. *)

\* A job's record and its attempts: the lease is that of the last attempt,
\* which alone is open, and attempts are counted by cycles.
Fits(r, a) ==
  /\ r \in Bookkeeping /\ a \in Seq(Outcomes)
  /\ Len(a) <= MaximumAttempts * r.replays + r.cycle
  /\ r.state \in {"none", "QUEUED"} => r.cycle = 0
  /\ r.state = "RETRY_WAIT" => r.cycle < MaximumAttempts
  /\ r.state = "RUNNING" =>
       /\ r.lease.worker \in Workers
       /\ Len(a) > 0 /\ r.lease.token = Len(a) /\ a[Len(a)] = "ACTIVE"
       /\ \A i \in 1..(Len(a) - 1) : a[i] # "ACTIVE"
  /\ r.state # "RUNNING" => r.lease = NoLease /\ \A i \in 1..Len(a) : a[i] # "ACTIVE"

\* Checkpoints are in order and none is of an attempt that is not there yet.
Ordered(cs, a) ==
  /\ cs \in Seq(JobCheckpoint)
  /\ \A i \in 1..Len(cs) : cs[i].token <= Len(a)
  /\ \A i, k \in 1..Len(cs) :
       i < k => cs[i].sequence < cs[k].sequence /\ cs[i].token <= cs[k].token

Types ==
  /\ jobs \in [Jobs -> Bookkeeping]
  /\ attempts \in [Jobs -> Seq(Outcomes)]
  /\ checkpoints \in [Jobs -> Seq(JobCheckpoint)]
  /\ \A j \in Jobs : Fits(jobs[j], attempts[j]) /\ Ordered(checkpoints[j], attempts[j])
  /\ index \in [Keys -> Jobs \union {None}]
  /\ holding \in [Workers -> Handle \union {None}]
  /\ results \in [Jobs -> Nat]

\* A key leads to the job that was enqueued with it.
Indexed == \A j \in Jobs : jobs[j].state # "none" => index[KeyOf[j]] = j

\* A job has its result when it has succeeded.
Counted == \A j \in Jobs : results[j] = (IF jobs[j].state = "SUCCEEDED" THEN 1 ELSE 0)

IInv == Types /\ Indexed /\ Counted

-----------------------------------------------------------------------------
(* A job's record and attempts under each operation. *)

LEMMA PolicyType ==
  ASSUME DurableJobAssumption
  PROVE  /\ MaximumAttempts \in Nat /\ MaximumAttempts > 0
         /\ Backoff \in Nat /\ LeaseDuration \in Nat /\ MaxReplays \in Nat
         /\ NoLease \in [worker : Workers \union {None}, token : Nat, left : 0..LeaseDuration]
BY DEF DurableJobAssumption, JobPolicyAssumption, NoLease

\* An attempt is opened.
LEMMA ClaimFits ==
  ASSUME DurableJobAssumption, NEW r, NEW a, Fits(r, a), NEW w \in Workers,
         r.state \in {"QUEUED", "RETRY_WAIT"}
  PROVE  Fits([r EXCEPT !.state = "RUNNING", !.cycle = r.cycle + 1,
                        !.lease = [worker |-> w, token |-> Len(a) + 1, left |-> LeaseDuration]],
              Append(a, "ACTIVE"))
<1> DEFINE l == [worker |-> w, token |-> Len(a) + 1, left |-> LeaseDuration]
           n == r.cycle + 1
           q == [r EXCEPT !.state = "RUNNING", !.cycle = n, !.lease = l]
           b == Append(a, "ACTIVE")
<1>1. /\ MaximumAttempts \in Nat /\ MaximumAttempts > 0 /\ LeaseDuration \in Nat
      /\ r \in Bookkeeping /\ a \in Seq(Outcomes) /\ Len(a) \in Nat
  BY PolicyType DEF Fits
<1>2. l \in [worker : Workers \union {None}, token : Nat, left : 0..LeaseDuration]
  BY <1>1
<1>3. r.cycle \in Nat /\ r.cycle < MaximumAttempts /\ r.replays \in Nat
  BY <1>1 DEF Fits, Bookkeeping
<1>4. l.worker = w /\ l.token = Len(a) + 1
  OBVIOUS
<1>5. n \in 0..MaximumAttempts
  BY <1>1, <1>3
<1> HIDE DEF l
<1>6. /\ q.state = "RUNNING" /\ q.cycle = n /\ q.lease = l /\ q.replays = r.replays
      /\ q \in Bookkeeping
  <2> HIDE DEF n
  <2> QED BY <1>1, <1>2, <1>5 DEF Bookkeeping, JobState
<1>7. /\ b \in Seq(Outcomes) /\ Len(b) = Len(a) + 1 /\ b[Len(b)] = "ACTIVE"
      /\ \A i \in 1..Len(a) : b[i] = a[i]
  BY <1>1 DEF Outcomes
<1>8. \A i \in 1..(Len(b) - 1) : b[i] # "ACTIVE"
  BY <1>1, <1>7 DEF Fits
<1>9. Len(b) <= MaximumAttempts * q.replays + q.cycle
  <2>1. Len(a) <= MaximumAttempts * r.replays + r.cycle /\ MaximumAttempts * r.replays \in Nat
    BY <1>1, <1>3 DEF Fits
  <2> QED BY <1>1, <1>3, <1>6, <1>7, <2>1, SMTT(30)
<1> HIDE DEF q, b
<1>10. Fits(q, b)
  BY <1>1, <1>4, <1>6, <1>7, <1>8, <1>9 DEF Fits
<1> QED BY <1>10 DEF q, b, l, n

\* The open attempt ends with an outcome: the job ends, or waits for another.
LEMMA CloseFits ==
  ASSUME DurableJobAssumption, NEW r, NEW a, Fits(r, a), r.state = "RUNNING",
         NEW s \in {"SUCCEEDED", "RETRY_WAIT", "DEAD_LETTER", "CANCELLED"},
         s = "RETRY_WAIT" => r.cycle < MaximumAttempts,
         NEW n \in 0..Backoff, NEW o \in Outcomes, o # "ACTIVE"
  PROVE  Fits([r EXCEPT !.state = s, !.avail = n, !.lease = NoLease], [a EXCEPT ![Len(a)] = o])
<1> DEFINE q == [r EXCEPT !.state = s, !.avail = n, !.lease = NoLease]
           b == [a EXCEPT ![Len(a)] = o]
<1>1. /\ r \in Bookkeeping /\ a \in Seq(Outcomes) /\ Len(a) \in Nat /\ Len(a) > 0
      /\ \A i \in 1..(Len(a) - 1) : a[i] # "ACTIVE"
  BY DEF Fits
<1>2. /\ q.state = s /\ q.cycle = r.cycle /\ q.replays = r.replays /\ q.lease = NoLease
      /\ q \in Bookkeeping
  BY <1>1, PolicyType DEF Bookkeeping, JobState
<1>3. /\ b \in Seq(Outcomes) /\ Len(b) = Len(a) /\ b[Len(a)] = o
      /\ \A i \in 1..Len(a) : i # Len(a) => b[i] = a[i]
  BY <1>1
<1>4. \A i \in 1..Len(b) : b[i] # "ACTIVE"
  <2> SUFFICES ASSUME NEW i \in 1..Len(a) PROVE b[i] # "ACTIVE"
    BY <1>3
  <2>1. CASE i = Len(a)
    BY <2>1, <1>3
  <2>2. CASE i # Len(a)
    <3>1. i \in 1..(Len(a) - 1)
      BY <1>1, <2>2
    <3> QED BY <3>1, <2>2, <1>1, <1>3
  <2> QED BY <2>1, <2>2
<1>5. Len(b) <= MaximumAttempts * q.replays + q.cycle
  BY <1>2, <1>3 DEF Fits
<1> HIDE DEF q, b
<1>6. Fits(q, b)
  BY <1>2, <1>3, <1>4, <1>5 DEF Fits
<1> QED BY <1>2, <1>3, <1>6 DEF q, b

\* A heartbeat extends the lease.
LEMMA HeartbeatFits ==
  ASSUME DurableJobAssumption, NEW r, NEW a, Fits(r, a), r.state = "RUNNING"
  PROVE  LET q == [r EXCEPT !.lease.left = LeaseDuration] IN Fits(q, a) /\ q.state = r.state
<1> DEFINE q == [r EXCEPT !.lease.left = LeaseDuration]
<1>1. r \in Bookkeeping /\ LeaseDuration \in 0..LeaseDuration
  BY PolicyType DEF Fits
<1>2. /\ q \in Bookkeeping /\ q.state = r.state /\ q.cycle = r.cycle /\ q.replays = r.replays
      /\ q.lease.worker = r.lease.worker /\ q.lease.token = r.lease.token
  BY <1>1 DEF Bookkeeping
<1> HIDE DEF q
<1>3. Fits(q, a)
  BY <1>2 DEF Fits
<1> QED BY <1>2, <1>3 DEF q

\* A job is enqueued; a job that does not run is cancelled; a dead letter
\* starts another cycle.
LEMMA IdleFits ==
  ASSUME DurableJobAssumption, NEW r, NEW a, Fits(r, a)
  PROVE  /\ \A i \in Inputs, n \in 0..Backoff : r.state = "none" =>
              Fits([r EXCEPT !.state = "QUEUED", !.input = i, !.avail = n], a)
         /\ r.state # "RUNNING" =>
              Fits([r EXCEPT !.state = "CANCELLED", !.lease = NoLease], a)
         /\ (r.state = "DEAD_LETTER" /\ r.replays < MaxReplays) =>
              Fits([r EXCEPT !.state = "QUEUED", !.avail = 0, !.cycle = 0,
                                !.replays = r.replays + 1], a)
<1>1. /\ r \in Bookkeeping /\ MaximumAttempts \in Nat /\ Backoff \in Nat /\ MaxReplays \in Nat
      /\ r.replays \in Nat /\ r.cycle \in Nat /\ r.cycle <= MaximumAttempts
      /\ Len(a) \in Nat /\ Len(a) <= MaximumAttempts * r.replays + r.cycle
  BY PolicyType DEF Fits, Bookkeeping
<1>2. ASSUME NEW i \in Inputs, NEW n \in 0..Backoff, r.state = "none"
      PROVE  Fits([r EXCEPT !.state = "QUEUED", !.input = i, !.avail = n], a)
  <2> DEFINE q == [r EXCEPT !.state = "QUEUED", !.input = i, !.avail = n]
  <2>1. /\ q \in Bookkeeping /\ q.state = "QUEUED" /\ q.cycle = r.cycle /\ q.replays = r.replays
        /\ q.lease = r.lease
    BY <1>1, <1>2 DEF Bookkeeping, JobState
  <2> HIDE DEF q
  <2>2. Fits(q, a)
    BY <1>2, <2>1 DEF Fits
  <2> QED BY <2>1, <2>2 DEF q
<1>3. ASSUME r.state # "RUNNING"
      PROVE  Fits([r EXCEPT !.state = "CANCELLED", !.lease = NoLease], a)
  <2> DEFINE q == [r EXCEPT !.state = "CANCELLED", !.lease = NoLease]
  <2>1. /\ q \in Bookkeeping /\ q.state = "CANCELLED" /\ q.cycle = r.cycle
        /\ q.replays = r.replays /\ q.lease = NoLease
    BY <1>1, PolicyType DEF Bookkeeping, JobState
  <2> HIDE DEF q
  <2>2. Fits(q, a)
    BY <1>3, <2>1 DEF Fits
  <2> QED BY <2>1, <2>2 DEF q
<1>4. ASSUME r.state = "DEAD_LETTER", r.replays < MaxReplays
      PROVE  Fits([r EXCEPT !.state = "QUEUED", !.avail = 0, !.cycle = 0,
                               !.replays = r.replays + 1], a)
  <2> DEFINE m == r.replays + 1
             q == [r EXCEPT !.state = "QUEUED", !.avail = 0, !.cycle = 0, !.replays = m]
  <2>1. m \in 0..MaxReplays /\ m \in Nat /\ 0 \in 0..Backoff /\ 0 \in 0..MaximumAttempts
    BY <1>1, <1>4
  <2>2. Len(a) <= MaximumAttempts * m + 0
    <3>1. MaximumAttempts * r.replays + r.cycle <= MaximumAttempts * (r.replays + 1)
      BY <1>1
    <3>2. MaximumAttempts * r.replays \in Nat /\ MaximumAttempts * m \in Nat
      BY <1>1
    <3> QED BY <1>1, <3>1, <3>2
  <2> HIDE DEF m
  <2>3. /\ q \in Bookkeeping /\ q.state = "QUEUED" /\ q.cycle = 0 /\ q.replays = m
        /\ q.lease = r.lease
    BY <1>1, <2>1 DEF Bookkeeping, JobState
  <2> HIDE DEF q
  <2>4. Fits(q, a)
    BY <1>4, <2>2, <2>3 DEF Fits
  <2> QED BY <2>3, <2>4 DEF q, m
<1> QED BY <1>2, <1>3, <1>4

\* Time passes.
LEMMA TickFits ==
  ASSUME DurableJobAssumption, NEW r, NEW a, Fits(r, a)
  PROVE  LET q == [r EXCEPT !.avail = Passed(@), !.lease.left = Passed(@)]
         IN  Fits(q, a) /\ q.state = r.state
<1> DEFINE q == [r EXCEPT !.avail = Passed(@), !.lease.left = Passed(@)]
<1>1. r \in Bookkeeping /\ Backoff \in Nat /\ LeaseDuration \in Nat
  BY PolicyType DEF Fits
<1>2. Passed(r.avail) \in 0..Backoff /\ Passed(r.lease.left) \in 0..LeaseDuration
  BY <1>1 DEF Bookkeeping, Passed
<1>3. /\ q \in Bookkeeping /\ q.state = r.state /\ q.cycle = r.cycle /\ q.replays = r.replays
      /\ q.lease.worker = r.lease.worker /\ q.lease.token = r.lease.token
      /\ q.lease.left = Passed(r.lease.left)
  BY <1>1, <1>2 DEF Bookkeeping
<1>4. r.lease = NoLease => q.lease = NoLease
  BY <1>1 DEF NoLease, Passed, Bookkeeping
<1> HIDE DEF q
<1>5. Fits(q, a)
  BY <1>3, <1>4 DEF Fits
<1> QED BY <1>3, <1>5 DEF q

\* The record of a failed attempt.
LEMMA FailedRecord ==
  ASSUME DurableJobAssumption, NEW r, NEW a, Fits(r, a), NEW retryable \in BOOLEAN
  PROVE  \E s \in {"RETRY_WAIT", "DEAD_LETTER"}, n \in 0..Backoff :
           /\ Failed(r, retryable) = [r EXCEPT !.state = s, !.avail = n, !.lease = NoLease]
           /\ s = "RETRY_WAIT" => r.cycle < MaximumAttempts
<1>1. Backoff \in 0..Backoff /\ 0 \in 0..Backoff
  BY PolicyType
<1>2. CASE CanRetry(r, retryable)
  BY <1>1, <1>2 DEF Failed, CanRetry
<1>3. CASE ~CanRetry(r, retryable)
  BY <1>1, <1>3 DEF Failed
<1> QED BY <1>2, <1>3

\* Attempts only become more: checkpoints stay in order.
LEMMA OrderedStays ==
  ASSUME NEW cs, NEW a \in Seq(Outcomes), NEW b \in Seq(Outcomes), Ordered(cs, a), Len(b) >= Len(a)
  PROVE  Ordered(cs, b)
<1>1. Len(a) \in Nat /\ Len(b) \in Nat /\ cs \in Seq(JobCheckpoint)
  BY DEF Ordered
<1>2. \A i \in 1..Len(cs) : cs[i].token \in Nat
  <2>1. \A i \in 1..Len(cs) : cs[i] \in JobCheckpoint
    BY <1>1
  <2> QED BY <2>1 DEF JobCheckpoint
<1> QED BY <1>1, <1>2 DEF Ordered

\* A later checkpoint of the last attempt keeps the order.
LEMMA OrderedGrows ==
  ASSUME NEW cs, NEW a \in Seq(Outcomes), Ordered(cs, a), NEW c \in JobCheckpoint,
         c.token = Len(a), cs # <<>> => cs[Len(cs)].sequence < c.sequence
  PROVE  Ordered(Append(cs, c), a)
<1> DEFINE ds == Append(cs, c)
           n == Len(cs)
<1>1. cs \in Seq(JobCheckpoint) /\ n \in Nat /\ Len(a) \in Nat
  BY DEF Ordered
<1>2. /\ ds \in Seq(JobCheckpoint) /\ Len(ds) = n + 1 /\ ds[n + 1] = c
      /\ \A i \in 1..n : ds[i] = cs[i]
  BY <1>1
<1>3. /\ \A i \in 1..n : cs[i].sequence \in Nat /\ cs[i].token \in Nat
      /\ c.sequence \in Nat /\ c.token \in Nat
  <2>1. \A i \in 1..n : cs[i] \in JobCheckpoint
    BY <1>1
  <2>2. \A d \in JobCheckpoint : d.sequence \in Nat /\ d.token \in Nat
    BY DEF JobCheckpoint
  <2> QED BY <2>1, <2>2
<1>4. \A i \in 1..n : cs[i].sequence < c.sequence /\ cs[i].token <= c.token
  <2> SUFFICES ASSUME NEW i \in 1..n PROVE cs[i].sequence < c.sequence /\ cs[i].token <= c.token
    OBVIOUS
  <2>1. cs # <<>> /\ n \in 1..n
    BY <1>1
  <2>2. cs[n].sequence < c.sequence
    BY <2>1
  <2>3. cs[i].sequence <= cs[n].sequence
    <3>1. CASE i = n
      BY <3>1, <1>3
    <3>2. CASE i < n
      BY <3>2, <2>1, <1>3 DEF Ordered
    <3> QED BY <3>1, <3>2, <1>1
  <2>4. cs[i].token <= Len(a)
    BY DEF Ordered
  <2> QED BY <1>3, <2>1, <2>2, <2>3, <2>4
<1> HIDE DEF ds
<1>5. \A i \in 1..Len(ds) : ds[i].token <= Len(a)
  <2> SUFFICES ASSUME NEW i \in 1..(n + 1) PROVE ds[i].token <= Len(a)
    BY <1>2
  <2>1. CASE i = n + 1
    BY <2>1, <1>1, <1>2, <1>3
  <2>2. CASE i # n + 1
    <3>1. i \in 1..n
      BY <2>2, <1>1
    <3> QED BY <3>1, <1>2 DEF Ordered
  <2> QED BY <2>1, <2>2
<1>6. \A i, k \in 1..Len(ds) : i < k => ds[i].sequence < ds[k].sequence /\ ds[i].token <= ds[k].token
  <2> SUFFICES ASSUME NEW i \in 1..(n + 1), NEW k \in 1..(n + 1), i < k
               PROVE  ds[i].sequence < ds[k].sequence /\ ds[i].token <= ds[k].token
    BY <1>2
  <2>1. i \in 1..n
    BY <1>1
  <2>2. CASE k = n + 1
    BY <2>1, <2>2, <1>2, <1>4
  <2>3. CASE k # n + 1
    <3>1. k \in 1..n
      BY <2>3, <1>1
    <3> QED BY <2>1, <3>1, <1>2 DEF Ordered
  <2> QED BY <2>2, <2>3
<1>7. Ordered(ds, a)
  BY <1>2, <1>5, <1>6 DEF Ordered
<1> QED BY <1>7 DEF ds

-----------------------------------------------------------------------------
(* The steps. *)

LEMMA InitIInv ==
  ASSUME DurableJobAssumption, Init PROVE IInv
<1> DEFINE r == [state |-> "none", input |-> None, avail |-> 0, cycle |-> 0, replays |-> 0,
                 lease |-> NoLease]
<1>1. r \in Bookkeeping
  BY PolicyType DEF Bookkeeping, JobState
<1>2. Fits(r, <<>>)
  BY <1>1, PolicyType DEF Fits
<1>3. Ordered(<<>>, <<>>)
  BY DEF Ordered
<1>4. /\ jobs \in [Jobs -> Bookkeeping]
      /\ \A j \in Jobs : jobs[j] = r /\ attempts[j] = <<>> /\ checkpoints[j] = <<>>
  BY <1>1 DEF Init
<1>5. r.state = "none"
  OBVIOUS
<1> HIDE DEF r
<1>6. Types
  BY <1>2, <1>3, <1>4 DEF Init, Types
<1>7. Indexed /\ Counted
  BY <1>4, <1>5 DEF Init, Indexed, Counted
<1> QED BY <1>6, <1>7 DEF IInv

\* One job's record and attempts change, the latter to no fewer.
LEMMA OneJob ==
  ASSUME IInv, NEW j \in Jobs, NEW r, NEW a, Fits(r, a), Len(a) >= Len(attempts[j]),
         jobs' = [jobs EXCEPT ![j] = r], attempts' = [attempts EXCEPT ![j] = a]
  PROVE  /\ jobs' \in [Jobs -> Bookkeeping] /\ attempts' \in [Jobs -> Seq(Outcomes)]
         /\ jobs'[j] = r /\ attempts'[j] = a
         /\ \A k \in Jobs : k # j => jobs'[k] = jobs[k] /\ attempts'[k] = attempts[k]
         /\ \A k \in Jobs : Fits(jobs'[k], attempts'[k]) /\ Ordered(checkpoints[k], attempts'[k])
<1>1. r \in Bookkeeping /\ a \in Seq(Outcomes)
  BY DEF Fits
<1>2. /\ jobs' \in [Jobs -> Bookkeeping] /\ attempts' \in [Jobs -> Seq(Outcomes)]
      /\ jobs'[j] = r /\ attempts'[j] = a
      /\ \A k \in Jobs : k # j => jobs'[k] = jobs[k] /\ attempts'[k] = attempts[k]
  BY <1>1 DEF IInv, Types
<1>3. \A k \in Jobs : Fits(jobs'[k], attempts'[k]) /\ Ordered(checkpoints[k], attempts'[k])
  <2> SUFFICES ASSUME NEW k \in Jobs
               PROVE  Fits(jobs'[k], attempts'[k]) /\ Ordered(checkpoints[k], attempts'[k])
    OBVIOUS
  <2>1. CASE k = j
    <3>1. attempts[j] \in Seq(Outcomes) /\ Ordered(checkpoints[j], attempts[j])
      BY DEF IInv, Types
    <3>2. Ordered(checkpoints[j], a)
      BY <1>1, <3>1, OrderedStays
    <3> QED BY <2>1, <1>2, <3>2
  <2>2. CASE k # j
    BY <2>2, <1>2 DEF IInv, Types
  <2> QED BY <2>1, <2>2
<1> QED BY <1>2, <1>3

\* A step after which the records fit, and no job comes, goes or succeeds.
LEMMA QuietStep ==
  ASSUME IInv, Types',
         \A j \in Jobs : /\ jobs'[j].state # "none" => jobs[j].state # "none"
                         /\ jobs'[j].state = "SUCCEEDED" <=> jobs[j].state = "SUCCEEDED",
         UNCHANGED <<index, results>>
  PROVE  IInv'
<1>1. Indexed'
  BY DEF IInv, Indexed
<1>2. Counted'
  BY DEF IInv, Counted
<1> QED BY <1>1, <1>2 DEF IInv

\* A worker that owns its lease holds the last attempt of a running job.
LEMMA OwnerHolds ==
  ASSUME DurableJobAssumption, IInv, NEW w \in Workers, Owns(w)
  PROVE  LET j == holding[w].job
         IN  /\ j \in Jobs /\ jobs[j].state = "RUNNING" /\ holding[w] \in Handle
             /\ holding[w].token = Len(attempts[j]) /\ Fits(jobs[j], attempts[j])
             /\ Len(attempts[j]) \in Nat /\ Len(attempts[j]) > 0
<1>1. holding[w] \in Handle /\ holding[w].job \in Jobs
  BY DEF IInv, Types, Owns, Handle
<1>2. Fits(jobs[holding[w].job], attempts[holding[w].job]) /\ jobs[holding[w].job].state = "RUNNING"
  BY <1>1 DEF IInv, Types, Owns
<1> QED BY <1>1, <1>2 DEF Fits, Owns

LEMMA EnqueueKeeps ==
  ASSUME DurableJobAssumption, IInv, NEW j \in Jobs, NEW i \in Inputs, NEW n \in 0..Backoff,
         Enqueue(j, i, n)
  PROVE  IInv'
<1> DEFINE r == [jobs[j] EXCEPT !.state = "QUEUED", !.input = i, !.avail = n]
<1>1. /\ index[KeyOf[j]] = None /\ jobs[j].state = "none"
      /\ jobs' = [jobs EXCEPT ![j] = r] /\ index' = [index EXCEPT ![KeyOf[j]] = j]
      /\ UNCHANGED <<attempts, checkpoints, holding, results>>
  BY DEF Enqueue
<1>2. attempts' = [attempts EXCEPT ![j] = attempts[j]]
  BY <1>1 DEF IInv, Types
<1>3. /\ Fits(r, attempts[j]) /\ r.state = "QUEUED"
      /\ Len(attempts[j]) >= Len(attempts[j])
  <2>1. Fits(jobs[j], attempts[j]) /\ Len(attempts[j]) \in Nat
    BY DEF IInv, Types
  <2>2. Fits(r, attempts[j])
    BY <1>1, <2>1, IdleFits
  <2>3. r.state = "QUEUED"
    BY <2>1 DEF Fits, Bookkeeping
  <2> QED BY <2>1, <2>2, <2>3
<1> HIDE DEF r
<1>4. /\ jobs' \in [Jobs -> Bookkeeping] /\ jobs'[j] = r
      /\ \A k \in Jobs : k # j => jobs'[k] = jobs[k]
      /\ \A k \in Jobs : Fits(jobs'[k], attempts'[k]) /\ Ordered(checkpoints[k], attempts'[k])
  BY <1>1, <1>2, <1>3, OneJob
<1>5. KeyOf[j] \in Keys /\ index' \in [Keys -> Jobs \union {None}]
  BY <1>1 DEF Keys, IInv, Types
<1>6. Types'
  BY <1>1, <1>4, <1>5 DEF IInv, Types
<1>7. Indexed'
  <2> SUFFICES ASSUME NEW k \in Jobs, jobs'[k].state # "none" PROVE index'[KeyOf[k]] = k
    BY DEF Indexed
  <2>1. CASE k = j
    BY <1>1, <1>5, <2>1 DEF IInv, Types
  <2>2. CASE k # j
    <3>1. index[KeyOf[k]] = k
      BY <1>4, <2>2 DEF IInv, Indexed
    <3>2. KeyOf[k] # KeyOf[j]
      BY <1>1, <3>1 DEF DurableJobAssumption
    <3> QED BY <1>1, <3>1, <3>2 DEF IInv, Types, Keys
  <2> QED BY <2>1, <2>2
<1>8. Counted'
  BY <1>1, <1>3, <1>4 DEF IInv, Counted
<1> QED BY <1>6, <1>7, <1>8 DEF IInv

LEMMA ClaimKeeps ==
  ASSUME DurableJobAssumption, IInv, NEW w \in Workers, NEW j \in Jobs, ClaimNext(w, j)
  PROVE  IInv'
<1> DEFINE r == [jobs[j] EXCEPT !.state = "RUNNING", !.cycle = jobs[j].cycle + 1,
                                !.lease = [worker |-> w, token |-> Len(attempts[j]) + 1,
                                           left |-> LeaseDuration]]
           a == Append(attempts[j], "ACTIVE")
<1>1. /\ jobs[j].state \in {"QUEUED", "RETRY_WAIT"}
      /\ jobs' = [jobs EXCEPT ![j] = r] /\ attempts' = [attempts EXCEPT ![j] = a]
      /\ UNCHANGED <<checkpoints, index, results>>
  BY DEF ClaimNext, First, Claimable
<1>2. /\ Fits(jobs[j], attempts[j]) /\ attempts[j] \in Seq(Outcomes)
      /\ Len(attempts[j]) \in Nat /\ jobs[j] \in Bookkeeping
  BY DEF IInv, Types
<1>3. Fits(r, a)
  BY <1>1, <1>2, ClaimFits
<1>4. r.state = "RUNNING" /\ Len(a) >= Len(attempts[j])
  BY <1>2 DEF Bookkeeping
<1>5. holding' \in [Workers -> Handle \union {None}]
  <2>1. Last(j) \in Nat
    <3>1. checkpoints[j] \in Seq(JobCheckpoint)
      BY DEF IInv, Types
    <3>2. ASSUME checkpoints[j] # <<>> PROVE checkpoints[j][Len(checkpoints[j])] \in JobCheckpoint
      BY <3>1, <3>2
    <3>3. \A c \in JobCheckpoint : c.sequence \in Nat
      BY DEF JobCheckpoint
    <3> QED BY <3>2, <3>3 DEF Last
  <2>2. [job |-> j, token |-> Len(attempts[j]) + 1, resume |-> Last(j)] \in Handle
    BY <1>2, <2>1 DEF Handle
  <2> QED BY <2>2 DEF ClaimNext, IInv, Types
<1> HIDE DEF r, a
<1>6. /\ jobs' \in [Jobs -> Bookkeeping] /\ attempts' \in [Jobs -> Seq(Outcomes)]
      /\ jobs'[j] = r /\ \A k \in Jobs : k # j => jobs'[k] = jobs[k]
      /\ \A k \in Jobs : Fits(jobs'[k], attempts'[k]) /\ Ordered(checkpoints[k], attempts'[k])
  BY <1>1, <1>2, <1>3, <1>4, OneJob
<1>7. Types'
  BY <1>1, <1>5, <1>6 DEF IInv, Types
<1> QED BY <1>1, <1>4, <1>6, <1>7, QuietStep

LEMMA HeartbeatKeeps ==
  ASSUME DurableJobAssumption, IInv, NEW w \in Workers, Heartbeat(w)
  PROVE  IInv'
<1> DEFINE j == holding[w].job
           r == [jobs[j] EXCEPT !.lease.left = LeaseDuration]
<1>1. /\ j \in Jobs /\ jobs[j].state = "RUNNING" /\ Fits(jobs[j], attempts[j])
      /\ Len(attempts[j]) \in Nat
  BY OwnerHolds DEF Heartbeat
<1>2. /\ Fits(r, attempts[j]) /\ r.state = "RUNNING"
      /\ Len(attempts[j]) >= Len(attempts[j])
  BY <1>1, HeartbeatFits
<1>3. /\ jobs' = [jobs EXCEPT ![j] = r]
      /\ UNCHANGED <<attempts, checkpoints, index, holding, results>>
  BY DEF Heartbeat
<1>4. attempts' = [attempts EXCEPT ![j] = attempts[j]]
  BY <1>3 DEF IInv, Types
<1> HIDE DEF j, r
<1>5. /\ jobs' \in [Jobs -> Bookkeeping]
      /\ jobs'[j] = r /\ \A k \in Jobs : k # j => jobs'[k] = jobs[k]
      /\ \A k \in Jobs : Fits(jobs'[k], attempts'[k]) /\ Ordered(checkpoints[k], attempts'[k])
  BY <1>1, <1>2, <1>3, <1>4, OneJob
<1>6. Types'
  BY <1>3, <1>5 DEF IInv, Types
<1> QED BY <1>1, <1>2, <1>3, <1>5, <1>6, QuietStep

LEMMA CheckpointKeeps ==
  ASSUME DurableJobAssumption, IInv, NEW w \in Workers, NEW n \in 1..MaxSequence,
         CompleteCheckpoint(w, n)
  PROVE  IInv'
<1> DEFINE j == holding[w].job
           c == [sequence |-> n, worker |-> w, token |-> holding[w].token]
<1>1. /\ j \in Jobs /\ holding[w].token = Len(attempts[j]) /\ holding[w] \in Handle
      /\ Len(attempts[j]) \in Nat /\ n \in Nat
  BY OwnerHolds DEF CompleteCheckpoint, DurableJobAssumption
<1>2. c \in JobCheckpoint /\ c.token = Len(attempts[j]) /\ c.sequence = n
  BY <1>1 DEF JobCheckpoint
<1>3. /\ checkpoints' = [checkpoints EXCEPT ![j] = Append(@, c)]
      /\ holding' = [holding EXCEPT ![w].resume = n] /\ n > Last(j)
      /\ UNCHANGED <<jobs, attempts, index, results>>
  BY DEF CompleteCheckpoint
<1> HIDE DEF j, c
<1>4. /\ checkpoints[j] \in Seq(JobCheckpoint) /\ Ordered(checkpoints[j], attempts[j])
      /\ attempts[j] \in Seq(Outcomes)
  BY <1>1 DEF IInv, Types
<1>5. checkpoints[j] # <<>> => checkpoints[j][Len(checkpoints[j])].sequence < c.sequence
  <2> SUFFICES ASSUME checkpoints[j] # <<>>
               PROVE  checkpoints[j][Len(checkpoints[j])].sequence < n
    BY <1>2
  <2>1. checkpoints[j][Len(checkpoints[j])] \in JobCheckpoint
    BY <1>4
  <2>2. checkpoints[j][Len(checkpoints[j])].sequence \in Nat
    BY <2>1 DEF JobCheckpoint
  <2> QED BY <1>1, <1>3, <2>2 DEF Last
<1>6. Ordered(Append(checkpoints[j], c), attempts[j])
  BY <1>2, <1>4, <1>5, OrderedGrows
<1>7. /\ checkpoints' \in [Jobs -> Seq(JobCheckpoint)]
      /\ \A k \in Jobs : Ordered(checkpoints'[k], attempts[k])
  <2>1. Append(checkpoints[j], c) \in Seq(JobCheckpoint)
    BY <1>6 DEF Ordered
  <2>2. /\ checkpoints' \in [Jobs -> Seq(JobCheckpoint)]
        /\ checkpoints'[j] = Append(checkpoints[j], c)
        /\ \A k \in Jobs : k # j => checkpoints'[k] = checkpoints[k]
    BY <1>1, <1>3, <2>1 DEF IInv, Types
  <2>3. ASSUME NEW k \in Jobs PROVE Ordered(checkpoints'[k], attempts[k])
    <3>1. CASE k = j
      BY <3>1, <1>6, <2>2
    <3>2. CASE k # j
      BY <3>2, <2>2 DEF IInv, Types
    <3> QED BY <3>1, <3>2
  <2> QED BY <2>2, <2>3
<1>8. holding' \in [Workers -> Handle \union {None}]
  <2>1. [holding[w] EXCEPT !.resume = n] \in Handle
    BY <1>1 DEF Handle
  <2>2. holding' = [holding EXCEPT ![w] = [holding[w] EXCEPT !.resume = n]]
    BY <1>3
  <2> QED BY <2>1, <2>2 DEF IInv, Types
<1>9. Types'
  BY <1>3, <1>7, <1>8 DEF IInv, Types
<1> QED BY <1>3, <1>9, QuietStep

\* The last attempt is closed: for Succeed, Fail and Cancel.
LEMMA CloseStep ==
  ASSUME DurableJobAssumption, IInv, NEW j \in Jobs, jobs[j].state = "RUNNING",
         NEW s \in {"SUCCEEDED", "RETRY_WAIT", "DEAD_LETTER", "CANCELLED"},
         s = "RETRY_WAIT" => jobs[j].cycle < MaximumAttempts,
         NEW n \in 0..Backoff, NEW o \in Outcomes, o # "ACTIVE",
         jobs' = [jobs EXCEPT ![j] = [jobs[j] EXCEPT !.state = s, !.avail = n, !.lease = NoLease]],
         attempts' = [attempts EXCEPT ![j] = [attempts[j] EXCEPT ![Len(attempts[j])] = o]],
         holding' \in [Workers -> Handle \union {None}],
         results' \in [Jobs -> Nat], UNCHANGED <<checkpoints, index>>
  PROVE  /\ Types' /\ jobs'[j].state = s
         /\ \A k \in Jobs : k # j => jobs'[k] = jobs[k]
<1> DEFINE r == [jobs[j] EXCEPT !.state = s, !.avail = n, !.lease = NoLease]
           a == [attempts[j] EXCEPT ![Len(attempts[j])] = o]
<1>1. Fits(jobs[j], attempts[j]) /\ Len(attempts[j]) \in Nat
  BY DEF IInv, Types
<1>2. Fits(r, a)
  BY <1>1, CloseFits
<1>6. r.state = s /\ Len(a) = Len(attempts[j])
  BY <1>1 DEF Fits, Bookkeeping
<1> HIDE DEF a
<1>7. Len(a) >= Len(attempts[j])
  BY <1>1, <1>6
<1> USE DEF a
<1>3. jobs' = [jobs EXCEPT ![j] = r] /\ attempts' = [attempts EXCEPT ![j] = a]
  OBVIOUS
<1> HIDE DEF r, a
<1>4. /\ jobs' \in [Jobs -> Bookkeeping] /\ attempts' \in [Jobs -> Seq(Outcomes)]
      /\ jobs'[j] = r /\ \A k \in Jobs : k # j => jobs'[k] = jobs[k]
      /\ \A k \in Jobs : Fits(jobs'[k], attempts'[k]) /\ Ordered(checkpoints[k], attempts'[k])
  BY <1>2, <1>3, <1>7, OneJob
<1>5. Types'
  BY <1>4 DEF IInv, Types
<1> QED BY <1>4, <1>5, <1>6

\* A record keeps its time when only state and lease change.
LEMMA SameTime ==
  ASSUME NEW r \in Bookkeeping, NEW s
  PROVE  /\ r.avail \in 0..Backoff
         /\ [r EXCEPT !.state = s, !.lease = NoLease]
              = [r EXCEPT !.state = s, !.avail = r.avail, !.lease = NoLease]
BY DEF Bookkeeping

LEMMA SucceedKeeps ==
  ASSUME DurableJobAssumption, IInv, NEW w \in Workers, Succeed(w)
  PROVE  IInv'
<1> DEFINE j == holding[w].job
<1>1. /\ j \in Jobs /\ jobs[j].state = "RUNNING" /\ holding[w].token = Len(attempts[j])
      /\ jobs[j] \in Bookkeeping
  BY OwnerHolds DEF Succeed, Fits
<1>2. jobs[j].avail \in 0..Backoff
  BY <1>1, SameTime
<1>3. jobs' = [jobs EXCEPT ![j] = [jobs[j] EXCEPT !.state = "SUCCEEDED", !.avail = jobs[j].avail,
                                                  !.lease = NoLease]]
  <2>1. jobs' = [jobs EXCEPT ![j] = [jobs[j] EXCEPT !.state = "SUCCEEDED", !.lease = NoLease]]
    BY DEF Succeed
  <2> QED BY <1>1, <2>1, SameTime
<1>4. attempts' = [attempts EXCEPT ![j] = [attempts[j] EXCEPT ![Len(attempts[j])] = "SUCCEEDED"]]
  BY <1>1 DEF Succeed
<1>5. /\ holding' \in [Workers -> Handle \union {None}] /\ UNCHANGED <<checkpoints, index>>
      /\ results' = [results EXCEPT ![j] = @ + 1]
  BY DEF Succeed, IInv, Types
<1>6. "SUCCEEDED" \in Outcomes
  BY DEF Outcomes
<1> HIDE DEF j
<1>7. results' \in [Jobs -> Nat]
  BY <1>1, <1>5 DEF IInv, Types
<1>8. Types' /\ jobs'[j].state = "SUCCEEDED" /\ \A k \in Jobs : k # j => jobs'[k] = jobs[k]
  BY <1>1, <1>2, <1>3, <1>4, <1>5, <1>6, <1>7, CloseStep
<1>9. Indexed'
  BY <1>1, <1>5, <1>8 DEF IInv, Indexed
<1>10. Counted'
  BY <1>1, <1>5, <1>8 DEF IInv, Counted, Types
<1> QED BY <1>8, <1>9, <1>10 DEF IInv

LEMMA FailKeeps ==
  ASSUME DurableJobAssumption, IInv, NEW w \in Workers, NEW retryable \in BOOLEAN,
         Fail(w, retryable)
  PROVE  IInv'
<1> DEFINE j == holding[w].job
           o == IF CanRetry(jobs[j], retryable) THEN "RETRY_SCHEDULED" ELSE "DEAD_LETTER"
<1>1. /\ j \in Jobs /\ jobs[j].state = "RUNNING" /\ holding[w].token = Len(attempts[j])
      /\ Fits(jobs[j], attempts[j])
  BY OwnerHolds DEF Fail
<1>2. PICK s \in {"RETRY_WAIT", "DEAD_LETTER"}, n \in 0..Backoff :
        /\ Failed(jobs[j], retryable) = [jobs[j] EXCEPT !.state = s, !.avail = n, !.lease = NoLease]
        /\ s = "RETRY_WAIT" => jobs[j].cycle < MaximumAttempts
  BY <1>1, FailedRecord
<1>3. jobs' = [jobs EXCEPT ![j] = [jobs[j] EXCEPT !.state = s, !.avail = n, !.lease = NoLease]]
  BY <1>1, <1>2 DEF Fail, IInv, Types
<1>4. attempts' = [attempts EXCEPT ![j] = [attempts[j] EXCEPT ![Len(attempts[j])] = o]]
  BY <1>1 DEF Fail
<1>5. /\ holding' \in [Workers -> Handle \union {None}]
      /\ UNCHANGED <<checkpoints, index, results>> /\ results' \in [Jobs -> Nat]
  BY DEF Fail, IInv, Types
<1>6. o \in Outcomes /\ o # "ACTIVE"
  BY DEF Outcomes
<1> HIDE DEF j, o
<1>7. Types' /\ jobs'[j].state = s /\ \A k \in Jobs : k # j => jobs'[k] = jobs[k]
  BY <1>1, <1>2, <1>3, <1>4, <1>5, <1>6, CloseStep
<1> QED BY <1>1, <1>5, <1>7, QuietStep

LEMMA ReclaimKeeps ==
  ASSUME DurableJobAssumption, IInv, ReclaimExpiredLeases
  PROVE  IInv'
<1>1. ASSUME NEW j \in Jobs
      PROVE  /\ Fits(jobs'[j], attempts'[j]) /\ Ordered(checkpoints[j], attempts'[j])
             /\ jobs'[j].state = jobs[j].state
                  \/ (jobs[j].state = "RUNNING" /\ jobs'[j].state \in {"RETRY_WAIT", "DEAD_LETTER"})
  <2>1. CASE j \notin Expired
    BY <2>1 DEF ReclaimExpiredLeases, IInv, Types
  <2>2. CASE j \in Expired
    <3> DEFINE o == IF CanRetry(jobs[j], TRUE) THEN "LEASE_EXPIRED" ELSE "DEAD_LETTER"
    <3>1. /\ jobs[j].state = "RUNNING" /\ Fits(jobs[j], attempts[j])
          /\ Ordered(checkpoints[j], attempts[j])
      BY <2>2 DEF Expired, IInv, Types
    <3>2. PICK s \in {"RETRY_WAIT", "DEAD_LETTER"}, n \in 0..Backoff :
            /\ Failed(jobs[j], TRUE) = [jobs[j] EXCEPT !.state = s, !.avail = n, !.lease = NoLease]
            /\ s = "RETRY_WAIT" => jobs[j].cycle < MaximumAttempts
      BY <3>1, FailedRecord
    <3>3. jobs[j].lease.token = Len(attempts[j]) /\ attempts[j] \in Seq(Outcomes)
          /\ Len(attempts[j]) \in Nat
      BY <3>1 DEF Fits
    <3>4. jobs'[j] = [jobs[j] EXCEPT !.state = s, !.avail = n, !.lease = NoLease]
      BY <2>2, <3>2 DEF ReclaimExpiredLeases
    <3>5. attempts'[j] = [attempts[j] EXCEPT ![Len(attempts[j])] = o]
      BY <2>2, <3>3 DEF ReclaimExpiredLeases
    <3>6. o \in Outcomes /\ o # "ACTIVE"
      BY DEF Outcomes
    <3> HIDE DEF o
    <3> DEFINE r == [jobs[j] EXCEPT !.state = s, !.avail = n, !.lease = NoLease]
               a == [attempts[j] EXCEPT ![Len(attempts[j])] = o]
    <3>7. /\ Fits(r, a) /\ r.state = s /\ Len(a) = Len(attempts[j])
      <4>1. Fits(r, a)
        BY <3>1, <3>2, <3>6, CloseFits
      <4>2. r.state = s /\ Len(a) = Len(attempts[j])
        BY <3>1, <3>3 DEF Fits, Bookkeeping
      <4> QED BY <4>1, <4>2
    <3> HIDE DEF r, a
    <3>8. jobs'[j] = r /\ attempts'[j] = a
      BY <3>4, <3>5 DEF r, a
    <3>9. a \in Seq(Outcomes)
      BY <3>7 DEF Fits
    <3>10. Ordered(checkpoints[j], a)
      BY <3>1, <3>3, <3>7, <3>9, OrderedStays
    <3> QED BY <3>1, <3>7, <3>8, <3>10
  <2> QED BY <2>1, <2>2
<1>2. /\ jobs' \in [Jobs -> Bookkeeping] /\ attempts' \in [Jobs -> Seq(Outcomes)]
  <2>1. \A j \in Jobs : jobs'[j] \in Bookkeeping /\ attempts'[j] \in Seq(Outcomes)
    BY <1>1 DEF Fits
  <2>2. jobs' = [j \in Jobs |-> jobs'[j]] /\ attempts' = [j \in Jobs |-> attempts'[j]]
    BY DEF ReclaimExpiredLeases
  <2> QED BY <2>1, <2>2
<1>3. UNCHANGED <<checkpoints, index, holding, results>>
  BY DEF ReclaimExpiredLeases
<1>4. Types'
  BY <1>1, <1>2, <1>3 DEF IInv, Types
<1> QED BY <1>1, <1>3, <1>4, QuietStep

LEMMA ReplayKeeps ==
  ASSUME DurableJobAssumption, IInv, NEW j \in Jobs, ReplayDeadLetter(j)
  PROVE  IInv'
<1> DEFINE r == [jobs[j] EXCEPT !.state = "QUEUED", !.avail = 0, !.cycle = 0,
                                !.replays = jobs[j].replays + 1]
<1>1. /\ jobs[j].state = "DEAD_LETTER" /\ jobs[j].replays < MaxReplays
      /\ jobs' = [jobs EXCEPT ![j] = r]
      /\ UNCHANGED <<attempts, checkpoints, index, holding, results>>
  BY DEF ReplayDeadLetter
<1>2. /\ Fits(r, attempts[j]) /\ r.state = "QUEUED"
      /\ Len(attempts[j]) >= Len(attempts[j])
  <2>1. Fits(jobs[j], attempts[j]) /\ Len(attempts[j]) \in Nat
    BY DEF IInv, Types
  <2>2. Fits(r, attempts[j])
    BY <1>1, <2>1, IdleFits
  <2>3. r.state = "QUEUED"
    BY <2>1 DEF Fits, Bookkeeping
  <2> QED BY <2>1, <2>2, <2>3
<1>3. attempts' = [attempts EXCEPT ![j] = attempts[j]]
  BY <1>1 DEF IInv, Types
<1> HIDE DEF r
<1>4. /\ jobs' \in [Jobs -> Bookkeeping]
      /\ jobs'[j] = r /\ \A k \in Jobs : k # j => jobs'[k] = jobs[k]
      /\ \A k \in Jobs : Fits(jobs'[k], attempts'[k]) /\ Ordered(checkpoints[k], attempts'[k])
  BY <1>1, <1>2, <1>3, OneJob
<1>5. Types'
  BY <1>1, <1>4 DEF IInv, Types
<1> QED BY <1>1, <1>2, <1>4, <1>5, QuietStep

LEMMA CancelKeeps ==
  ASSUME DurableJobAssumption, IInv, NEW j \in Jobs, Cancel(j)
  PROVE  IInv'
<1>1. /\ jobs[j].state \notin {"none", "SUCCEEDED", "CANCELLED"}
      /\ jobs' = [jobs EXCEPT ![j] = [jobs[j] EXCEPT !.state = "CANCELLED", !.lease = NoLease]]
      /\ attempts' = IF jobs[j].lease = NoLease THEN attempts
                     ELSE [attempts EXCEPT ![j][jobs[j].lease.token] = "CANCELLED"]
      /\ UNCHANGED <<checkpoints, index, holding, results>>
  BY DEF Cancel
<1>2. /\ Fits(jobs[j], attempts[j]) /\ jobs[j] \in Bookkeeping /\ Len(attempts[j]) \in Nat
  BY DEF IInv, Types
<1>3. CASE jobs[j].state # "RUNNING"
  <2> DEFINE r == [jobs[j] EXCEPT !.state = "CANCELLED", !.lease = NoLease]
  <2>1. /\ Fits(r, attempts[j]) /\ r.state = "CANCELLED"
        /\ Len(attempts[j]) >= Len(attempts[j])
    <3>1. Fits(r, attempts[j])
      BY <1>2, <1>3, IdleFits
    <3>2. r.state = "CANCELLED"
      BY <1>2 DEF Bookkeeping
    <3> QED BY <1>2, <3>1, <3>2
  <2>2. attempts' = [attempts EXCEPT ![j] = attempts[j]]
    BY <1>1, <1>2, <1>3 DEF Fits, IInv, Types
  <2>3. jobs' = [jobs EXCEPT ![j] = r]
    BY <1>1
  <2> HIDE DEF r
  <2>4. /\ jobs' \in [Jobs -> Bookkeeping] /\ attempts' \in [Jobs -> Seq(Outcomes)]
        /\ jobs'[j] = r /\ \A k \in Jobs : k # j => jobs'[k] = jobs[k]
        /\ \A k \in Jobs : Fits(jobs'[k], attempts'[k]) /\ Ordered(checkpoints[k], attempts'[k])
    BY <1>2, <2>1, <2>2, <2>3, OneJob
  <2>5. Types'
    BY <1>1, <2>4 DEF IInv, Types
  <2> QED BY <1>1, <2>1, <2>4, <2>5, QuietStep
<1>4. CASE jobs[j].state = "RUNNING"
  <2>1. jobs[j].lease # NoLease /\ jobs[j].lease.token = Len(attempts[j])
    BY <1>2, <1>4 DEF Fits, NoLease, DurableJobAssumption
  <2>2. attempts' = [attempts EXCEPT ![j] = [attempts[j] EXCEPT ![Len(attempts[j])] = "CANCELLED"]]
    BY <1>1, <2>1
  <2>3. /\ jobs[j].avail \in 0..Backoff
        /\ jobs' = [jobs EXCEPT ![j] = [jobs[j] EXCEPT !.state = "CANCELLED",
                                         !.avail = jobs[j].avail, !.lease = NoLease]]
    BY <1>1, <1>2, SameTime
  <2>4. "CANCELLED" \in Outcomes
    BY DEF Outcomes
  <2>5. /\ holding' \in [Workers -> Handle \union {None}] /\ results' \in [Jobs -> Nat]
    BY <1>1 DEF IInv, Types
  <2>6. Types' /\ jobs'[j].state = "CANCELLED" /\ \A k \in Jobs : k # j => jobs'[k] = jobs[k]
    BY <1>1, <1>4, <2>2, <2>3, <2>4, <2>5, CloseStep
  <2> QED BY <1>1, <1>4, <2>6, QuietStep
<1> QED BY <1>3, <1>4

LEMMA TickKeeps ==
  ASSUME DurableJobAssumption, IInv, Tick
  PROVE  IInv'
<1>1. UNCHANGED <<attempts, checkpoints, index, holding, results>>
  BY DEF Tick
<1>2. ASSUME NEW j \in Jobs
      PROVE  Fits(jobs'[j], attempts'[j]) /\ jobs'[j].state = jobs[j].state
  <2> DEFINE q == [jobs[j] EXCEPT !.avail = Passed(@), !.lease.left = Passed(@)]
  <2>1. jobs'[j] = q
    BY DEF Tick
  <2>2. Fits(jobs[j], attempts[j])
    BY DEF IInv, Types
  <2>3. Fits(q, attempts[j]) /\ q.state = jobs[j].state
    BY <2>2, TickFits
  <2> HIDE DEF q
  <2> QED BY <1>1, <2>1, <2>3
<1>3. jobs' \in [Jobs -> Bookkeeping]
  <2>1. \A j \in Jobs : jobs'[j] \in Bookkeeping
    BY <1>2 DEF Fits
  <2>2. jobs' = [j \in Jobs |-> jobs'[j]]
    BY DEF Tick
  <2> QED BY <2>1, <2>2
<1>4. Types'
  BY <1>1, <1>2, <1>3 DEF IInv, Types
<1> QED BY <1>1, <1>2, <1>4, QuietStep

LEMMA NextIInv ==
  ASSUME DurableJobAssumption, IInv, [Next]_vars
  PROVE  IInv'
<1>1. CASE UNCHANGED vars
  BY <1>1 DEF vars, IInv, Types, Indexed, Counted
<1>2. CASE \E j \in Jobs, i \in Inputs, n \in 0..Backoff : Enqueue(j, i, n)
  BY <1>2, EnqueueKeeps
<1>3. ASSUME NEW w \in Workers, Claim(w) \/ Heartbeat(w) \/ Finish(w) PROVE IInv'
  BY <1>3, ClaimKeeps, HeartbeatKeeps, SucceedKeeps, FailKeeps DEF Claim, Finish
<1>4. ASSUME NEW w \in Workers, Drop(w) PROVE IInv'
  BY <1>4 DEF Drop, IInv, Types, Indexed, Counted
<1>5. CASE \E w \in Workers, n \in 1..MaxSequence : CompleteCheckpoint(w, n)
  BY <1>5, CheckpointKeeps
<1>6. CASE ReclaimExpiredLeases \/ Tick
  BY <1>6, ReclaimKeeps, TickKeeps
<1>7. CASE \E j \in Jobs : ReplayDeadLetter(j) \/ Cancel(j)
  BY <1>7, ReplayKeeps, CancelKeeps
<1> QED BY <1>1, <1>2, <1>3, <1>4, <1>5, <1>6, <1>7 DEF Next

-----------------------------------------------------------------------------
(* The theorems. *)

\* The invariant holds of every behaviour, whatever the jobs and the policy.
THEOREM Invariance ==
  ASSUME DurableJobAssumption PROVE Spec => []IInv
<1>1. Init => IInv
  BY InitIInv
<1>2. IInv /\ [Next]_vars => IInv'
  BY NextIInv
<1> QED BY <1>1, <1>2, PTL DEF Spec

\* assertInvariants: attempts are bounded over failures, lost leases and
\* replays.
THEOREM AttemptsBounded ==
  ASSUME DurableJobAssumption PROVE Spec => []AttemptsAreBounded
<1>1. IInv => AttemptsAreBounded
  <2> SUFFICES ASSUME IInv, NEW j \in Jobs
               PROVE  Len(attempts[j]) <= MaximumAttempts * (jobs[j].replays + 1)
    BY DEF AttemptsAreBounded
  <2> DEFINE r == jobs[j]
             a == attempts[j]
  <2>1. Fits(r, a) /\ r \in Bookkeeping
    BY DEF IInv, Types
  <2> HIDE DEF r, a
  <2>2. /\ MaximumAttempts \in Nat /\ r.replays \in Nat
        /\ r.cycle \in Nat /\ r.cycle <= MaximumAttempts
        /\ Len(a) \in Nat /\ Len(a) <= MaximumAttempts * r.replays + r.cycle
    BY <2>1, PolicyType DEF Bookkeeping, Fits
  <2>3. MaximumAttempts * r.replays + r.cycle <= MaximumAttempts * (r.replays + 1)
    BY <2>2
  <2>4. MaximumAttempts * r.replays \in Nat /\ MaximumAttempts * (r.replays + 1) \in Nat
    BY <2>2
  <2>5. Len(a) <= MaximumAttempts * (r.replays + 1)
    BY <2>2, <2>3, <2>4
  <2> QED BY <2>5 DEF r, a
<1> QED BY <1>1, Invariance, PTL

\* TypeOK: leases, waits and attempts of every job stay within what the
\* policy allows, over all its replays.
THEOREM TypeCorrect ==
  ASSUME DurableJobAssumption PROVE Spec => []TypeOK
<1>1. IInv => TypeOK
  <2> SUFFICES ASSUME IInv PROVE TypeOK
    OBVIOUS
  <2>1. ASSUME NEW j \in Jobs PROVE jobs[j] \in JobRecord
    <3> DEFINE r == jobs[j]
               a == attempts[j]
    <3>1. Fits(r, a) /\ r \in Bookkeeping
      BY DEF IInv, Types
    <3> HIDE DEF r, a
    <3>2. /\ MaximumAttempts \in Nat /\ MaxReplays \in Nat
          /\ r.replays \in Nat /\ r.replays <= MaxReplays
          /\ r.cycle \in Nat /\ r.cycle <= MaximumAttempts
      BY <3>1, PolicyType DEF Bookkeeping
    <3>3. MaximumAttempts * r.replays + r.cycle <= MaximumAttempts * (MaxReplays + 1)
      BY <3>2
    <3>4. MaximumAttempts * r.replays \in Nat /\ MaximumAttempts * (MaxReplays + 1) \in Nat
      BY <3>2
    <3>5. r.lease.token \in 0..(MaximumAttempts * (MaxReplays + 1))
      <4>1. CASE r.state = "RUNNING"
        <5>1. r.lease.token = Len(a) /\ Len(a) \in Nat
              /\ Len(a) <= MaximumAttempts * r.replays + r.cycle
          BY <3>1, <4>1 DEF Fits
        <5> QED BY <3>2, <3>3, <3>4, <5>1
      <4>2. CASE r.state # "RUNNING"
        BY <3>1, <3>4, <4>2 DEF Fits, NoLease
      <4> QED BY <4>1, <4>2
    <3>6. r.lease \in [worker : Workers \union {None},
                       token : 0..(MaximumAttempts * (MaxReplays + 1)), left : 0..LeaseDuration]
      BY <3>1, <3>5 DEF Bookkeeping
    <3>7. r \in JobRecord
      BY <3>1, <3>6 DEF Bookkeeping, JobRecord
    <3> QED BY <3>7 DEF r
  <2>2. jobs \in [Jobs -> JobRecord]
    BY <2>1 DEF IInv, Types
  <2> QED BY <2>2 DEF IInv, Types, TypeOK
<1> QED BY <1>1, Invariance, PTL

\* A running job has one open attempt, that of its lease, and no other job
\* has any (assertInvariants).
THEOREM OneAttempt ==
  ASSUME DurableJobAssumption PROVE Spec => []OneOpenAttempt
<1>1. IInv => OneOpenAttempt
  <2> SUFFICES ASSUME IInv, NEW j \in Jobs
               PROVE  {i \in DOMAIN attempts[j] : attempts[j][i] = "ACTIVE"}
                        = IF jobs[j].state = "RUNNING" THEN {jobs[j].lease.token} ELSE {}
    BY DEF OneOpenAttempt
  <2>1. /\ Fits(jobs[j], attempts[j]) /\ Len(attempts[j]) \in Nat
        /\ DOMAIN attempts[j] = 1..Len(attempts[j])
    BY DEF IInv, Types
  <2>2. CASE jobs[j].state = "RUNNING"
    <3>1. /\ jobs[j].lease.token = Len(attempts[j]) /\ Len(attempts[j]) > 0
          /\ attempts[j][Len(attempts[j])] = "ACTIVE"
          /\ \A i \in 1..(Len(attempts[j]) - 1) : attempts[j][i] # "ACTIVE"
      BY <2>1, <2>2 DEF Fits
    <3> QED BY <2>1, <2>2, <3>1
  <2>3. CASE jobs[j].state # "RUNNING"
    BY <2>1, <2>3 DEF Fits
  <2> QED BY <2>2, <2>3
<1> QED BY <1>1, Invariance, PTL

\* Checkpoints are in the order of their sequences and of the attempts that
\* made them (completeCheckpoint).
THEOREM CheckpointsOrdered ==
  ASSUME DurableJobAssumption PROVE Spec => []CheckpointsInOrder
<1>1. IInv => CheckpointsInOrder
  <2> SUFFICES ASSUME IInv, NEW j \in Jobs, NEW a \in DOMAIN checkpoints[j],
                      NEW b \in DOMAIN checkpoints[j], a < b
               PROVE  /\ checkpoints[j][a].sequence < checkpoints[j][b].sequence
                      /\ checkpoints[j][a].token <= checkpoints[j][b].token
    BY DEF CheckpointsInOrder
  <2>1. Ordered(checkpoints[j], attempts[j]) /\ DOMAIN checkpoints[j] = 1..Len(checkpoints[j])
    BY DEF IInv, Types
  <2> QED BY <2>1 DEF Ordered
<1> QED BY <1>1, Invariance, PTL

\* A key has one job, and a job has one result if it succeeded and none
\* otherwise (enqueue, succeed).
THEOREM KeysHaveOneJob ==
  ASSUME DurableJobAssumption PROVE Spec => []OneJobPerKey
<1>1. IInv => OneJobPerKey
  BY DEF IInv, Indexed, Counted, OneJobPerKey
<1> QED BY <1>1, Invariance, PTL

\* A worker whose lease has run out leaves no checkpoint and no result, even
\* if nobody reclaimed the lease yet (assertValidLease).
THEOREM ExpiredChangesNothing ==
  ASSUME DurableJobAssumption PROVE Spec => [][ExpiredLeaseChangesNothing]_vars
<1>1. ASSUME DurableJobAssumption, IInv, [Next]_vars PROVE ExpiredLeaseChangesNothing
  <2> SUFFICES ASSUME NEW w \in Workers, holding[w] # None,
                      checkpoints' # checkpoints \/ results' # results, holding'[w] # holding[w]
               PROVE  jobs[holding[w].job].lease.left > 0
    BY DEF ExpiredLeaseChangesNothing
  <2>1. PICK v \in Workers : Succeed(v) \/ \E n \in 1..MaxSequence : CompleteCheckpoint(v, n)
    BY <1>1 DEF Next, vars, Enqueue, Claim, ClaimNext, Heartbeat, Finish, Fail, Drop,
       ReclaimExpiredLeases, Tick, ReplayDeadLetter, Cancel
  <2>2. Owns(v)
    BY <2>1 DEF Succeed, CompleteCheckpoint
  <2>3. v = w
    <3>1. holding \in [Workers -> Handle \union {None}]
      BY <1>1 DEF IInv, Types
    <3>2. \A u \in Workers : u # v => holding'[u] = holding[u]
      BY <2>1, <3>1 DEF Succeed, CompleteCheckpoint
    <3> QED BY <3>2
  <2> QED BY <2>2, <2>3 DEF Owns
<1> QED BY <1>1, Invariance, PTL DEF Spec

\* No job is claimed while one of higher priority could be (compareJobs).
THEOREM PriorityFirst ==
  ASSUME DurableJobAssumption PROVE Spec => [][HigherPriorityFirst]_vars
<1>1. ASSUME DurableJobAssumption, IInv, [Next]_vars PROVE HigherPriorityFirst
  <2> SUFFICES ASSUME NEW j \in Jobs, NEW k \in Jobs, jobs[j].state # "RUNNING",
                      jobs'[j].state = "RUNNING", Priority[k] > Priority[j]
               PROVE  ~Claimable(k)
    BY DEF HigherPriorityFirst, Claimable
  <2>1. jobs \in [Jobs -> Bookkeeping] /\ jobs[j] \in Bookkeeping
    BY <1>1 DEF IInv, Types
  <2>2. ASSUME NEW i \in Jobs, NEW r, jobs' = [jobs EXCEPT ![i] = r]
        PROVE  jobs'[j] = jobs[j] \/ (i = j /\ jobs'[j] = r)
    BY <2>1, <2>2
  <2>3. ASSUME NEW w \in Workers, NEW i \in Jobs, ClaimNext(w, i) PROVE i = j
    <3> DEFINE r == [jobs[i] EXCEPT !.state = "RUNNING", !.cycle = jobs[i].cycle + 1,
                                    !.lease = [worker |-> w, token |-> Len(attempts[i]) + 1,
                                               left |-> LeaseDuration]]
    <3>1. jobs' = [jobs EXCEPT ![i] = r]
      BY <2>3 DEF ClaimNext
    <3> HIDE DEF r
    <3> QED BY <2>2, <3>1
  <2>4. ASSUME NEW s \in JobState, s # "RUNNING", NEW n, NEW l
        PROVE  [jobs[j] EXCEPT !.state = s, !.avail = n, !.lease = l].state # "RUNNING"
    BY <2>1, <2>4 DEF Bookkeeping
  <2>5. ASSUME NEW b \in BOOLEAN PROVE Failed(jobs[j], b).state # "RUNNING"
    <3> DEFINE s == IF CanRetry(jobs[j], b) THEN "RETRY_WAIT" ELSE "DEAD_LETTER"
               n == IF CanRetry(jobs[j], b) THEN Backoff ELSE 0
    <3>1. Failed(jobs[j], b) = [jobs[j] EXCEPT !.state = s, !.avail = n, !.lease = NoLease]
      BY DEF Failed
    <3>2. s \in JobState /\ s # "RUNNING"
      BY DEF JobState
    <3> HIDE DEF s, n
    <3> QED BY <2>4, <3>1, <3>2
  <2>6. \E w \in Workers, i \in Jobs : ClaimNext(w, i)
    <3> SUFFICES ASSUME ~\E w \in Workers, i \in Jobs : ClaimNext(w, i) PROVE FALSE
      OBVIOUS
    <3>1. ASSUME NEW i \in Jobs, NEW a \in Inputs, NEW n \in 0..Backoff, Enqueue(i, a, n) PROVE FALSE
      <4> DEFINE r == [jobs[i] EXCEPT !.state = "QUEUED", !.input = a, !.avail = n]
      <4>1. jobs' = [jobs EXCEPT ![i] = r]
        BY <3>1 DEF Enqueue
      <4>2. i = j => r.state = "QUEUED"
        BY <2>1 DEF Bookkeeping
      <4> HIDE DEF r
      <4> QED BY <2>2, <4>1, <4>2
    <3>2. ASSUME NEW w \in Workers, Heartbeat(w) PROVE FALSE
      <4> DEFINE i == holding[w].job
                 r == [jobs[i] EXCEPT !.lease.left = LeaseDuration]
      <4>1. jobs' = [jobs EXCEPT ![i] = r] /\ i \in Jobs /\ jobs[i].state = "RUNNING"
        BY <1>1, <3>2, OwnerHolds DEF Heartbeat
      <4> HIDE DEF r, i
      <4> QED BY <2>2, <4>1
    <3>3. ASSUME NEW w \in Workers, Finish(w) PROVE FALSE
      <4> DEFINE i == holding[w].job
      <4>1. i \in Jobs /\ jobs[i].state = "RUNNING"
        BY <1>1, <3>3, OwnerHolds DEF Finish, Succeed, Fail
      <4> DEFINE r == [jobs[i] EXCEPT !.state = "SUCCEEDED", !.lease = NoLease]
      <4>2. jobs' = [jobs EXCEPT ![i] = r]
             \/ \E b \in BOOLEAN : jobs' = [jobs EXCEPT ![i] = Failed(jobs[i], b)]
        BY <3>3 DEF Finish, Succeed, Fail
      <4> HIDE DEF i, r
      <4> QED BY <2>2, <4>1, <4>2
    <3>4. ~ReclaimExpiredLeases
      <4> SUFFICES ASSUME ReclaimExpiredLeases PROVE FALSE
        OBVIOUS
      <4>1. jobs'[j] = IF j \in Expired THEN Failed(jobs[j], TRUE) ELSE jobs[j]
        BY DEF ReclaimExpiredLeases
      <4> QED BY <2>5, <4>1
    <3>5. ~Tick
      <4> SUFFICES ASSUME Tick PROVE FALSE
        OBVIOUS
      <4> DEFINE q == [jobs[j] EXCEPT !.avail = Passed(@), !.lease.left = Passed(@)]
      <4>1. jobs'[j] = q
        BY DEF Tick
      <4>2. q.state = jobs[j].state
        BY <2>1 DEF Bookkeeping
      <4> HIDE DEF q
      <4> QED BY <4>1, <4>2
    <3>6. ASSUME NEW i \in Jobs, ReplayDeadLetter(i) PROVE FALSE
      <4> DEFINE m == jobs[i].replays + 1
                 r == [jobs[i] EXCEPT !.state = "QUEUED", !.avail = 0, !.cycle = 0, !.replays = m]
      <4>1. jobs' = [jobs EXCEPT ![i] = r]
        BY <3>6 DEF ReplayDeadLetter
      <4> HIDE DEF m
      <4>2. i = j => r.state = "QUEUED"
        BY <2>1 DEF Bookkeeping
      <4> HIDE DEF r
      <4> QED BY <2>2, <4>1, <4>2
    <3>7. ASSUME NEW i \in Jobs, Cancel(i) PROVE FALSE
      <4> DEFINE r == [jobs[i] EXCEPT !.state = "CANCELLED", !.lease = NoLease]
      <4>1. jobs' = [jobs EXCEPT ![i] = r]
        BY <3>7 DEF Cancel
      <4>2. i = j => r.state = "CANCELLED"
        BY <2>1 DEF Bookkeeping
      <4> HIDE DEF r
      <4> QED BY <2>2, <4>1, <4>2
    <3>8. jobs' # jobs
      OBVIOUS
    <3> QED BY <1>1, <3>1, <3>2, <3>3, <3>4, <3>5, <3>6, <3>7, <3>8
           DEF Next, vars, Claim, Drop, CompleteCheckpoint
  <2>7. First(j)
    BY <2>3, <2>6 DEF ClaimNext
  <2>8. Priority[k] \in Int /\ Priority[j] \in Int
    BY <1>1 DEF DurableJobAssumption
  <2> QED BY <2>7, <2>8 DEF First
<1> QED BY <1>1, Invariance, PTL DEF Spec

-----------------------------------------------------------------------------
(* Handler hosts. *)

\* The sizes the instance speaks of are those of FiniteSets.
LEMMA SameSizes ==
  \A S : (Hh!IsFiniteSet(S) <=> IsFiniteSet(S)) /\ Hh!Cardinality(S) = Cardinality(S)
<1>1. \A S : Hh!IsFiniteSet(S) <=> IsFiniteSet(S)
  BY DEF Hh!IsFiniteSet, IsFiniteSet
<1>2. \A S : Hh!Cardinality(S) = Cardinality(S)
  BY DEF Hh!Cardinality, Cardinality
<1> QED BY <1>1, <1>2

\* What a host that can be handed a call is not: gone or starting.
Busy(hs) == \A h \in Slots : hs[h].active # None => hs[h].st = "ready"

\* A pending call is in the queue once or active at one host, and no other
\* call is in either place.
Placed(hs, q, rs) ==
  /\ \A i \in 1..Len(q) : rs[q[i]] = "pending"
  /\ \A i, j \in 1..Len(q) : q[i] = q[j] => i = j
  /\ \A h \in Slots : hs[h].active # None => rs[hs[h].active] = "pending"
  /\ \A g, h \in Slots : hs[g].active = hs[h].active /\ hs[g].active # None => g = h
  /\ \A h \in Slots, i \in 1..Len(q) : hs[h].active # q[i]
  /\ \A r \in Requests : rs[r] = "pending" =>
       \/ \E i \in 1..Len(q) : q[i] = r
       \/ \E h \in Slots : hs[h].active = r

Closed == fatal => queue = <<>>

HostInv == Hh!TypeOK /\ Busy(hosts) /\ Placed(hosts, queue, req) /\ Closed

Answers == {"idle", "pending"} \cup Hh!Outcomes
Calls(hs, q, rs) == hs \in [Slots -> Hh!Hosts] /\ q \in Seq(Requests) /\ rs \in [Requests -> Answers]

\* A call that was answered keeps its answer.
Kept(rs, ss) == \A r \in Requests : rs[r] \in Hh!Outcomes => ss[r] = rs[r]

LEMMA SignalledTyped ==
  ASSUME NEW w \in Hh!Hosts, NEW s \in {"term", "kill"}
  PROVE  Hh!Signalled(w, s) \in Hh!Hosts /\ Hh!Signalled(w, s).active = w.active
         /\ Hh!Signalled(w, s).st = w.st
BY DEF Hh!Signalled, Hh!Hosts

LEMMA BootingTyped ==
  ASSUME NEW b \in BOOLEAN
  PROVE  /\ Hh!NoHost \in Hh!Hosts /\ Hh!NoHost.active = None /\ Hh!NoHost.st = "none"
         /\ Hh!Booting(b) \in Hh!Hosts /\ Hh!Booting(b).active = None /\ Hh!Booting(b).st = "booting"
<1>1. <<>> \in Seq(Requests \cup {Garbage})
  OBVIOUS
<1>2. Hh!NoHost \in Hh!Hosts /\ Hh!NoHost.active = None /\ Hh!NoHost.st = "none"
  BY <1>1 DEF Hh!NoHost, Hh!Hosts
<1> QED BY <1>1, <1>2 DEF Hh!NoHost, Hh!Booting, Hh!Hosts

\* #drain hands calls from the queue to hosts and loses none.
LEMMA DrainPlaces ==
  ASSUME Hh!HostAssumption,
         NEW hs, NEW q, NEW rs, Calls(hs, q, rs),
         Busy(hs), Placed(hs, q, rs), Hh!Drain(hs, q)
  PROVE  /\ hosts' \in [Slots -> Hh!Hosts] /\ queue' \in Seq(Requests)
         /\ Busy(hosts') /\ Placed(hosts', queue', rs)
         /\ q = <<>> => queue' = <<>> /\ hosts' = hs
<1> DEFINE free == {h \in Slots : Hh!Available(hs[h])}
           n == IF Len(q) < Cardinality(free) THEN Len(q) ELSE Cardinality(free)
<1>1. CASE pool # "started"
  <2>1. hosts' = hs /\ queue' = q
    BY <1>1 DEF Hh!Drain
  <2> QED BY <2>1 DEF Calls, Busy, Placed
<1>2. CASE pool = "started"
  <2>1. IsFiniteSet(free) /\ Cardinality(free) \in Nat
    <3>1. IsFiniteSet(Slots)
      BY SameSizes DEF Hh!HostAssumption
    <3>2. free \subseteq Slots
      OBVIOUS
    <3> QED BY <3>1, <3>2, FS_Subset, FS_CardinalityType
  <2>2. n \in Nat /\ n <= Len(q) /\ n <= Cardinality(free)
    BY <2>1 DEF Calls
  <2>3. PICK f \in Hh!Injections(n, free) :
          /\ hosts' = [h \in Slots |->
                         IF \E i \in 1..n : f[i] = h
                         THEN Hh!Take(hs[h], q[CHOOSE i \in 1..n : f[i] = h])
                         ELSE hs[h]]
          /\ queue' = SubSeq(q, n + 1, Len(q))
    <3> DEFINE m == IF Len(q) < Hh!Cardinality(free) THEN Len(q) ELSE Hh!Cardinality(free)
    <3>1. PICK f \in Hh!Injections(m, free) :
            /\ hosts' = [h \in Slots |->
                           IF \E i \in 1..m : f[i] = h
                           THEN Hh!Take(hs[h], q[CHOOSE i \in 1..m : f[i] = h])
                           ELSE hs[h]]
            /\ queue' = SubSeq(q, m + 1, Len(q))
      BY <1>2 DEF Hh!Drain
    <3>2. m = n
      BY SameSizes
    <3> HIDE DEF m, n
    <3> QED BY <3>1, <3>2
  <2> HIDE DEF n
  <2>4. f \in [1..n -> free] /\ \A i, j \in 1..n : f[i] = f[j] => i = j
    BY <2>3 DEF Hh!Injections
  <2>5. \A i \in 1..n : f[i] \in Slots /\ hs[f[i]].active = None /\ hs[f[i]].st = "ready"
    BY <2>4 DEF Hh!Available
  <2>6. \A i \in 1..n : q[i] \in Requests
    BY <2>2 DEF Calls
  <2>7. \A i \in 1..n : hosts'[f[i]] = Hh!Take(hs[f[i]], q[i])
    <3> TAKE i \in 1..n
    <3>1. (CHOOSE j \in 1..n : f[j] = f[i]) = i
      BY <2>4
    <3> QED BY <2>3, <2>5, <3>1
  <2>8. \A h \in Slots : (\A i \in 1..n : f[i] # h) => hosts'[h] = hs[h]
    BY <2>3
  <2>9. \A i \in 1..n : /\ hosts'[f[i]] \in Hh!Hosts
                        /\ hosts'[f[i]].active = q[i] /\ hosts'[f[i]].st = "ready"
    <3> TAKE i \in 1..n
    <3>1. hs[f[i]] \in Hh!Hosts
      BY <2>5 DEF Calls
    <3>2. hs[f[i]].running \cup {q[i]} \in SUBSET Requests
      BY <3>1, <2>6 DEF Hh!Hosts
    <3>3. Hh!Take(hs[f[i]], q[i]) \in Hh!Hosts
      BY <3>1, <3>2, <2>6 DEF Hh!Take, Hh!Hosts
    <3> QED BY <3>1, <3>3, <2>5, <2>7 DEF Hh!Take, Hh!Hosts
  <2>10. DOMAIN hosts' = Slots
    BY <2>3
  <2>11. hosts' \in [Slots -> Hh!Hosts]
    <3>1. \A h \in Slots : hosts'[h] \in Hh!Hosts
      BY <2>8, <2>9 DEF Calls
    <3> QED BY <2>3, <3>1
  <2>12. queue' \in Seq(Requests) /\ Len(queue') = Len(q) - n
         /\ \A i \in 1..Len(queue') : queue'[i] = q[i + n]
    <3>0. q \in Seq(Requests) /\ Len(q) \in Nat
      BY DEF Calls
    <3>1. \A i \in (n + 1)..Len(q) : q[i] \in Requests
      BY <3>0, <2>2
    <3> QED BY <2>2, <2>3, <3>0, <3>1
  <2>13. Busy(hosts')
    BY <2>8, <2>9 DEF Busy
  <2>14. \A i \in 1..Len(queue') : i + n \in 1..Len(q) /\ queue'[i] = q[i + n]
    BY <2>2, <2>12 DEF Calls
  <2>15. \A i \in 1..n : i \in 1..Len(q)
    BY <2>2 DEF Calls
  <2>16. \A h \in Slots : hosts'[h] = hs[h] \/ \E i \in 1..n : f[i] = h /\ hosts'[h].active = q[i]
    BY <2>8, <2>9
  <2>17. Placed(hosts', queue', rs)
    <3>1. \A i \in 1..Len(queue') : rs[queue'[i]] = "pending"
      BY <2>14 DEF Placed
    <3>2. \A i, j \in 1..Len(queue') : queue'[i] = queue'[j] => i = j
      <4> TAKE i, j \in 1..Len(queue')
      <4> HAVE queue'[i] = queue'[j]
      <4>1. i + n = j + n
        BY <2>14 DEF Placed
      <4> QED BY <4>1, <2>2
    <3>3. \A h \in Slots : hosts'[h].active # None => rs[hosts'[h].active] = "pending"
      BY <2>15, <2>16 DEF Placed
    <3>4. \A g, h \in Slots : hosts'[g].active = hosts'[h].active /\ hosts'[g].active # None => g = h
      BY <2>15, <2>16 DEF Placed
    <3>5. \A h \in Slots, i \in 1..Len(queue') : hosts'[h].active # queue'[i]
      <4> TAKE h \in Slots, i \in 1..Len(queue')
      <4>1. CASE hosts'[h] = hs[h]
        BY <4>1, <2>14 DEF Placed
      <4>2. CASE \E k \in 1..n : f[k] = h /\ hosts'[h].active = q[k]
        <5>1. PICK k \in 1..n : hosts'[h].active = q[k]
          BY <4>2
        <5>2. k # i + n
          BY <2>2, <2>12
        <5> QED BY <5>1, <5>2, <2>14, <2>15 DEF Placed
      <4> QED BY <4>1, <4>2, <2>16
    <3>6. ASSUME NEW r \in Requests, rs[r] = "pending"
          PROVE  \/ \E i \in 1..Len(queue') : queue'[i] = r
                 \/ \E h \in Slots : hosts'[h].active = r
      <4>1. CASE \E i \in 1..Len(q) : q[i] = r
        <5>1. PICK i \in 1..Len(q) : q[i] = r
          BY <4>1
        <5>2. CASE i <= n
          <6>1. i \in 1..n
            BY <5>2, <2>2
          <6> QED BY <6>1, <5>1, <2>5, <2>9
        <5>3. CASE i > n
          <6>1. i - n \in 1..Len(queue') /\ (i - n) + n = i
            BY <5>3, <2>2, <2>12 DEF Calls
          <6> QED BY <6>1, <5>1, <2>12
        <5> QED BY <5>2, <5>3, <2>2
      <4>2. CASE \E h \in Slots : hs[h].active = r
        <5>1. PICK h \in Slots : hs[h].active = r
          BY <4>2
        <5>2. \A i \in 1..n : f[i] # h
          BY <5>1, <2>5 DEF Hh!HostAssumption
        <5> QED BY <5>1, <5>2, <2>8
      <4> QED BY <3>6, <4>1, <4>2 DEF Placed
    <3> QED BY <3>1, <3>2, <3>3, <3>4, <3>5, <3>6 DEF Placed
  <2>18. q = <<>> => queue' = <<>> /\ hosts' = hs
    <3> SUFFICES ASSUME q = <<>> PROVE queue' = <<>> /\ hosts' = hs
      OBVIOUS
    <3>1. n = 0 /\ Len(queue') = 0
      BY <2>2, <2>12
    <3>2. hs \in [Slots -> Hh!Hosts]
      BY DEF Calls
    <3>3. \A h \in Slots : hosts'[h] = hs[h]
      BY <3>1, <2>8
    <3> QED BY <3>1, <3>2, <3>3, <2>11, <2>12
  <2> QED BY <2>11, <2>12, <2>13, <2>17, <2>18
<1> QED BY <1>1, <1>2

\* Rejecting the queue settles its calls and no other.
LEMMA RejectPlaces ==
  ASSUME NEW hs, NEW rs, Calls(hs, queue, rs), Placed(hs, queue, rs),
         Hh!RejectQueue("HOST_EXITED", rs)
  PROVE  Calls(hs, queue', req') /\ Placed(hs, queue', req') /\ Kept(rs, req') /\ queue' = <<>>
<1>1. queue' = <<>> /\ req' = [r \in Requests |-> IF Hh!Queued(r) THEN "HOST_EXITED" ELSE rs[r]]
  BY DEF Hh!RejectQueue
<1>2. \A r \in Requests : Hh!Queued(r) => rs[r] = "pending"
  BY DEF Hh!Queued, Placed
<1>3. \A h \in Slots : hs[h].active # None => hs[h].active \in Requests /\ ~Hh!Queued(hs[h].active)
  BY DEF Hh!Queued, Placed, Calls, Hh!Hosts
<1>4. Calls(hs, queue', req')
  <2>1. req' \in [Requests -> Answers]
    BY <1>1 DEF Calls, Answers, Hh!Outcomes
  <2>2. queue' \in Seq(Requests)
    BY <1>1
  <2> QED BY <2>1, <2>2 DEF Calls
<1>5. Placed(hs, queue', req')
  <2>1. \A h \in Slots : hs[h].active # None => req'[hs[h].active] = "pending"
    BY <1>1, <1>3 DEF Placed
  <2>2. \A r \in Requests : req'[r] = "pending" => \E h \in Slots : hs[h].active = r
    BY <1>1 DEF Placed, Hh!Queued
  <2>3. Len(queue') = 0
    BY <1>1
  <2> QED BY <2>1, <2>2, <2>3 DEF Placed
<1>6. Kept(rs, req')
  BY <1>1, <1>2 DEF Kept, Hh!Outcomes
<1> QED BY <1>1, <1>4, <1>5, <1>6

\* Only the active fields say where a call is.
LEMMA SamePlaces ==
  ASSUME NEW hs, NEW gs, NEW q, NEW rs,
         \A h \in Slots : gs[h].active = hs[h].active /\ gs[h].st = hs[h].st,
         Busy(hs), Placed(hs, q, rs)
  PROVE  Busy(gs) /\ Placed(gs, q, rs)
BY DEF Busy, Placed

\* One host is replaced.
Changed(gs, hs, h, w) ==
  /\ gs \in [Slots -> Hh!Hosts]
  /\ gs[h] = w
  /\ \A g \in Slots : g # h => gs[g] = hs[g]

\* One host changes and no call moves.
LEMMA HostChanges ==
  ASSUME NEW hs, NEW q, NEW rs, NEW h \in Slots, NEW w \in Hh!Hosts,
         Calls(hs, q, rs), Busy(hs), Placed(hs, q, rs),
         w.active = hs[h].active, w.active # None => w.st = "ready",
         NEW gs, Changed(gs, hs, h, w)
  PROVE  /\ Calls(gs, q, rs) /\ Busy(gs) /\ Placed(gs, q, rs)
         /\ \A g \in Slots : gs[g].active = hs[g].active
<1>1. gs \in [Slots -> Hh!Hosts] /\ \A g \in Slots : gs[g].active = hs[g].active
  BY DEF Calls, Changed
<1>2. Calls(gs, q, rs)
  BY <1>1 DEF Calls
<1>3. Busy(gs)
  BY DEF Busy, Calls, Changed
<1>4. Placed(gs, q, rs)
  BY <1>1 DEF Placed
<1> QED BY <1>1, <1>2, <1>3, <1>4

\* The active call of one host is settled, its host is free or replaced.
LEMMA HostSettles ==
  ASSUME Hh!HostAssumption, NEW hs, NEW q, NEW rs, NEW ss, NEW h \in Slots, NEW w \in Hh!Hosts,
         Calls(hs, q, rs), Busy(hs), Placed(hs, q, rs), w.active = None,
         ss \in [Requests -> Answers],
         \A r \in Requests : r # hs[h].active => ss[r] = rs[r],
         hs[h].active # None => ss[hs[h].active] # "pending",
         NEW gs, Changed(gs, hs, h, w)
  PROVE  /\ Calls(gs, q, ss) /\ Busy(gs) /\ Placed(gs, q, ss) /\ Kept(rs, ss)
         /\ \A g \in Slots : gs[g].active \in {hs[g].active, None}
<1>1. gs \in [Slots -> Hh!Hosts] /\ gs[h].active = None
      /\ \A g \in Slots : g # h => gs[g] = hs[g]
  BY DEF Calls, Changed
<1>2. Calls(gs, q, ss)
  BY <1>1 DEF Calls
<1>3. Busy(gs)
  BY <1>1 DEF Busy
<1>4. Placed(gs, q, ss)
  <2>1. \A i \in 1..Len(q) : ss[q[i]] = "pending"
    BY DEF Placed, Calls
  <2>2. \A g \in Slots : gs[g].active # None => ss[gs[g].active] = "pending"
    <3> TAKE g \in Slots
    <3> HAVE gs[g].active # None
    <3>1. gs[g] = hs[g] /\ g # h /\ hs[g].active \in Requests
      BY <1>1 DEF Calls, Hh!Hosts
    <3> QED BY <3>1 DEF Placed
  <2>3. \A r \in Requests : ss[r] = "pending" =>
          \/ \E i \in 1..Len(q) : q[i] = r
          \/ \E g \in Slots : gs[g].active = r
    <3> TAKE r \in Requests
    <3> HAVE ss[r] = "pending"
    <3>1. r # hs[h].active
      BY DEF Hh!HostAssumption
    <3> QED BY <3>1, <1>1 DEF Placed
  <2>4. \A g \in Slots, i \in 1..Len(q) : gs[g].active # q[i]
    <3> TAKE g \in Slots, i \in 1..Len(q)
    <3>1. q[i] \in Requests
      BY DEF Calls
    <3> QED BY <3>1, <1>1 DEF Placed, Hh!HostAssumption
  <2>5. \A f, g \in Slots : gs[f].active = gs[g].active /\ gs[f].active # None => f = g
    BY <1>1 DEF Placed
  <2> QED BY <2>1, <2>2, <2>3, <2>4, <2>5 DEF Placed
<1>5. Kept(rs, ss)
  BY DEF Kept, Placed, Hh!HostAssumption, Hh!Outcomes
<1> QED BY <1>1, <1>2, <1>3, <1>4, <1>5

LEMMA StopPlaces ==
  ASSUME NEW hs, NEW rs, Calls(hs, queue, rs), Busy(hs), Placed(hs, queue, rs), Hh!BeginStop(hs, rs)
  PROVE  /\ Calls(hosts', queue', req') /\ Busy(hosts') /\ Placed(hosts', queue', req')
         /\ Kept(rs, req') /\ queue' = <<>>
         /\ pool' = "stopping" /\ launching' = FALSE
         /\ \A h \in Slots : hosts'[h].active = hs[h].active
<1>1. Hh!RejectQueue("HOST_EXITED", rs)
  BY DEF Hh!BeginStop
<1>2. Calls(hs, queue', req') /\ Placed(hs, queue', req') /\ Kept(rs, req') /\ queue' = <<>>
  BY <1>1, RejectPlaces
<1>3. \A h \in Slots : /\ hosts'[h] \in Hh!Hosts
                       /\ hosts'[h].active = hs[h].active /\ hosts'[h].st = hs[h].st
  <2> TAKE h \in Slots
  <2>1. hs[h] \in Hh!Hosts
    BY DEF Calls
  <2>2. PICK w \in Hh!Hosts : w = Hh!Signalled(hs[h], "term")
    BY <2>1, SignalledTyped
  <2>3. w.active = hs[h].active /\ w.st = hs[h].st
    BY <2>1, <2>2, SignalledTyped
  <2>4. [w EXCEPT !.stopping = TRUE, !.grace = TRUE] \in Hh!Hosts
    BY <2>2 DEF Hh!Hosts
  <2>5. hosts'[h] = IF hs[h].member THEN [w EXCEPT !.stopping = TRUE, !.grace = TRUE] ELSE hs[h]
    BY <2>2 DEF Hh!BeginStop
  <2>6. /\ [w EXCEPT !.stopping = TRUE, !.grace = TRUE].active = w.active
        /\ [w EXCEPT !.stopping = TRUE, !.grace = TRUE].st = w.st
    BY <2>2 DEF Hh!Hosts
  <2> QED BY <2>1, <2>3, <2>4, <2>5, <2>6
<1>4. hosts' \in [Slots -> Hh!Hosts]
  <2>1. DOMAIN hosts' = Slots /\ hosts' = [h \in Slots |-> hosts'[h]]
    BY DEF Hh!BeginStop
  <2> QED BY <2>1, <1>3
<1>5. Busy(hosts') /\ Placed(hosts', queue', req')
  BY <1>2, <1>3, SamePlaces
<1> QED BY <1>2, <1>3, <1>4, <1>5 DEF Hh!BeginStop, Calls

LEMMA FailurePlaces ==
  ASSUME NEW first, NEW hs, NEW rs, Calls(hs, queue, rs), Busy(hs), Placed(hs, queue, rs),
         Closed, pool \in {"stopped", "started", "stopping"}, launching \in BOOLEAN,
         fatal \in BOOLEAN, Hh!StartupFailed(first, hs, rs)
  PROVE  /\ Calls(hosts', queue', req') /\ Busy(hosts') /\ Placed(hosts', queue', req')
         /\ Kept(rs, req') /\ Closed'
         /\ pool' \in {"stopped", "started", "stopping"} /\ launching' \in BOOLEAN
         /\ fatal' \in BOOLEAN
         /\ \A h \in Slots : hosts'[h].active = hs[h].active
<1>1. CASE Hh!BeginStop(hs, rs) /\ UNCHANGED fatal
  BY <1>1, StopPlaces DEF Closed
<1>2. CASE hosts' = hs /\ req' = rs /\ UNCHANGED <<pool, launching, fatal, queue>>
  BY <1>2 DEF Closed, Kept
<1>3. CASE /\ fatal' = TRUE /\ Hh!RejectQueue("HOST_EXITED", rs)
           /\ hosts' = hs /\ UNCHANGED <<pool, launching>>
  BY <1>3, RejectPlaces DEF Closed
<1> QED BY <1>1, <1>2, <1>3 DEF Hh!StartupFailed

-----------------------------------------------------------------------------
(* The steps. *)

\* What every step keeps and what no step does.
HostStepGood ==
  /\ HostInv'
  /\ Kept(req, req') \/ \E r \in Requests : Hh!CallerReturns(r)
  /\ fatal /\ fatal' => \A h \in Slots : hosts'[h].active \in {hosts[h].active, None}

LEMMA GoodByParts ==
  ASSUME Calls(hosts', queue', req'), Busy(hosts'), Placed(hosts', queue', req'), Closed',
         pool' \in {"stopped", "started", "stopping"}, launching' \in BOOLEAN, fatal' \in BOOLEAN,
         Kept(req, req') \/ \E r \in Requests : Hh!CallerReturns(r),
         fatal /\ fatal' => \A h \in Slots : hosts'[h].active \in {hosts[h].active, None}
  PROVE  HostStepGood
<1>1. Hh!TypeOK'
  BY DEF Hh!TypeOK, Calls, Answers
<1>2. Busy(hosts)' /\ Placed(hosts, queue, req)'
  BY DEF Busy, Placed
<1> QED BY <1>1, <1>2 DEF HostStepGood, HostInv

LEMMA Parts ==
  ASSUME HostInv
  PROVE  /\ Calls(hosts, queue, req) /\ Busy(hosts) /\ Placed(hosts, queue, req) /\ Closed
         /\ pool \in {"stopped", "started", "stopping"} /\ launching \in BOOLEAN /\ fatal \in BOOLEAN
BY DEF HostInv, Hh!TypeOK, Calls, Answers

LEMMA StartGood == ASSUME Hh!HostAssumption, HostInv, Hh!Start PROVE HostStepGood
<1>1. PICK S \in SUBSET {h \in Slots : ~Hh!Alive(h)} :
         hosts' = [h \in Slots |-> IF h \in S THEN Hh!Booting(TRUE) ELSE hosts[h]]
  BY DEF Hh!Start
<1>2. pool' = "started" /\ launching' = TRUE /\ fatal' = FALSE /\ queue' = queue /\ req' = req
  BY DEF Hh!Start
<1>3. \A h \in Slots : hosts'[h] \in Hh!Hosts /\ hosts'[h].active = hosts[h].active
                       /\ (hosts[h].active # None => hosts'[h].st = hosts[h].st)
  BY <1>1, Parts, BootingTyped DEF Hh!Alive, Busy, Calls
<1>4. Calls(hosts', queue', req')
  BY <1>1, <1>2, <1>3, Parts DEF Calls
<1>5. Busy(hosts') /\ Placed(hosts', queue', req')
  BY <1>2, <1>3, Parts DEF Busy, Placed
<1> QED BY <1>2, <1>3, <1>4, <1>5, GoodByParts DEF Closed, Kept

LEMMA StopGood == ASSUME HostInv, Hh!Stop PROVE HostStepGood
<1>1. Hh!BeginStop(hosts, req) /\ UNCHANGED fatal
  BY DEF Hh!Stop
<1> QED BY <1>1, Parts, StopPlaces, GoodByParts DEF Closed

LEMMA StoppedGood == ASSUME HostInv, Hh!Stopped PROVE HostStepGood
<1>1. pool' = "stopped" /\ fatal' = FALSE /\ UNCHANGED <<launching, queue, hosts, req>>
  BY DEF Hh!Stopped
<1> QED BY <1>1, Parts, GoodByParts DEF Closed, Kept

LEMMA SamePending ==
  ASSUME NEW hs, NEW q, NEW rs, NEW ss, Calls(hs, q, rs), Placed(hs, q, rs),
         \A r \in Requests : rs[r] = "pending" <=> ss[r] = "pending"
  PROVE  Placed(hs, q, ss)
<1>1. \A i \in 1..Len(q) : q[i] \in Requests
  BY DEF Calls
<1>2. \A h \in Slots : hs[h].active # None => hs[h].active \in Requests
  BY DEF Calls, Hh!Hosts
<1> QED BY <1>1, <1>2 DEF Placed

LEMMA RefuseGood == ASSUME HostInv, NEW r \in Requests, Hh!Refuse(r) PROVE HostStepGood
<1>1. /\ req[r] = "idle" /\ req' = [req EXCEPT ![r] = "refused"]
      /\ UNCHANGED <<pool, launching, fatal, queue, hosts>>
  BY DEF Hh!Refuse
<1>2. Calls(hosts', queue', req')
  BY <1>1, Parts DEF Calls, Answers, Hh!Outcomes
<1>3. \A s \in Requests : req[s] = "pending" <=> req'[s] = "pending"
  BY <1>1, Parts DEF Calls
<1>4. Placed(hosts', queue', req') /\ Busy(hosts') /\ Closed'
  BY <1>1, <1>3, Parts, SamePending DEF Closed
<1>5. Kept(req, req')
  BY <1>1, Parts DEF Calls, Kept, Hh!Outcomes
<1> QED BY <1>1, <1>2, <1>4, <1>5, Parts, GoodByParts

LEMMA InvokeGood == ASSUME Hh!HostAssumption, HostInv, NEW r \in Requests, Hh!Invoke(r) PROVE HostStepGood
<1> DEFINE q == Append(queue, r)
           rs == [req EXCEPT ![r] = "pending"]
<1>1. req[r] = "idle" /\ ~fatal /\ req' = rs /\ Hh!Drain(hosts, q)
      /\ UNCHANGED <<pool, launching, fatal>>
  BY DEF Hh!Invoke
<1>2. Calls(hosts, q, rs)
  BY Parts DEF Calls, Answers
<1>3. Placed(hosts, q, rs)
  <2>1. queue \in Seq(Requests) /\ Len(queue) \in Nat /\ Len(q) = Len(queue) + 1 /\ q[Len(q)] = r
        /\ \A i \in 1..Len(queue) : q[i] = queue[i] /\ queue[i] \in Requests
    BY Parts DEF Calls
  <2>2. rs[r] = "pending" /\ \A s \in Requests : s # r => rs[s] = req[s]
    BY Parts DEF Calls
  <2>3. \A i \in 1..Len(queue) : queue[i] # r
    BY <1>1, Parts DEF Placed
  <2>4. \A h \in Slots : hosts[h].active # r
    BY <1>1, Parts DEF Placed, Hh!HostAssumption
  <2>5. \A h \in Slots : hosts[h].active # None => hosts[h].active \in Requests
    BY Parts DEF Calls, Hh!Hosts
  <2> HIDE DEF q, rs
  <2>6. \A i \in 1..Len(q) : i \in 1..Len(queue) \/ i = Len(q)
    BY <2>1
  <2>7. \A i \in 1..Len(q) : rs[q[i]] = "pending"
    BY <2>1, <2>2, <2>3, <2>6, Parts DEF Placed
  <2>8. \A i, j \in 1..Len(q) : q[i] = q[j] => i = j
    BY <2>1, <2>3, <2>6, Parts DEF Placed
  <2>9. \A h \in Slots, i \in 1..Len(q) : hosts[h].active # q[i]
    BY <2>1, <2>4, <2>6, Parts DEF Placed
  <2>10. \A h \in Slots : hosts[h].active # None => rs[hosts[h].active] = "pending"
    BY <2>2, <2>4, <2>5, Parts DEF Placed
  <2>11. \A s \in Requests : rs[s] = "pending" =>
           \/ \E i \in 1..Len(q) : q[i] = s
           \/ \E h \in Slots : hosts[h].active = s
    <3> TAKE s \in Requests
    <3> HAVE rs[s] = "pending"
    <3>1. CASE s = r
      BY <3>1, <2>1
    <3>2. CASE s # r
      <4>1. \A i \in 1..Len(queue) : i \in 1..Len(q) /\ q[i] = queue[i]
        BY <2>1
      <4> QED BY <3>2, <4>1, <2>2, Parts DEF Placed
    <3> QED BY <3>1, <3>2
  <2>12. \A g, h \in Slots : hosts[g].active = hosts[h].active /\ hosts[g].active # None => g = h
    BY Parts DEF Placed
  <2> QED BY <2>7, <2>8, <2>9, <2>10, <2>11, <2>12 DEF Placed
<1>4. Kept(req, rs)
  BY <1>1, Parts DEF Calls, Kept, Hh!Outcomes
<1> HIDE DEF q, rs
<1>5. /\ hosts' \in [Slots -> Hh!Hosts] /\ queue' \in Seq(Requests)
      /\ Busy(hosts') /\ Placed(hosts', queue', rs)
  BY <1>1, <1>2, <1>3, Parts, DrainPlaces
<1>6. Calls(hosts', queue', req')
  BY <1>1, <1>2, <1>5 DEF Calls
<1> QED BY <1>1, <1>4, <1>5, <1>6, Parts, GoodByParts DEF Closed

LEMMA CallerReturnsGood == ASSUME HostInv, NEW r \in Requests, Hh!CallerReturns(r) PROVE HostStepGood
<1>1. /\ req[r] \in Hh!Outcomes /\ req' = [req EXCEPT ![r] = "idle"]
      /\ UNCHANGED <<pool, launching, fatal, queue, hosts>>
  BY DEF Hh!CallerReturns
<1>2. Calls(hosts', queue', req')
  BY <1>1, Parts DEF Calls, Answers
<1>3. \A s \in Requests : req[s] = "pending" <=> req'[s] = "pending"
  BY <1>1, Parts DEF Calls, Hh!Outcomes
<1>4. Placed(hosts', queue', req') /\ Busy(hosts') /\ Closed'
  BY <1>1, <1>3, Parts, SamePending DEF Closed
<1> QED BY <1>1, <1>2, <1>4, Parts, GoodByParts

\* The steps that only change one host, and no call.
LEMMA LocalGood ==
  ASSUME HostInv, NEW h \in Slots, NEW w \in Hh!Hosts, w.active = hosts[h].active,
         w.active # None => w.st = "ready",
         hosts' = [hosts EXCEPT ![h] = w], UNCHANGED <<pool, launching, fatal, queue, req>>
  PROVE  HostStepGood
<1>0. Changed(hosts', hosts, h, w)
  BY Parts DEF Calls, Changed
<1>1. /\ Calls(hosts', queue, req) /\ Busy(hosts') /\ Placed(hosts', queue, req)
      /\ \A g \in Slots : hosts'[g].active = hosts[g].active
  <2>1. Calls(hosts, queue, req) /\ Busy(hosts) /\ Placed(hosts, queue, req)
    BY Parts
  <2>2. PICK gs : gs = hosts'
    OBVIOUS
  <2>3. Changed(gs, hosts, h, w) /\ (w.active # None => w.st = "ready")
    BY <1>0, <2>2
  <2>4. /\ Calls(gs, queue, req) /\ Busy(gs) /\ Placed(gs, queue, req)
        /\ \A g \in Slots : gs[g].active = hosts[g].active
    BY ONLY <2>1, <2>3, HostChanges, w \in Hh!Hosts, h \in Slots, w.active = hosts[h].active
  <2> QED BY <2>2, <2>4
<1> QED BY <1>1, Parts, GoodByParts DEF Closed, Kept

LEMMA ReadyGood == ASSUME Hh!HostAssumption, HostInv, NEW h \in Slots, Hh!Ready(h) PROVE HostStepGood
<1>1. hosts[h].st = "booting" /\ UNCHANGED <<pool, fatal, req>>
  BY DEF Hh!Ready
<1>2. PICK w : w = [hosts[h] EXCEPT !.st = "ready"]
  OBVIOUS
<1>3. hosts[h] \in Hh!Hosts /\ hosts[h].active = None
  BY <1>1, Parts DEF Calls, Busy
<1>4. w \in Hh!Hosts /\ w.active = None
  BY <1>2, <1>3 DEF Hh!Hosts
<1>5. PICK hs : hs = [hosts EXCEPT ![h] = w]
  OBVIOUS
<1>6. hs = [hosts EXCEPT ![h].st = "ready"]
  BY <1>2, <1>5, Parts DEF Calls
<1>7. /\ launching' = (launching /\ \E g \in Slots : hs[g].initial /\ hs[g].st = "booting")
      /\ Hh!Drain(hs, queue)
  BY <1>6 DEF Hh!Ready
<1>8. /\ Calls(hs, queue, req) /\ Busy(hs) /\ Placed(hs, queue, req)
      /\ \A g \in Slots : hs[g].active = hosts[g].active
  <2>1. Changed(hs, hosts, h, w)
    BY <1>4, <1>5, Parts DEF Calls, Changed
  <2> QED BY <2>1, <1>3, <1>4, Parts, HostChanges
<1>9. /\ hosts' \in [Slots -> Hh!Hosts] /\ queue' \in Seq(Requests)
      /\ Busy(hosts') /\ Placed(hosts', queue', req)
      /\ queue = <<>> => queue' = <<>> /\ hosts' = hs
  BY <1>7, <1>8, DrainPlaces
<1>10. Calls(hosts', queue', req')
  BY <1>1, <1>9, Parts DEF Calls
<1> QED BY <1>1, <1>7, <1>8, <1>9, <1>10, Parts, GoodByParts DEF Closed, Kept

LEMMA StartupTimeoutGood == ASSUME HostInv, NEW h \in Slots, Hh!StartupTimeout(h) PROVE HostStepGood
<1>1. hosts[h] \in Hh!Hosts
  BY Parts DEF Calls
<1>2. PICK v : v = [hosts[h] EXCEPT !.member = FALSE]
  OBVIOUS
<1>3. v \in Hh!Hosts /\ v.active = hosts[h].active /\ v.st = hosts[h].st
  BY <1>1, <1>2 DEF Hh!Hosts
<1>4. PICK w \in Hh!Hosts : w = Hh!Signalled(v, "kill")
  BY <1>3, SignalledTyped
<1>5. w.active = hosts[h].active /\ w.st = hosts[h].st
  BY <1>3, <1>4, SignalledTyped
<1>6. PICK hs : hs = [hosts EXCEPT ![h] = w]
  OBVIOUS
<1>7. Hh!StartupFailed(hosts[h].initial, hs, req)
  BY <1>2, <1>4, <1>6 DEF Hh!StartupTimeout
<1>8. /\ Calls(hs, queue, req) /\ Busy(hs) /\ Placed(hs, queue, req)
      /\ \A g \in Slots : hs[g].active = hosts[g].active
  <2>1. Changed(hs, hosts, h, w)
    BY <1>6, Parts DEF Calls, Changed
  <2> QED BY <2>1, <1>5, Parts, HostChanges DEF Busy
<1>9. /\ Calls(hosts', queue', req') /\ Busy(hosts') /\ Placed(hosts', queue', req')
      /\ Kept(req, req') /\ Closed'
      /\ pool' \in {"stopped", "started", "stopping"} /\ launching' \in BOOLEAN
      /\ fatal' \in BOOLEAN
      /\ \A g \in Slots : hosts'[g].active = hs[g].active
  BY <1>7, <1>8, Parts, FailurePlaces
<1> QED BY <1>8, <1>9, GoodByParts

LEMMA HandleTimeoutGood == ASSUME HostInv, NEW h \in Slots, Hh!HandleTimeout(h) PROVE HostStepGood
<1>1. hosts[h] \in Hh!Hosts
  BY Parts DEF Calls
<1>2. PICK v \in Hh!Hosts : v = Hh!Signalled(hosts[h], "term")
  BY <1>1, SignalledTyped
<1>3. v.active = hosts[h].active /\ v.st = hosts[h].st
  BY <1>1, <1>2, SignalledTyped
<1>4. PICK w : w = [v EXCEPT !.timedOut = TRUE, !.grace = TRUE]
  OBVIOUS
<1>5. w \in Hh!Hosts /\ w.active = hosts[h].active /\ w.st = hosts[h].st
  BY <1>2, <1>3, <1>4 DEF Hh!Hosts
<1>6. hosts' = [hosts EXCEPT ![h] = w] /\ UNCHANGED <<pool, launching, fatal, queue, req>>
  BY <1>2, <1>4 DEF Hh!HandleTimeout
<1> QED BY <1>5, <1>6, Parts, LocalGood DEF Busy

LEMMA GraceExpiresGood == ASSUME HostInv, NEW h \in Slots, Hh!GraceExpires(h) PROVE HostStepGood
<1>1. hosts[h] \in Hh!Hosts
  BY Parts DEF Calls
<1>2. PICK v \in Hh!Hosts : v = Hh!Signalled(hosts[h], "kill")
  BY <1>1, SignalledTyped
<1>3. v.active = hosts[h].active /\ v.st = hosts[h].st
  BY <1>1, <1>2, SignalledTyped
<1>4. PICK w : w = [v EXCEPT !.grace = FALSE]
  OBVIOUS
<1>5. w \in Hh!Hosts /\ w.active = hosts[h].active /\ w.st = hosts[h].st
  BY <1>2, <1>3, <1>4 DEF Hh!Hosts
<1>6. hosts' = [hosts EXCEPT ![h] = w] /\ UNCHANGED <<pool, launching, fatal, queue, req>>
  BY <1>2, <1>4 DEF Hh!GraceExpires
<1> QED BY <1>5, <1>6, Parts, LocalGood DEF Busy

LEMMA ChildReplyGood == ASSUME HostInv, NEW h \in Slots, Hh!ChildReply(h) PROVE HostStepGood
<1>1. hosts[h] \in Hh!Hosts
  BY Parts DEF Calls
<1>2. PICK r \in hosts[h].running :
         hosts' = [hosts EXCEPT ![h].running = @ \ {r}, ![h].mail = Append(@, r)]
  BY DEF Hh!ChildReply
<1>3. PICK w : w = [hosts[h] EXCEPT !.running = @ \ {r}, !.mail = Append(@, r)]
  OBVIOUS
<1>4. hosts[h].running \ {r} \in SUBSET Requests
      /\ Append(hosts[h].mail, r) \in Seq(Requests \cup {Garbage})
  BY <1>1 DEF Hh!Hosts
<1>5. w \in Hh!Hosts /\ w.active = hosts[h].active /\ w.st = hosts[h].st
  BY <1>1, <1>3, <1>4 DEF Hh!Hosts
<1>6. hosts' = [hosts EXCEPT ![h] = w]
  BY <1>2, <1>3, Parts DEF Calls
<1>7. UNCHANGED <<pool, launching, fatal, queue, req>>
  BY DEF Hh!ChildReply
<1> QED BY <1>5, <1>6, <1>7, Parts, LocalGood DEF Busy

LEMMA ChildGarbageGood == ASSUME HostInv, NEW h \in Slots, Hh!ChildGarbage(h) PROVE HostStepGood
<1>1. hosts[h] \in Hh!Hosts
  BY Parts DEF Calls
<1>2. PICK w : w = [hosts[h] EXCEPT !.mail = <<Garbage>>]
  OBVIOUS
<1>3. <<Garbage>> \in Seq(Requests \cup {Garbage})
  OBVIOUS
<1>4. w \in Hh!Hosts /\ w.active = hosts[h].active /\ w.st = hosts[h].st
  BY <1>1, <1>2, <1>3 DEF Hh!Hosts
<1>5. hosts' = [hosts EXCEPT ![h] = w] /\ UNCHANGED <<pool, launching, fatal, queue, req>>
  BY <1>2, Parts DEF Hh!ChildGarbage, Calls
<1> QED BY <1>4, <1>5, Parts, LocalGood DEF Busy

LEMMA HandleMessageGood ==
  ASSUME Hh!HostAssumption, HostInv, NEW h \in Slots, Hh!HandleMessage(h) PROVE HostStepGood
<1> DEFINE r == Head(hosts[h].mail)
<1>1. hosts[h] \in Hh!Hosts /\ hosts[h].mail # <<>>
  BY Parts DEF Calls, Hh!HandleMessage
<1>2. PICK w : w = [hosts[h] EXCEPT !.mail = Tail(@)]
  OBVIOUS
<1>3. Tail(hosts[h].mail) \in Seq(Requests \cup {Garbage}) /\ r \in Requests \cup {Garbage}
  BY <1>1 DEF Hh!Hosts
<1>4. w \in Hh!Hosts /\ w.active = hosts[h].active /\ w.st = hosts[h].st
  BY <1>1, <1>2, <1>3 DEF Hh!Hosts
<1> HIDE DEF r
<1>5. CASE /\ hosts' = [hosts EXCEPT ![h] = Hh!FailProtocol(w, req).host]
           /\ req' = Hh!FailProtocol(w, req).req
           /\ UNCHANGED <<pool, launching, fatal, queue>>
  <2>1. PICK v \in Hh!Hosts : v = Hh!Signalled(w, "kill")
    BY <1>4, SignalledTyped
  <2>2. PICK u : u = [v EXCEPT !.active = None, !.timedOut = FALSE]
    OBVIOUS
  <2>3. u \in Hh!Hosts /\ u.active = None
    BY <2>1, <2>2 DEF Hh!Hosts
  <2>4. PICK ss : ss = [s \in Requests |-> IF s = w.active THEN "PROTOCOL_MISMATCH" ELSE req[s]]
    OBVIOUS
  <2>5. hosts' = [hosts EXCEPT ![h] = u] /\ req' = ss
    BY <1>5, <2>1, <2>2, <2>4 DEF Hh!FailProtocol
  <2>6. ss \in [Requests -> Answers]
    BY <2>4, Parts DEF Calls, Answers, Hh!Outcomes
  <2>7. \A s \in Requests : s # hosts[h].active => ss[s] = req[s]
    BY <1>4, <2>4
  <2>8. hosts[h].active # None => ss[hosts[h].active] # "pending"
    BY <1>1, <1>4, <2>4 DEF Hh!Hosts
  <2>9. /\ Calls(hosts', queue, ss) /\ Busy(hosts') /\ Placed(hosts', queue, ss)
        /\ Kept(req, ss)
        /\ \A g \in Slots : hosts'[g].active \in {hosts[g].active, None}
    <3>1. Changed(hosts', hosts, h, u)
      BY <2>3, <2>5, Parts DEF Calls, Changed
    <3> QED BY <3>1, <2>3, <2>6, <2>7, <2>8, Parts, HostSettles
  <2> QED BY <1>5, <2>5, <2>9, Parts, GoodByParts DEF Closed
<1>6. ASSUME r # Garbage, r = w.active, NEW code \in {"ok", "error"}, req' = [req EXCEPT ![r] = code],
             Hh!Drain([hosts EXCEPT ![h] = [w EXCEPT !.active = None, !.timedOut = FALSE]], queue),
             UNCHANGED <<pool, launching, fatal>>
      PROVE  HostStepGood
  <2>1. PICK u : u = [w EXCEPT !.active = None, !.timedOut = FALSE]
    OBVIOUS
  <2>2. u \in Hh!Hosts /\ u.active = None
    BY <1>4, <2>1 DEF Hh!Hosts
  <2>3. PICK hs : hs = [hosts EXCEPT ![h] = u]
    OBVIOUS
  <2>4. Hh!Drain(hs, queue)
    BY <1>6, <2>1, <2>3
  <2>5. r \in Requests /\ hosts[h].active = r
    BY <1>3, <1>4, <1>6
  <2>6. req' \in [Requests -> Answers] /\ req'[r] # "pending"
        /\ \A s \in Requests : s # r => req'[s] = req[s]
    BY <1>6, <2>5, Parts DEF Calls, Answers, Hh!Outcomes
  <2>7. /\ Calls(hs, queue, req') /\ Busy(hs) /\ Placed(hs, queue, req') /\ Kept(req, req')
        /\ \A g \in Slots : hs[g].active \in {hosts[g].active, None}
    <3>1. Changed(hs, hosts, h, u)
      BY <2>2, <2>3, Parts DEF Calls, Changed
    <3> QED BY <3>1, <2>2, <2>5, <2>6, Parts, HostSettles
  <2>8. /\ hosts' \in [Slots -> Hh!Hosts] /\ queue' \in Seq(Requests)
        /\ Busy(hosts') /\ Placed(hosts', queue', req')
        /\ queue = <<>> => queue' = <<>> /\ hosts' = hs
    BY <2>4, <2>7, DrainPlaces
  <2>9. Calls(hosts', queue', req')
    BY <2>6, <2>8 DEF Calls
  <2>10. Closed'
    BY <1>6, <2>8, Parts DEF Closed
  <2>11. fatal /\ fatal' => \A g \in Slots : hosts'[g].active \in {hosts[g].active, None}
    BY <2>7, <2>8, Parts DEF Closed
  <2> QED BY <1>6, <2>7, <2>8, <2>9, <2>10, <2>11, Parts, GoodByParts
<1> QED BY <1>2, <1>5, <1>6 DEF Hh!HandleMessage, r

LEMMA HandleExitGood == ASSUME Hh!HostAssumption, HostInv, NEW h \in Slots, Hh!HandleExit(h) PROVE HostStepGood
<1>1. hosts[h] \in Hh!Hosts
  BY Parts DEF Calls
<1>2. PICK u : u = IF pool = "started" THEN Hh!Booting(FALSE) ELSE Hh!NoHost
  OBVIOUS
<1>3. u \in Hh!Hosts /\ u.active = None
  BY <1>2, BootingTyped
<1>4. PICK hs : hs = [hosts EXCEPT ![h] = u]
  OBVIOUS
<1>5. PICK rs : rs = Hh!SettleActive(hosts[h], req)
  OBVIOUS
<1>6. rs \in [Requests -> Answers]
  BY <1>5, Parts DEF Hh!SettleActive, Calls, Answers, Hh!Outcomes
<1>7. \A s \in Requests : s # hosts[h].active => rs[s] = req[s]
  BY <1>5 DEF Hh!SettleActive
<1>8. hosts[h].active # None => rs[hosts[h].active] # "pending"
  BY <1>1, <1>5 DEF Hh!SettleActive, Hh!Hosts
<1>9. /\ Calls(hs, queue, rs) /\ Busy(hs) /\ Placed(hs, queue, rs) /\ Kept(req, rs)
      /\ \A g \in Slots : hs[g].active \in {hosts[g].active, None}
  <2>1. Changed(hs, hosts, h, u)
    BY <1>3, <1>4, Parts DEF Calls, Changed
  <2>2. Calls(hosts, queue, req) /\ Busy(hosts) /\ Placed(hosts, queue, req)
    BY Parts
  <2> QED BY ONLY <2>1, <2>2, <1>3, <1>6, <1>7, <1>8, HostSettles, Hh!HostAssumption, h \in Slots
<1>10. \/ Hh!StartupFailed(hosts[h].initial, hs, rs)
       \/ hosts' = hs /\ req' = rs /\ UNCHANGED <<pool, launching, fatal, queue>>
  BY <1>2, <1>4, <1>5 DEF Hh!HandleExit
<1>11. CASE Hh!StartupFailed(hosts[h].initial, hs, rs)
  <2>1. /\ Calls(hosts', queue', req') /\ Busy(hosts') /\ Placed(hosts', queue', req')
        /\ Kept(rs, req') /\ Closed'
        /\ pool' \in {"stopped", "started", "stopping"} /\ launching' \in BOOLEAN
        /\ fatal' \in BOOLEAN
        /\ \A g \in Slots : hosts'[g].active = hs[g].active
    BY <1>9, <1>11, Parts, FailurePlaces
  <2>2. Kept(req, req')
    BY <1>9, <2>1 DEF Kept
  <2> QED BY <1>9, <2>1, <2>2, GoodByParts
<1>12. CASE hosts' = hs /\ req' = rs /\ UNCHANGED <<pool, launching, fatal, queue>>
  BY <1>9, <1>12, Parts, GoodByParts DEF Closed
<1> QED BY <1>10, <1>11, <1>12

-----------------------------------------------------------------------------
(* The invariant and what it shows. *)

LEMMA InitInv == ASSUME Hh!HostAssumption, Hh!Init PROVE HostInv
<1>1. queue = <<>> /\ fatal = FALSE /\ req = [r \in Requests |-> "idle"]
      /\ pool = "stopped" /\ launching = FALSE
  BY DEF Hh!Init
<1>2. \A h \in Slots : hosts[h] = Hh!NoHost
  BY DEF Hh!Init
<1>3. hosts \in [Slots -> Hh!Hosts]
  BY BootingTyped DEF Hh!Init
<1>4. Hh!TypeOK
  <2>1. queue \in Seq(Requests)
    BY <1>1
  <2> QED BY <1>1, <1>3, <2>1 DEF Hh!TypeOK
<1>5. Busy(hosts)
  BY <1>2, BootingTyped DEF Busy
<1>6. Placed(hosts, queue, req)
  <2>1. \A h \in Slots : hosts[h].active = None
    BY <1>2, BootingTyped
  <2>2. Len(queue) = 0 /\ \A r \in Requests : req[r] # "pending"
    BY <1>1
  <2> QED BY <2>1, <2>2 DEF Placed
<1> QED BY <1>1, <1>4, <1>5, <1>6 DEF HostInv, Closed

LEMMA NextGood == ASSUME Hh!HostAssumption, HostInv, Hh!Next PROVE HostStepGood
<1>1. CASE Hh!Start \/ Hh!Stop \/ Hh!Stopped
  BY <1>1, StartGood, StopGood, StoppedGood
<1>2. CASE \E r \in Requests : Hh!Refuse(r) \/ Hh!Invoke(r) \/ Hh!CallerReturns(r)
  BY <1>2, RefuseGood, InvokeGood, CallerReturnsGood
<1>3. CASE \E h \in Slots : Hh!Ready(h) \/ Hh!StartupTimeout(h) \/ Hh!HandleTimeout(h) \/ Hh!GraceExpires(h)
  BY <1>3, ReadyGood, StartupTimeoutGood, HandleTimeoutGood, GraceExpiresGood
<1>4. CASE \E h \in Slots : Hh!ChildReply(h) \/ Hh!ChildGarbage(h) \/ Hh!HandleMessage(h) \/ Hh!HandleExit(h)
  BY <1>4, ChildReplyGood, ChildGarbageGood, HandleMessageGood, HandleExitGood
<1> QED BY <1>1, <1>2, <1>3, <1>4 DEF Hh!Next

LEMMA StutterInv == ASSUME HostInv, UNCHANGED Hh!vars PROVE HostInv'
BY DEF Hh!vars, HostInv, Hh!TypeOK, Busy, Placed, Closed

\* The inductive invariant: types, no call at a host that is not ready, every
\* pending call in exactly one place, and an empty queue in a closed pool.
THEOREM HostInvariance == ASSUME Hh!HostAssumption PROVE Hh!Spec => []HostInv
<1>1. Hh!Init => HostInv
  BY InitInv
<1>2. HostInv /\ [Hh!Next]_(Hh!vars) => HostInv'
  BY NextGood, StutterInv DEF HostStepGood
<1> QED BY <1>1, <1>2, PTL DEF Hh!Spec

LEMMA AtMostOne ==
  ASSUME NEW S, \A x, y \in S : x = y
  PROVE  Cardinality(S) = IF S = {} THEN 0 ELSE 1
<1>1. CASE S = {}
  BY <1>1, FS_EmptySet
<1>2. CASE S # {}
  <2>1. PICK x : x \in S
    BY <1>2
  <2>2. S = {x}
    BY <2>1
  <2> QED BY <2>2, FS_Singleton
<1> QED BY <1>1, <1>2

\* A call that has not been answered waits in the queue or at one host, once,
\* and one that has been answered in neither (pool.ts: the promise of an
\* invocation is in the queue or in the active field of one host).
THEOREM PendingIsSomewhereHolds ==
  ASSUME Hh!HostAssumption PROVE Hh!Spec => []Hh!PendingIsSomewhere
<1>1. HostInv => Hh!PendingIsSomewhere
  <2> SUFFICES ASSUME HostInv, NEW r \in Requests
               PROVE  Cardinality({i \in 1..Len(queue) : queue[i] = r})
                        + Cardinality({h \in Slots : hosts[h].active = r})
                      = IF req[r] = "pending" THEN 1 ELSE 0
    BY SameSizes DEF Hh!PendingIsSomewhere
  <2> DEFINE I == {i \in 1..Len(queue) : queue[i] = r}
             H == {h \in Slots : hosts[h].active = r}
  <2>1. r # None
    BY DEF Hh!HostAssumption
  <2>2. (\A i, j \in I : i = j) /\ \A g, h \in H : g = h
    BY <2>1, Parts DEF Placed
  <2>3. (I # {} => H = {} /\ req[r] = "pending") /\ (H # {} => req[r] = "pending")
        /\ (req[r] = "pending" => I # {} \/ H # {})
    BY <2>1, Parts DEF Placed
  <2> HIDE DEF I, H
  <2>4. Cardinality(I) = (IF I = {} THEN 0 ELSE 1) /\ Cardinality(H) = (IF H = {} THEN 0 ELSE 1)
    BY <2>2, AtMostOne
  <2>5. Cardinality(I) + Cardinality(H) = IF req[r] = "pending" THEN 1 ELSE 0
    BY <2>3, <2>4
  <2> QED BY <2>5 DEF I, H
<1> QED BY <1>1, HostInvariance, PTL

\* No answer of a call is replaced by another one, whatever hosts time out,
\* crash or break the protocol meanwhile (resolve and reject of a promise).
THEOREM SettledOnceHolds ==
  ASSUME Hh!HostAssumption PROVE Hh!Spec => [][Hh!SettledOnce]_(Hh!vars)
<1>1. HostInv /\ [Hh!Next]_(Hh!vars) => [Hh!SettledOnce]_(Hh!vars)
  <2> SUFFICES ASSUME HostInv, Hh!Next PROVE Hh!SettledOnce
    OBVIOUS
  <2>1. CASE Kept(req, req')
    BY <2>1 DEF Kept, Hh!SettledOnce
  <2>2. CASE \E r \in Requests : Hh!CallerReturns(r)
    BY <2>2, Parts DEF Hh!CallerReturns, Hh!SettledOnce, Calls
  <2> QED BY <2>1, <2>2, NextGood DEF HostStepGood
<1> QED BY <1>1, HostInvariance, PTL DEF Hh!Spec

\* A pool that failed to replace a host takes and hands out no call until it
\* is stopped and started again (#fatalError, checked by invoke).
THEOREM FailClosedHolds ==
  ASSUME Hh!HostAssumption PROVE Hh!Spec => [][Hh!FailClosed]_(Hh!vars)
<1>1. HostInv /\ [Hh!Next]_(Hh!vars) => [Hh!FailClosed]_(Hh!vars)
  BY NextGood DEF HostStepGood, HostInv, Closed, Hh!FailClosed
<1> QED BY <1>1, HostInvariance, PTL DEF Hh!Spec

-----------------------------------------------------------------------------
(* Uploads, for any group, requests and number of object versions.          *)
(*                                                                          *)
(* A finalize request that has not lost its claim holds the whole group it  *)
(* claimed, so what it registers is the group.  A version is recorded by    *)
(* the request that put it, and only into a session that has none: until    *)
(* then nobody else knows it, and the request deletes it when it is told    *)
(* that it was too late.  Cleanup spares what is or can be registered.      *)

\* The instance counts as the others do.
LEMMA UploadSizes ==
  \A S : (Us!IsFiniteSet(S) <=> IsFiniteSet(S)) /\ Us!Cardinality(S) = Cardinality(S)
<1>1. \A S : Us!IsFiniteSet(S) <=> IsFiniteSet(S)
  BY DEF Us!IsFiniteSet, IsFiniteSet
<1>2. \A S : Us!Cardinality(S) = Cardinality(S)
  BY DEF Us!Cardinality, Cardinality
<1> QED BY <1>1, <1>2

SessionStates == {"none", "created", "uploaded", "finalizing", "finalized", "failed", "cleaned"}
SessionRecord == [state : SessionStates, age : {"fresh", "expired", "cleanable"}, version : Nat,
                  claim : Finalizers \cup {None}, lapsed : BOOLEAN, kept : BOOLEAN]
UploadRecord == [at : {"idle", "sending", "stored", "undo"}, s : Us!Sessions \cup {None}, v : Nat]
FinalizeRecord == [at : {"idle", "claimed", "scanning", "scanned", "done"},
                   rows : SUBSET Us!Sessions, todo : SUBSET Us!Sessions, cur : Us!Sessions \cup {None}]

\* A request is about a session, and what it has put is a version of its key.
UploadSent(q, n) == q.at # "idle" => q.s \in Us!Sessions /\ q.v \in 0..n[q.s]

UploadTypes ==
  /\ session \in [Us!Sessions -> SessionRecord]
  /\ registered \in BOOLEAN
  /\ store \in [Us!Sessions -> SUBSET Us!Versions]
  /\ puts \in [Us!Sessions -> 0..MaxPuts]
  /\ up \in [Uploaders -> UploadRecord]
  /\ fin \in [Finalizers -> FinalizeRecord]
  /\ \A u \in Uploaders : UploadSent(up[u], puts)

\* The claim and the version of a session.
SessionRow(x, n) == x.version \in 0..n /\ (x.claim # None <=> x.state = "finalizing")

\* A finalize request holds nothing before it claims, and after that what is
\* left of the group it claimed.
Claiming(q) == q.at \in {"claimed", "scanning", "scanned"}
ClaimHolds(q, H) ==
  /\ q.at = "idle" => H = {}
  /\ Claiming(q) => Us!Covers(q.rows) /\ H \subseteq q.rows

GroupInv ==
  /\ UploadTypes
  /\ \A s \in Us!Sessions : SessionRow(session[s], puts[s])
  /\ \A f \in Finalizers : ClaimHolds(fin[f], Us!Held(f))
  /\ Us!GroupWhole

LEMMA UploadStart == ASSUME Us!UploadAssumption, Us!Init PROVE GroupInv
<1>1. UploadTypes
  <2>1. Us!NoSession \in SessionRecord
    BY DEF Us!NoSession, SessionRecord, SessionStates
  <2>2. Us!Idle \in UploadRecord
    BY DEF Us!Idle, UploadRecord
  <2>3. [at |-> "idle", rows |-> {}, todo |-> {}, cur |-> None] \in FinalizeRecord
    BY DEF FinalizeRecord
  <2>4. 0 \in 0..MaxPuts
    BY DEF Us!UploadAssumption
  <2>5. \A u \in Uploaders : up[u].at = "idle"
    BY DEF Us!Init, Us!Idle
  <2> QED BY <2>1, <2>2, <2>3, <2>4, <2>5 DEF Us!Init, UploadTypes, UploadSent
<1>2. \A s \in Us!Sessions : SessionRow(session[s], puts[s])
  BY DEF Us!Init, Us!NoSession, SessionRow
<1>3. \A f \in Finalizers : ClaimHolds(fin[f], Us!Held(f))
  <2>1. ASSUME NEW f \in Finalizers PROVE Us!Held(f) = {} /\ fin[f].at = "idle"
    BY DEF Us!Init, Us!NoSession, Us!Held, Us!UploadAssumption
  <2> QED BY <2>1 DEF ClaimHolds, Claiming
<1>4. Us!GroupWhole
  BY DEF Us!Init, Us!NoSession, Us!GroupWhole
<1> QED BY <1>1, <1>2, <1>3, <1>4 DEF GroupInv

\* A step in which nobody gains a session and nothing is finalized.
QuietSession(x, y) ==
  /\ y.claim \in {x.claim, None}
  /\ y.state = "finalized" <=> x.state = "finalized"
QuietRequest(q, r) ==
  r = q \/ r.at = "done" \/ (Claiming(q) /\ Claiming(r) /\ r.rows = q.rows)

LEMMA GroupQuiet ==
  ASSUME Us!UploadAssumption, GroupInv, UploadTypes', registered' = registered,
         \A s \in Us!Sessions : QuietSession(session[s], session'[s]) /\ SessionRow(session'[s], puts'[s]),
         \A f \in Finalizers : QuietRequest(fin[f], fin'[f])
  PROVE  GroupInv'
<1>1. ASSUME NEW f \in Finalizers PROVE ClaimHolds(fin[f], Us!Held(f))'
  <2>1. PICK q, r, H, I : q = fin[f] /\ r = fin'[f] /\ H = Us!Held(f) /\ I = Us!Held(f)'
    OBVIOUS
  <2>2. f # None
    BY DEF Us!UploadAssumption
  <2>3. ASSUME NEW s \in Us!Sessions, session'[s].claim = f PROVE session[s].claim = f
    BY <2>2, <2>3 DEF QuietSession
  <2>4. I \subseteq H
    BY <2>1, <2>3 DEF Us!Held
  <2>5. ClaimHolds(q, H) /\ QuietRequest(q, r)
    BY <2>1 DEF GroupInv
  <2>6. ClaimHolds(r, I)
    BY ONLY <2>4, <2>5 DEF ClaimHolds, QuietRequest, Claiming
  <2> QED BY <2>1, <2>6
<1>2. {s \in Us!Sessions : session'[s].state = "finalized"} =
        {s \in Us!Sessions : session[s].state = "finalized"}
  BY DEF QuietSession
<1>3. Us!GroupWhole'
  BY <1>2 DEF GroupInv, Us!GroupWhole
<1> QED BY <1>1, <1>3 DEF GroupInv

\* The sessions one request holds are given back, or failed.
LEMMA SessionSetTyped ==
  ASSUME Us!UploadAssumption, GroupInv, NEW S \in SUBSET Us!Sessions, NEW state \in SessionStates,
         NEW s \in Us!Sessions
  PROVE  /\ Us!Set(S, state)[s] \in SessionRecord
         /\ s \in S => Us!Set(S, state)[s].state = state /\ Us!Set(S, state)[s].claim = None
         /\ s \notin S => Us!Set(S, state)[s] = session[s]
         /\ Us!Set(S, state)[s].version = session[s].version /\ Us!Set(S, state)[s].age = session[s].age
<1>1. PICK x \in SessionRecord : x = session[s]
  BY DEF GroupInv, UploadTypes
<1>2. CASE s \in S
  <2>1. Us!Set(S, state)[s] = [x EXCEPT !.state = state, !.claim = None, !.lapsed = FALSE]
    BY <1>1, <1>2 DEF Us!Set
  <2> QED BY <1>1, <1>2, <2>1 DEF SessionRecord
<1>3. CASE s \notin S
  <2>1. Us!Set(S, state)[s] = x
    BY <1>1, <1>3 DEF Us!Set
  <2> QED BY <1>1, <1>3, <2>1
<1> QED BY <1>2, <1>3

LEMMA GiveBackQuiet ==
  ASSUME Us!UploadAssumption, GroupInv, NEW f \in Finalizers, UNCHANGED <<store, puts, up, registered>>,
         session' = Us!Set(Us!Held(f), "uploaded"), Us!Done(f)
  PROVE  GroupInv'
<1>1. session' = [s \in Us!Sessions |-> session'[s]]
  BY DEF Us!Set
<1>2. ASSUME NEW s \in Us!Sessions
      PROVE  /\ session'[s] \in SessionRecord
             /\ QuietSession(session[s], session'[s]) /\ SessionRow(session'[s], puts'[s])
  <2>1. Us!Held(f) \in SUBSET Us!Sessions /\ "uploaded" \in SessionStates
    BY DEF Us!Held, SessionStates
  <2>2. /\ session'[s] \in SessionRecord /\ session'[s].version = session[s].version
        /\ s \in Us!Held(f) => session'[s].state = "uploaded" /\ session'[s].claim = None
        /\ s \notin Us!Held(f) => session'[s] = session[s]
    BY <2>1, SessionSetTyped
  <2>3. s \in Us!Held(f) => session[s].claim = f /\ f # None
    BY DEF Us!Held, Us!UploadAssumption
  <2>4. SessionRow(session[s], puts[s]) /\ puts' = puts
    BY DEF GroupInv
  <2> QED BY <2>2, <2>3, <2>4 DEF QuietSession, SessionRow
<1>3. \A g \in Finalizers : QuietRequest(fin[g], fin'[g]) /\ fin'[g] \in FinalizeRecord
  <2>1. [at |-> "done", rows |-> {}, todo |-> {}, cur |-> None] \in FinalizeRecord
    BY DEF FinalizeRecord
  <2> QED BY <2>1 DEF Us!Done, GroupInv, UploadTypes, QuietRequest
<1>4. UploadTypes'
  <2>1. session' \in [Us!Sessions -> SessionRecord]
    BY <1>1, <1>2
  <2>2. fin' \in [Finalizers -> FinalizeRecord]
    BY <1>3 DEF Us!Done, GroupInv, UploadTypes
  <2> QED BY <2>1, <2>2 DEF GroupInv, UploadTypes
<1> QED BY <1>2, <1>3, <1>4, GroupQuiet

\* Steps that rewrite one session and leave its claim alone.
LEMMA OneSessionQuiet ==
  ASSUME Us!UploadAssumption, GroupInv, NEW s \in Us!Sessions, NEW y \in SessionRecord,
         session' = [session EXCEPT ![s] = y], y.claim = session[s].claim,
         (y.state = "finalized") <=> (session[s].state = "finalized"), SessionRow(y, puts[s]),
         UNCHANGED <<registered, store, puts, fin>>,
         up' \in [Uploaders -> UploadRecord], \A u \in Uploaders : UploadSent(up'[u], puts')
  PROVE  GroupInv'
<1>1. UploadTypes'
  BY DEF GroupInv, UploadTypes
<1>2. ASSUME NEW r \in Us!Sessions
      PROVE  QuietSession(session[r], session'[r]) /\ SessionRow(session'[r], puts'[r])
  <2>1. CASE r = s
    <3>1. session'[r] = y
      BY <2>1 DEF GroupInv, UploadTypes
    <3> QED BY <2>1, <3>1 DEF QuietSession
  <2>2. CASE r # s
    <3>1. session'[r] = session[r]
      BY <2>2 DEF GroupInv, UploadTypes
    <3> QED BY <3>1 DEF QuietSession, GroupInv
  <2> QED BY <2>1, <2>2
<1>3. \A f \in Finalizers : QuietRequest(fin[f], fin'[f])
  BY DEF QuietRequest
<1> QED BY <1>1, <1>2, <1>3, GroupQuiet

LEMMA SessionSteps ==
  ASSUME Us!UploadAssumption, GroupInv, NEW s \in Us!Sessions, Us!Create(s) \/ Us!GrowOlder(s)
  PROVE  GroupInv'
<1>1. PICK x \in SessionRecord : x = session[s] /\ SessionRow(x, puts[s])
  BY DEF GroupInv, UploadTypes
<1>2. CASE Us!Create(s)
  <2>1. PICK y : y = [x EXCEPT !.state = "created"]
    OBVIOUS
  <2>2. y \in SessionRecord /\ y.claim = x.claim /\ y.state = "created" /\ y.version = x.version
    BY <2>1 DEF SessionRecord, SessionStates
  <2>3. x.state = "none"
    BY <1>1, <1>2 DEF Us!Create
  <2>4. SessionRow(y, puts[s])
    BY <1>1, <2>2, <2>3 DEF SessionRow
  <2>5. session' = [session EXCEPT ![s] = y] /\ UNCHANGED <<registered, store, puts, up, fin>>
    BY <1>1, <1>2, <2>1 DEF Us!Create, GroupInv, UploadTypes
  <2> QED BY <1>1, <2>2, <2>3, <2>4, <2>5, OneSessionQuiet DEF GroupInv, UploadTypes
<1>3. CASE Us!GrowOlder(s)
  <2>1. PICK y : y = [x EXCEPT !.age = IF x.age = "fresh" THEN "expired" ELSE "cleanable"]
    OBVIOUS
  <2>2. y \in SessionRecord /\ y.claim = x.claim /\ y.state = x.state /\ y.version = x.version
    BY <2>1 DEF SessionRecord
  <2>3. SessionRow(y, puts[s])
    BY <1>1, <2>2 DEF SessionRow
  <2>4. session' = [session EXCEPT ![s] = y] /\ UNCHANGED <<registered, store, puts, up, fin>>
    BY <1>1, <1>3, <2>1 DEF Us!GrowOlder, GroupInv, UploadTypes
  <2> QED BY <1>1, <2>2, <2>3, <2>4, OneSessionQuiet DEF GroupInv, UploadTypes
<1> QED BY <1>2, <1>3

\* Steps that leave the sessions and the finalize requests alone.
LEMMA ElsewhereQuiet ==
  ASSUME Us!UploadAssumption, GroupInv, UNCHANGED <<session, registered, fin>>,
         store' \in [Us!Sessions -> SUBSET Us!Versions], puts' \in [Us!Sessions -> 0..MaxPuts],
         \A s \in Us!Sessions : puts[s] <= puts'[s],
         up' \in [Uploaders -> UploadRecord], \A u \in Uploaders : UploadSent(up'[u], puts')
  PROVE  GroupInv'
<1>1. UploadTypes'
  BY DEF GroupInv, UploadTypes
<1>2. ASSUME NEW r \in Us!Sessions
      PROVE  QuietSession(session[r], session'[r]) /\ SessionRow(session'[r], puts'[r])
  <2>1. puts[r] \in Nat /\ puts'[r] \in Nat /\ puts[r] <= puts'[r]
    BY DEF GroupInv, UploadTypes, Us!UploadAssumption
  <2> QED BY <2>1 DEF QuietSession, GroupInv, SessionRow
<1>3. \A f \in Finalizers : QuietRequest(fin[f], fin'[f])
  BY DEF QuietRequest
<1> QED BY <1>1, <1>2, <1>3, GroupQuiet

LEMMA UploadSteps ==
  ASSUME Us!UploadAssumption, GroupInv, NEW u \in Uploaders,
         \/ Us!PutVersion(u) \/ Us!Undo(u) \/ Us!UploadDies(u)
         \/ \E s \in Us!Sessions : Us!StartUpload(u, s)
  PROVE  GroupInv'
<1>1. PICK x \in UploadRecord : x = up[u] /\ (x.at # "idle" => x.s \in Us!Sessions)
  BY DEF GroupInv, UploadTypes, UploadSent
<1>2. Us!Idle \in UploadRecord /\ Us!Idle.at = "idle"
  BY DEF Us!Idle, UploadRecord
<1>3. UNCHANGED <<session, registered, fin>>
  BY DEF Us!PutVersion, Us!Undo, Us!UploadDies, Us!StartUpload
<1>4. CASE Us!PutVersion(u)
  <2>1. PICK s \in Us!Sessions, n \in 0..MaxPuts : s = x.s /\ n = puts[s]
    BY <1>1, <1>4 DEF Us!PutVersion, GroupInv, UploadTypes
  <2>2. n < MaxPuts /\ n + 1 \in 0..MaxPuts /\ n + 1 \in Us!Versions /\ n <= n + 1
    BY <1>1, <1>4, <2>1 DEF Us!PutVersion, Us!Versions, Us!UploadAssumption
  <2>3. puts' = [puts EXCEPT ![s] = n + 1] /\ store' = [store EXCEPT ![s] = store[s] \cup {n + 1}]
    BY <1>1, <1>4, <2>1 DEF Us!PutVersion, GroupInv, UploadTypes
  <2>4. PICK y : y = [x EXCEPT !.at = "stored", !.v = n + 1]
    OBVIOUS
  <2>5. y \in UploadRecord /\ y.s = s
    BY <2>1, <2>4, n + 1 \in Nat DEF UploadRecord
  <2>6. up' = [up EXCEPT ![u] = y]
    BY <1>1, <1>4, <2>1, <2>4 DEF Us!PutVersion, GroupInv, UploadTypes
  <2>7. \A r \in Us!Sessions : puts[r] <= puts'[r]
    BY <2>1, <2>2, <2>3 DEF GroupInv, UploadTypes, Us!UploadAssumption
  <2>8. \A w \in Uploaders : UploadSent(up'[w], puts')
    <3>1. ASSUME NEW w \in Uploaders, up'[w].at # "idle"
          PROVE  up'[w].s \in Us!Sessions /\ up'[w].v \in 0..puts'[up'[w].s]
      <4>1. CASE w = u
        <5>1. up'[w] = y /\ y.s = s /\ y.v = n + 1 /\ puts'[s] = n + 1
          BY <2>1, <2>3, <2>4, <2>5, <2>6, <4>1 DEF GroupInv, UploadTypes, UploadRecord
        <5> QED BY <2>1, <5>1
      <4>2. CASE w # u
        <5>1. up'[w] = up[w] /\ UploadSent(up[w], puts)
          BY <2>6, <4>2 DEF GroupInv, UploadTypes
        <5>2. PICK r \in Us!Sessions, v \in Nat : r = up[w].s /\ v = up[w].v /\ v \in 0..puts[r]
          BY <3>1, <5>1 DEF UploadSent, GroupInv, UploadTypes, UploadRecord
        <5>3. puts[r] <= puts'[r] /\ puts[r] \in Int /\ puts'[r] \in Int
          BY <2>1, <2>2, <2>3, <2>7 DEF GroupInv, UploadTypes
        <5>4. v \in 0..puts'[r]
          BY <5>2, <5>3
        <5> QED BY <5>1, <5>2, <5>4
      <4> QED BY <4>1, <4>2
    <3> QED BY <3>1 DEF UploadSent
  <2>9. up' \in [Uploaders -> UploadRecord]
    BY <2>5, <2>6 DEF GroupInv, UploadTypes
  <2>10. store' \in [Us!Sessions -> SUBSET Us!Versions] /\ puts' \in [Us!Sessions -> 0..MaxPuts]
    BY <2>2, <2>3 DEF GroupInv, UploadTypes
  <2> QED BY <1>3, <2>7, <2>8, <2>9, <2>10, ElsewhereQuiet
<1>5. CASE Us!Undo(u)
  <2>1. store' \in [Us!Sessions -> SUBSET Us!Versions]
    BY <1>1, <1>5 DEF Us!Undo, GroupInv, UploadTypes
  <2>2. up' = [up EXCEPT ![u] = Us!Idle] /\ puts' = puts
    BY <1>5 DEF Us!Undo
  <2>3. \A r \in Us!Sessions : puts[r] <= puts'[r]
    BY <2>2 DEF GroupInv, UploadTypes, Us!UploadAssumption
  <2> QED BY <1>2, <1>3, <2>1, <2>2, <2>3, ElsewhereQuiet DEF GroupInv, UploadTypes, UploadSent
<1>6. CASE Us!UploadDies(u)
  <2>1. up' = [up EXCEPT ![u] = Us!Idle] /\ UNCHANGED <<puts, store>>
    BY <1>6 DEF Us!UploadDies
  <2>2. \A r \in Us!Sessions : puts[r] <= puts'[r]
    BY <2>1 DEF GroupInv, UploadTypes, Us!UploadAssumption
  <2> QED BY <1>2, <1>3, <2>1, <2>2, ElsewhereQuiet DEF GroupInv, UploadTypes, UploadSent
<1>7. ASSUME NEW s \in Us!Sessions, Us!StartUpload(u, s) PROVE GroupInv'
  <2>1. PICK y \in UploadRecord : y = [at |-> "sending", s |-> s, v |-> 0]
    BY DEF UploadRecord
  <2>2. up' = [up EXCEPT ![u] = y] /\ UNCHANGED <<puts, store>> /\ y.s = s /\ y.v = 0
    BY <1>7, <2>1 DEF Us!StartUpload
  <2>3. \A r \in Us!Sessions : puts[r] <= puts'[r]
    BY <2>2 DEF GroupInv, UploadTypes, Us!UploadAssumption
  <2>4. 0 \in 0..puts[s]
    BY DEF GroupInv, UploadTypes, Us!UploadAssumption
  <2>5. \A w \in Uploaders : UploadSent(up'[w], puts')
    BY <2>2, <2>4 DEF GroupInv, UploadTypes, UploadSent
  <2> QED BY <1>3, <2>2, <2>3, <2>5, ElsewhereQuiet DEF GroupInv, UploadTypes
<1> QED BY <1>4, <1>5, <1>6, <1>7

LEMMA CleanSteps ==
  ASSUME Us!UploadAssumption, GroupInv, clean.s \in Us!Sessions,
         clean.seen \in {"created", "uploaded", "failed", "finalized"}, Us!CleanStep
  PROVE  GroupInv'
<1>1. CASE Us!DeleteVersions
  <2>1. /\ store' = [store EXCEPT ![clean.s] = store[clean.s] \ clean.doomed]
        /\ UNCHANGED <<session, registered, puts, up, fin>>
    BY <1>1 DEF Us!DeleteVersions
  <2>2. \A r \in Us!Sessions : puts[r] <= puts'[r]
    BY <2>1 DEF GroupInv, UploadTypes, Us!UploadAssumption
  <2> QED BY <2>1, <2>2, ElsewhereQuiet DEF GroupInv, UploadTypes
<1>2. CASE Us!MarkClean
  <2>1. PICK s \in Us!Sessions, x \in SessionRecord :
          s = clean.s /\ x = session[s] /\ SessionRow(x, puts[s])
    BY DEF GroupInv, UploadTypes
  <2>2. CASE x.state = clean.seen
    <3>1. PICK y : y = IF clean.seen = "finalized" THEN [x EXCEPT !.kept = TRUE]
                       ELSE [x EXCEPT !.state = "cleaned"]
      OBVIOUS
    <3>2. /\ y \in SessionRecord /\ y.claim = x.claim /\ y.version = x.version
          /\ y.state = "finalized" <=> x.state = "finalized"
          /\ y.state # "finalizing"
      BY <2>1, <2>2, <3>1 DEF SessionRecord, SessionStates
    <3>3. SessionRow(y, puts[s])
      BY <2>1, <2>2, <3>2 DEF SessionRow
    <3>4. session' = [session EXCEPT ![s] = y]
      BY <1>2, <2>1, <2>2, <3>1 DEF Us!MarkClean, GroupInv, UploadTypes
    <3>5. UNCHANGED <<registered, store, puts, up, fin>>
      BY <1>2 DEF Us!MarkClean
    <3> QED BY <2>1, <3>2, <3>3, <3>4, <3>5, OneSessionQuiet DEF GroupInv, UploadTypes
  <2>3. CASE x.state # clean.seen
    <3>1. UNCHANGED <<session, registered, store, puts, up, fin>>
      BY <1>2, <2>1, <2>3 DEF Us!MarkClean
    <3>2. \A r \in Us!Sessions : puts[r] <= puts'[r]
      BY <3>1 DEF GroupInv, UploadTypes, Us!UploadAssumption
    <3> QED BY <3>1, <3>2, ElsewhereQuiet DEF GroupInv, UploadTypes
  <2> QED BY <2>2, <2>3
<1> QED BY <1>1, <1>2 DEF Us!CleanStep

LEMMA RecordStep ==
  ASSUME Us!UploadAssumption, GroupInv, NEW u \in Uploaders, Us!Record(u)
  PROVE  GroupInv'
<1>1. PICK q \in UploadRecord : q = up[u] /\ q.at = "stored" /\ q.s \in Us!Sessions /\ q.v \in 0..puts[q.s]
  BY DEF GroupInv, UploadTypes, Us!Record, UploadSent
<1>2. PICK s \in Us!Sessions, x \in SessionRecord : s = q.s /\ x = session[s] /\ SessionRow(x, puts[s])
  BY <1>1 DEF GroupInv, UploadTypes
<1>3. PICK z \in UploadRecord : z = [q EXCEPT !.at = "undo"] /\ z.s = s /\ z.v = q.v
  <2>1. PICK z : z = [q EXCEPT !.at = "undo"]
    OBVIOUS
  <2>2. z \in UploadRecord /\ z.s = q.s /\ z.v = q.v
    BY <2>1 DEF UploadRecord
  <2> QED BY <1>2, <2>1, <2>2
<1>4. up' \in {[up EXCEPT ![u] = Us!Idle], [up EXCEPT ![u] = z]}
  BY <1>1, <1>2, <1>3 DEF Us!Record, GroupInv, UploadTypes
<1>5. Us!Idle \in UploadRecord /\ Us!Idle.at = "idle"
  BY DEF Us!Idle, UploadRecord
<1>6. up' \in [Uploaders -> UploadRecord] /\ \A w \in Uploaders : UploadSent(up'[w], puts')
  <2>1. puts' = puts
    BY DEF Us!Record
  <2>2. UploadSent(z, puts) /\ UploadSent(Us!Idle, puts)
    BY <1>1, <1>2, <1>3, <1>5 DEF UploadSent
  <2> QED BY <1>3, <1>4, <1>5, <2>1, <2>2 DEF GroupInv, UploadTypes
<1>7. UNCHANGED <<registered, store, puts, fin>>
  BY DEF Us!Record
<1>8. CASE ~Us!Recordable(s)
  <2>1. session' = session
    BY <1>1, <1>2, <1>8 DEF Us!Record
  <2>2. \A r \in Us!Sessions : puts[r] <= puts'[r]
    BY <1>7 DEF GroupInv, UploadTypes, Us!UploadAssumption
  <2> QED BY <1>6, <1>7, <2>1, <2>2, ElsewhereQuiet DEF GroupInv, UploadTypes
<1>9. CASE Us!Recordable(s)
  <2>1. PICK y : y = [x EXCEPT !.state = "uploaded", !.version = q.v]
    OBVIOUS
  <2>2. /\ y \in SessionRecord /\ y.claim = x.claim /\ y.state = "uploaded" /\ y.version = q.v
    BY <1>1, <2>1 DEF SessionRecord, SessionStates, UploadRecord
  <2>3. x.state = "created"
    BY <1>2, <1>9 DEF Us!Recordable
  <2>4. SessionRow(y, puts[s])
    BY <1>1, <1>2, <2>2, <2>3 DEF SessionRow
  <2>5. session' = [session EXCEPT ![s] = y]
    BY <1>1, <1>2, <1>9, <2>1 DEF Us!Record, GroupInv, UploadTypes
  <2> QED BY <1>2, <1>6, <1>7, <2>2, <2>3, <2>4, <2>5, OneSessionQuiet
<1> QED BY <1>8, <1>9

\* What a finalize request may become while it does not register.
LEMMA RequestQuiet ==
  ASSUME Us!UploadAssumption, GroupInv, NEW f \in Finalizers, NEW q \in FinalizeRecord,
         QuietRequest(fin[f], q), fin' = [fin EXCEPT ![f] = q],
         UNCHANGED <<registered, store, puts, up>>, session' \in [Us!Sessions -> SessionRecord],
         \A s \in Us!Sessions : QuietSession(session[s], session'[s]) /\ SessionRow(session'[s], puts'[s])
  PROVE  GroupInv'
<1>1. UploadTypes'
  BY DEF GroupInv, UploadTypes
<1>2. \A g \in Finalizers : QuietRequest(fin[g], fin'[g])
  BY DEF GroupInv, UploadTypes, QuietRequest
<1> QED BY <1>1, <1>2, GroupQuiet

LEMMA SameSessionsQuiet ==
  ASSUME GroupInv, UNCHANGED <<session, puts>>
  PROVE  /\ session' \in [Us!Sessions -> SessionRecord]
         /\ \A s \in Us!Sessions :
              QuietSession(session[s], session'[s]) /\ SessionRow(session'[s], puts'[s])
BY DEF GroupInv, UploadTypes, QuietSession

LEMMA LapseStep ==
  ASSUME Us!UploadAssumption, GroupInv, NEW f \in Finalizers, Us!Lapse(f)
  PROVE  GroupInv'
<1>1. ASSUME NEW s \in Us!Sessions
      PROVE  /\ session'[s] \in SessionRecord
             /\ QuietSession(session[s], session'[s]) /\ SessionRow(session'[s], puts'[s])
  <2>1. PICK x \in SessionRecord : x = session[s] /\ SessionRow(x, puts[s])
    BY DEF GroupInv, UploadTypes
  <2>2. PICK y : y = IF x.claim = f THEN [x EXCEPT !.lapsed = TRUE] ELSE x
    OBVIOUS
  <2>3. session'[s] = y
    BY <2>1, <2>2 DEF Us!Lapse
  <2>4. y \in SessionRecord /\ y.claim = x.claim /\ y.state = x.state /\ y.version = x.version
    BY <2>2 DEF SessionRecord
  <2>5. puts' = puts
    BY DEF Us!Lapse
  <2> QED BY <2>1, <2>3, <2>4, <2>5 DEF QuietSession, SessionRow
<1>2. session' \in [Us!Sessions -> SessionRecord]
  BY <1>1 DEF Us!Lapse
<1>3. UNCHANGED <<registered, store, puts, up, fin>>
  BY DEF Us!Lapse
<1>4. UploadTypes'
  BY <1>2, <1>3 DEF GroupInv, UploadTypes
<1>5. \A g \in Finalizers : QuietRequest(fin[g], fin'[g])
  BY <1>3 DEF QuietRequest
<1> QED BY <1>1, <1>3, <1>4, <1>5, GroupQuiet

LEMMA ScanSteps ==
  ASSUME Us!UploadAssumption, GroupInv, NEW f \in Finalizers,
         \/ Us!ScanEnd(f) \/ Us!FinalizeDies(f) \/ \E s \in Us!Sessions : Us!ScanStart(f, s)
         \/ \E S \in SUBSET Us!Sessions : Us!AlreadyFinalized(f, S)
  PROVE  GroupInv'
<1>1. PICK q \in FinalizeRecord : q = fin[f]
  BY DEF GroupInv, UploadTypes
<1>2. UNCHANGED <<session, registered, store, puts, up>>
  BY DEF Us!ScanEnd, Us!FinalizeDies, Us!ScanStart, Us!AlreadyFinalized
<1>3. ASSUME Us!Done(f) PROVE GroupInv'
  <2>1. PICK r \in FinalizeRecord : r = [at |-> "done", rows |-> {}, todo |-> {}, cur |-> None]
    BY DEF FinalizeRecord
  <2>2. fin' = [fin EXCEPT ![f] = r] /\ QuietRequest(fin[f], r)
    BY <1>3, <2>1 DEF Us!Done, QuietRequest
  <2> QED BY <1>2, <2>2, SameSessionsQuiet, RequestQuiet
<1>4. CASE Us!ScanEnd(f)
  <2>1. PICK r : r = [q EXCEPT !.at = IF q.todo = {} THEN "scanned" ELSE "claimed", !.cur = None]
    OBVIOUS
  <2>2. r \in FinalizeRecord /\ r.rows = q.rows /\ r.at \in {"scanned", "claimed"}
    BY <2>1 DEF FinalizeRecord
  <2>3. q.at = "scanning" /\ fin' = [fin EXCEPT ![f] = r]
    BY <1>1, <1>4, <2>1 DEF Us!ScanEnd, GroupInv, UploadTypes
  <2>4. QuietRequest(fin[f], r)
    BY <1>1, <2>2, <2>3 DEF QuietRequest, Claiming
  <2> QED BY <1>2, <2>2, <2>3, <2>4, SameSessionsQuiet, RequestQuiet
<1>5. ASSUME NEW s \in Us!Sessions, Us!ScanStart(f, s) PROVE GroupInv'
  <2>1. PICK r : r = [q EXCEPT !.at = "scanning", !.todo = q.todo \ {s}, !.cur = s]
    OBVIOUS
  <2>2. r \in FinalizeRecord /\ r.rows = q.rows /\ r.at = "scanning"
    BY <2>1 DEF FinalizeRecord
  <2>3. q.at = "claimed" /\ fin' = [fin EXCEPT ![f] = r]
    BY <1>1, <1>5, <2>1 DEF Us!ScanStart, GroupInv, UploadTypes
  <2>4. QuietRequest(fin[f], r)
    BY <1>1, <2>2, <2>3 DEF QuietRequest, Claiming
  <2> QED BY <1>2, <2>2, <2>3, <2>4, SameSessionsQuiet, RequestQuiet
<1> QED BY <1>3, <1>4, <1>5 DEF Us!FinalizeDies, Us!AlreadyFinalized

LEMMA FailSteps ==
  ASSUME Us!UploadAssumption, GroupInv, NEW f \in Finalizers,
         Us!RetryableFailure(f) \/ \E s \in Us!Sessions : Us!ContentFailure(f, s)
  PROVE  GroupInv'
<1>1. CASE Us!RetryableFailure(f)
  BY <1>1, GiveBackQuiet DEF Us!RetryableFailure, Us!GiveBack
<1>2. ASSUME NEW s \in Us!Sessions, Us!ContentFailure(f, s) PROVE GroupInv'
  <2>1. PICK r \in FinalizeRecord : r = [at |-> "done", rows |-> {}, todo |-> {}, cur |-> None]
    BY DEF FinalizeRecord
  <2>2. /\ fin' = [fin EXCEPT ![f] = r] /\ QuietRequest(fin[f], r)
        /\ UNCHANGED <<registered, store, puts, up>>
    BY <1>2, <2>1 DEF Us!ContentFailure, Us!Done, QuietRequest
  <2>3. CASE session[s].claim # f
    <3>1. session' = session
      BY <1>2, <2>3 DEF Us!ContentFailure
    <3> QED BY <2>2, <3>1, SameSessionsQuiet, RequestQuiet
  <2>4. CASE session[s].claim = f
    <3>1. session' = [r0 \in Us!Sessions |-> IF r0 = s THEN Us!Set({s}, "failed")[s]
                                          ELSE Us!Set(Us!Held(f), "uploaded")[r0]]
      BY <1>2, <2>4 DEF Us!ContentFailure
    <3>2. ASSUME NEW t \in Us!Sessions
          PROVE  /\ session'[t] \in SessionRecord
                 /\ QuietSession(session[t], session'[t]) /\ SessionRow(session'[t], puts'[t])
      <4>1. Us!Held(f) \in SUBSET Us!Sessions /\ "uploaded" \in SessionStates /\ "failed" \in SessionStates
        BY DEF Us!Held, SessionStates
      <4>2. SessionRow(session[t], puts[t]) /\ puts' = puts /\ f # None
        BY <2>2 DEF GroupInv, Us!UploadAssumption
      <4>3. CASE t = s
        <5>1. session'[t] = Us!Set({s}, "failed")[s]
          BY <3>1, <4>3
        <5>2. /\ session'[t] \in SessionRecord /\ session'[t].version = session[t].version
              /\ session'[t].state = "failed" /\ session'[t].claim = None
          BY <4>1, <4>3, <5>1, SessionSetTyped
        <5> QED BY <2>4, <4>2, <4>3, <5>2 DEF QuietSession, SessionRow
      <4>4. CASE t # s
        <5>1. session'[t] = Us!Set(Us!Held(f), "uploaded")[t]
          BY <3>1, <4>4
        <5>2. /\ session'[t] \in SessionRecord /\ session'[t].version = session[t].version
              /\ t \in Us!Held(f) => session'[t].state = "uploaded" /\ session'[t].claim = None
              /\ t \notin Us!Held(f) => session'[t] = session[t]
          BY <4>1, <5>1, SessionSetTyped
        <5>3. t \in Us!Held(f) => session[t].claim = f
          BY DEF Us!Held
        <5> QED BY <4>2, <5>2, <5>3 DEF QuietSession, SessionRow
      <4> QED BY <4>3, <4>4
    <3>3. session' \in [Us!Sessions -> SessionRecord]
      BY <3>1, <3>2
    <3> QED BY <2>2, <3>2, <3>3, RequestQuiet
  <2> QED BY <2>3, <2>4
<1> QED BY <1>1, <1>2

LEMMA SessionClaimStep ==
  ASSUME Us!UploadAssumption, GroupInv, NEW f \in Finalizers, NEW S \in SUBSET Us!Sessions,
         Us!Claim(f, S)
  PROVE  GroupInv'
<1>1. PICK r \in FinalizeRecord : r = [at |-> "claimed", rows |-> S, todo |-> S, cur |-> None]
  BY DEF FinalizeRecord
<1>2. fin' = [fin EXCEPT ![f] = r] /\ UNCHANGED <<registered, store, puts, up>> /\ fin[f].at = "idle"
  BY <1>1 DEF Us!Claim
<1>3. ASSUME NEW s \in Us!Sessions
      PROVE  /\ session'[s] \in SessionRecord /\ SessionRow(session'[s], puts'[s])
             /\ s \in S => session'[s].claim = f /\ session[s].state # "finalized"
                           /\ session'[s].state = "finalizing"
             /\ s \notin S => session'[s] = session[s]
  <2>1. PICK x \in SessionRecord : x = session[s] /\ SessionRow(x, puts[s])
    BY DEF GroupInv, UploadTypes
  <2>2. CASE s \in S
    <3>1. PICK y : y = [x EXCEPT !.state = "finalizing", !.claim = f, !.lapsed = FALSE]
      OBVIOUS
    <3>2. session'[s] = y
      BY <2>1, <2>2, <3>1 DEF Us!Claim
    <3>3. y \in SessionRecord /\ y.claim = f /\ y.state = "finalizing" /\ y.version = x.version
      BY <3>1 DEF SessionRecord, SessionStates
    <3>4. f # None /\ puts' = puts
      BY <1>2 DEF Us!UploadAssumption
    <3>5. x.state # "finalized"
      BY <2>1, <2>2 DEF Us!Claim, Us!Claimable
    <3> QED BY <2>1, <2>2, <3>2, <3>3, <3>4, <3>5 DEF SessionRow
  <2>3. CASE s \notin S
    <3>1. session'[s] = x
      BY <2>1, <2>3 DEF Us!Claim
    <3> QED BY <1>2, <2>1, <2>3, <3>1
  <2> QED BY <2>2, <2>3
<1>4. UploadTypes'
  <2>1. session' \in [Us!Sessions -> SessionRecord]
    BY <1>3 DEF Us!Claim
  <2> QED BY <1>2, <2>1 DEF GroupInv, UploadTypes
<1>5. ASSUME NEW g \in Finalizers PROVE ClaimHolds(fin[g], Us!Held(g))'
  <2>1. PICK q, z, H, I : q = fin[g] /\ z = fin'[g] /\ H = Us!Held(g) /\ I = Us!Held(g)'
    OBVIOUS
  <2>2. ClaimHolds(q, H)
    BY <2>1 DEF GroupInv
  <2>3. CASE g = f
    <3>1. H = {} /\ z = r
      BY <1>2, <2>1, <2>2, <2>3 DEF ClaimHolds, GroupInv, UploadTypes
    <3>2. I \subseteq S
      BY <1>3, <2>1, <2>3, <3>1 DEF Us!Held
    <3>3. Us!Covers(S)
      BY DEF Us!Claim
    <3>4. ClaimHolds(z, I)
      BY <1>1, <3>1, <3>2, <3>3 DEF ClaimHolds, Claiming
    <3> QED BY <2>1, <3>4
  <2>4. CASE g # f
    <3>1. z = q
      BY <1>2, <2>1, <2>4 DEF GroupInv, UploadTypes
    <3>2. I \subseteq H
      BY <1>3, <2>1, <2>4 DEF Us!Held
    <3>3. ClaimHolds(z, I)
      BY <2>2, <3>1, <3>2 DEF ClaimHolds, Claiming
    <3> QED BY <2>1, <3>3
  <2> QED BY <2>3, <2>4
<1>6. {s \in Us!Sessions : session'[s].state = "finalized"} =
        {s \in Us!Sessions : session[s].state = "finalized"}
  BY <1>3
<1>7. Us!GroupWhole'
  BY <1>2, <1>6 DEF GroupInv, Us!GroupWhole
<1> QED BY <1>3, <1>4, <1>5, <1>7 DEF GroupInv

LEMMA CompleteStep ==
  ASSUME Us!UploadAssumption, GroupInv, NEW f \in Finalizers, Us!Complete(f)
  PROVE  GroupInv'
<1>1. CASE ~(Us!Rows(f) /\ ~registered)
  BY <1>1, GiveBackQuiet DEF Us!Complete, Us!GiveBack
<1>2. CASE Us!Rows(f) /\ ~registered
  <2>1. /\ session' = Us!Set(Us!Held(f), "finalized") /\ registered' = TRUE /\ Us!Done(f)
        /\ UNCHANGED <<store, puts, up>> /\ fin[f].at = "scanned"
    BY <1>2 DEF Us!Complete
  <2>2. PICK r \in FinalizeRecord : r = [at |-> "done", rows |-> {}, todo |-> {}, cur |-> None]
    BY DEF FinalizeRecord
  <2>3. fin' = [fin EXCEPT ![f] = r]
    BY <2>1, <2>2 DEF Us!Done
  <2>4. Us!Held(f) = fin[f].rows /\ Us!Covers(fin[f].rows)
    <3>1. PICK q \in FinalizeRecord : q = fin[f] /\ ClaimHolds(q, Us!Held(f)) /\ q.at = "scanned"
      BY <2>1 DEF GroupInv, UploadTypes
    <3>2. Us!Covers(q.rows) /\ Us!Held(f) \subseteq q.rows
      BY <3>1 DEF ClaimHolds, Claiming
    <3>3. IsFiniteSet(Us!Sessions)
      <4>1. IsFiniteSet(Members) /\ IsFiniteSet(Doubled)
        BY FS_Subset, UploadSizes DEF Us!UploadAssumption
      <4>2. IsFiniteSet({1}) /\ IsFiniteSet({2})
        BY FS_Singleton
      <4>3. IsFiniteSet(Members \X {1}) /\ IsFiniteSet(Doubled \X {2})
        BY <4>1, <4>2, FS_Product
      <4> QED BY <4>3, FS_Union DEF Us!Sessions
    <3>4. IsFiniteSet(q.rows)
      BY <3>3, FS_Subset DEF FinalizeRecord
    <3>5. Cardinality(Us!Held(f)) = Cardinality(q.rows)
      BY <1>2, <3>1, UploadSizes DEF Us!Rows
    <3>6. Us!Held(f) = q.rows
      BY <3>2, <3>4, <3>5, FS_Subset
    <3> QED BY <3>1, <3>2, <3>6
  <2>5. ASSUME NEW s \in Us!Sessions
        PROVE  /\ session'[s] \in SessionRecord /\ SessionRow(session'[s], puts'[s])
               /\ session'[s].claim \in {session[s].claim, None}
               /\ session'[s].state = "finalized" <=> s \in Us!Held(f)
    <3>1. Us!Held(f) \in SUBSET Us!Sessions /\ "finalized" \in SessionStates
      BY DEF Us!Held, SessionStates
    <3>2. /\ session'[s] \in SessionRecord /\ session'[s].version = session[s].version
          /\ s \in Us!Held(f) => session'[s].state = "finalized" /\ session'[s].claim = None
          /\ s \notin Us!Held(f) => session'[s] = session[s]
      BY <2>1, <3>1, SessionSetTyped
    <3>3. SessionRow(session[s], puts[s]) /\ puts' = puts
      BY <2>1 DEF GroupInv
    <3>4. session[s].state # "finalized"
      BY <1>2 DEF GroupInv, Us!GroupWhole
    <3> QED BY <3>2, <3>3, <3>4 DEF SessionRow
  <2>6. UploadTypes'
    <3>1. session' \in [Us!Sessions -> SessionRecord]
      BY <2>1, <2>5 DEF Us!Set
    <3> QED BY <2>1, <2>3, <3>1 DEF GroupInv, UploadTypes
  <2>7. ASSUME NEW g \in Finalizers PROVE ClaimHolds(fin[g], Us!Held(g))'
    <3>1. PICK q, z, H, I : q = fin[g] /\ z = fin'[g] /\ H = Us!Held(g) /\ I = Us!Held(g)'
      OBVIOUS
    <3>2. ClaimHolds(q, H)
      BY <3>1 DEF GroupInv
    <3>3. I \subseteq H
      <4>1. g # None
        BY DEF Us!UploadAssumption
      <4> QED BY <2>5, <3>1, <4>1 DEF Us!Held
    <3>4. ClaimHolds(z, I)
      <4>1. CASE g = f
        <5>1. z = r
          BY <2>3, <3>1, <4>1 DEF GroupInv, UploadTypes
        <5> QED BY <2>2, <5>1 DEF ClaimHolds, Claiming
      <4>2. CASE g # f
        <5>1. z = q
          BY <2>3, <3>1, <4>2 DEF GroupInv, UploadTypes
        <5> QED BY <3>2, <3>3, <5>1 DEF ClaimHolds, Claiming
      <4> QED BY <4>1, <4>2
    <3> QED BY <3>1, <3>4
  <2>8. {s \in Us!Sessions : session'[s].state = "finalized"} = Us!Held(f)
    BY <2>5 DEF Us!Held
  <2>9. Us!GroupWhole'
    BY <2>1, <2>4, <2>8 DEF Us!GroupWhole
  <2> QED BY <2>5, <2>6, <2>7, <2>9 DEF GroupInv
<1> QED BY <1>1, <1>2

-----------------------------------------------------------------------------
(* Versions in the store. *)

\* What may still be recorded as a version of a session, and is not yet.
Pending(q) == q.at \in {"stored", "undo"}

\* An upload's version is its own, and in the store while it may be recorded.
Own(q, w) == Pending(q) /\ Pending(w) /\ q.s = w.s => q.v # w.v
Unrecorded(q, x, S) ==
  /\ q.at # "idle" => x.state # "none"
  /\ Pending(q) => q.v > 0
  /\ q.at = "stored" => q.v # x.version
  /\ q.at = "stored" /\ x.state = "created" /\ x.age # "cleanable" => q.v \in S
UploadsApart ==
  /\ \A u \in Uploaders : up[u].at # "idle" => Unrecorded(up[u], session[up[u].s], store[up[u].s])
  /\ \A u, w \in Uploaders : u # w => Own(up[u], up[w])

\* Cleanup works on a registered session without its version, or on one that
\* is past its retention and so never registered.
CleanRecord ==
  /\ clean \in [at : {"idle", "deleting", "deleted"}, s : Us!Sessions \cup {None},
                seen : {"none", "created", "uploaded", "failed", "finalized"},
                doomed : SUBSET Us!Versions]
  /\ clean.at # "idle" => clean.s \in Us!Sessions /\ clean.seen # "none"
Harmless(c, x) == c.at = "deleting" =>
  /\ c.seen = "finalized" => x.state = "finalized" /\ x.version \notin c.doomed
  /\ c.seen # "finalized" => x.age = "cleanable" /\ x.state \notin {"finalizing", "finalized"}
CleanupHarmless == clean.at # "idle" => Harmless(clean, session[clean.s])

UploadInv == GroupInv /\ CleanRecord
ObjectInv == UploadInv /\ UploadsApart /\ CleanupHarmless

LEMMA GroupStep ==
  ASSUME Us!UploadAssumption, UploadInv, [Us!Next]_(Us!vars)
  PROVE  UploadInv'
<1> USE DEF UploadInv
<1>1. CASE UNCHANGED Us!vars
  <2>1. UNCHANGED <<session, registered, store, puts, up, fin, clean>>
    BY <1>1 DEF Us!vars
  <2> QED BY <2>1 DEF GroupInv, UploadTypes, Us!GroupWhole, Us!Held, CleanRecord
<1>2. ASSUME NEW s \in Us!Sessions, Us!List(s) PROVE UploadInv'
  <2>1. GroupInv'
    <3>1. UNCHANGED <<session, registered, store, puts, up, fin>>
      BY <1>2 DEF Us!List
    <3> QED BY <3>1 DEF GroupInv, UploadTypes, Us!GroupWhole, Us!Held
  <2>2. CleanRecord'
    <3>1. session[s].state \in {"created", "uploaded", "failed", "finalized"}
      BY <1>2 DEF Us!List, Us!Candidate
    <3>2. Us!Doomed(s) \in SUBSET Us!Versions
      BY DEF Us!Doomed, GroupInv, UploadTypes
    <3> QED BY <1>2, <3>1, <3>2 DEF Us!List, CleanRecord
  <2> QED BY <2>1, <2>2
<1>3. ASSUME NEW s \in Us!Sessions, Us!Create(s) \/ Us!GrowOlder(s) PROVE UploadInv'
  BY <1>3, SessionSteps DEF Us!Create, Us!GrowOlder, CleanRecord
<1>4. ASSUME NEW u \in Uploaders,
             \/ Us!PutVersion(u) \/ Us!Undo(u) \/ Us!UploadDies(u)
             \/ \E s \in Us!Sessions : Us!StartUpload(u, s)
      PROVE  UploadInv'
  BY <1>4, UploadSteps DEF Us!PutVersion, Us!Undo, Us!UploadDies, Us!StartUpload, CleanRecord
<1>5. ASSUME NEW u \in Uploaders, Us!Record(u) PROVE UploadInv'
  BY <1>5, RecordStep DEF Us!Record, CleanRecord
<1>6. ASSUME NEW f \in Finalizers, Us!Lapse(f) PROVE UploadInv'
  BY <1>6, LapseStep DEF Us!Lapse, CleanRecord
<1>7. ASSUME NEW f \in Finalizers,
             \/ Us!ScanEnd(f) \/ Us!FinalizeDies(f) \/ \E s \in Us!Sessions : Us!ScanStart(f, s)
             \/ \E S \in SUBSET Us!Sessions : Us!AlreadyFinalized(f, S)
      PROVE  UploadInv'
  BY <1>7, ScanSteps DEF Us!ScanEnd, Us!FinalizeDies, Us!ScanStart, Us!AlreadyFinalized, CleanRecord
<1>8. ASSUME NEW f \in Finalizers,
             Us!RetryableFailure(f) \/ \E s \in Us!Sessions : Us!ContentFailure(f, s)
      PROVE  UploadInv'
  BY <1>8, FailSteps DEF Us!RetryableFailure, Us!ContentFailure, CleanRecord
<1>9. ASSUME NEW f \in Finalizers, NEW S \in SUBSET Us!Sessions,
         Us!Claim(f, S) PROVE UploadInv'
  BY <1>9, SessionClaimStep DEF Us!Claim, CleanRecord
<1>10. ASSUME NEW f \in Finalizers, Us!Complete(f) PROVE UploadInv'
  BY <1>10, CompleteStep DEF Us!Complete, CleanRecord
<1>11. CASE Us!CleanStep
  <2>1. clean.at # "idle"
    BY <1>11 DEF Us!CleanStep, Us!DeleteVersions, Us!MarkClean
  <2>2. GroupInv'
    BY <1>11, <2>1, CleanSteps DEF CleanRecord
  <2>3. CleanRecord'
    <3>1. CASE Us!MarkClean
      BY <3>1 DEF Us!MarkClean, CleanRecord, Us!NoClean
    <3>2. CASE Us!DeleteVersions
      <4>1. PICK c : c = clean
        OBVIOUS
      <4>2. clean' = [c EXCEPT !.at = "deleted", !.doomed = {}]
        BY <3>2, <4>1 DEF Us!DeleteVersions
      <4>3. clean'.at = "deleted" /\ clean'.s = c.s /\ clean'.seen = c.seen
        BY <4>1, <4>2 DEF CleanRecord
      <4> QED BY <2>1, <4>1, <4>2, <4>3 DEF CleanRecord
    <3> QED BY <1>11, <3>1, <3>2 DEF Us!CleanStep
  <2> QED BY <2>2, <2>3
<1> QED BY <1>1, <1>2, <1>3, <1>4, <1>5, <1>6, <1>7, <1>8, <1>9, <1>10, <1>11
        DEF Us!Next, Us!UploadStep, Us!FinalizeStep

LEMMA UploadInitial == ASSUME Us!UploadAssumption, Us!Init PROVE UploadInv
<1>1. CleanRecord
  BY DEF Us!Init, Us!NoClean, CleanRecord
<1> QED BY <1>1, UploadStart DEF UploadInv

\* Nothing is put, recorded, deleted or listed.
SameObjects == UNCHANGED <<store, puts, up, clean>>

LEMMA ObjectInitial == ASSUME Us!UploadAssumption, Us!Init PROVE ObjectInv
<1>1. UploadsApart
  BY DEF Us!Init, Us!Idle, UploadsApart, Own, Pending
<1>2. CleanupHarmless
  BY DEF Us!Init, Us!NoClean, CleanupHarmless
<1> QED BY <1>1, <1>2, UploadInitial DEF ObjectInv

\* What a step must show: the invariant again, and that no version a session
\* needs goes but by the compensation of its own upload.
ObjectGood == ObjectInv' /\ Us!NeededObjectKept

\* No session comes to be needed, and no version it has leaves the store.
LEMMA KeptWhere ==
  ASSUME \A r \in Us!Sessions : Us!Needed(session'[r]) =>
           /\ Us!Needed(session[r]) /\ session'[r].version = session[r].version
           /\ session[r].version \in store[r] => session[r].version \in store'[r]
  PROVE  Us!NeededObjectKept
BY DEF Us!NeededObjectKept

\* A session keeps its version and its age or grows older, does not come to be
\* needed, is not created, and stays registered.
SessionSettles(x, y) ==
  /\ y.version = x.version
  /\ Us!Needed(y) => Us!Needed(x)
  /\ y.state = "created" => x.state = "created" \/ x.state = "none"
  /\ y.age # "cleanable" => x.age # "cleanable"
  /\ y.state = "none" => x.state = "none"
  /\ x.state = "finalized" => y.state = "finalized"
  /\ x.age = "cleanable" => y.age = "cleanable"
  /\ y.state \in {"finalizing", "finalized"} =>
       x.state \in {"finalizing", "finalized"} \/ x.age # "cleanable"

\* The sessions settle and nothing else moves.
LEMMA SettlingStep ==
  ASSUME Us!UploadAssumption, ObjectInv, UploadInv', SameObjects,
         \A s \in Us!Sessions : SessionSettles(session[s], session'[s])
  PROVE  ObjectGood
<1>1. Us!NeededObjectKept
  BY KeptWhere DEF SameObjects, SessionSettles
<1>2. UploadsApart'
  <2>1. ASSUME NEW u \in Uploaders, up[u].at # "idle"
        PROVE  Unrecorded(up[u], session'[up[u].s], store[up[u].s])
    <3>1. PICK q \in UploadRecord, r \in Us!Sessions : q = up[u] /\ r = up[u].s
      BY <2>1 DEF ObjectInv, UploadInv, GroupInv, UploadTypes, UploadSent
    <3>2. Unrecorded(q, session[r], store[r]) /\ q.at # "idle"
      BY <2>1, <3>1 DEF ObjectInv, UploadsApart
    <3>3. SessionSettles(session[r], session'[r])
      OBVIOUS
    <3>4. Unrecorded(q, session'[r], store[r])
      BY ONLY <3>2, <3>3 DEF Unrecorded, SessionSettles
    <3> QED BY <3>1, <3>4
  <2> QED BY <2>1 DEF ObjectInv, SameObjects, UploadsApart
<1>3. CleanupHarmless'
  BY DEF ObjectInv, UploadInv, CleanRecord, SameObjects, CleanupHarmless, Harmless, SessionSettles
<1> QED BY <1>1, <1>2, <1>3 DEF ObjectGood, ObjectInv

LEMMA SessionsSettle ==
  ASSUME Us!UploadAssumption, ObjectInv, UploadInv', NEW s \in Us!Sessions,
         Us!Create(s) \/ Us!GrowOlder(s)
  PROVE  ObjectGood
<1>1. SameObjects
  BY DEF Us!Create, Us!GrowOlder, SameObjects
<1>2. ASSUME NEW r \in Us!Sessions PROVE SessionSettles(session[r], session'[r])
  <2>1. PICK x \in SessionRecord : x = session[r]
    BY DEF ObjectInv, UploadInv, GroupInv, UploadTypes
  <2>2. CASE r # s
    <3>1. session'[r] = x
      BY <2>1, <2>2 DEF Us!Create, Us!GrowOlder, ObjectInv, UploadInv, GroupInv, UploadTypes
    <3> QED BY <2>1, <3>1 DEF SessionSettles
  <2>3. CASE r = s /\ Us!Create(s)
    <3>1. PICK y : y = [x EXCEPT !.state = "created"]
      OBVIOUS
    <3>2. session'[r] = y /\ x.state = "none"
      BY <2>1, <2>3, <3>1 DEF Us!Create, ObjectInv, UploadInv, GroupInv, UploadTypes
    <3>3. y.state = "created" /\ y.age = x.age /\ y.version = x.version
      BY <3>1 DEF SessionRecord
    <3>4. SessionSettles(x, y)
      BY <3>2, <3>3 DEF SessionSettles, Us!Needed
    <3> QED BY <2>1, <3>2, <3>4
  <2>4. CASE r = s /\ Us!GrowOlder(s)
    <3>1. PICK y : y = [x EXCEPT !.age = IF x.age = "fresh" THEN "expired" ELSE "cleanable"]
      OBVIOUS
    <3>2. session'[r] = y /\ x.age # "cleanable"
      BY <2>1, <2>4, <3>1 DEF Us!GrowOlder, ObjectInv, UploadInv, GroupInv, UploadTypes
    <3>3. y.state = x.state /\ y.version = x.version
      BY <3>1 DEF SessionRecord
    <3>4. SessionSettles(x, y)
      BY <3>2, <3>3 DEF SessionSettles, Us!Needed
    <3> QED BY <2>1, <3>2, <3>4
  <2> QED BY <2>2, <2>3, <2>4
<1> QED BY <1>1, <1>2, SettlingStep

\* The finalize requests never touch an object.
LEMMA FinalizeSettles ==
  ASSUME Us!UploadAssumption, ObjectInv, UploadInv', NEW f \in Finalizers,
         \/ Us!Lapse(f) \/ Us!FinalizeStep(f) \/ Us!FinalizeDies(f)
         \/ \E S \in SUBSET Us!Sessions : Us!Claim(f, S) \/ Us!AlreadyFinalized(f, S)
  PROVE  ObjectGood
<1>1. SameObjects
  BY DEF SameObjects, Us!Lapse, Us!FinalizeStep, Us!ScanStart, Us!ContentFailure, Us!ScanEnd,
     Us!RetryableFailure,
         Us!Complete, Us!FinalizeDies, Us!Claim, Us!AlreadyFinalized
<1> DEFINE Released(x, y, state) ==
      x.state = "finalizing" /\ y.state = state /\ y.age = x.age /\ y.version = x.version
<1>2. ASSUME NEW r \in Us!Sessions PROVE SessionSettles(session[r], session'[r])
  <2>1. PICK x \in SessionRecord : x = session[r] /\ (x.claim # None <=> x.state = "finalizing")
    BY DEF ObjectInv, UploadInv, GroupInv, UploadTypes, SessionRow
  <2>2. f # None /\ GroupInv
    BY DEF Us!UploadAssumption, ObjectInv, UploadInv
  <2>3. ASSUME session'[r] = x PROVE SessionSettles(x, session'[r])
    BY <2>3 DEF SessionSettles
  <2>4. ASSUME NEW S \in SUBSET Us!Sessions, NEW state \in {"uploaded", "finalized", "failed"},
               session'[r] = Us!Set(S, state)[r], \A s \in S : session[s].claim = f
        PROVE  SessionSettles(x, session'[r])
    <3>1. CASE r \notin S
      <4>1. session'[r] = x
        BY <2>1, <2>4, <3>1 DEF Us!Set
      <4> QED BY <2>3, <4>1
    <3>2. CASE r \in S
      <4>1. PICK y : y = [x EXCEPT !.state = state, !.claim = None, !.lapsed = FALSE]
        OBVIOUS
      <4>2. session'[r] = y
        BY <2>1, <2>4, <3>2, <4>1 DEF Us!Set
      <4>3. y.state = state /\ y.age = x.age /\ y.version = x.version
        BY <4>1 DEF SessionRecord
      <4>4. x.state = "finalizing"
        BY <2>1, <2>2, <2>4, <3>2
      <4>5. SessionSettles(x, y)
        BY <2>4, <4>3, <4>4 DEF SessionSettles, Us!Needed
      <4> QED BY <4>2, <4>5
    <3> QED BY <3>1, <3>2
  <2>5. Us!Held(f) \in SUBSET Us!Sessions /\ \A s \in Us!Held(f) : session[s].claim = f
    BY DEF Us!Held
  <2>6. CASE Us!Lapse(f)
    <3>1. PICK y : y = IF x.claim = f THEN [x EXCEPT !.lapsed = TRUE] ELSE x
      OBVIOUS
    <3>2. session'[r] = y
      BY <2>1, <2>6, <3>1 DEF Us!Lapse
    <3>3. y.state = x.state /\ y.age = x.age /\ y.version = x.version
      BY <3>1 DEF SessionRecord
    <3>4. SessionSettles(x, y)
      BY <3>3 DEF SessionSettles, Us!Needed
    <3> QED BY <2>1, <3>2, <3>4
  <2>7. ASSUME NEW S \in SUBSET Us!Sessions, Us!Claim(f, S)
        PROVE  SessionSettles(session[r], session'[r])
    <3>1. CASE r \notin S
      <4>1. session'[r] = x
        BY <2>1, <2>7, <3>1 DEF Us!Claim
      <4> QED BY <2>1, <2>3, <4>1
    <3>2. CASE r \in S
      <4>1. PICK y : y = [x EXCEPT !.state = "finalizing", !.claim = f, !.lapsed = FALSE]
        OBVIOUS
      <4>2. session'[r] = y
        BY <2>1, <2>7, <3>2, <4>1 DEF Us!Claim
      <4>3. y.state = "finalizing" /\ y.age = x.age /\ y.version = x.version
        BY <4>1 DEF SessionRecord
      <4>4. x.age = "fresh" /\ x.state \in {"uploaded", "finalizing"}
        BY <2>1, <2>7, <3>2 DEF Us!Claim, Us!Claimable
      <4>5. SessionSettles(x, y)
        BY <4>3, <4>4 DEF SessionSettles, Us!Needed
      <4> QED BY <2>1, <4>2, <4>5
    <3> QED BY <3>1, <3>2
  <2>8. CASE Us!RetryableFailure(f)
    BY <2>1, <2>4, <2>5, <2>8 DEF Us!RetryableFailure, Us!GiveBack
  <2>9. CASE Us!Complete(f)
    <3>1. session' = Us!Set(Us!Held(f), "finalized") \/ session' = Us!Set(Us!Held(f), "uploaded")
      BY <2>9 DEF Us!Complete, Us!GiveBack
    <3> QED BY <2>1, <2>4, <2>5, <3>1
  <2>10. ASSUME NEW s \in Us!Sessions, Us!ContentFailure(f, s)
         PROVE  SessionSettles(session[r], session'[r])
    <3>1. CASE session[s].claim # f
      BY <2>1, <2>3, <2>10, <3>1 DEF Us!ContentFailure
    <3>2. CASE session[s].claim = f /\ r = s
      <4>1. session'[r] = Us!Set({s}, "failed")[r]
        BY <2>10, <3>2 DEF Us!ContentFailure
      <4>2. {s} \in SUBSET Us!Sessions /\ \A t \in {s} : session[t].claim = f
        BY <3>2
      <4> QED BY <2>1, <2>4, <4>1, <4>2
    <3>3. CASE session[s].claim = f /\ r # s
      <4>1. session'[r] = Us!Set(Us!Held(f), "uploaded")[r]
        BY <2>10, <3>3 DEF Us!ContentFailure
      <4> QED BY <2>1, <2>4, <2>5, <4>1
    <3> QED BY <3>1, <3>2, <3>3
  <2>11. ASSUME \/ Us!ScanEnd(f) \/ Us!FinalizeDies(f) \/ \E s \in Us!Sessions : Us!ScanStart(f, s)
                \/ \E S \in SUBSET Us!Sessions : Us!AlreadyFinalized(f, S)
         PROVE  SessionSettles(session[r], session'[r])
    <3>1. session' = session
      BY <2>11 DEF Us!ScanEnd, Us!FinalizeDies, Us!ScanStart, Us!AlreadyFinalized
    <3> QED BY <2>1, <2>3, <3>1
  <2> QED BY <2>6, <2>7, <2>8, <2>9, <2>10, <2>11 DEF Us!FinalizeStep
<1> QED BY <1>1, <1>2, SettlingStep

\* One upload moves on, and no other.
LEMMA OtherUploads ==
  ASSUME ObjectInv, NEW u \in Uploaders, NEW q \in UploadRecord,
         up' = [up EXCEPT ![u] = q],
         \A w \in Uploaders \ {u} : up[w].at # "idle" =>
            Unrecorded(up[w], session'[up[w].s], store'[up[w].s]),
         q.at # "idle" => Unrecorded(q, session'[q.s], store'[q.s]),
         \A w \in Uploaders \ {u} : Own(q, up[w])
  PROVE  UploadsApart'
<1>1. up'[u] = q /\ \A w \in Uploaders \ {u} : up'[w] = up[w]
  BY DEF ObjectInv, UploadInv, GroupInv, UploadTypes
<1>2. ASSUME NEW w \in Uploaders, up'[w].at # "idle"
      PROVE  Unrecorded(up'[w], session'[up'[w].s], store'[up'[w].s])
  BY <1>1, <1>2
<1>3. ASSUME NEW v \in Uploaders, NEW w \in Uploaders, v # w PROVE Own(up'[v], up'[w])
  <2>1. CASE v = u
    BY <1>1, <1>3, <2>1
  <2>2. CASE w = u
    <3>1. Own(q, up[v]) /\ up'[v] = up[v] /\ up'[w] = q
      BY <1>1, <1>3, <2>2
    <3> QED BY <3>1 DEF Own
  <2>3. CASE v # u /\ w # u
    BY <1>1, <1>3, <2>3 DEF ObjectInv, UploadsApart
  <2> QED BY <2>1, <2>2, <2>3
<1> QED BY <1>2, <1>3 DEF UploadsApart

LEMMA StartObject ==
  ASSUME Us!UploadAssumption, ObjectInv, UploadInv', NEW u \in Uploaders, NEW s \in Us!Sessions,
         Us!StartUpload(u, s)
  PROVE  ObjectGood
<1>1. PICK q \in UploadRecord : q = [at |-> "sending", s |-> s, v |-> 0]
  BY DEF UploadRecord
<1>2. up' = [up EXCEPT ![u] = q] /\ session[s].state = "created"
      /\ UNCHANGED <<session, registered, store, puts, fin, clean>>
  BY <1>1 DEF Us!StartUpload
<1>3. Unrecorded(q, session[s], store[s])
  BY <1>1, <1>2 DEF Unrecorded, Pending
<1>4. \A w \in Uploaders : Own(q, up[w])
  BY <1>1 DEF Own, Pending
<1>5. \A w \in Uploaders \ {u} : up[w].at # "idle" => Unrecorded(up[w], session[up[w].s], store[up[w].s])
  BY DEF ObjectInv, UploadsApart
<1>6. UploadsApart'
  BY <1>1, <1>2, <1>3, <1>4, <1>5, OtherUploads
<1>7. Us!NeededObjectKept
  BY <1>2, KeptWhere
<1> QED BY <1>2, <1>6, <1>7 DEF ObjectGood, ObjectInv, CleanupHarmless

LEMMA EndObject ==
  ASSUME Us!UploadAssumption, ObjectInv, UploadInv', NEW u \in Uploaders, Us!Undo(u) \/ Us!UploadDies(u)
  PROVE  ObjectGood
<1>1. PICK q \in UploadRecord, s \in Us!Sessions : q = up[u] /\ s = q.s /\ q.at # "idle"
  BY DEF Us!Undo, Us!UploadDies, ObjectInv, UploadInv, GroupInv, UploadTypes, UploadSent
<1>2. Us!Idle \in UploadRecord /\ Us!Idle.at = "idle"
  BY DEF Us!Idle, UploadRecord
<1>3. up' = [up EXCEPT ![u] = Us!Idle] /\ UNCHANGED <<session, registered, puts, fin, clean>>
  BY DEF Us!Undo, Us!UploadDies
<1>4. /\ store' = store \/ (q.at = "undo" /\ store' = [store EXCEPT ![s] = store[s] \ {q.v}])
      /\ \A r \in Us!Sessions : store'[r] \subseteq store[r]
  BY <1>1 DEF Us!Undo, Us!UploadDies, ObjectInv, UploadInv, GroupInv, UploadTypes
<1>5. ASSUME NEW r \in Us!Sessions, NEW v, v \in store[r], r = s /\ q.at = "undo" => v # q.v
      PROVE  v \in store'[r]
  BY <1>4, <1>5 DEF ObjectInv, UploadInv, GroupInv, UploadTypes
<1>6. Us!NeededObjectKept
  <2>1. up'[u].at = "idle"
    BY <1>2, <1>3 DEF ObjectInv, UploadInv, GroupInv, UploadTypes
  <2>2. ASSUME NEW r \in Us!Sessions, Us!Needed(session'[r]), session'[r].version \notin store'[r],
               session[r].version \in store[r]
        PROVE  Us!Compensated(u, r)
    <3>1. session'[r] = session[r]
      BY <1>3
    <3>2. r = s /\ q.at = "undo" /\ session[r].version = q.v
      BY <1>5, <2>2, <3>1
    <3> QED BY <1>1, <2>1, <3>2 DEF Us!Compensated
  <2> QED BY <1>3, <2>2 DEF Us!NeededObjectKept
<1>7. ASSUME NEW w \in Uploaders \ {u}, up[w].at # "idle"
      PROVE  Unrecorded(up[w], session'[up[w].s], store'[up[w].s])
  <2>1. PICK z \in UploadRecord, r \in Us!Sessions : z = up[w] /\ r = z.s
    BY <1>7 DEF ObjectInv, UploadInv, GroupInv, UploadTypes, UploadSent
  <2>2. Unrecorded(z, session[r], store[r]) /\ Own(z, q)
    BY <1>1, <1>7, <2>1 DEF ObjectInv, UploadsApart
  <2>3. Pending(z) /\ q.at = "undo" /\ r = s => z.v # q.v
    BY <1>1, <2>1, <2>2 DEF Own, Pending
  <2>4. Pending(z) /\ z.v \in store[r] => z.v \in store'[r]
    BY <1>5, <2>3
  <2>5. Unrecorded(z, session'[r], store'[r])
    BY <1>3, <2>2, <2>4 DEF Unrecorded, Pending
  <2> QED BY <2>1, <2>5
<1>8. UploadsApart'
  <2>1. \A w \in Uploaders \ {u} : Own(Us!Idle, up[w])
    BY <1>2 DEF Own, Pending
  <2> QED BY <1>2, <1>3, <1>7, <2>1, OtherUploads
<1> QED BY <1>3, <1>6, <1>8 DEF ObjectGood, ObjectInv, CleanupHarmless

LEMMA PutObject ==
  ASSUME Us!UploadAssumption, ObjectInv, UploadInv', NEW u \in Uploaders, Us!PutVersion(u)
  PROVE  ObjectGood
<1>1. PICK q \in UploadRecord, s \in Us!Sessions, n \in 0..MaxPuts :
         q = up[u] /\ s = q.s /\ q.at = "sending" /\ n = puts[s]
  BY DEF Us!PutVersion, ObjectInv, UploadInv, GroupInv, UploadTypes, UploadSent
<1>2. n \in Nat /\ n + 1 \in Nat
  BY DEF Us!UploadAssumption
<1>3. PICK z : z = [q EXCEPT !.at = "stored", !.v = n + 1]
  OBVIOUS
<1>4. z \in UploadRecord /\ z.at = "stored" /\ z.s = s /\ z.v = n + 1
  BY <1>1, <1>2, <1>3 DEF UploadRecord
<1>5. up' = [up EXCEPT ![u] = z] /\ UNCHANGED <<session, registered, fin, clean>>
  BY <1>1, <1>3 DEF Us!PutVersion, ObjectInv, UploadInv, GroupInv, UploadTypes
<1>6. store' = [store EXCEPT ![s] = store[s] \cup {n + 1}]
  BY <1>1 DEF Us!PutVersion, ObjectInv, UploadInv, GroupInv, UploadTypes
<1>7. n + 1 \in store'[s] /\ \A r \in Us!Sessions : store[r] \subseteq store'[r]
  BY <1>6 DEF ObjectInv, UploadInv, GroupInv, UploadTypes
<1>8. Us!NeededObjectKept
  BY <1>5, <1>7, KeptWhere
<1>9. session[s].version \in 0..n
  BY <1>1 DEF ObjectInv, UploadInv, GroupInv, SessionRow
<1>10. Unrecorded(z, session'[s], store'[s])
  <2>1. Unrecorded(q, session[s], store[s])
    BY <1>1 DEF ObjectInv, UploadsApart
  <2> QED BY <1>1, <1>2, <1>4, <1>5, <1>7, <1>9, <2>1 DEF Unrecorded, Pending
<1>11. ASSUME NEW w \in Uploaders \ {u} PROVE Own(z, up[w])
  <2>1. UploadSent(up[w], puts)
    BY DEF ObjectInv, UploadInv, GroupInv, UploadTypes
  <2>2. Pending(up[w]) /\ up[w].s = s => up[w].v \in 0..n
    BY <1>1, <2>1 DEF UploadSent, Pending
  <2> QED BY <1>2, <1>4, <2>2 DEF Own
<1>12. ASSUME NEW w \in Uploaders \ {u}, up[w].at # "idle"
       PROVE  Unrecorded(up[w], session'[up[w].s], store'[up[w].s])
  <2>1. up[w].s \in Us!Sessions /\ Unrecorded(up[w], session[up[w].s], store[up[w].s])
    BY <1>12 DEF ObjectInv, UploadsApart, UploadInv, GroupInv, UploadTypes, UploadSent
  <2> QED BY <1>5, <1>7, <2>1 DEF Unrecorded
<1>13. UploadsApart'
  BY <1>4, <1>5, <1>10, <1>11, <1>12, OtherUploads
<1> QED BY <1>5, <1>8, <1>13 DEF ObjectGood, ObjectInv, CleanupHarmless

\* The version a session records is in the store, and no other upload has it.
LEMMA RecordObject ==
  ASSUME Us!UploadAssumption, ObjectInv, UploadInv', NEW u \in Uploaders, Us!Record(u)
  PROVE  ObjectGood
<1>1. PICK q \in UploadRecord, s \in Us!Sessions : q = up[u] /\ s = q.s /\ q.at = "stored"
  BY DEF Us!Record, ObjectInv, UploadInv, GroupInv, UploadTypes, UploadSent
<1>2. PICK x \in SessionRecord : x = session[s]
  BY DEF ObjectInv, UploadInv, GroupInv, UploadTypes
<1>3. Unrecorded(q, x, store[s])
  BY <1>1, <1>2 DEF ObjectInv, UploadsApart
<1>4. UNCHANGED <<registered, store, puts, fin, clean>>
  BY DEF Us!Record
<1>5. CASE ~Us!Recordable(s)
  <2>1. PICK z : z = [q EXCEPT !.at = "undo"]
    OBVIOUS
  <2>2. z \in UploadRecord /\ z.at = "undo" /\ z.s = s /\ z.v = q.v
    BY <1>1, <2>1 DEF UploadRecord
  <2>3. up' = [up EXCEPT ![u] = z] /\ session' = session
    BY <1>1, <1>5, <2>1 DEF Us!Record, ObjectInv, UploadInv, GroupInv, UploadTypes
  <2>4. Unrecorded(z, session'[s], store'[s])
    BY <1>1, <1>2, <1>3, <1>4, <2>2, <2>3 DEF Unrecorded, Pending
  <2>5. ASSUME NEW w \in Uploaders \ {u} PROVE Own(z, up[w])
    <3>1. Own(q, up[w])
      BY <1>1 DEF ObjectInv, UploadsApart
    <3> QED BY <1>1, <2>2, <3>1 DEF Own, Pending
  <2>6. \A w \in Uploaders \ {u} : up[w].at # "idle" =>
            Unrecorded(up[w], session'[up[w].s], store'[up[w].s])
    BY <1>4, <2>3 DEF ObjectInv, UploadsApart
  <2>7. UploadsApart'
    BY <2>2, <2>3, <2>4, <2>5, <2>6, OtherUploads
  <2>8. Us!NeededObjectKept
    BY <1>4, <2>3, KeptWhere
  <2> QED BY <1>4, <2>3, <2>7, <2>8 DEF ObjectGood, ObjectInv, CleanupHarmless
<1>6. CASE Us!Recordable(s)
  <2>1. PICK y : y = [x EXCEPT !.state = "uploaded", !.version = q.v]
    OBVIOUS
  <2>2. y.state = "uploaded" /\ y.version = q.v /\ y.age = x.age
    BY <2>1 DEF SessionRecord
  <2>3. session' = [session EXCEPT ![s] = y]
    BY <1>1, <1>2, <1>6, <2>1 DEF Us!Record, ObjectInv, UploadInv, GroupInv, UploadTypes
  <2>4. x.state = "created" /\ x.age = "fresh"
    BY <1>2, <1>6 DEF Us!Recordable
  <2>5. session'[s] = y /\ \A r \in Us!Sessions \ {s} : session'[r] = session[r]
    BY <2>3 DEF ObjectInv, UploadInv, GroupInv, UploadTypes
  <2>6. q.v \in store[s]
    BY <1>1, <1>3, <2>4 DEF Unrecorded
  <2>7. Us!NeededObjectKept
    BY <1>4, <2>2, <2>5, <2>6 DEF Us!NeededObjectKept
  <2>8. ASSUME NEW w \in Uploaders \ {u}, up[w].at # "idle"
        PROVE  Unrecorded(up[w], session'[up[w].s], store'[up[w].s])
    <3>1. PICK z \in UploadRecord, r \in Us!Sessions : z = up[w] /\ r = z.s
      BY <2>8 DEF ObjectInv, UploadInv, GroupInv, UploadTypes, UploadSent
    <3>2. Unrecorded(z, session[r], store[r]) /\ Own(z, q)
      BY <1>1, <2>8, <3>1 DEF ObjectInv, UploadsApart
    <3>3. CASE r # s
      BY <1>4, <2>5, <3>1, <3>2, <3>3
    <3>4. CASE r = s
      <4>1. Pending(z) => z.v # y.version
        BY <1>1, <2>2, <3>1, <3>2, <3>4 DEF Own, Pending
      <4>2. Unrecorded(z, y, store[s])
        BY <2>2, <3>2, <3>4, <4>1 DEF Unrecorded, Pending
      <4> QED BY <1>4, <2>5, <3>1, <3>4, <4>2
    <3> QED BY <3>3, <3>4
  <2>9. PICK z : z \in {Us!Idle, [q EXCEPT !.at = "undo"]} /\ up' = [up EXCEPT ![u] = z]
    BY <1>1, <1>6 DEF Us!Record
  <2>10. /\ z \in UploadRecord /\ z.at # "stored"
         /\ z.at # "idle" => z.at = "undo" /\ z.s = s /\ z.v = q.v
    BY <1>1, <2>9 DEF Us!Idle, UploadRecord
  <2>11. UploadsApart'
    <3>1. \A w \in Uploaders \ {u} : Own(z, up[w])
      <4>1. \A w \in Uploaders \ {u} : Own(q, up[w])
        BY <1>1 DEF ObjectInv, UploadsApart
      <4> QED BY <1>1, <2>10, <4>1 DEF Own, Pending
    <3>2. z.at # "idle" => Unrecorded(z, session'[z.s], store'[z.s])
      BY <1>1, <1>3, <1>4, <2>2, <2>5, <2>10 DEF Unrecorded, Pending
    <3> QED BY <2>8, <2>9, <2>10, <3>1, <3>2, OtherUploads
  <2>12. CleanupHarmless'
    <3>1. ASSUME clean.at # "idle" PROVE Harmless(clean, session'[clean.s])
      <4>1. clean.s \in Us!Sessions /\ Harmless(clean, session[clean.s])
        BY <3>1 DEF ObjectInv, CleanupHarmless, UploadInv, CleanRecord
      <4>2. CASE clean.s = s
        BY <1>2, <2>4, <2>5, <4>1, <4>2 DEF Harmless
      <4>3. CASE clean.s # s
        BY <2>5, <4>1, <4>3
      <4> QED BY <4>2, <4>3
    <3> QED BY <1>4, <3>1 DEF CleanupHarmless
  <2> QED BY <2>7, <2>11, <2>12 DEF ObjectGood, ObjectInv
<1> QED BY <1>5, <1>6

LEMMA ListObject ==
  ASSUME Us!UploadAssumption, ObjectInv, UploadInv', NEW s \in Us!Sessions, Us!List(s)
  PROVE  ObjectGood
<1>1. PICK c : c = [at |-> "deleting", s |-> s, seen |-> session[s].state, doomed |-> Us!Doomed(s)]
  OBVIOUS
<1>2. clean' = c /\ UNCHANGED <<session, registered, store, puts, up, fin>>
  BY <1>1 DEF Us!List
<1>3. Harmless(c, session[s])
  BY <1>1 DEF Us!List, Us!Candidate, Us!Doomed, Harmless
<1>4. c.s = s
  BY <1>1
<1>5. Us!NeededObjectKept
  BY <1>2, KeptWhere
<1> QED BY <1>2, <1>3, <1>4, <1>5 DEF ObjectGood, ObjectInv, UploadsApart, CleanupHarmless

LEMMA DeleteObject ==
  ASSUME Us!UploadAssumption, ObjectInv, UploadInv', Us!DeleteVersions
  PROVE  ObjectGood
<1>1. PICK s \in Us!Sessions, x \in SessionRecord : s = clean.s /\ x = session[s]
  BY DEF Us!DeleteVersions, ObjectInv, UploadInv, CleanRecord, GroupInv, UploadTypes
<1>2. clean.at = "deleting" /\ Harmless(clean, x)
  BY <1>1 DEF Us!DeleteVersions, ObjectInv, CleanupHarmless
<1>3. store' = [store EXCEPT ![s] = store[s] \ clean.doomed]
      /\ UNCHANGED <<session, registered, puts, up, fin>>
  BY <1>1 DEF Us!DeleteVersions
<1>4. store'[s] = store[s] \ clean.doomed /\ \A r \in Us!Sessions \ {s} : store'[r] = store[r]
  BY <1>3 DEF ObjectInv, UploadInv, GroupInv, UploadTypes
<1>5. Us!NeededObjectKept
  <2>1. ASSUME NEW r \in Us!Sessions, Us!Needed(session[r]), session[r].version \in store[r]
        PROVE  session[r].version \in store'[r]
    <3>1. r = s => session[r].version \notin clean.doomed
      BY <1>1, <1>2, <2>1 DEF Harmless, Us!Needed
    <3> QED BY <1>4, <2>1, <3>1
  <2> QED BY <1>3, <2>1, KeptWhere
<1>6. UploadsApart'
  <2>1. ASSUME NEW u \in Uploaders, up[u].at # "idle"
        PROVE  Unrecorded(up[u], session[up[u].s], store'[up[u].s])
    <3>1. PICK z \in UploadRecord, r \in Us!Sessions : z = up[u] /\ r = z.s
      BY <2>1 DEF ObjectInv, UploadInv, GroupInv, UploadTypes, UploadSent
    <3>2. Unrecorded(z, session[r], store[r])
      BY <2>1, <3>1 DEF ObjectInv, UploadsApart
    <3>3. CASE r # s
      BY <1>4, <3>1, <3>2, <3>3
    <3>4. CASE r = s
      <4>1. x.age = "cleanable" \/ x.state = "finalized"
        BY <1>2 DEF Harmless
      <4>2. Unrecorded(z, x, store'[s])
        BY <1>1, <3>2, <3>4, <4>1 DEF Unrecorded
      <4> QED BY <1>1, <3>1, <3>4, <4>2
    <3> QED BY <3>3, <3>4
  <2> QED BY <1>3, <2>1 DEF ObjectInv, UploadsApart
<1>7. CleanupHarmless'
  <2>1. clean'.at = "deleted"
    BY DEF Us!DeleteVersions, ObjectInv, UploadInv, CleanRecord
  <2> QED BY <2>1 DEF CleanupHarmless, Harmless
<1> QED BY <1>5, <1>6, <1>7 DEF ObjectGood, ObjectInv

LEMMA MarkObject ==
  ASSUME Us!UploadAssumption, ObjectInv, UploadInv', Us!MarkClean
  PROVE  ObjectGood
<1>1. PICK s \in Us!Sessions, x \in SessionRecord : s = clean.s /\ x = session[s]
  BY DEF Us!MarkClean, ObjectInv, UploadInv, CleanRecord, GroupInv, UploadTypes
<1>2. clean' = Us!NoClean /\ UNCHANGED <<registered, store, puts, up, fin>>
  BY DEF Us!MarkClean
<1>3. PICK y : y = IF x.state # clean.seen THEN x
                   ELSE IF clean.seen = "finalized" THEN [x EXCEPT !.kept = TRUE]
                   ELSE [x EXCEPT !.state = "cleaned"]
  OBVIOUS
<1>4. y.version = x.version /\ y.age = x.age /\ (y.state = x.state \/ y.state = "cleaned")
  BY <1>3 DEF SessionRecord
<1>5. session' = [session EXCEPT ![s] = y]
  BY <1>1, <1>3 DEF Us!MarkClean, ObjectInv, UploadInv, GroupInv, UploadTypes
<1>6. session'[s] = y /\ \A r \in Us!Sessions \ {s} : session'[r] = session[r]
  BY <1>5 DEF ObjectInv, UploadInv, GroupInv, UploadTypes
<1>7. Us!NeededObjectKept
  <2>1. Us!Needed(y) => Us!Needed(x)
    BY <1>4 DEF Us!Needed
  <2> QED BY <1>1, <1>2, <1>4, <1>6, <2>1, KeptWhere
<1>8. UploadsApart'
  <2>1. ASSUME NEW u \in Uploaders, up[u].at # "idle"
        PROVE  Unrecorded(up[u], session'[up[u].s], store[up[u].s])
    <3>1. PICK z \in UploadRecord, r \in Us!Sessions : z = up[u] /\ r = z.s
      BY <2>1 DEF ObjectInv, UploadInv, GroupInv, UploadTypes, UploadSent
    <3>2. Unrecorded(z, session[r], store[r])
      BY <2>1, <3>1 DEF ObjectInv, UploadsApart
    <3>3. CASE r # s
      BY <1>6, <3>1, <3>2, <3>3
    <3>4. CASE r = s
      <4>1. Unrecorded(z, y, store[s])
        BY <1>1, <1>4, <3>2, <3>4 DEF Unrecorded
      <4> QED BY <1>6, <3>1, <3>4, <4>1
    <3> QED BY <3>3, <3>4
  <2> QED BY <1>2, <2>1 DEF ObjectInv, UploadsApart
<1>9. CleanupHarmless'
  BY <1>2 DEF CleanupHarmless, Us!NoClean
<1> QED BY <1>7, <1>8, <1>9 DEF ObjectGood, ObjectInv

LEMMA ObjectStep ==
  ASSUME Us!UploadAssumption, ObjectInv, [Us!Next]_(Us!vars)
  PROVE  ObjectInv' /\ [Us!NeededObjectKept]_(Us!vars)
<1>1. UploadInv'
  BY GroupStep DEF ObjectInv
<1>2. CASE UNCHANGED Us!vars
  BY <1>1, <1>2 DEF Us!vars, ObjectInv, UploadsApart, CleanupHarmless
<1>3. CASE Us!Next
  <2>1. ObjectGood
    BY <1>1, <1>3, SessionsSettle, ListObject, PutObject, RecordObject, EndObject, StartObject,
       FinalizeSettles, DeleteObject, MarkObject DEF Us!Next, Us!UploadStep, Us!CleanStep
  <2> QED BY <2>1 DEF ObjectGood
<1> QED BY <1>2, <1>3

LEMMA UploadBounded ==
  ASSUME Us!UploadAssumption, UploadInv
  PROVE  Us!TypeOK /\ Us!GroupWhole
<1>1. ASSUME NEW s \in Us!Sessions
      PROVE  /\ session[s].state \in SessionStates /\ session[s].age \in {"fresh", "expired", "cleanable"}
             /\ session[s].version \in 0..puts[s] /\ puts[s] \in 0..MaxPuts
             /\ store[s] \subseteq Us!Versions
             /\ (session[s].claim # None) <=> session[s].state = "finalizing"
  <2>1. PICK x \in SessionRecord : x = session[s] /\ SessionRow(x, puts[s])
    BY DEF UploadInv, GroupInv, UploadTypes
  <2>2. x.state \in SessionStates /\ x.age \in {"fresh", "expired", "cleanable"}
    BY DEF SessionRecord
  <2>3. puts[s] \in 0..MaxPuts /\ store[s] \subseteq Us!Versions
    BY DEF UploadInv, GroupInv, UploadTypes
  <2> QED BY <2>1, <2>2, <2>3 DEF SessionRow
<1>2. \A u \in Uploaders : up[u].at \in {"idle", "sending", "stored", "undo"}
  BY DEF UploadInv, GroupInv, UploadTypes, UploadRecord
<1>3. \A f \in Finalizers : fin[f].at \in {"idle", "claimed", "scanning", "scanned", "done"}
  BY DEF UploadInv, GroupInv, UploadTypes, FinalizeRecord
<1> QED BY <1>1, <1>2, <1>3 DEF Us!TypeOK, UploadInv, GroupInv, UploadTypes, SessionStates

\* The inductive invariant of upload sessions: what a row claims, what a
\* finalize request holds of its group, and that the group is whole.
THEOREM UploadInvariance == ASSUME Us!UploadAssumption PROVE Us!Spec => []UploadInv
<1>1. Us!Init => UploadInv
  BY UploadInitial
<1>2. UploadInv /\ [Us!Next]_(Us!vars) => UploadInv'
  BY GroupStep
<1> QED BY <1>1, <1>2, PTL DEF Us!Spec

\* Sessions, versions and requests keep to their types (the checks of the
\* table snapshot_upload_sessions).
THEOREM UploadTyped == ASSUME Us!UploadAssumption PROVE Us!Spec => []Us!TypeOK
<1>1. UploadInv => Us!TypeOK
  BY UploadBounded
<1> QED BY <1>1, UploadInvariance, PTL

\* A group version is registered whole, one session per member, or not at all,
\* whatever claims lapse and are taken over (claimSnapshotUploadGroup,
\* completeSnapshotUploadGroup).
THEOREM GroupsWhole == ASSUME Us!UploadAssumption PROVE Us!Spec => []Us!GroupWhole
<1>1. UploadInv => Us!GroupWhole
  BY UploadBounded
<1> QED BY <1>1, UploadInvariance, PTL

\* The exact object version of a session that is registered, or still can be,
\* is in the store from the start and goes only by the compensation of the
\* upload that recorded it, whose answer was lost: cleanup deletes what nobody
\* can register any more, and a late upload what it put itself
\* (uploadSessionContent, cleanupManagedObjects).
THEOREM NeededObjectsKept ==
  ASSUME Us!UploadAssumption
  PROVE  Us!Spec => [][Us!NeededObjectKept]_(Us!vars)
<1>1. Us!Init => ObjectInv
  BY ObjectInitial
<1>2. ObjectInv /\ [Us!Next]_(Us!vars) => ObjectInv' /\ [Us!NeededObjectKept]_(Us!vars)
  BY ObjectStep
<1> QED BY <1>1, <1>2, PTL DEF Us!Spec
=============================================================================
