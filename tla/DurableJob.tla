------------------------------ MODULE DurableJob ------------------------------
(***************************************************************************)
(* JobStateModel: jobs are enqueued once per idempotency key, claimed by   *)
(* priority under a fenced lease, leave ordered checkpoints from which the *)
(* next attempt resumes, and end by success, dead letter or cancellation.  *)
(*                                                                         *)
(* Source: tools/job-outbox/job.ts, tools/job-outbox/shared.ts.            *)
(*                                                                         *)
(* Abstractions: database times are the time left until them; among the    *)
(* jobs of one priority the choice is open; a fencing token is the number  *)
(* of its attempt; a checkpoint is the worker that made it (an attempt's   *)
(* output differs from another's); audit records are left out.             *)
(***************************************************************************)
EXTENDS Naturals, Sequences, FiniteSets

CONSTANTS Jobs, Workers,
          Priority,           \* job -> priority
          KeyOf,              \* job -> idempotency scope it is enqueued with
          Inputs,             \* digests of inputs
          MaximumAttempts, Backoff, LeaseDuration,
          MaxReplays,         \* bound: replays of a job
          MaxSequence,        \* bound: checkpoint sequences
          None

JobPolicyAssumption ==
  {MaximumAttempts, Backoff, LeaseDuration} \subseteq Nat \ {0}

VARIABLES jobs,         \* state, input, time until available, lease, attempts in cycle, replays
          attempts,     \* outcome of every attempt of a job, in order
          checkpoints,  \* checkpoints of a job, in order
          index,        \* idempotency scope -> job
          holding,      \* handle of each worker and the sequence it resumes after
          results       \* history: results recorded for a job

vars == <<jobs, attempts, checkpoints, index, holding, results>>

Keys == {KeyOf[j] : j \in Jobs}
JobState == {"none", "QUEUED", "RUNNING", "RETRY_WAIT", "SUCCEEDED", "DEAD_LETTER", "CANCELLED"}
NoLease == [worker |-> None, token |-> 0, left |-> 0]
JobRecord ==
  [state : JobState, input : Inputs \union {None}, avail : 0..Backoff,
   cycle : 0..MaximumAttempts, replays : 0..MaxReplays,
   lease : [worker : Workers \union {None}, token : 0..(MaximumAttempts * (MaxReplays + 1)),
            left : 0..LeaseDuration]]
JobCheckpoint == [sequence : 1..MaxSequence, worker : Workers, token : Nat]

TypeOK ==
  /\ jobs \in [Jobs -> JobRecord]
  /\ \A j \in Jobs : checkpoints[j] \in Seq(JobCheckpoint)
  /\ index \in [Keys -> Jobs \union {None}]

Init ==
  /\ jobs = [j \in Jobs |-> [state |-> "none", input |-> None, avail |-> 0, cycle |-> 0,
                             replays |-> 0, lease |-> NoLease]]
  /\ attempts = [j \in Jobs |-> <<>>] /\ checkpoints = [j \in Jobs |-> <<>>]
  /\ index = [k \in Keys |-> None]
  /\ holding = [w \in Workers |-> None]
  /\ results = [j \in Jobs |-> 0]

\* enqueue: a repeated key returns the job it has, or is refused for another
\* input; an identifier is used once.
Enqueue(j, input, avail) ==
  /\ index[KeyOf[j]] = None /\ jobs[j].state = "none"
  /\ jobs' = [jobs EXCEPT ![j] = [@ EXCEPT !.state = "QUEUED", !.input = input, !.avail = avail]]
  /\ index' = [index EXCEPT ![KeyOf[j]] = j]
  /\ UNCHANGED <<attempts, checkpoints, holding, results>>

Claimable(j) == jobs[j].state \in {"QUEUED", "RETRY_WAIT"} /\ jobs[j].avail = 0

\* compareJobs: by priority.
First(j) == Claimable(j) /\ \A k \in Jobs : Claimable(k) => Priority[k] <= Priority[j]

Last(j) == IF checkpoints[j] = <<>> THEN 0 ELSE checkpoints[j][Len(checkpoints[j])].sequence

\* claimNext, which hands out the latest checkpoint.
ClaimNext(w, j) ==
  /\ holding[w] = None /\ First(j)
  /\ jobs' = [jobs EXCEPT ![j] = [@ EXCEPT !.state = "RUNNING", !.cycle = jobs[j].cycle + 1,
                                           !.lease = [worker |-> w, token |-> Len(attempts[j]) + 1,
                                                      left |-> LeaseDuration]]]
  /\ attempts' = [attempts EXCEPT ![j] = Append(@, "ACTIVE")]
  /\ holding' = [holding EXCEPT ![w] = [job |-> j, token |-> Len(attempts[j]) + 1,
                                        resume |-> Last(j)]]
  /\ UNCHANGED <<checkpoints, index, results>>

\* Mutant of Owns: the lease is not compared with the clock.
OwnsExpired(w) ==
  /\ holding[w] # None /\ jobs[holding[w].job].state = "RUNNING"
  /\ LET lease == jobs[holding[w].job].lease IN lease.worker = w /\ lease.token = holding[w].token

\* A running job under the worker's own lease (assertValidLease).
Owns(w) ==
  /\ holding[w] # None /\ jobs[holding[w].job].state = "RUNNING"
  /\ LET lease == jobs[holding[w].job].lease IN
     lease.worker = w /\ lease.token = holding[w].token /\ lease.left > 0

Heartbeat(w) ==
  /\ Owns(w)
  /\ jobs' = [jobs EXCEPT ![holding[w].job].lease.left = LeaseDuration]
  /\ UNCHANGED <<attempts, checkpoints, index, holding, results>>

\* completeCheckpoint: later than the last one; the last one again is a
\* repetition if its output is the same; a worker works on from where it
\* resumed.
CompleteCheckpoint(w, n) ==
  LET j == holding[w].job IN
  /\ Owns(w) /\ n > holding[w].resume
  /\ n > Last(j)
  /\ checkpoints' = [checkpoints EXCEPT ![j] =
                       Append(@, [sequence |-> n, worker |-> w, token |-> holding[w].token])]
  /\ holding' = [holding EXCEPT ![w].resume = n]
  /\ UNCHANGED <<jobs, attempts, index, results>>

\* The job ends with this attempt.
Succeed(w) ==
  LET j == holding[w].job IN
  /\ Owns(w)
  /\ jobs' = [jobs EXCEPT ![j] = [@ EXCEPT !.state = "SUCCEEDED", !.lease = NoLease]]
  /\ attempts' = [attempts EXCEPT ![j][holding[w].token] = "SUCCEEDED"]
  /\ results' = [results EXCEPT ![j] = @ + 1]
  /\ holding' = [holding EXCEPT ![w] = None]
  /\ UNCHANGED <<checkpoints, index>>

\* finishFailure.
CanRetry(r, retryable) == retryable /\ r.cycle < MaximumAttempts
Failed(r, retryable) ==
  [r EXCEPT !.state = IF CanRetry(r, retryable) THEN "RETRY_WAIT" ELSE "DEAD_LETTER",
            !.avail = IF CanRetry(r, retryable) THEN Backoff ELSE 0, !.lease = NoLease]

Fail(w, retryable) ==
  LET j == holding[w].job IN
  /\ Owns(w)
  /\ jobs' = [jobs EXCEPT ![j] = Failed(@, retryable)]
  /\ attempts' = [attempts EXCEPT ![j][holding[w].token] =
                    IF CanRetry(jobs[j], retryable) THEN "RETRY_SCHEDULED" ELSE "DEAD_LETTER"]
  /\ holding' = [holding EXCEPT ![w] = None]
  /\ UNCHANGED <<checkpoints, index, results>>

Expired == {j \in Jobs : jobs[j].state = "RUNNING" /\ jobs[j].lease.left = 0}

ReclaimExpiredLeases ==
  /\ Expired # {}
  /\ jobs' = [j \in Jobs |-> IF j \in Expired THEN Failed(jobs[j], TRUE) ELSE jobs[j]]
  /\ attempts' = [j \in Jobs |->
                    IF j \notin Expired THEN attempts[j]
                    ELSE [attempts[j] EXCEPT ![jobs[j].lease.token] =
                            IF CanRetry(jobs[j], TRUE) THEN "LEASE_EXPIRED" ELSE "DEAD_LETTER"]]
  /\ UNCHANGED <<checkpoints, index, holding, results>>

ReplayDeadLetter(j) ==
  /\ jobs[j].state = "DEAD_LETTER" /\ jobs[j].replays < MaxReplays
  /\ jobs' = [jobs EXCEPT ![j] = [@ EXCEPT !.state = "QUEUED", !.avail = 0, !.cycle = 0,
                                           !.replays = jobs[j].replays + 1]]
  /\ UNCHANGED <<attempts, checkpoints, index, holding, results>>

\* cancel: any job that has not succeeded, with its running attempt.
Cancel(j) ==
  /\ jobs[j].state \notin {"none", "SUCCEEDED", "CANCELLED"}
  /\ jobs' = [jobs EXCEPT ![j] = [@ EXCEPT !.state = "CANCELLED", !.lease = NoLease]]
  /\ attempts' = IF jobs[j].lease = NoLease THEN attempts
                 ELSE [attempts EXCEPT ![j][jobs[j].lease.token] = "CANCELLED"]
  /\ UNCHANGED <<checkpoints, index, holding, results>>

\* A worker stops, or gives up a handle.
Drop(w) ==
  /\ holding[w] # None
  /\ holding' = [holding EXCEPT ![w] = None]
  /\ UNCHANGED <<jobs, attempts, checkpoints, index, results>>

Passed(n) == IF n = 0 THEN 0 ELSE n - 1
Tick ==
  /\ \E j \in Jobs : jobs[j].avail > 0 \/ jobs[j].lease.left > 0
  /\ jobs' = [j \in Jobs |-> [jobs[j] EXCEPT !.avail = Passed(@), !.lease.left = Passed(@)]]
  /\ UNCHANGED <<attempts, checkpoints, index, holding, results>>

Claim(w) == \E j \in Jobs : ClaimNext(w, j)
Finish(w) == Succeed(w) \/ \E r \in BOOLEAN : Fail(w, r)
Next ==
  \/ \E j \in Jobs, i \in Inputs, a \in 0..Backoff : Enqueue(j, i, a)
  \/ \E w \in Workers : Claim(w) \/ Heartbeat(w) \/ Finish(w) \/ Drop(w)
  \/ \E w \in Workers, n \in 1..MaxSequence : CompleteCheckpoint(w, n)
  \/ ReclaimExpiredLeases \/ Tick
  \/ \E j \in Jobs : ReplayDeadLetter(j) \/ Cancel(j)

Spec == Init /\ [][Next]_vars

\* Workers poll and finish or lose what they claim; leases are reclaimed and
\* time passes.
Fairness ==
  /\ WF_vars(\E w \in Workers : Claim(w))
  /\ \A w \in Workers : SF_vars(Finish(w)) /\ WF_vars(Drop(w) /\ ~Owns(w))
  /\ WF_vars(ReclaimExpiredLeases) /\ WF_vars(Tick)
-----------------------------------------------------------------------------
(* Properties *)

\* assertInvariants: a running job has exactly one open attempt, that of its
\* lease, and no other job has any.
OneOpenAttempt ==
  \A j \in Jobs :
    LET open == {i \in DOMAIN attempts[j] : attempts[j][i] = "ACTIVE"} IN
    open = IF jobs[j].state = "RUNNING" THEN {jobs[j].lease.token} ELSE {}

\* assertInvariants: attempts of a cycle stay within the policy, counted over
\* failures and lost leases.
AttemptsAreBounded ==
  \A j \in Jobs : Len(attempts[j]) <= MaximumAttempts * (jobs[j].replays + 1)

\* Checkpoints of one job are in order of their sequence and of the attempts
\* that made them: an attempt that was superseded adds none behind those of
\* its successor.
CheckpointsInOrder ==
  \A j \in Jobs : \A a, b \in DOMAIN checkpoints[j] :
    a < b => /\ checkpoints[j][a].sequence < checkpoints[j][b].sequence
             /\ checkpoints[j][a].token <= checkpoints[j][b].token

\* A key has one job, which was enqueued with one input and ends with at most
\* one result.
OneJobPerKey ==
  /\ \A j, k \in Jobs : j # k /\ KeyOf[j] = KeyOf[k] => "none" \in {jobs[j].state, jobs[k].state}
  /\ \A j \in Jobs : results[j] = (IF jobs[j].state = "SUCCEEDED" THEN 1 ELSE 0)

\* A worker whose lease has run out changes nothing, even before it is
\* reclaimed.
ExpiredLeaseChangesNothing ==
  \A w \in Workers :
    holding[w] # None /\ (checkpoints' # checkpoints \/ results' # results)
      /\ holding'[w] # holding[w] =>
      jobs[holding[w].job].lease.left > 0

\* No job waits while a job of lower priority is claimed.
HigherPriorityFirst ==
  \A j, k \in Jobs :
    jobs[j].state # "RUNNING" /\ jobs'[j].state = "RUNNING" /\ Priority[k] > Priority[j] =>
      ~(jobs[k].state \in {"QUEUED", "RETRY_WAIT"} /\ jobs[k].avail = 0)

\* Every enqueued job reaches an end, or a dead letter, although workers stop.
JobsSettle ==
  \A j \in Jobs : (jobs[j].state # "none") ~> (jobs[j].state \in {"SUCCEEDED", "DEAD_LETTER", "CANCELLED"})
=============================================================================
