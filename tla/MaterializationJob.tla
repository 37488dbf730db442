------------------------- MODULE MaterializationJob -------------------------
(***************************************************************************)
(* The durable queue of materialization jobs and the worker processes that *)
(* drain it.                                                               *)
(*                                                                         *)
(* The queue is the PostgreSQL functions of migrations/db-00/0013 (enqueue *)
(* in its 0019 form): every function is one transaction, so one atomic     *)
(* step here.  The workers are apps/worker together with the application's *)
(* MaterializationWorker: a loop that claims a job and then issues one     *)
(* call after another, each of which may be refused, may fail, or may      *)
(* commit while its answer is lost.                                        *)
(*                                                                         *)
(* Data is abstracted as follows.  Claim creates the attempt id, the       *)
(* attempt number and the fencing token together and the update trigger    *)
(* lets none of them change alone: one number, `token', stands for the     *)
(* three, and attempts[j][t] is the attempt row of token t.  Deadlines are *)
(* counters of ticks still to go (`leaseLeft', `waitLeft'); a deadline has *)
(* passed when its counter is 0.  One tick is 5 seconds.  Every function   *)
(* reads the clock before it waits for the row and refuses to run when the *)
(* row was stamped later than that reading (last_observed_database_at); a  *)
(* refusal can therefore meet a worker whose lease is intact, which is why *)
(* CallFenced is not guarded by ~LeaseHeld.                                *)
(***************************************************************************)
EXTENDS Integers, Sequences, FiniteSets

CONSTANTS
  Jobs,         \* idempotency keys: (project_id, idempotency_key) is unique
  Workers,      \* worker instance ids
  Projects,
  ProjectOf,    \* the project of each job
  Outputs,      \* digests a stage may produce
  NStages,      \* number of worker stages (8 in the code), the last is activate
  MaxAttempts,  \* maximum_attempts_per_cycle
  LeaseTicks,   \* lease_seconds in ticks
  MaxReplays,   \* bound: how often the operator replays a job
  None

ASSUME ConstantsAssumption ==
  /\ ProjectOf \in [Jobs -> Projects]
  /\ NStages \in Nat \ {0}
  /\ MaxAttempts \in Nat \ {0}
  /\ LeaseTicks \in Nat \ {0}
  /\ MaxReplays \in Nat
  /\ None \notin Jobs \cup Workers \cup Projects \cup Outputs

VARIABLES
  jobs,         \* ops.materialization_jobs
  attempts,     \* ops.materialization_attempts, per job in order of token
  checkpoints,  \* ops.materialization_checkpoints, per job in order of sequence
  dataBearing,  \* runtime.data_bearing_project_guard: the one project with data
  workers       \* what each worker process holds in memory

vars == <<jobs, attempts, checkpoints, dataBearing, workers>>

-----------------------------------------------------------------------------
(* Types.                                                                  *)

JobStates ==
  {"absent", "queued", "running", "retry_wait", "succeeded", "dead_letter", "cancelled"}
AttemptStates == {"leased", "completed", "abandoned", "failed", "cancelled"}

Job == [state           : JobStates,
        token           : Nat,      \* fencing_token = attempt_count
        attemptsInCycle : Nat,
        cycle           : Nat,      \* replay_cycle
        owner           : Workers \cup {None},
        leaseLeft       : Nat,      \* lease_expires_at - now
        waitLeft        : Nat,      \* available_at - now
        cancelRequested : BOOLEAN,
        cutover         : BOOLEAN,  \* cutover_started_at IS NOT NULL
        result          : Outputs \cup {None}]

Attempt == [state : AttemptStates, owner : Workers]

Checkpoint == [token : Nat, out : Outputs]

Phases == {"idle", "control", "cancel", "execute", "complete", "succeed", "fail", "stopped"}
Aborts == {"none", "shutdown", "heartbeat"}

\* phase is the call the worker makes next; seq is latest?.sequence of its own
\* view; out is the digest it is about to report; abort is the reason of the
\* lease signal (a failed heartbeat, fenced or unavailable alike, is rethrown
\* and outranks other outcomes), stopping the abort of the process signal.
Worker == [phase     : Phases,
           job       : Jobs \cup {None},
           token     : Nat,
           seq       : Nat,
           out       : Outputs \cup {None},
           retryable : BOOLEAN,
           abort     : Aborts,
           stopping  : BOOLEAN]

\* The tables keep the shape their columns and CHECK constraints give them.
TypeOK ==
  /\ jobs \in [Jobs -> Job]
  /\ attempts \in [Jobs -> Seq(Attempt)]
  /\ checkpoints \in [Jobs -> Seq(Checkpoint)]
  /\ dataBearing \in Projects \cup {None}
  /\ workers \in [Workers -> Worker]

-----------------------------------------------------------------------------
(* Initial state.                                                          *)

AbsentJob ==
  [state |-> "absent", token |-> 0, attemptsInCycle |-> 0, cycle |-> 0,
   owner |-> None, leaseLeft |-> 0, waitLeft |-> 0, cancelRequested |-> FALSE,
   cutover |-> FALSE, result |-> None]

IdleWorker ==
  [phase |-> "idle", job |-> None, token |-> 0, seq |-> 0, out |-> None,
   retryable |-> FALSE, abort |-> "none", stopping |-> FALSE]

Init ==
  /\ jobs = [j \in Jobs |-> AbsentJob]
  /\ attempts = [j \in Jobs |-> <<>>]
  /\ checkpoints = [j \in Jobs |-> <<>>]
  /\ dataBearing = None
  /\ workers = [w \in Workers |-> IdleWorker]

-----------------------------------------------------------------------------
(* The queue's helpers.                                                    *)

\* g20208_retry_backoff_seconds, in ticks of 5 seconds: 2^(n-1), at most 60.
RetryBackoff(n) ==
  IF n \in 1..6 THEN <<1, 2, 4, 8, 16, 32>>[n] ELSE 60

LeaseHeld_HolderUnchecked(w, j) ==
  /\ jobs[j].state = "running"
  /\ jobs[j].leaseLeft > 0

LeaseHeld_IgnoresExpiry(w, j) ==
  /\ jobs[j].state = "running"
  /\ jobs[j].owner = w
  /\ jobs[j].token = workers[w].token

\* The lease CAS every worker function repeats.
LeaseHeld(w, j) ==
  /\ jobs[j].state = "running"
  /\ jobs[j].owner = w
  /\ jobs[j].token = workers[w].token
  /\ jobs[j].leaseLeft > 0

CloseAttempt(j, outcome) ==
  attempts' = [attempts EXCEPT ![j][jobs[j].token].state = outcome]

\* The job row of a lease that ends: released, in state s.
Released(j, s, wait, digest) ==
  [jobs[j] EXCEPT !.state = s, !.owner = None, !.leaseLeft = 0,
                  !.waitLeft = wait, !.result = digest]

RetryState_AlwaysRetries(j, retryable) == IF retryable THEN "retry_wait" ELSE "dead_letter"

\* Whether an attempt that ends without success is retried.
RetryState(j, retryable) ==
  IF retryable /\ jobs[j].attemptsInCycle < MaxAttempts
    THEN "retry_wait" ELSE "dead_letter"

RetryWait(j, s) == IF s = "retry_wait" THEN RetryBackoff(jobs[j].attemptsInCycle) ELSE 0

ActivateCheckpointed(j) == Len(checkpoints[j]) = NStages

-----------------------------------------------------------------------------
(* Operators and users of the queue.                                       *)

Enqueue_NoProjectGuard(j) ==
  /\ jobs[j].state = "absent"
  /\ dataBearing' = ProjectOf[j]
  /\ jobs' = [jobs EXCEPT ![j].state = "queued"]
  /\ UNCHANGED <<attempts, checkpoints, workers>>

\* enqueue_materialization_job.  A second request with the key of an existing
\* job changes nothing (it is answered "reused", or refused as a conflict).
Enqueue(j) ==
  /\ dataBearing \in {None, ProjectOf[j]}
  /\ jobs[j].state = "absent"
  /\ dataBearing' = ProjectOf[j]
  /\ jobs' = [jobs EXCEPT ![j].state = "queued"]
  /\ UNCHANGED <<attempts, checkpoints, workers>>

\* request_materialization_job_cancel(_v2): a running job is only marked.
RequestCancel(j) ==
  /\ jobs[j].state \in {"queued", "running", "retry_wait", "dead_letter"}
  /\ ~jobs[j].cutover
  /\ jobs' = [jobs EXCEPT ![j] =
       IF jobs[j].state = "running"
         THEN [@ EXCEPT !.cancelRequested = TRUE]
         ELSE [@ EXCEPT !.cancelRequested = TRUE, !.state = "cancelled", !.waitLeft = 0]]
  /\ UNCHANGED <<attempts, checkpoints, dataBearing, workers>>

Replay_ResetsToken(j) ==
  /\ jobs[j].state = "dead_letter"
  /\ ~jobs[j].cutover
  /\ jobs[j].cycle < MaxReplays
  /\ jobs' = [jobs EXCEPT ![j] =
       [jobs[j] EXCEPT !.state = "queued", !.waitLeft = 0, !.attemptsInCycle = 0,
                       !.cycle = @ + 1, !.token = 0]]
  /\ UNCHANGED <<attempts, checkpoints, dataBearing, workers>>

Replay_RevivesCancelled(j) ==
  /\ jobs[j].state \in {"dead_letter", "cancelled"}
  /\ ~jobs[j].cutover
  /\ jobs[j].cycle < MaxReplays
  /\ jobs' = [jobs EXCEPT ![j] =
       [jobs[j] EXCEPT !.state = "queued", !.waitLeft = 0, !.attemptsInCycle = 0,
                       !.cycle = @ + 1]]
  /\ UNCHANGED <<attempts, checkpoints, dataBearing, workers>>

\* replay_materialization_job.
Replay(j) ==
  /\ jobs[j].state = "dead_letter"
  /\ ~jobs[j].cutover
  /\ jobs[j].cycle < MaxReplays
  /\ jobs' = [jobs EXCEPT ![j] =
       [jobs[j] EXCEPT !.state = "queued", !.waitLeft = 0, !.attemptsInCycle = 0,
                       !.cycle = @ + 1]]
  /\ UNCHANGED <<attempts, checkpoints, dataBearing, workers>>

-----------------------------------------------------------------------------
(* The worker loop: claimNext reaps, then claims.                          *)

ReapRow_ForgetsActivation(j) ==
  LET s == RetryState(j, TRUE)
  IN  /\ CloseAttempt(j, "abandoned")
      /\ jobs' = [jobs EXCEPT ![j] = Released(j, s, RetryWait(j, s), None)]

ReapRow_FirstOutput(j) ==
  IF ActivateCheckpointed(j)
    THEN /\ CloseAttempt(j, "completed")
         /\ jobs' = [jobs EXCEPT ![j] =
                       Released(j, "succeeded", jobs[j].waitLeft, checkpoints[j][1].out)]
    ELSE ReapRow_ForgetsActivation(j)

\* reap_expired_materialization_jobs, one row of it: an expired job whose
\* activate checkpoint is durable is finished, any other gives up the attempt.
ReapRow(j) ==
  IF ActivateCheckpointed(j)
    THEN /\ CloseAttempt(j, "completed")
         /\ jobs' = [jobs EXCEPT ![j] =
                       Released(j, "succeeded", jobs[j].waitLeft, checkpoints[j][NStages].out)]
    ELSE LET s == RetryState(j, TRUE)
         IN  /\ CloseAttempt(j, "abandoned")
             /\ jobs' = [jobs EXCEPT ![j] = Released(j, s, RetryWait(j, s), None)]

Reap(w, j) ==
  /\ workers[w].phase = "idle"
  /\ jobs[j].state = "running"
  /\ jobs[j].leaseLeft = 0
  /\ ReapRow(j)
  /\ UNCHANGED <<checkpoints, dataBearing, workers>>

Claimed_FromStart(w, j) ==
  [phase |-> "control", job |-> j, token |-> jobs[j].token + 1, seq |-> 0,
   out |-> None, retryable |-> FALSE, abort |-> "none", stopping |-> FALSE]

\* What the worker remembers of a claim it got an answer to.
Claimed(w, j) ==
  LET activated == ActivateCheckpointed(j)
  IN  [phase |-> IF activated THEN "succeed" ELSE "control",
       job |-> j, token |-> jobs[j].token + 1, seq |-> Len(checkpoints[j]),
       out |-> IF activated THEN checkpoints[j][NStages].out ELSE None,
       retryable |-> FALSE, abort |-> "none", stopping |-> FALSE]

ClaimRow_TokenKept(w, j) ==
  [jobs[j] EXCEPT !.state = "running", !.attemptsInCycle = @ + 1,
                  !.owner = w, !.leaseLeft = LeaseTicks, !.waitLeft = 0]

\* The job row as claim leaves it.
ClaimRow(w, j) ==
  [jobs[j] EXCEPT !.state = "running", !.token = @ + 1, !.attemptsInCycle = @ + 1,
                  !.owner = w, !.leaseLeft = LeaseTicks, !.waitLeft = 0]

Claimable_QueuedOnly(j) ==
  /\ jobs[j].state = "queued"
  /\ ~jobs[j].cancelRequested

Claimable(j) ==
  /\ jobs[j].state \in {"queued", "retry_wait"}
  /\ jobs[j].waitLeft = 0
  /\ ~jobs[j].cancelRequested

\* claim_materialization_job_v2.  SKIP LOCKED lets a claim pass over a row
\* another transaction holds, so any claimable job may be the one.
Claim(w, j, answered) ==
  /\ workers[w].phase = "idle"
  /\ Claimable(j)
  /\ jobs' = [jobs EXCEPT ![j] = ClaimRow(w, j)]
  /\ attempts' = [attempts EXCEPT ![j] = Append(@, [state |-> "leased", owner |-> w])]
  /\ workers' = IF answered THEN [workers EXCEPT ![w] = Claimed(w, j)] ELSE workers
  /\ UNCHANGED <<checkpoints, dataBearing>>

-----------------------------------------------------------------------------
(* The heartbeat loop runs beside the operation until the signal aborts.    *)

HoldsClaim(w) == workers[w].phase \notin {"idle", "stopped"}

\* heartbeat_materialization_job, committed; the answer may be lost.  One that is
\* under way when a shutdown aborts the signal still commits.
Heartbeat(w, answered) ==
  /\ HoldsClaim(w)
  /\ workers[w].abort # "heartbeat"
  /\ LeaseHeld(w, workers[w].job)
  /\ jobs' = [jobs EXCEPT ![workers[w].job].leaseLeft = LeaseTicks]
  /\ workers' = IF answered \/ workers[w].abort = "shutdown" THEN workers
                ELSE [workers EXCEPT ![w].abort = "heartbeat"]
  /\ UNCHANGED <<attempts, checkpoints, dataBearing>>

\* A heartbeat that is refused or does not reach the database.
HeartbeatFails(w) ==
  /\ HoldsClaim(w)
  /\ workers[w].abort = "none"
  /\ workers' = [workers EXCEPT ![w].abort = "heartbeat"]
  /\ UNCHANGED <<jobs, attempts, checkpoints, dataBearing>>

-----------------------------------------------------------------------------
(* One claim: #processClaim.                                               *)

\* How processNext and runWorkerLoop leave a claim: a heartbeat failure takes
\* precedence over the operation's outcome; an error that is neither a fence
\* nor a dependency failure ends the process.
AfterClaim(w, fatal) ==
  [IdleWorker EXCEPT !.phase =
     IF \/ workers[w].stopping
        \/ fatal /\ workers[w].abort # "heartbeat"
       THEN "stopped" ELSE "idle"]

Leave(w, fatal) == workers' = [workers EXCEPT ![w] = AfterClaim(w, fatal)]

\* What the worker does at a point where it looks at the aborted signal:
\* throwLeaseAbort, or #releaseForShutdown.
OnAbort(w, self) ==
  IF self.abort = "shutdown"
    THEN [self EXCEPT !.phase = "fail", !.out = None, !.retryable = TRUE]
    ELSE AfterClaim(w, FALSE)

\* read_materialization_job_control and the decisions taken on its answer.
ReadControl(w) ==
  LET j == workers[w].job
  IN  /\ workers[w].phase = "control"
      /\ LeaseHeld(w, j)
      /\ workers' = [workers EXCEPT ![w] =
           IF jobs[j].cancelRequested THEN [@ EXCEPT !.phase = "cancel"]
           ELSE IF workers[w].abort # "none" THEN OnAbort(w, @)
           ELSE [@ EXCEPT !.phase = "execute"]]
      /\ UNCHANGED <<jobs, attempts, checkpoints, dataBearing>>

\* cancel_materialization_job_at_safe_point.
CancelAtSafePoint(w) ==
  LET j == workers[w].job
  IN  /\ workers[w].phase = "cancel"
      /\ LeaseHeld(w, j)
      /\ jobs[j].cancelRequested
      /\ ~jobs[j].cutover
      /\ CloseAttempt(j, "cancelled")
      /\ jobs' = [jobs EXCEPT ![j] = Released(j, "cancelled", jobs[j].waitLeft, None)]
      /\ Leave(w, FALSE)
      /\ UNCHANGED <<checkpoints, dataBearing>>

\* ... or MATERIALIZATION_JOB_NOT_CANCELLABLE, which is not a fence.
CancelRefused(w) ==
  /\ workers[w].phase = "cancel"
  /\ Leave(w, TRUE)
  /\ UNCHANGED <<jobs, attempts, checkpoints, dataBearing>>

\* executor.execute returns a result ...
ExecuteReturns(w, out) ==
  /\ workers[w].phase = "execute"
  /\ workers' = [workers EXCEPT ![w].phase = "complete", ![w].out = out]
  /\ UNCHANGED <<jobs, attempts, checkpoints, dataBearing>>

\* ... or throws.
ExecuteThrows(w, retryable) ==
  /\ workers[w].phase = "execute"
  /\ workers' = [workers EXCEPT ![w] =
       IF workers[w].abort # "none" THEN OnAbort(w, @)
       ELSE [@ EXCEPT !.phase = "fail", !.retryable = retryable]]
  /\ UNCHANGED <<jobs, attempts, checkpoints, dataBearing>>

\* The worker after the answer to complete_materialization_stage.
AfterStage(w) ==
  LET self == [workers[w] EXCEPT !.seq = @ + 1]
  IN  IF self.seq = NStages THEN [self EXCEPT !.phase = "succeed"]
      ELSE IF self.abort # "none" THEN OnAbort(w, self)
      ELSE [self EXCEPT !.phase = "control", !.out = None]

\* The sequence a stage completes must follow the latest checkpoint; a
\* checkpoint already there has another checkpoint_id, as each call draws one.
StageConflict(w) == workers[w].seq # Len(checkpoints[workers[w].job])

\* complete_materialization_stage; `activate' also starts and ends the cutover.
CompleteStage(w, answered) ==
  LET j == workers[w].job
  IN  /\ workers[w].phase = "complete"
      /\ LeaseHeld(w, j)
      /\ IF StageConflict(w)
           THEN Leave(w, TRUE) /\ UNCHANGED <<jobs, checkpoints>>
           ELSE /\ checkpoints' = [checkpoints EXCEPT ![j] =
                     Append(@, [token |-> workers[w].token, out |-> workers[w].out])]
                /\ jobs' = [jobs EXCEPT ![j].cutover = @ \/ workers[w].seq + 1 = NStages]
                /\ IF answered THEN workers' = [workers EXCEPT ![w] = AfterStage(w)]
                               ELSE Leave(w, FALSE)
      /\ UNCHANGED <<attempts, dataBearing>>

\* succeed_materialization_job.
Succeed(w) ==
  LET j == workers[w].job
  IN  /\ workers[w].phase = "succeed"
      /\ LeaseHeld(w, j)
      /\ IF ActivateCheckpointed(j) /\ checkpoints[j][NStages].out = workers[w].out
           THEN /\ CloseAttempt(j, "completed")
                /\ jobs' = [jobs EXCEPT ![j] =
                              Released(j, "succeeded", jobs[j].waitLeft, workers[w].out)]
                /\ Leave(w, FALSE)
           ELSE Leave(w, TRUE) /\ UNCHANGED <<jobs, attempts>>
      /\ UNCHANGED <<checkpoints, dataBearing>>

\* fail_materialization_job, from #recordFailure or #releaseForShutdown.
Fail(w) ==
  LET j == workers[w].job
      s == RetryState(j, workers[w].retryable)
  IN  /\ workers[w].phase = "fail"
      /\ LeaseHeld(w, j)
      /\ CloseAttempt(j, "failed")
      /\ jobs' = [jobs EXCEPT ![j] = Released(j, s, RetryWait(j, s), None)]
      /\ Leave(w, FALSE)
      /\ UNCHANGED <<checkpoints, dataBearing>>

\* A call is refused with MATERIALIZATION_JOB_FENCED: the lease is gone, or
\* the call read the clock before a transaction that stamped the row later.
CallFenced(w) ==
  /\ workers[w].phase \in {"control", "complete", "succeed", "fail"}
  /\ Leave(w, FALSE)
  /\ UNCHANGED <<jobs, attempts, checkpoints, dataBearing>>

\* A call does not reach the database (DEPENDENCY_UNAVAILABLE).
CallUnavailable(w) ==
  /\ workers[w].phase \in {"control", "cancel", "complete", "succeed", "fail"}
  /\ Leave(w, FALSE)
  /\ UNCHANGED <<jobs, attempts, checkpoints, dataBearing>>

-----------------------------------------------------------------------------
(* The processes and the clock.                                            *)

\* An aborted signal keeps its first reason.
ShutdownReason(w) == IF workers[w].abort = "none" THEN "shutdown" ELSE workers[w].abort

\* SIGTERM: an idle loop ends; otherwise the signal aborts, and its reason is
\* the lease signal's unless a heartbeat failed first.
Shutdown(w) ==
  /\ workers[w].phase # "stopped"
  /\ ~workers[w].stopping
  /\ workers' = [workers EXCEPT ![w] =
       IF HoldsClaim(w)
         THEN [workers[w] EXCEPT !.stopping = TRUE, !.abort = ShutdownReason(w)]
         ELSE [IdleWorker EXCEPT !.phase = "stopped"]]
  /\ UNCHANGED <<jobs, attempts, checkpoints, dataBearing>>

\* The process dies, or its shutdown grace period runs out.
Kill(w) ==
  /\ HoldsClaim(w)
  /\ workers' = [workers EXCEPT ![w] = [IdleWorker EXCEPT !.phase = "stopped"]]
  /\ UNCHANGED <<jobs, attempts, checkpoints, dataBearing>>

\* The process manager starts the worker again.
Restart(w) ==
  /\ workers[w].phase = "stopped"
  /\ workers' = [workers EXCEPT ![w] = IdleWorker]
  /\ UNCHANGED <<jobs, attempts, checkpoints, dataBearing>>

Tick_NoFloor ==
  /\ \E j \in Jobs : jobs[j].leaseLeft > 0 \/ jobs[j].waitLeft > 0
  /\ jobs' = [j \in Jobs |-> [jobs[j] EXCEPT !.leaseLeft = @ - 1, !.waitLeft = @ - 1]]
  /\ UNCHANGED <<attempts, checkpoints, dataBearing, workers>>

Tick ==
  /\ \E j \in Jobs : jobs[j].leaseLeft > 0 \/ jobs[j].waitLeft > 0
  /\ jobs' = [j \in Jobs |->
       [jobs[j] EXCEPT !.leaseLeft = IF @ > 0 THEN @ - 1 ELSE 0,
                       !.waitLeft = IF @ > 0 THEN @ - 1 ELSE 0]]
  /\ UNCHANGED <<attempts, checkpoints, dataBearing, workers>>

-----------------------------------------------------------------------------
QueueStep(j) == Enqueue(j) \/ RequestCancel(j) \/ Replay(j)

\* What a claim's operation does next.
OperationStep(w) ==
  \/ ReadControl(w)
  \/ CancelAtSafePoint(w)
  \/ CancelRefused(w)
  \/ \E out \in Outputs : ExecuteReturns(w, out)
  \/ \E retryable \in BOOLEAN : ExecuteThrows(w, retryable)
  \/ \E answered \in BOOLEAN : CompleteStage(w, answered)
  \/ Succeed(w)
  \/ Fail(w)
  \/ CallFenced(w)
  \/ CallUnavailable(w)

WorkerStep(w) ==
  \/ \E j \in Jobs : Reap(w, j)
  \/ \E j \in Jobs, answered \in BOOLEAN : Claim(w, j, answered)
  \/ \E answered \in BOOLEAN : Heartbeat(w, answered)
  \/ HeartbeatFails(w)
  \/ OperationStep(w)

ProcessStep(w) == Shutdown(w) \/ Kill(w) \/ Restart(w)

Next ==
  \/ \E j \in Jobs : QueueStep(j)
  \/ \E w \in Workers : WorkerStep(w) \/ ProcessStep(w)
  \/ Tick

Spec == Init /\ [][Next]_vars

-----------------------------------------------------------------------------
(* Safety.                                                                 *)

\* A job is running exactly when its newest attempt, and no other, is leased,
\* to the owner on the job row: reap, claim and the four ways to end a claim
\* never leave two attempts open, nor an open attempt on a job at rest.
OpenAttempt(j) ==
  /\ jobs[j].token = Len(attempts[j])
  /\ jobs[j].state = "running" <=> jobs[j].owner # None
  /\ \A t \in 1..Len(attempts[j]) :
       attempts[j][t].state = "leased" <=>
         jobs[j].state = "running" /\ t = jobs[j].token
  /\ jobs[j].state = "running" => attempts[j][jobs[j].token].owner = jobs[j].owner

\* No job has two open attempts, nor an open attempt while it is not running.
OneOpenAttempt == \A j \in Jobs : OpenAttempt(j)

\* A worker whose lease the database would accept has an up-to-date view: its
\* latest sequence is the database's, and the digest it is about to report as
\* the result is the activate checkpoint's.  So MATERIALIZATION_JOB_PROTOCOL_
\* CONFLICT, which ends the worker process, never answers a lease holder,
\* whatever answers were lost before.
HolderViewCurrent ==
  \A w \in Workers :
    LET j == workers[w].job
    IN  HoldsClaim(w) /\ LeaseHeld(w, j) =>
          /\ workers[w].seq = Len(checkpoints[j])
          /\ workers[w].phase = "succeed" =>
               ActivateCheckpointed(j) /\ checkpoints[j][NStages].out = workers[w].out

\* The cutover is the point of no return: the flag that cancel and replay look
\* at agrees with the activate checkpoint that reap looks at, and from then on
\* the job can only be running or succeeded.  (fail_materialization_job has no
\* guard of its own for this: it rests on what the worker does.)
Cutover(j) ==
  /\ jobs[j].cutover <=> ActivateCheckpointed(j)
  /\ jobs[j].cutover => jobs[j].state \in {"running", "succeeded"}

\* Once its activate stage is complete a job never waits, dies or is cancelled.
CutoverIsFinal == \A j \in Jobs : Cutover(j)

\* A job succeeds with the digest of its activate checkpoint, whether its
\* worker reported it or a later reap recovered it, and no other job has one.
Result(j) ==
  /\ jobs[j].state = "succeeded" => jobs[j].cutover
  /\ jobs[j].result =
       IF jobs[j].state = "succeeded" THEN checkpoints[j][NStages].out ELSE None

\* The result of a job is what its activate stage wrote, however it was reported.
ResultIsActivated == \A j \in Jobs : Result(j)

\* Checkpoints are written under non-decreasing fencing tokens: once a newer
\* attempt wrote one, no older attempt writes another.
Fenced(j) ==
  \A i \in 1..Len(checkpoints[j]) :
    /\ checkpoints[j][i].token \in 1..jobs[j].token
    /\ \A k \in i..Len(checkpoints[j]) : checkpoints[j][i].token <= checkpoints[j][k].token

\* No stale attempt writes a checkpoint after a newer attempt has.
CheckpointsFenced == \A j \in Jobs : Fenced(j)

\* Crashes, refusals, failures and replays together never spend more than
\* maximum_attempts_per_cycle attempts a cycle, and a waiting job has one left.
Budget(j) ==
  /\ jobs[j].attemptsInCycle <= MaxAttempts
  /\ jobs[j].state \in {"queued", "retry_wait"} => jobs[j].attemptsInCycle < MaxAttempts
  /\ jobs[j].token <= MaxAttempts * jobs[j].cycle + jobs[j].attemptsInCycle

\* The retry budget bounds the attempts of every job, cycle by cycle.
RetryBudget == \A j \in Jobs : Budget(j)

\* Only one project ever has jobs (G20214_DATA_BEARING_PROJECT_LIMIT_EXCEEDED).
OneDataBearingProject ==
  \A j, k \in Jobs :
    jobs[j].state # "absent" /\ jobs[k].state # "absent" => ProjectOf[j] = ProjectOf[k]

(* Action properties.                                                      *)

\* A lease that has not expired ends only by a call of the worker that holds
\* it: no reap, claim, cancel request or stale worker takes it away.
LeaseEndsByHolder ==
  [][\A j \in Jobs :
       jobs[j].state = "running" /\ jobs[j].leaseLeft > 0 /\ jobs'[j].state # "running" =>
         LET self == workers[jobs[j].owner]
         IN  /\ self.job = j
             /\ self.token = jobs[j].token
             /\ self.phase \in {"cancel", "succeed", "fail"}]_vars

\* Checkpoints are only ever added, one at a time, by the current attempt of a
\* running job with an unexpired lease.
CheckpointsByHolder ==
  [][\A j \in Jobs :
       checkpoints'[j] # checkpoints[j] =>
         /\ jobs[j].state = "running" /\ jobs[j].leaseLeft > 0
         /\ \E out \in Outputs :
              checkpoints'[j] = Append(checkpoints[j], [token |-> jobs[j].token, out |-> out])]_vars

\* A succeeded or cancelled job is over: row, attempts and checkpoints stay as
\* they are, whatever late calls arrive.
TerminalFrozen ==
  [][\A j \in Jobs :
       jobs[j].state \in {"succeeded", "cancelled"} =>
         /\ jobs'[j] = jobs[j]
         /\ attempts'[j] = attempts[j]
         /\ checkpoints'[j] = checkpoints[j]]_vars

-----------------------------------------------------------------------------
(* The promise.                                                            *)

LedgerStatus(j) ==
  CASE jobs[j].state = "absent"      -> "absent"
    [] jobs[j].state = "succeeded"   -> "done"
    [] jobs[j].state = "dead_letter" -> "dead"
    [] jobs[j].state = "cancelled"   -> "cancelled"
    [] OTHER                         -> "open"

LedgerOutputs(j) == [i \in 1..Len(checkpoints[j]) |-> checkpoints[j][i].out]

Ledger == INSTANCE JobLedger WITH
  status <- [j \in Jobs |-> LedgerStatus(j)],
  outputs <- [j \in Jobs |-> LedgerOutputs(j)]

\* The queue and its workers keep the promise of JobLedger: leases, retries,
\* stale workers and lost answers are invisible in it.
KeepsLedger == Ledger!LedgerSpec

-----------------------------------------------------------------------------
(* Liveness.                                                               *)

\* The clock advances; a claim's operation takes its next step (calls and
\* stages are bounded by statement timeouts); the loop polls, and claims the
\* job available longest first, so no claimable job is passed over for ever;
\* a stopped worker is started again.  Nothing obliges an operator, a crash, a
\* heartbeat or an answer to happen.
Fairness ==
  /\ WF_vars(Tick)
  /\ \A w \in Workers : WF_vars(OperationStep(w)) /\ WF_vars(Restart(w))
  /\ \A j \in Jobs : /\ SF_vars(\E w \in Workers : Reap(w, j))
                     /\ SF_vars(\E w \in Workers, answered \in BOOLEAN : Claim(w, j, answered))

FairSpec == Spec /\ Fairness

\* Every job comes to rest, through any number of crashes, lost answers and
\* refusals, unless an operator asks to cancel it.
JobsSettle ==
  \A j \in Jobs :
    jobs[j].state = "queued" ~>
      jobs[j].state \in {"succeeded", "dead_letter", "cancelled"} \/ jobs[j].cancelRequested

\* A cutover is always reported: once the activate checkpoint is durable the
\* job succeeds.
CutoversSucceed ==
  \A j \in Jobs : jobs[j].cutover ~> jobs[j].state = "succeeded"

\* A cancel request on a running job is persisted and the job converges to a
\* terminal state, as the review of the worker says of graceful stop and kill.
CancelConverges ==
  \A j \in Jobs :
    jobs[j].cancelRequested ~> jobs[j].state \in {"succeeded", "dead_letter", "cancelled"}

=============================================================================
