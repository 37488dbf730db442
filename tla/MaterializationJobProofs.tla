---------------------- MODULE MaterializationJobProofs ----------------------
(***************************************************************************)
(* Proofs about MaterializationJob, for every number of jobs, workers,     *)
(* stages and attempts.                                                    *)
(*                                                                         *)
(* The safety properties are proved together, as parts of one inductive    *)
(* invariant: whether a job may be retried depends on what the workers     *)
(* know, and what the workers know on who could write checkpoints.         *)
(***************************************************************************)
EXTENDS MaterializationJob, SequenceTheorems, TLAPS

\* What a worker that holds a claim knows: its token was issued, its sequence
\* tells its phase, and as long as the job row still names this claim, expired
\* or not, its sequence is the database's.
Current(w, j) ==
  /\ jobs[j].state = "running"
  /\ jobs[j].owner = w
  /\ jobs[j].token = workers[w].token

ClaimInv(w) ==
  LET j == workers[w].job
  IN  /\ j \in Jobs
      /\ workers[w].token <= jobs[j].token
      /\ IF workers[w].phase = "succeed" THEN workers[w].seq = NStages
                                         ELSE workers[w].seq < NStages
      /\ workers[w].phase \in {"complete", "succeed"} => workers[w].out \in Outputs
      /\ Current(w, j) =>
           /\ workers[w].seq = Len(checkpoints[j])
           /\ workers[w].phase = "succeed" => checkpoints[j][NStages].out = workers[w].out

WorkersInv == \A w \in Workers : HoldsClaim(w) => ClaimInv(w)

\* What a job's own rows satisfy.
Rows(j) ==
  /\ Len(checkpoints[j]) <= NStages
  /\ jobs[j].state = "running" => jobs[j].token >= 1
  /\ jobs[j].state = "absent" => jobs[j].attemptsInCycle = 0

JobInv(j) ==
  OpenAttempt(j) /\ Cutover(j) /\ Result(j) /\ Fenced(j) /\ Budget(j) /\ Rows(j)

IInv ==
  /\ TypeOK
  /\ \A j \in Jobs : JobInv(j)
  /\ WorkersInv

USE ConstantsAssumption

-----------------------------------------------------------------------------

\* The initial state satisfies the invariant.
LEMMA InitInv == Init => IInv
<1> SUFFICES ASSUME Init PROVE IInv
  OBVIOUS
<1> USE DEF Init, AbsentJob, IdleWorker
<1>1. TypeOK
  BY DEF TypeOK, Job, JobStates, Worker, Phases, Aborts
<1>2. ASSUME NEW j \in Jobs PROVE JobInv(j)
  <2>1. OpenAttempt(j) /\ Cutover(j) /\ Result(j) /\ Fenced(j) /\ Rows(j)
    BY DEF OpenAttempt, Cutover, Result, Fenced, Rows, ActivateCheckpointed
  <2>2. Budget(j)
    BY DEF Budget
  <2> QED
    BY <2>1, <2>2 DEF JobInv
<1>3. WorkersInv
  BY DEF WorkersInv, HoldsClaim
<1> QED
  BY <1>1, <1>2, <1>3 DEF IInv

\* A step that changes neither a job, nor an attempt, nor a checkpoint keeps
\* the invariant as soon as it keeps its worker's part.
LEMMA WorkerOnly ==
  ASSUME IInv, NEW w \in Workers, NEW self \in Worker,
         UNCHANGED <<jobs, attempts, checkpoints, dataBearing>>,
         workers' = [workers EXCEPT ![w] = self],
         HoldsClaim(w)' => ClaimInv(w)'
  PROVE  IInv'
<1>1. TypeOK'
  BY DEF IInv, TypeOK
<1>2. ASSUME NEW j \in Jobs PROVE JobInv(j)'
  BY DEF IInv, JobInv, OpenAttempt, Cutover, Result, Fenced, Budget, Rows, ActivateCheckpointed
<1>3. WorkersInv'
  <2> SUFFICES ASSUME NEW v \in Workers, HoldsClaim(v)' PROVE ClaimInv(v)'
    BY DEF WorkersInv
  <2>1. CASE v = w
    BY <2>1
  <2>2. CASE v # w
    <3>1. workers'[v] = workers[v]
      BY <2>2 DEF IInv, TypeOK
    <3>2. ClaimInv(v)
      BY <3>1 DEF IInv, WorkersInv, HoldsClaim
    <3> QED
      BY <3>1, <3>2 DEF ClaimInv, Current
  <2> QED
    BY <2>1, <2>2
<1> QED
  BY <1>1, <1>2, <1>3 DEF IInv


-----------------------------------------------------------------------------
(* Steps of a worker that leave the database alone.                        *)

\* A worker that leaves its claim holds none and is well typed.
LEMMA AfterClaimType ==
  ASSUME NEW w, NEW fatal
  PROVE  /\ AfterClaim(w, fatal) \in Worker
         /\ AfterClaim(w, fatal).phase \in {"idle", "stopped"}
  BY DEF AfterClaim, IdleWorker, Worker, Phases, Aborts

\* At an aborted signal a worker leaves, or goes on to fail the same claim.
LEMMA OnAbortType ==
  ASSUME NEW w, NEW self \in Worker
  PROVE  /\ OnAbort(w, self) \in Worker
         /\ \/ OnAbort(w, self).phase \in {"idle", "stopped"}
            \/ /\ OnAbort(w, self).phase = "fail"
               /\ OnAbort(w, self).job = self.job
               /\ OnAbort(w, self).token = self.token
               /\ OnAbort(w, self).seq = self.seq
<1>1. CASE self.abort = "shutdown"
  BY <1>1 DEF OnAbort, Worker, Phases
<1>2. CASE self.abort # "shutdown"
  <2>1. OnAbort(w, self) = AfterClaim(w, FALSE)
    BY <1>2 DEF OnAbort
  <2>2. AfterClaim(w, FALSE) \in Worker /\ AfterClaim(w, FALSE).phase \in {"idle", "stopped"}
    BY AfterClaimType
  <2> QED
    BY <2>1, <2>2
<1> QED
  BY <1>1, <1>2

\* Leaving a claim keeps the invariant.
LEMMA LeaveInv ==
  ASSUME IInv, NEW w \in Workers, NEW fatal, Leave(w, fatal),
         UNCHANGED <<jobs, attempts, checkpoints, dataBearing>>
  PROVE  IInv'
<1>1. ~HoldsClaim(w)'
  BY AfterClaimType DEF Leave, HoldsClaim, IInv, TypeOK
<1> QED
  BY <1>1, AfterClaimType, WorkerOnly DEF Leave

\* Reading the cancel flag changes only the worker.
LEMMA ReadControlInv ==
  ASSUME IInv, NEW w \in Workers, ReadControl(w)
  PROVE  IInv'
<1> DEFINE j == workers[w].job
           self == IF jobs[j].cancelRequested THEN [workers[w] EXCEPT !.phase = "cancel"]
                   ELSE IF workers[w].abort # "none" THEN OnAbort(w, workers[w])
                   ELSE [workers[w] EXCEPT !.phase = "execute"]
<1>1. workers' = [workers EXCEPT ![w] = self]
  BY DEF ReadControl, IInv, TypeOK
<1>2. workers[w] \in Worker /\ workers[w].phase = "control" /\ HoldsClaim(w) /\ ClaimInv(w)
  BY DEF ReadControl, HoldsClaim, IInv, TypeOK, WorkersInv
<1>3. self \in Worker
  BY <1>2, OnAbortType DEF Worker, Phases
<1>4. HoldsClaim(w)' => ClaimInv(w)'
  <2>1. workers'[w] = self
    BY <1>1 DEF IInv, TypeOK
  <2>2. HoldsClaim(w)' =>
           /\ self.job = j /\ self.token = workers[w].token /\ self.seq = workers[w].seq
           /\ self.phase \in {"cancel", "fail", "execute"}
    BY <1>2, <2>1, OnAbortType DEF HoldsClaim, Worker
  <2> QED
    BY <1>2, <2>1, <2>2 DEF ClaimInv, Current, ReadControl
<1> QED
  BY <1>1, <1>3, <1>4, WorkerOnly DEF ReadControl

\* So does the end of a stage, by a result or by an error.
LEMMA ExecuteInv ==
  ASSUME IInv, NEW w \in Workers,
         \/ \E out \in Outputs : ExecuteReturns(w, out)
         \/ \E retryable \in BOOLEAN : ExecuteThrows(w, retryable)
  PROVE  IInv'
<1>1. /\ workers[w] \in Worker /\ workers[w].phase = "execute" /\ HoldsClaim(w) /\ ClaimInv(w)
      /\ UNCHANGED <<jobs, attempts, checkpoints, dataBearing>>
  BY DEF ExecuteReturns, ExecuteThrows, HoldsClaim, IInv, TypeOK, WorkersInv
<1>2. ASSUME NEW out \in Outputs, ExecuteReturns(w, out) PROVE IInv'
  <2> DEFINE self == [workers[w] EXCEPT !.phase = "complete", !.out = out]
  <2>1. workers' = [workers EXCEPT ![w] = self]
    BY <1>2, <1>1 DEF ExecuteReturns, IInv, TypeOK, Worker
  <2>2. self \in Worker
    BY <1>1 DEF Worker, Phases
  <2>3. ClaimInv(w)'
    BY <1>1, <2>1 DEF ClaimInv, Current, IInv, TypeOK, Worker
  <2> QED
    BY <1>1, <2>1, <2>2, <2>3, WorkerOnly
<1>3. ASSUME NEW retryable \in BOOLEAN, ExecuteThrows(w, retryable) PROVE IInv'
  <2> DEFINE self == IF workers[w].abort # "none" THEN OnAbort(w, workers[w])
                     ELSE [workers[w] EXCEPT !.phase = "fail", !.retryable = retryable]
  <2>1. workers' = [workers EXCEPT ![w] = self]
    BY <1>3 DEF ExecuteThrows, IInv, TypeOK
  <2>2. self \in Worker
    BY <1>1, OnAbortType DEF Worker, Phases
  <2>3. HoldsClaim(w)' => ClaimInv(w)'
    <3>1. workers'[w] = self
      BY <2>1 DEF IInv, TypeOK
    <3>2. HoldsClaim(w)' =>
             /\ self.job = workers[w].job /\ self.token = workers[w].token
             /\ self.seq = workers[w].seq /\ self.phase = "fail"
      BY <1>1, <3>1, OnAbortType DEF HoldsClaim, Worker
    <3> QED
      BY <1>1, <3>1, <3>2 DEF ClaimInv, Current
  <2> QED
    BY <1>1, <2>1, <2>2, <2>3, WorkerOnly
<1> QED
  BY <1>2, <1>3

\* A refused or lost call makes the worker leave its claim.
LEMMA RefusedInv ==
  ASSUME IInv, NEW w \in Workers, CancelRefused(w) \/ CallFenced(w) \/ CallUnavailable(w)
  PROVE  IInv'
  BY LeaveInv DEF CancelRefused, CallFenced, CallUnavailable

\* A failed heartbeat only aborts the lease signal.
LEMMA HeartbeatFailsInv ==
  ASSUME IInv, NEW w \in Workers, HeartbeatFails(w)
  PROVE  IInv'
<1> DEFINE self == [workers[w] EXCEPT !.abort = "heartbeat"]
<1>1. workers[w] \in Worker /\ HoldsClaim(w) /\ ClaimInv(w)
  BY DEF HeartbeatFails, IInv, TypeOK, WorkersInv
<1>2. workers' = [workers EXCEPT ![w] = self] /\ self \in Worker
  BY <1>1 DEF HeartbeatFails, Worker, Aborts
<1>3. ClaimInv(w)'
  BY <1>1, <1>2 DEF ClaimInv, Current, HeartbeatFails, IInv, TypeOK, Worker
<1> QED
  BY <1>2, <1>3, WorkerOnly DEF HeartbeatFails

\* Shutdown, kill and restart change only the worker.
LEMMA ProcessInv ==
  ASSUME IInv, NEW w \in Workers, ProcessStep(w)
  PROVE  IInv'
<1>1. workers[w] \in Worker
  BY DEF IInv, TypeOK
<1>2. IdleWorker \in Worker /\ [IdleWorker EXCEPT !.phase = "stopped"] \in Worker
  BY DEF IdleWorker, Worker, Phases, Aborts
<1>3. ASSUME NEW self \in Worker, workers' = [workers EXCEPT ![w] = self],
             self.phase \in {"idle", "stopped"},
             UNCHANGED <<jobs, attempts, checkpoints, dataBearing>>
      PROVE  IInv'
  BY <1>3, WorkerOnly DEF HoldsClaim, IInv, TypeOK
<1>4. CASE Kill(w) \/ Restart(w)
  BY <1>2, <1>3, <1>4 DEF Kill, Restart, IdleWorker
<1>5. CASE Shutdown(w) /\ ~HoldsClaim(w)
  BY <1>2, <1>3, <1>5 DEF Shutdown, IdleWorker
<1>6. CASE Shutdown(w) /\ HoldsClaim(w)
  <2> DEFINE self == [workers[w] EXCEPT !.stopping = TRUE, !.abort = ShutdownReason(w)]
  <2>1. workers' = [workers EXCEPT ![w] = self]
    BY <1>6 DEF Shutdown
  <2>4. self \in Worker
    BY <1>1 DEF Worker, Aborts, ShutdownReason
  <2>2. ClaimInv(w)
    BY <1>6 DEF IInv, WorkersInv
  <2>3. ClaimInv(w)'
    BY <1>1, <1>6, <2>1, <2>2 DEF ClaimInv, Current, Shutdown, IInv, TypeOK, Worker
  <2> QED
    BY <1>6, <2>1, <2>3, <2>4, WorkerOnly DEF Shutdown
<1> QED
  BY <1>4, <1>5, <1>6 DEF ProcessStep

-----------------------------------------------------------------------------
(* Steps that write the rows of one job.                                   *)

JobPart(j) == <<jobs[j], attempts[j], checkpoints[j]>>

\* The job part of the invariant depends on the rows of that job alone.
LEMMA JobInvFrame ==
  ASSUME NEW j \in Jobs, JobInv(j), UNCHANGED JobPart(j)
  PROVE  JobInv(j)'
  BY DEF JobPart, JobInv, OpenAttempt, Cutover, Result, Fenced, Budget, Rows,
         ActivateCheckpointed

\* A step on the rows of one job need only be checked for that job and the workers.
LEMMA OneJob ==
  ASSUME IInv, TypeOK', NEW j \in Jobs, JobInv(j)', WorkersInv',
         \A k \in Jobs \ {j} : UNCHANGED JobPart(k)
  PROVE  IInv'
<1>1. ASSUME NEW k \in Jobs PROVE JobInv(k)'
  BY JobInvFrame DEF IInv
<1> QED
  BY <1>1 DEF IInv

\* Claims survive a step that lets tokens grow only, and that leaves a job
\* with a current claim its checkpoints.
LEMMA ClaimFrame ==
  ASSUME IInv, TypeOK', NEW w \in Workers, HoldsClaim(w), workers'[w] = workers[w],
         LET j == workers[w].job
         IN  /\ jobs[j].token <= jobs'[j].token
             /\ Current(w, j)' => Current(w, j) /\ checkpoints'[j] = checkpoints[j]
  PROVE  ClaimInv(w)'
<1>1. ClaimInv(w)
  BY DEF IInv, WorkersInv
<1> QED
  BY <1>1, SMTT(30) DEF ClaimInv, IInv, TypeOK, Job, Worker

\* Steps on one row that neither lease nor end anything.
LEMMA QuietRow ==
  ASSUME IInv, NEW j \in Jobs, NEW r \in Job,
         jobs' = [jobs EXCEPT ![j] = r],
         UNCHANGED <<attempts, checkpoints, workers>>,
         dataBearing' \in Projects \cup {None},
         r.token = jobs[j].token,
         r.owner = jobs[j].owner,
         r.cutover = jobs[j].cutover,
         r.result = jobs[j].result,
         r.state = "running" <=> jobs[j].state = "running",
         r.state = "succeeded" <=> jobs[j].state = "succeeded",
         r.state # "absent",
         Budget(j)'
  PROVE  IInv'
<1>1. TypeOK'
  BY DEF IInv, TypeOK
<1>2. jobs'[j] = r /\ JobInv(j)
  BY DEF IInv, TypeOK
<1>3. JobInv(j)'
  <2>1. OpenAttempt(j)'
    BY <1>2 DEF JobInv, OpenAttempt
  <2>2. Cutover(j)' /\ Result(j)'
    BY <1>2 DEF JobInv, Cutover, Result, ActivateCheckpointed
  <2>3. Fenced(j)' /\ Rows(j)'
    BY <1>2 DEF JobInv, Fenced, Rows
  <2> QED
    BY <2>1, <2>2, <2>3 DEF JobInv
<1>4. WorkersInv'
  <2> SUFFICES ASSUME NEW w \in Workers, HoldsClaim(w)' PROVE ClaimInv(w)'
    BY DEF WorkersInv
  <2>1. HoldsClaim(w) /\ workers[w].job \in Jobs
    BY DEF HoldsClaim, IInv, WorkersInv, ClaimInv
  <2>2. jobs[workers[w].job].token <= jobs'[workers[w].job].token
    <3>1. jobs[workers[w].job].token \in Nat
      BY <2>1 DEF IInv, TypeOK, Job
    <3>2. jobs'[workers[w].job].token = jobs[workers[w].job].token
      BY <1>2, <2>1 DEF IInv, TypeOK
    <3> QED
      BY <3>1, <3>2
  <2>3. Current(w, workers[w].job)' => Current(w, workers[w].job)
    BY <2>1 DEF Current, IInv, TypeOK
  <2> QED
    BY <1>1, <2>1, <2>2, <2>3, ClaimFrame
<1>5. \A k \in Jobs \ {j} : UNCHANGED JobPart(k)
  BY DEF JobPart, IInv, TypeOK
<1> QED
  BY <1>1, <1>3, <1>4, <1>5, OneJob

\* Enqueue, cancel requests and replays keep the invariant.
LEMMA QueueInv ==
  ASSUME IInv, NEW j \in Jobs, QueueStep(j)
  PROVE  IInv'
<1>1. jobs[j] \in Job /\ JobInv(j) /\ dataBearing \in Projects \cup {None}
  BY DEF IInv, TypeOK
<1>2. CASE Enqueue(j)
  <2> DEFINE r == [jobs[j] EXCEPT !.state = "queued"]
  <2>1. r \in Job /\ jobs' = [jobs EXCEPT ![j] = r]
    BY <1>1, <1>2 DEF Enqueue, Job, JobStates
  <2>2. Budget(j)'
    BY <1>1, <1>2, <2>1 DEF Enqueue, JobInv, Budget, Rows, IInv, TypeOK, Job
  <2> QED
    BY <1>1, <1>2, <2>1, <2>2, QuietRow DEF Enqueue, Job
<1>3. CASE RequestCancel(j)
  <2> DEFINE r == IF jobs[j].state = "running"
                    THEN [jobs[j] EXCEPT !.cancelRequested = TRUE]
                    ELSE [jobs[j] EXCEPT !.cancelRequested = TRUE,
                                         !.state = "cancelled", !.waitLeft = 0]
  <2>1. r \in Job /\ jobs' = [jobs EXCEPT ![j] = r]
    BY <1>1, <1>3 DEF RequestCancel, Job, JobStates
  <2>2. Budget(j)'
    BY <1>1, <1>3, <2>1 DEF RequestCancel, JobInv, Budget, IInv, TypeOK, Job
  <2>3. /\ r.token = jobs[j].token /\ r.owner = jobs[j].owner
        /\ r.cutover = jobs[j].cutover /\ r.result = jobs[j].result
        /\ r.state = "running" <=> jobs[j].state = "running"
        /\ r.state = "succeeded" <=> jobs[j].state = "succeeded"
        /\ r.state # "absent"
    BY <1>1, <1>3 DEF RequestCancel, Job
  <2> QED
    BY <1>1, <1>3, <2>1, <2>2, <2>3, QuietRow DEF RequestCancel
<1>4. CASE Replay(j)
  <2> DEFINE r == [jobs[j] EXCEPT !.state = "queued", !.waitLeft = 0, !.attemptsInCycle = 0,
                                  !.cycle = @ + 1]
  <2>1. r \in Job /\ jobs' = [jobs EXCEPT ![j] = r]
    <3>3. jobs[j].cycle + 1 \in Nat
      BY <1>1 DEF Job
    <3>1. r \in Job
      BY <1>1, <3>3 DEF Job, JobStates
    <3>2. jobs' = [jobs EXCEPT ![j] = r]
      BY <1>4 DEF Replay
    <3> QED
      BY <3>1, <3>2
  <2>2. Budget(j)'
    <3>1. jobs'[j] = r
      BY <2>1 DEF IInv, TypeOK
    <3>2. MaxAttempts * (jobs[j].cycle + 1) = MaxAttempts * jobs[j].cycle + MaxAttempts
      BY <1>1 DEF Job
    <3> QED
      BY <1>1, <3>1, <3>2 DEF JobInv, Budget, Job
  <2>3. /\ r.token = jobs[j].token /\ r.owner = jobs[j].owner
        /\ r.cutover = jobs[j].cutover /\ r.result = jobs[j].result
        /\ r.state = "queued" /\ jobs[j].state = "dead_letter"
    BY <1>1, <1>4 DEF Replay, Job
  <2> QED
    BY <1>1, <1>4, <2>1, <2>2, <2>3, QuietRow DEF Replay
<1> QED
  BY <1>2, <1>3, <1>4 DEF QueueStep

-----------------------------------------------------------------------------
(* Time, and the heartbeat.                                                *)

\* The clock only lets deadlines pass.
LEMMA TickInv ==
  ASSUME IInv, Tick
  PROVE  IInv'
<1>1. ASSUME NEW j \in Jobs
      PROVE  /\ jobs'[j] \in Job
             /\ jobs'[j].state = jobs[j].state /\ jobs'[j].token = jobs[j].token
             /\ jobs'[j].owner = jobs[j].owner /\ jobs'[j].cutover = jobs[j].cutover
             /\ jobs'[j].result = jobs[j].result /\ jobs'[j].cycle = jobs[j].cycle
             /\ jobs'[j].attemptsInCycle = jobs[j].attemptsInCycle
  <2>1. jobs[j] \in Job
    BY DEF IInv, TypeOK
  <2>2. jobs'[j] = [jobs[j] EXCEPT
                      !.leaseLeft = IF jobs[j].leaseLeft > 0 THEN jobs[j].leaseLeft - 1 ELSE 0,
                      !.waitLeft = IF jobs[j].waitLeft > 0 THEN jobs[j].waitLeft - 1 ELSE 0]
    BY DEF Tick
  <2>3. /\ (IF jobs[j].leaseLeft > 0 THEN jobs[j].leaseLeft - 1 ELSE 0) \in Nat
        /\ (IF jobs[j].waitLeft > 0 THEN jobs[j].waitLeft - 1 ELSE 0) \in Nat
    BY <2>1 DEF Job
  <2> QED
    BY <2>1, <2>2, <2>3 DEF Job
<1>2. TypeOK'
  <2>1. jobs' = [j \in Jobs |-> jobs'[j]]
    BY DEF Tick
  <2> QED
    BY <1>1, <2>1 DEF Tick, IInv, TypeOK
<1>3. ASSUME NEW j \in Jobs PROVE JobInv(j)'
  <2>1. JobInv(j) /\ UNCHANGED <<attempts, checkpoints>>
    BY DEF IInv, Tick
  <2> QED
    BY <1>1, <2>1 DEF JobInv, OpenAttempt, Cutover, Result, Fenced, Budget, Rows,
                      ActivateCheckpointed
<1>4. ASSUME NEW w \in Workers, HoldsClaim(w)' PROVE ClaimInv(w)'
  <2>1. HoldsClaim(w) /\ ClaimInv(w) /\ UNCHANGED <<workers, checkpoints>>
    BY <1>4 DEF HoldsClaim, IInv, WorkersInv, Tick
  <2> QED
    BY <1>1, <2>1 DEF ClaimInv, Current
<1> QED
  BY <1>2, <1>3, <1>4 DEF IInv, WorkersInv

\* A heartbeat extends the lease and nothing else.
LEMMA HeartbeatInv ==
  ASSUME IInv, NEW w \in Workers, NEW answered \in BOOLEAN, Heartbeat(w, answered)
  PROVE  IInv'
<1> DEFINE j == workers[w].job
           self == IF answered \/ workers[w].abort = "shutdown" THEN workers[w]
                   ELSE [workers[w] EXCEPT !.abort = "heartbeat"]
<1>1. HoldsClaim(w) /\ ClaimInv(w) /\ workers[w] \in Worker
  BY DEF Heartbeat, IInv, TypeOK, WorkersInv
<1>2. j \in Jobs /\ jobs[j] \in Job
  BY <1>1 DEF ClaimInv, IInv, TypeOK
<1>3. jobs' = [jobs EXCEPT ![j] = [jobs[j] EXCEPT !.leaseLeft = LeaseTicks]]
  BY DEF Heartbeat
<1>4. ASSUME NEW k \in Jobs
      PROVE  /\ jobs'[k] \in Job
             /\ jobs'[k].state = jobs[k].state /\ jobs'[k].token = jobs[k].token
             /\ jobs'[k].owner = jobs[k].owner /\ jobs'[k].cutover = jobs[k].cutover
             /\ jobs'[k].result = jobs[k].result /\ jobs'[k].cycle = jobs[k].cycle
             /\ jobs'[k].attemptsInCycle = jobs[k].attemptsInCycle
  BY <1>2, <1>3 DEF IInv, TypeOK, Job
<1>5. self \in Worker /\ workers' = [workers EXCEPT ![w] = self]
  BY <1>1 DEF Heartbeat, IInv, TypeOK, Worker, Aborts
<1>6. TypeOK'
  <2>1. jobs' \in [Jobs -> Job]
    BY <1>2, <1>3 DEF IInv, TypeOK, Job
  <2> QED
    BY <1>5, <2>1 DEF Heartbeat, IInv, TypeOK
<1>7. ASSUME NEW k \in Jobs PROVE JobInv(k)'
  <2>1. JobInv(k) /\ UNCHANGED <<attempts, checkpoints>>
    BY DEF IInv, Heartbeat
  <2> QED
    BY <1>4, <2>1 DEF JobInv, OpenAttempt, Cutover, Result, Fenced, Budget, Rows,
                      ActivateCheckpointed
<1>8. ASSUME NEW v \in Workers, HoldsClaim(v)' PROVE ClaimInv(v)'
  <2>1. /\ workers'[v].job = workers[v].job /\ workers'[v].token = workers[v].token
        /\ workers'[v].seq = workers[v].seq /\ workers'[v].out = workers[v].out
        /\ workers'[v].phase = workers[v].phase
    BY <1>1, <1>5 DEF IInv, TypeOK, Worker
  <2>2. ClaimInv(v) /\ UNCHANGED checkpoints
    BY <1>8, <2>1 DEF HoldsClaim, IInv, WorkersInv, Heartbeat
  <2> QED
    BY <1>4, <2>1, <2>2 DEF ClaimInv, Current
<1> QED
  BY <1>6, <1>7, <1>8 DEF IInv, WorkersInv

-----------------------------------------------------------------------------
(* Ending a claim.                                                         *)

\* Closing the newest attempt of a running job and releasing the row keeps the
\* invariant, under the conditions on the new state that each caller meets.
LEMMA EndOfClaim ==
  ASSUME IInv, NEW j \in Jobs, jobs[j].state = "running",
         NEW outcome \in AttemptStates \ {"leased"}, CloseAttempt(j, outcome),
         NEW s \in {"retry_wait", "dead_letter", "succeeded", "cancelled"},
         NEW wait \in Nat, NEW digest \in Outputs \cup {None},
         jobs' = [jobs EXCEPT ![j] = Released(j, s, wait, digest)],
         IF s = "succeeded" THEN ActivateCheckpointed(j) /\ digest = checkpoints[j][NStages].out
                            ELSE ~ActivateCheckpointed(j) /\ digest = None,
         s = "retry_wait" => jobs[j].attemptsInCycle < MaxAttempts,
         UNCHANGED <<checkpoints, dataBearing>>,
         workers' \in [Workers -> Worker],
         \A w \in Workers : HoldsClaim(w)' => workers'[w] = workers[w]
  PROVE  IInv'
<1> DEFINE r == Released(j, s, wait, digest)
           t == jobs[j].token
           e == [attempts[j][t] EXCEPT !.state = outcome]
<1>1. jobs[j] \in Job /\ JobInv(j) /\ attempts[j] \in Seq(Attempt) /\ checkpoints[j] \in Seq(Checkpoint)
  BY DEF IInv, TypeOK
<1>2. t \in 1..Len(attempts[j])
  BY <1>1 DEF JobInv, OpenAttempt, Rows, Job
<1>3. e \in Attempt /\ e.state = outcome
  <2>1. attempts[j][t] \in Attempt
    BY <1>1, <1>2, ElementOfSeq
  <2> QED
    BY <2>1 DEF Attempt
<1>4. attempts' = [attempts EXCEPT ![j] = [attempts[j] EXCEPT ![t] = e]]
  BY DEF CloseAttempt
<1>5. /\ attempts'[j] \in Seq(Attempt) /\ Len(attempts'[j]) = Len(attempts[j])
      /\ \A i \in 1..Len(attempts[j]) : attempts'[j][i] = IF i = t THEN e ELSE attempts[j][i]
  BY <1>1, <1>2, <1>3, <1>4, ExceptSeq DEF IInv, TypeOK
<1>6. /\ r \in Job /\ jobs'[j] = r
      /\ r.state = s /\ r.owner = None /\ r.token = t /\ r.result = digest
      /\ r.cutover = jobs[j].cutover /\ r.cycle = jobs[j].cycle
      /\ r.attemptsInCycle = jobs[j].attemptsInCycle
  BY <1>1 DEF Released, Job, JobStates, IInv, TypeOK
<1>7. TypeOK'
  BY <1>4, <1>5, <1>6 DEF IInv, TypeOK
<1>8. JobInv(j)'
  <2>1. OpenAttempt(j)'
    <3>1. ASSUME NEW i \in 1..Len(attempts[j]) PROVE attempts'[j][i].state # "leased"
      <4>1. CASE i = t
        <5>1. attempts'[j][i] = e
          BY <1>5, <4>1
        <5> QED
          BY <1>3, <5>1
      <4>2. CASE i # t
        <5>1. attempts'[j][i] = attempts[j][i]
          BY <1>5, <4>2
        <5> QED
          BY <1>1, <4>2, <5>1 DEF JobInv, OpenAttempt
      <4> QED
        BY <4>1, <4>2
    <3> QED
      BY <1>1, <1>5, <1>6, <3>1 DEF JobInv, OpenAttempt
  <2>2. Cutover(j)' /\ Result(j)'
    BY <1>1, <1>6 DEF JobInv, Cutover, Result, ActivateCheckpointed
  <2>3. Fenced(j)' /\ Rows(j)' /\ Budget(j)'
    BY <1>1, <1>6 DEF JobInv, Fenced, Rows, Budget
  <2> QED
    BY <2>1, <2>2, <2>3 DEF JobInv
<1>9. WorkersInv'
  <2> SUFFICES ASSUME NEW w \in Workers, HoldsClaim(w)' PROVE ClaimInv(w)'
    BY DEF WorkersInv
  <2>1. HoldsClaim(w) /\ workers'[w] = workers[w] /\ workers[w].job \in Jobs
    BY DEF HoldsClaim, IInv, WorkersInv, ClaimInv
  <2>2. jobs[workers[w].job].token \in Nat
    BY <2>1 DEF IInv, TypeOK, Job
  <2>3. jobs'[workers[w].job].token = jobs[workers[w].job].token
    BY <1>6, <2>1 DEF IInv, TypeOK
  <2>4. Current(w, workers[w].job)' => Current(w, workers[w].job)
    BY <1>6, <2>1 DEF Current, IInv, TypeOK
  <2> QED
    BY <1>7, <2>1, <2>2, <2>3, <2>4, ClaimFrame
<1>10. \A k \in Jobs \ {j} : UNCHANGED JobPart(k)
  BY <1>4 DEF JobPart, IInv, TypeOK
<1> QED
  BY <1>7, <1>8, <1>9, <1>10, OneJob

\* The backoff is a number of ticks.
LEMMA WaitType ==
  ASSUME NEW j, NEW s
  PROVE  RetryWait(j, s) \in Nat
  BY DEF RetryWait, RetryBackoff

\* An expired lease is reaped into success, retry or dead letter.
LEMMA ReapInv ==
  ASSUME IInv, NEW w \in Workers, NEW j \in Jobs, Reap(w, j)
  PROVE  IInv'
<1>1. jobs[j] \in Job /\ checkpoints[j] \in Seq(Checkpoint) /\ workers \in [Workers -> Worker]
  BY DEF IInv, TypeOK
<1>2. CASE ActivateCheckpointed(j)
  <2>1. checkpoints[j][NStages] \in Checkpoint
    BY <1>1, <1>2, ElementOfSeq DEF ActivateCheckpointed
  <2>2. checkpoints[j][NStages].out \in Outputs /\ jobs[j].waitLeft \in Nat
    BY <1>1, <2>1 DEF Checkpoint, Job
  <2> QED
    BY <1>1, <1>2, <2>2, EndOfClaim DEF Reap, ReapRow, AttemptStates
<1>3. CASE ~ActivateCheckpointed(j)
  <2> DEFINE s == RetryState(j, TRUE)
  <2>1. s \in {"retry_wait", "dead_letter"} /\ (s = "retry_wait" => jobs[j].attemptsInCycle < MaxAttempts)
    BY DEF RetryState
  <2> QED
    BY <1>1, <1>3, <2>1, WaitType, EndOfClaim DEF Reap, ReapRow, AttemptStates
<1> QED
  BY <1>2, <1>3

\* The worker that ends its claim leaves; the others are as they were.
LEMMA OthersStay ==
  ASSUME IInv, NEW w \in Workers, NEW fatal, Leave(w, fatal)
  PROVE  /\ workers' \in [Workers -> Worker]
         /\ \A v \in Workers : HoldsClaim(v)' => workers'[v] = workers[v]
  BY AfterClaimType DEF Leave, HoldsClaim, IInv, TypeOK

\* The lease CAS makes the claim current, hence its view the database's.
LEMMA HolderView ==
  ASSUME IInv, NEW w \in Workers, HoldsClaim(w), LeaseHeld(w, workers[w].job)
  PROVE  /\ workers[w].job \in Jobs
         /\ jobs[workers[w].job] \in Job
         /\ JobInv(workers[w].job)
         /\ jobs[workers[w].job].state = "running"
         /\ workers[w].seq = Len(checkpoints[workers[w].job])
         /\ ActivateCheckpointed(workers[w].job) <=> workers[w].phase = "succeed"
         /\ workers[w].phase = "succeed" =>
              /\ checkpoints[workers[w].job][NStages].out = workers[w].out
              /\ workers[w].out \in Outputs
<1>1. ClaimInv(w) /\ Current(w, workers[w].job)
  BY DEF IInv, WorkersInv, LeaseHeld, Current
<1>2. workers[w].seq \in Nat
  BY DEF IInv, TypeOK, Worker
<1> QED
  BY <1>1, <1>2 DEF ClaimInv, Current, ActivateCheckpointed, IInv, TypeOK

\* Cancelling at a safe point ends the claim of a job not cut over.
LEMMA CancelInv ==
  ASSUME IInv, NEW w \in Workers, CancelAtSafePoint(w)
  PROVE  IInv'
<1> DEFINE j == workers[w].job
<1>1. HoldsClaim(w) /\ LeaseHeld(w, j) /\ ~jobs[j].cutover
  BY DEF CancelAtSafePoint, HoldsClaim
<1>2. j \in Jobs /\ jobs[j] \in Job /\ JobInv(j) /\ jobs[j].state = "running"
  BY <1>1, HolderView
<1>3. ~ActivateCheckpointed(j)
  BY <1>1, <1>2 DEF JobInv, Cutover
<1>4. jobs[j].waitLeft \in Nat
  BY <1>2 DEF Job
<1>5. /\ CloseAttempt(j, "cancelled")
      /\ jobs' = [jobs EXCEPT ![j] = Released(j, "cancelled", jobs[j].waitLeft, None)]
      /\ Leave(w, FALSE) /\ UNCHANGED <<checkpoints, dataBearing>>
  BY DEF CancelAtSafePoint
<1>6. /\ workers' \in [Workers -> Worker]
      /\ \A v \in Workers : HoldsClaim(v)' => workers'[v] = workers[v]
  BY <1>5, OthersStay
<1> QED
  BY <1>2, <1>3, <1>4, <1>5, <1>6, EndOfClaim DEF AttemptStates

\* Success ends the claim with the digest of the activate checkpoint.
LEMMA SucceedInv ==
  ASSUME IInv, NEW w \in Workers, Succeed(w)
  PROVE  IInv'
<1> DEFINE j == workers[w].job
<1>1. HoldsClaim(w) /\ LeaseHeld(w, j) /\ workers[w].phase = "succeed"
  BY DEF Succeed, HoldsClaim
<1>2. /\ j \in Jobs /\ jobs[j] \in Job /\ jobs[j].state = "running"
      /\ ActivateCheckpointed(j) /\ checkpoints[j][NStages].out = workers[w].out
      /\ workers[w].out \in Outputs
  BY <1>1, HolderView
<1>3. jobs[j].waitLeft \in Nat
  BY <1>2 DEF Job
<1>4. /\ CloseAttempt(j, "completed")
      /\ jobs' = [jobs EXCEPT ![j] = Released(j, "succeeded", jobs[j].waitLeft, workers[w].out)]
      /\ Leave(w, FALSE) /\ UNCHANGED <<checkpoints, dataBearing>>
  BY <1>2 DEF Succeed
<1>5. /\ workers' \in [Workers -> Worker]
      /\ \A v \in Workers : HoldsClaim(v)' => workers'[v] = workers[v]
  BY <1>4, OthersStay
<1> QED
  BY <1>2, <1>3, <1>4, <1>5, EndOfClaim DEF AttemptStates

\* Failure ends the claim of a job not cut over.
LEMMA FailInv ==
  ASSUME IInv, NEW w \in Workers, Fail(w)
  PROVE  IInv'
<1> DEFINE j == workers[w].job
           s == RetryState(j, workers[w].retryable)
<1>1. HoldsClaim(w) /\ LeaseHeld(w, j) /\ workers[w].phase = "fail"
  BY DEF Fail, HoldsClaim
<1>2. j \in Jobs /\ jobs[j] \in Job /\ jobs[j].state = "running" /\ ~ActivateCheckpointed(j)
  BY <1>1, HolderView
<1>3. s \in {"retry_wait", "dead_letter"} /\ (s = "retry_wait" => jobs[j].attemptsInCycle < MaxAttempts)
  BY DEF RetryState
<1>4. /\ CloseAttempt(j, "failed")
      /\ jobs' = [jobs EXCEPT ![j] = Released(j, s, RetryWait(j, s), None)]
      /\ Leave(w, FALSE) /\ UNCHANGED <<checkpoints, dataBearing>>
  BY DEF Fail
<1>5. /\ workers' \in [Workers -> Worker]
      /\ \A v \in Workers : HoldsClaim(v)' => workers'[v] = workers[v]
  BY <1>4, OthersStay
<1> QED
  BY <1>2, <1>3, <1>4, <1>5, WaitType, EndOfClaim DEF AttemptStates

-----------------------------------------------------------------------------
(* Claiming a job.                                                         *)

\* A claim opens the one attempt of a job at rest.
LEMMA ClaimStepInv ==
  ASSUME IInv, NEW w \in Workers, NEW j \in Jobs, NEW answered \in BOOLEAN,
         Claim(w, j, answered)
  PROVE  IInv'
<1> DEFINE r == ClaimRow(w, j)
           e == [state |-> "leased", owner |-> w]
<1>1. /\ jobs[j] \in Job /\ JobInv(j) /\ jobs[j].token \in Nat
      /\ attempts[j] \in Seq(Attempt) /\ Len(attempts[j]) \in Nat
      /\ checkpoints[j] \in Seq(Checkpoint) /\ Len(checkpoints[j]) \in Nat
  BY DEF IInv, TypeOK, Job
<1>2. jobs[j].state \in {"queued", "retry_wait"} /\ workers[w].phase = "idle"
  BY DEF Claim, Claimable
<1>3. /\ r \in Job
      /\ r.state = "running" /\ r.owner = w /\ r.token = jobs[j].token + 1
      /\ r.attemptsInCycle = jobs[j].attemptsInCycle + 1 /\ r.cycle = jobs[j].cycle
      /\ r.cutover = jobs[j].cutover /\ r.result = jobs[j].result
  <2>1. jobs[j].token + 1 \in Nat /\ jobs[j].attemptsInCycle + 1 \in Nat
    BY <1>1 DEF Job
  <2> QED
    BY <1>1, <2>1 DEF ClaimRow, Job, JobStates
<1>4. jobs' = [jobs EXCEPT ![j] = r] /\ jobs'[j] = r
  BY DEF Claim, IInv, TypeOK
<1>5. e \in Attempt
  BY DEF Attempt, AttemptStates
<1>6. /\ attempts' = [attempts EXCEPT ![j] = Append(attempts[j], e)]
      /\ attempts'[j] = Append(attempts[j], e)
      /\ UNCHANGED <<checkpoints, dataBearing>>
  BY DEF Claim, IInv, TypeOK
<1>7. /\ attempts'[j] \in Seq(Attempt) /\ Len(attempts'[j]) = Len(attempts[j]) + 1
      /\ attempts'[j][Len(attempts[j]) + 1] = e
      /\ \A t \in 1..Len(attempts[j]) : attempts'[j][t] = attempts[j][t]
  BY <1>1, <1>5, <1>6
<1>8. Len(checkpoints[j]) < NStages
  BY <1>1, <1>2 DEF JobInv, Cutover, Rows, ActivateCheckpointed
<1>9. Claimed(w, j) \in Worker /\ Claimed(w, j).phase = "control" /\ Claimed(w, j).job = j
      /\ Claimed(w, j).token = jobs[j].token + 1 /\ Claimed(w, j).seq = Len(checkpoints[j])
  <2>1. Claimed(w, j) = [phase |-> "control", job |-> j, token |-> jobs[j].token + 1,
                         seq |-> Len(checkpoints[j]), out |-> None, retryable |-> FALSE,
                         abort |-> "none", stopping |-> FALSE]
    <3>1. Len(checkpoints[j]) # NStages
      BY <1>1, <1>8
    <3> QED
      BY <3>1 DEF Claimed, ActivateCheckpointed
  <2>2. jobs[j].token + 1 \in Nat
    BY <1>1
  <2> QED
    BY <1>1, <2>1, <2>2 DEF Worker, Phases, Aborts
<1>10. TypeOK'
  <2>1. workers' \in [Workers -> Worker]
    BY <1>9 DEF Claim, IInv, TypeOK
  <2> QED
    BY <1>3, <1>4, <1>6, <1>7, <2>1 DEF IInv, TypeOK
<1>11. JobInv(j)'
  <2>1. OpenAttempt(j)'
    <3>1. jobs'[j].token = Len(attempts'[j]) /\ jobs'[j].state = "running" /\ jobs'[j].owner = w
      BY <1>1, <1>3, <1>4, <1>7 DEF JobInv, OpenAttempt
    <3>2. \A t \in 1..Len(attempts[j]) : attempts'[j][t].state # "leased"
      BY <1>1, <1>2, <1>7 DEF JobInv, OpenAttempt
    <3>3. attempts'[j][jobs'[j].token].state = "leased" /\ attempts'[j][jobs'[j].token].owner = w
      BY <1>1, <1>7, <3>1
    <3>4. \A t \in 1..Len(attempts'[j]) :
             (t \in 1..Len(attempts[j]) /\ t # jobs'[j].token) \/ t = jobs'[j].token
      BY <1>1, <1>7, <3>1
    <3> QED
      BY <3>1, <3>2, <3>3, <3>4 DEF OpenAttempt
  <2>2. Cutover(j)' /\ Result(j)'
    BY <1>1, <1>2, <1>3, <1>4, <1>6 DEF JobInv, Cutover, Result, ActivateCheckpointed
  <2>3. Fenced(j)' /\ Rows(j)'
    BY <1>1, <1>3, <1>4, <1>6 DEF JobInv, Fenced, Rows
  <2>4. Budget(j)'
    <3>1. PICK m \in Nat : m = MaxAttempts * jobs[j].cycle
      BY <1>1 DEF Job
    <3>2. jobs[j].attemptsInCycle < MaxAttempts /\ jobs[j].token <= m + jobs[j].attemptsInCycle
      BY <1>1, <1>2, <3>1 DEF JobInv, Budget
    <3>3. jobs[j].attemptsInCycle + 1 <= MaxAttempts
          /\ jobs[j].token + 1 <= m + (jobs[j].attemptsInCycle + 1)
      BY <1>1, <3>2 DEF Job
    <3> QED
      BY <1>3, <1>4, <3>1, <3>3 DEF Budget
  <2> QED
    BY <2>1, <2>2, <2>3, <2>4 DEF JobInv
<1>12. WorkersInv'
  <2> SUFFICES ASSUME NEW v \in Workers, HoldsClaim(v)' PROVE ClaimInv(v)'
    BY DEF WorkersInv
  <2>1. CASE v = w /\ answered
    <3>1. workers'[v] = Claimed(w, j)
      BY <2>1 DEF Claim, IInv, TypeOK
    <3> QED
      BY <1>1, <1>3, <1>4, <1>6, <1>8, <1>9, <3>1 DEF ClaimInv, Current
  <2>2. CASE ~(v = w /\ answered)
    <3>1. workers'[v] = workers[v] /\ HoldsClaim(v)
      BY <2>2 DEF Claim, HoldsClaim, IInv, TypeOK
    <3>2. ClaimInv(v) /\ workers[v] \in Worker
      BY <3>1 DEF IInv, WorkersInv, TypeOK
    <3>3. CASE workers[v].job = j
      <4>1. workers[v].token <= jobs[j].token /\ workers[v].token \in Nat
        BY <3>2, <3>3 DEF ClaimInv, Worker
      <4>2. ~Current(v, j)'
        BY <1>1, <1>3, <1>4, <3>1, <4>1 DEF Current
      <4> QED
        BY <1>1, <1>3, <1>4, <1>10, <3>1, <3>3, <4>2, ClaimFrame
    <3>4. CASE workers[v].job # j
      <4>1. workers[v].job \in Jobs
        BY <3>2 DEF ClaimInv
      <4>2. jobs'[workers[v].job] = jobs[workers[v].job] /\ jobs[workers[v].job].token \in Nat
        BY <1>4, <3>4, <4>1 DEF IInv, TypeOK, Job
      <4>3. Current(v, workers[v].job)' => Current(v, workers[v].job)
        BY <3>1, <4>2 DEF Current
      <4> QED
        BY <1>6, <1>10, <3>1, <4>2, <4>3, ClaimFrame
    <3> QED
      BY <3>3, <3>4
  <2> QED
    BY <2>1, <2>2
<1>13. \A k \in Jobs \ {j} : UNCHANGED JobPart(k)
  BY <1>4, <1>6 DEF JobPart, IInv, TypeOK
<1> QED
  BY <1>10, <1>11, <1>12, <1>13, OneJob

-----------------------------------------------------------------------------
(* Completing a stage.                                                     *)

\* Completing a stage appends one checkpoint under the current token.
LEMMA CompleteStageInv ==
  ASSUME IInv, NEW w \in Workers, NEW answered \in BOOLEAN, CompleteStage(w, answered)
  PROVE  IInv'
<1>1. /\ HoldsClaim(w) /\ LeaseHeld(w, workers[w].job)
      /\ workers[w].phase = "complete" /\ workers[w] \in Worker
  BY DEF CompleteStage, HoldsClaim, IInv, TypeOK
<1>14. PICK j \in Jobs : j = workers[w].job
  BY <1>1, HolderView
<1> DEFINE last == workers[w].seq + 1 = NStages
           e == [token |-> workers[w].token, out |-> workers[w].out]
           r == [jobs[j] EXCEPT !.cutover = jobs[j].cutover \/ last]
<1>2. /\ jobs[j] \in Job /\ JobInv(j) /\ jobs[j].state = "running" /\ LeaseHeld(w, j)
      /\ workers[w].seq = Len(checkpoints[j]) /\ ~ActivateCheckpointed(j)
  BY <1>1, <1>14, HolderView
<1>3. /\ ClaimInv(w) /\ jobs[j].owner = w /\ jobs[j].token = workers[w].token
      /\ workers[w].token \in Nat /\ workers[w].seq \in Nat
      /\ workers[w].out \in Outputs /\ workers[w].seq < NStages
      /\ checkpoints[j] \in Seq(Checkpoint)
  BY <1>1, <1>2, <1>14 DEF IInv, WorkersInv, ClaimInv, LeaseHeld, TypeOK, Worker
<1>4. /\ checkpoints' = [checkpoints EXCEPT ![j] = Append(checkpoints[j], e)]
      /\ UNCHANGED <<attempts, dataBearing>>
      /\ workers' = [workers EXCEPT ![w] = IF answered THEN AfterStage(w) ELSE AfterClaim(w, FALSE)]
  BY <1>2, <1>14 DEF CompleteStage, StageConflict, Leave
<1>5. jobs' = [jobs EXCEPT ![j] = r]
  BY <1>2, <1>14 DEF CompleteStage, StageConflict
<1>6. e \in Checkpoint /\ checkpoints'[j] = Append(checkpoints[j], e)
  BY <1>2, <1>3, <1>4 DEF Checkpoint, IInv, TypeOK
<1>7. /\ checkpoints'[j] \in Seq(Checkpoint) /\ Len(checkpoints'[j]) = Len(checkpoints[j]) + 1
      /\ checkpoints'[j][Len(checkpoints[j]) + 1] = e
      /\ \A i \in 1..Len(checkpoints[j]) : checkpoints'[j][i] = checkpoints[j][i]
  BY <1>3, <1>6
<1>8. /\ r \in Job /\ jobs'[j] = r
      /\ r.state = "running" /\ r.owner = w /\ r.token = jobs[j].token /\ r.cycle = jobs[j].cycle
      /\ r.attemptsInCycle = jobs[j].attemptsInCycle /\ r.result = jobs[j].result
      /\ r.cutover <=> last
  <2>1. ~jobs[j].cutover
    BY <1>2 DEF JobInv, Cutover
  <2>2. r \in Job
    BY <1>2 DEF Job
  <2> QED
    BY <1>2, <1>3, <1>5, <2>1, <2>2 DEF Job, IInv, TypeOK
<1>9. /\ AfterStage(w) \in Worker
      /\ \/ AfterStage(w).phase \in {"idle", "stopped"}
         \/ /\ AfterStage(w).job = j /\ AfterStage(w).token = workers[w].token
            /\ AfterStage(w).seq = workers[w].seq + 1
            /\ \/ last /\ AfterStage(w).phase = "succeed" /\ AfterStage(w).out = workers[w].out
               \/ ~last /\ AfterStage(w).phase \in {"fail", "control"}
  <2> DEFINE self == [workers[w] EXCEPT !.seq = workers[w].seq + 1]
  <2>1. self \in Worker /\ self.seq = workers[w].seq + 1
    BY <1>1, <1>3, SMTT(30) DEF Worker
  <2>2. self.job = j /\ self.token = workers[w].token /\ self.out = workers[w].out
    BY <1>1, <1>14 DEF Worker
  <2>3. AfterStage(w) = IF self.seq = NStages THEN [self EXCEPT !.phase = "succeed"]
                        ELSE IF self.abort # "none" THEN OnAbort(w, self)
                        ELSE [self EXCEPT !.phase = "control", !.out = None]
    BY DEF AfterStage
  <2> HIDE DEF self
  <2>4. CASE last
    BY <2>1, <2>2, <2>3, <2>4 DEF Worker, Phases
  <2>5. CASE ~last /\ self.abort # "none"
    BY <2>1, <2>2, <2>3, <2>5, OnAbortType
  <2>6. CASE ~last /\ self.abort = "none"
    <3>1. AfterStage(w) = [self EXCEPT !.phase = "control", !.out = None]
      BY <2>1, <2>3, <2>6
    <3>2. /\ [self EXCEPT !.phase = "control", !.out = None] \in Worker
          /\ [self EXCEPT !.phase = "control", !.out = None].phase = "control"
          /\ [self EXCEPT !.phase = "control", !.out = None].job = self.job
          /\ [self EXCEPT !.phase = "control", !.out = None].token = self.token
          /\ [self EXCEPT !.phase = "control", !.out = None].seq = self.seq
      BY <2>1 DEF Worker, Phases
    <3> QED
      BY <2>1, <2>2, <2>6, <3>1, <3>2
  <2> QED
    BY <2>4, <2>5, <2>6
<1>10. TypeOK'
  BY <1>4, <1>5, <1>7, <1>8, <1>9, AfterClaimType DEF IInv, TypeOK
<1>11. JobInv(j)'
  <2>1. OpenAttempt(j)'
    BY <1>2, <1>4, <1>8 DEF JobInv, OpenAttempt
  <2>2. Cutover(j)' /\ Result(j)'
    BY <1>2, <1>7, <1>8 DEF JobInv, Cutover, Result, ActivateCheckpointed
  <2>3. Fenced(j)'
    <3>1. \A i \in 1..Len(checkpoints'[j]) : i \in 1..Len(checkpoints[j]) \/ i = Len(checkpoints[j]) + 1
      BY <1>3, <1>7
    <3>2. /\ jobs[j].token >= 1 /\ jobs[j].token \in Nat
          /\ checkpoints'[j][Len(checkpoints[j]) + 1].token = jobs[j].token
      BY <1>2, <1>3, <1>7 DEF JobInv, Rows
    <3>3. ASSUME NEW i \in 1..Len(checkpoints[j])
          PROVE  /\ checkpoints'[j][i].token \in 1..jobs[j].token
                 /\ \A k \in i..Len(checkpoints[j]) : checkpoints'[j][i].token <= checkpoints'[j][k].token
      <4>1. \A k \in i..Len(checkpoints[j]) : k \in 1..Len(checkpoints[j])
        BY <1>3
      <4>2. /\ checkpoints[j][i].token \in 1..jobs[j].token
            /\ \A k \in i..Len(checkpoints[j]) : checkpoints[j][i].token <= checkpoints[j][k].token
        BY <1>2 DEF JobInv, Fenced
      <4> QED
        BY <1>7, <4>1, <4>2
    <3>4. ASSUME NEW i \in 1..Len(checkpoints'[j])
          PROVE  /\ checkpoints'[j][i].token \in 1..jobs[j].token
                 /\ \A k \in i..Len(checkpoints'[j]) : checkpoints'[j][i].token <= checkpoints'[j][k].token
      <4>1. CASE i \in 1..Len(checkpoints[j])
        <5>1. \A k \in i..Len(checkpoints'[j]) :
                k \in i..Len(checkpoints[j]) \/ k = Len(checkpoints[j]) + 1
          BY <1>3, <1>7, <4>1
        <5>2. checkpoints'[j][i].token \in 1..jobs[j].token
          BY <3>3, <4>1
        <5>3. checkpoints'[j][i].token <= checkpoints'[j][Len(checkpoints[j]) + 1].token
          BY <3>2, <5>2
        <5> QED
          BY <3>3, <4>1, <5>1, <5>2, <5>3
      <4>2. CASE i = Len(checkpoints[j]) + 1
        <5>1. \A k \in i..Len(checkpoints'[j]) : k = i
          BY <1>3, <1>7, <4>2
        <5> QED
          BY <3>2, <4>2, <5>1
      <4> QED
        BY <3>1, <4>1, <4>2
    <3> QED
      BY <1>8, <3>4 DEF Fenced
  <2>4. Rows(j)' /\ Budget(j)'
    BY <1>2, <1>3, <1>7, <1>8 DEF JobInv, Rows, Budget
  <2> QED
    BY <2>1, <2>2, <2>3, <2>4 DEF JobInv
<1>12. WorkersInv'
  <2> SUFFICES ASSUME NEW v \in Workers, HoldsClaim(v)' PROVE ClaimInv(v)'
    BY DEF WorkersInv
  <2>1. CASE v = w
    <3>1. answered /\ workers'[w] = AfterStage(w) /\ AfterStage(w).phase \notin {"idle", "stopped"}
      BY <1>4, <2>1, AfterClaimType DEF HoldsClaim, IInv, TypeOK
    <3>2. /\ workers'[w].job = j /\ workers'[w].token = jobs'[j].token
          /\ workers'[w].seq = Len(checkpoints'[j])
          /\ \/ last /\ workers'[w].phase = "succeed" /\ workers'[w].out = workers[w].out
             \/ ~last /\ workers'[w].phase \in {"fail", "control"}
      BY <1>2, <1>3, <1>7, <1>8, <1>9, <3>1
    <3>3. last => checkpoints'[j][NStages].out = workers[w].out
      BY <1>2, <1>7
    <3>4. IF last THEN workers'[w].seq = NStages ELSE workers'[w].seq < NStages
      BY <1>2, <1>3, <1>7, <3>2
    <3>5. jobs'[j].token <= jobs'[j].token
      BY <1>3, <1>8
    <3> QED
      BY <1>3, <2>1, <3>2, <3>3, <3>4, <3>5 DEF ClaimInv, Current
  <2>2. CASE v # w
    <3>1. workers'[v] = workers[v] /\ HoldsClaim(v)
      BY <1>4, <2>2 DEF HoldsClaim, IInv, TypeOK
    <3>2. ClaimInv(v) /\ workers[v].job \in Jobs
      BY <3>1 DEF IInv, WorkersInv, ClaimInv
    <3>3. CASE workers[v].job = j
      <4>1. ~Current(v, workers[v].job)'
        BY <1>8, <2>2, <3>1, <3>3, ZenonT(40) DEF Current
      <4>2. jobs[workers[v].job].token <= jobs'[workers[v].job].token
        <5>1. jobs[j].token \in Nat /\ jobs'[j].token = jobs[j].token
          BY <1>3, <1>8
        <5> QED
          BY <3>3, <5>1
      <4> QED
        BY <1>10, <3>1, <4>1, <4>2, ClaimFrame
    <3>4. CASE workers[v].job # j
      <4>1. /\ jobs'[workers[v].job] = jobs[workers[v].job]
            /\ checkpoints'[workers[v].job] = checkpoints[workers[v].job]
            /\ jobs[workers[v].job].token \in Nat
        BY <1>4, <1>5, <3>2, <3>4 DEF IInv, TypeOK, Job
      <4>2. Current(v, workers[v].job)' => Current(v, workers[v].job)
        BY <3>1, <4>1 DEF Current
      <4> QED
        BY <1>10, <3>1, <4>1, <4>2, ClaimFrame
    <3> QED
      BY <3>3, <3>4
  <2> QED
    BY <2>1, <2>2
<1>13. \A k \in Jobs \ {j} : UNCHANGED JobPart(k)
  BY <1>4, <1>5 DEF JobPart, IInv, TypeOK
<1> QED
  BY <1>2, <1>10, <1>11, <1>12, <1>13, OneJob

-----------------------------------------------------------------------------
(* The invariant, and what follows from it.                                *)

\* Every step keeps the invariant.
LEMMA NextInv == IInv /\ [Next]_vars => IInv'
<1> SUFFICES ASSUME IInv, [Next]_vars PROVE IInv'
  OBVIOUS
<1>1. CASE UNCHANGED vars
  BY <1>1 DEF vars, IInv, TypeOK, JobInv, OpenAttempt, Cutover, Result, Fenced, Budget, Rows,
              ActivateCheckpointed, WorkersInv, HoldsClaim, ClaimInv, Current
<1>2. ASSUME NEW j \in Jobs, QueueStep(j) PROVE IInv'
  BY <1>2, QueueInv
<1>3. ASSUME NEW w \in Workers, WorkerStep(w) PROVE IInv'
  <2>1. ASSUME NEW j \in Jobs, Reap(w, j) PROVE IInv'
    BY <2>1, ReapInv
  <2>2. ASSUME NEW j \in Jobs, NEW answered \in BOOLEAN, Claim(w, j, answered) PROVE IInv'
    BY <2>2, ClaimStepInv
  <2>3. ASSUME NEW answered \in BOOLEAN, Heartbeat(w, answered) PROVE IInv'
    BY <2>3, HeartbeatInv
  <2>4. CASE HeartbeatFails(w)
    BY <2>4, HeartbeatFailsInv
  <2>5. CASE OperationStep(w)
    <3>1. ASSUME NEW answered \in BOOLEAN, CompleteStage(w, answered) PROVE IInv'
      BY <3>1, CompleteStageInv
    <3> QED
      BY <2>5, <3>1, ReadControlInv, CancelInv, RefusedInv, ExecuteInv, SucceedInv, FailInv
      DEF OperationStep
  <2> QED
    BY <1>3, <2>1, <2>2, <2>3, <2>4, <2>5 DEF WorkerStep
<1>4. ASSUME NEW w \in Workers, ProcessStep(w) PROVE IInv'
  BY <1>4, ProcessInv
<1> QED
  BY <1>1, <1>2, <1>3, <1>4, TickInv DEF Next

\* The inductive invariant of the queue and its workers holds in every reachable
\* state; the theorems on the queue below are read off it.
THEOREM Invariance == Spec => []IInv
  BY InitInv, NextInv, PTL DEF Spec

\* Every reachable state is well typed.
THEOREM TypeCorrect == Spec => []TypeOK
<1>1. IInv => TypeOK
  BY DEF IInv
<1> QED
  BY <1>1, Invariance, PTL

\* A job has an open attempt exactly while it runs, and only one: two workers
\* never hold leases of one job, however claims, reaps and ends of claims
\* interleave.
THEOREM AttemptsExclusive == Spec => []OneOpenAttempt
<1>1. IInv => OneOpenAttempt
  BY DEF IInv, JobInv, OneOpenAttempt
<1> QED
  BY <1>1, Invariance, PTL

\* After the cutover a job never waits, dies or is cancelled: it is running or
\* succeeded, and it succeeds with the digest it activated.
THEOREM CutoverSafe == Spec => [](CutoverIsFinal /\ ResultIsActivated)
<1>1. IInv => CutoverIsFinal /\ ResultIsActivated
  BY DEF IInv, JobInv, CutoverIsFinal, ResultIsActivated
<1> QED
  BY <1>1, Invariance, PTL

\* A job that succeeded reports the digest its activate stage produced, whether
\* a worker or the reaper finished it.
THEOREM ResultSafe == Spec => []ResultIsActivated
<1>1. IInv => ResultIsActivated
  BY DEF IInv, JobInv, ResultIsActivated
<1> QED
  BY <1>1, Invariance, PTL

\* Checkpoints carry non-decreasing fencing tokens.
THEOREM TokensFence == Spec => []CheckpointsFenced
<1>1. IInv => CheckpointsFenced
  BY DEF IInv, JobInv, CheckpointsFenced
<1> QED
  BY <1>1, Invariance, PTL

\* A worker whose lease is accepted never meets a protocol conflict.
THEOREM NoConflict == Spec => []HolderViewCurrent
<1>1. IInv => HolderViewCurrent
  BY HolderView DEF HolderViewCurrent
<1> QED
  BY <1>1, Invariance, PTL

\* The retry budget bounds the attempts of every cycle.
THEOREM BudgetKept == Spec => []RetryBudget
<1>1. IInv => RetryBudget
  BY DEF IInv, JobInv, RetryBudget
<1> QED
  BY <1>1, Invariance, PTL

-----------------------------------------------------------------------------
(* Action properties.                                                      *)

\* An unexpired lease ends only by a call of the worker that holds it.
THEOREM LeaseSafe == Spec => LeaseEndsByHolder
<1>1. ASSUME IInv, Next, NEW j \in Jobs,
             jobs[j].state = "running", jobs[j].leaseLeft > 0, jobs'[j].state # "running"
      PROVE  /\ workers[jobs[j].owner].job = j
             /\ workers[jobs[j].owner].token = jobs[j].token
             /\ workers[jobs[j].owner].phase \in {"cancel", "succeed", "fail"}
  <2>1. jobs \in [Jobs -> Job] /\ jobs[j] \in Job
    BY <1>1 DEF IInv, TypeOK
  <2>2. ASSUME NEW k \in Jobs, QueueStep(k) PROVE FALSE
    BY <1>1, <2>1, <2>2 DEF QueueStep, Enqueue, RequestCancel, Replay, Job
  <2>3. CASE Tick
    <3>1. jobs'[j] = [jobs[j] EXCEPT
                        !.leaseLeft = IF jobs[j].leaseLeft > 0 THEN jobs[j].leaseLeft - 1 ELSE 0,
                        !.waitLeft = IF jobs[j].waitLeft > 0 THEN jobs[j].waitLeft - 1 ELSE 0]
      BY <2>3 DEF Tick
    <3> QED
      BY <1>1, <2>1, <3>1 DEF Job
  <2>4. ASSUME NEW w \in Workers, WorkerStep(w) \/ ProcessStep(w)
        PROVE  \/ CancelAtSafePoint(w) /\ workers[w].job = j
               \/ Succeed(w) /\ workers[w].job = j
               \/ Fail(w) /\ workers[w].job = j
    <3>1. ~ProcessStep(w)
      BY <1>1 DEF ProcessStep, Shutdown, Kill, Restart
    <3>2. ASSUME NEW k \in Jobs, Reap(w, k) PROVE FALSE
      <4>1. k # j
        BY <1>1, <2>1, <3>2 DEF Reap, Job
      <4> QED
        BY <1>1, <2>1, <3>2, <4>1 DEF Reap, ReapRow
    <3>3. ASSUME NEW k \in Jobs, NEW answered \in BOOLEAN, Claim(w, k, answered) PROVE FALSE
      <4>1. k # j
        BY <1>1, <3>3 DEF Claim, Claimable
      <4> QED
        BY <1>1, <2>1, <3>3, <4>1 DEF Claim
    <3>4. ASSUME NEW answered \in BOOLEAN, Heartbeat(w, answered) PROVE FALSE
      <4>1. jobs' = [jobs EXCEPT ![workers[w].job] =
                       [jobs[workers[w].job] EXCEPT !.leaseLeft = LeaseTicks]]
        BY <3>4 DEF Heartbeat
      <4> QED
        BY <1>1, <2>1, <4>1 DEF Job
    <3>5. ASSUME NEW answered \in BOOLEAN, CompleteStage(w, answered) PROVE FALSE
      <4>1. \/ UNCHANGED jobs
            \/ jobs' = [jobs EXCEPT ![workers[w].job] = [jobs[workers[w].job] EXCEPT
                  !.cutover = jobs[workers[w].job].cutover \/ workers[w].seq + 1 = NStages]]
        BY <3>5 DEF CompleteStage
      <4> QED
        BY <1>1, <2>1, <4>1 DEF Job
    <3>6. CASE OperationStep(w)
      <4>1. CancelAtSafePoint(w) \/ Succeed(w) \/ Fail(w)
        BY <1>1, <3>5, <3>6
        DEF OperationStep, ReadControl, CancelRefused, ExecuteReturns, ExecuteThrows,
            CallFenced, CallUnavailable
      <4>2. workers[w].job = j
        BY <1>1, <2>1, <4>1 DEF CancelAtSafePoint, Succeed, Fail
      <4> QED
        BY <4>1, <4>2
    <3>7. ~HeartbeatFails(w)
      BY <1>1 DEF HeartbeatFails
    <3> QED
      BY <2>4, <3>1, <3>2, <3>3, <3>4, <3>6, <3>7 DEF WorkerStep
  <2> QED
    BY <1>1, <2>2, <2>3, <2>4, ZenonT(40)
    DEF Next, CancelAtSafePoint, Succeed, Fail, LeaseHeld
<1>2. IInv /\ [Next]_vars =>
        [\A j \in Jobs :
           jobs[j].state = "running" /\ jobs[j].leaseLeft > 0 /\ jobs'[j].state # "running" =>
             LET self == workers[jobs[j].owner]
             IN  /\ self.job = j
                 /\ self.token = jobs[j].token
                 /\ self.phase \in {"cancel", "succeed", "fail"}]_vars
  BY <1>1
<1> QED
  BY <1>2, Invariance, PTL DEF Spec, LeaseEndsByHolder

-----------------------------------------------------------------------------
(* What a step does to the rows of a job.                                  *)

\* The steps that write the rows of job j.
JobMove(j) ==
  \/ QueueStep(j)
  \/ \E w \in Workers :
       \/ Reap(w, j)
       \/ \E answered \in BOOLEAN : Claim(w, j, answered)
       \/ /\ j = workers[w].job
          /\ \/ \E answered \in BOOLEAN : Heartbeat(w, answered) \/ CompleteStage(w, answered)
             \/ CancelAtSafePoint(w) \/ Succeed(w) \/ Fail(w)

OthersKept(j) == \A k \in Jobs \ {j} : UNCHANGED JobPart(k)

\* A move writes the rows of one job and of no other.
LEMMA MovesOneJob ==
  ASSUME IInv, NEW j \in Jobs, JobMove(j)
  PROVE  OthersKept(j)
<1> USE DEF OthersKept, JobPart, IInv, TypeOK
<1>1. CASE QueueStep(j)
  BY <1>1 DEF QueueStep, Enqueue, RequestCancel, Replay
<1>2. ASSUME NEW w \in Workers, Reap(w, j) PROVE OthersKept(j)
  BY <1>2 DEF Reap, ReapRow, CloseAttempt
<1>3. ASSUME NEW w \in Workers, NEW answered \in BOOLEAN, Claim(w, j, answered)
      PROVE  OthersKept(j)
  BY <1>3 DEF Claim
<1>4. ASSUME NEW w \in Workers, j = workers[w].job, NEW answered \in BOOLEAN,
             Heartbeat(w, answered)
      PROVE  OthersKept(j)
  BY <1>4 DEF Heartbeat
<1>5. ASSUME NEW w \in Workers, j = workers[w].job, NEW answered \in BOOLEAN,
             CompleteStage(w, answered)
      PROVE  OthersKept(j)
  BY <1>5 DEF CompleteStage
<1>6. ASSUME NEW w \in Workers, j = workers[w].job, CancelAtSafePoint(w) \/ Succeed(w) \/ Fail(w)
      PROVE  OthersKept(j)
  BY <1>6 DEF CancelAtSafePoint, Succeed, Fail, CloseAttempt
<1> QED
  BY <1>1, <1>2, <1>3, <1>4, <1>5, <1>6 DEF JobMove

\* Every step moves one job, lets time pass, or writes no job's rows.
LEMMA StepMoves ==
  ASSUME IInv, Next
  PROVE  \/ \E j \in Jobs : JobMove(j)
         \/ Tick
         \/ UNCHANGED <<jobs, attempts, checkpoints, dataBearing>>
<1>1. ASSUME NEW j \in Jobs, QueueStep(j) PROVE JobMove(j)
  BY <1>1 DEF JobMove
<1>2. ASSUME NEW w \in Workers, WorkerStep(w)
      PROVE  \/ \E j \in Jobs : JobMove(j)
             \/ UNCHANGED <<jobs, attempts, checkpoints, dataBearing>>
  <2>1. CASE \E j \in Jobs : Reap(w, j) \/ \E answered \in BOOLEAN : Claim(w, j, answered)
    BY <2>1 DEF JobMove
  <2>2. CASE \/ \E answered \in BOOLEAN : Heartbeat(w, answered) \/ CompleteStage(w, answered)
             \/ CancelAtSafePoint(w) \/ Succeed(w) \/ Fail(w)
    <3>1. workers[w].job \in Jobs
      <4>1. HoldsClaim(w)
        BY <2>2 DEF HoldsClaim, Heartbeat, CompleteStage, CancelAtSafePoint, Succeed, Fail
      <4> QED
        BY <4>1 DEF IInv, WorkersInv, ClaimInv
    <3> QED
      BY <2>2, <3>1 DEF JobMove
  <2>3. CASE HeartbeatFails(w)
    BY <2>3 DEF HeartbeatFails
  <2>4. CASE \/ ReadControl(w) \/ CancelRefused(w) \/ CallFenced(w) \/ CallUnavailable(w)
             \/ \E out \in Outputs : ExecuteReturns(w, out)
             \/ \E retryable \in BOOLEAN : ExecuteThrows(w, retryable)
    BY <2>4 DEF ReadControl, CancelRefused, CallFenced, CallUnavailable, ExecuteReturns, ExecuteThrows
  <2> QED
    BY <1>2, <2>1, <2>2, <2>3, <2>4 DEF WorkerStep, OperationStep
<1>3. ASSUME NEW w \in Workers, ProcessStep(w)
      PROVE  UNCHANGED <<jobs, attempts, checkpoints, dataBearing>>
  BY <1>3 DEF ProcessStep, Shutdown, Kill, Restart
<1> QED
  BY <1>1, <1>2, <1>3 DEF Next

\* How the state of a job moves, with or without its checkpoints.  A move leaves the
\* job where it is, submits, cancels or reopens it, claims it, or ends its claim.
Stays(j) ==
  /\ jobs'[j].state = jobs[j].state
  /\ jobs[j].state \notin {"succeeded", "cancelled"}
  /\ checkpoints'[j] = checkpoints[j]

Advances(j) ==
  /\ jobs[j].state = "running" /\ jobs'[j].state = "running"
  /\ jobs[j].leaseLeft > 0
  /\ ~ActivateCheckpointed(j)
  /\ \E out \in Outputs :
       checkpoints'[j] = Append(checkpoints[j], [token |-> jobs[j].token, out |-> out])

Moves(j, from, to) ==
  /\ jobs[j].state \in from
  /\ jobs'[j].state = to
  /\ checkpoints'[j] = checkpoints[j]

Effect(j) ==
  \/ Stays(j)
  \/ Advances(j)
  \/ Moves(j, {"absent"}, "queued")
  \/ Moves(j, {"queued", "retry_wait", "dead_letter", "running"}, "cancelled")
       /\ ~ActivateCheckpointed(j)
  \/ Moves(j, {"dead_letter"}, "queued") /\ ~ActivateCheckpointed(j)
  \/ Moves(j, {"queued", "retry_wait"}, "running")
  \/ Moves(j, {"running"}, "succeeded") /\ ActivateCheckpointed(j)
  \/ Moves(j, {"running"}, "retry_wait")
  \/ Moves(j, {"running"}, "dead_letter") /\ ~ActivateCheckpointed(j)

\* Every move of a job is one of these.
LEMMA MoveEffect ==
  ASSUME IInv, NEW j \in Jobs, JobMove(j)
  PROVE  Effect(j)
<1>1. jobs \in [Jobs -> Job] /\ jobs[j] \in Job /\ Cutover(j)
  BY DEF IInv, TypeOK, JobInv
<1>2. ASSUME NEW s \in JobStates, NEW wait, NEW digest, jobs' = [jobs EXCEPT ![j] = Released(j, s, wait, digest)]
      PROVE  jobs'[j].state = s
  BY <1>1, <1>2 DEF Released, Job
<1>3. CASE Enqueue(j)
  BY <1>1, <1>3 DEF Enqueue, Effect, Moves, Job
<1>4. CASE RequestCancel(j)
  BY <1>1, <1>4 DEF RequestCancel, Effect, Moves, Stays, Cutover, Job
<1>5. CASE Replay(j)
  BY <1>1, <1>5 DEF Replay, Effect, Moves, Cutover, Job
<1>6. ASSUME NEW w \in Workers, Reap(w, j) PROVE Effect(j)
  <2>1. CASE ActivateCheckpointed(j)
    BY <1>2, <1>6, <2>1 DEF Reap, ReapRow, Effect, Moves, JobStates
  <2>2. CASE ~ActivateCheckpointed(j)
    BY <1>2, <1>6, <2>2 DEF Reap, ReapRow, RetryState, Effect, Moves, JobStates
  <2> QED
    BY <2>1, <2>2
<1>7. ASSUME NEW w \in Workers, NEW answered \in BOOLEAN, Claim(w, j, answered)
      PROVE  Effect(j)
  BY <1>1, <1>7 DEF Claim, Claimable, ClaimRow, Effect, Moves, Job
<1>8. ASSUME NEW w \in Workers, j = workers[w].job, NEW answered \in BOOLEAN,
             Heartbeat(w, answered)
      PROVE  Effect(j)
  <2>1. jobs' = [jobs EXCEPT ![j] = [jobs[j] EXCEPT !.leaseLeft = LeaseTicks]]
        /\ checkpoints' = checkpoints /\ jobs[j].state = "running"
    BY <1>8 DEF Heartbeat, LeaseHeld
  <2> QED
    BY <1>1, <2>1 DEF Effect, Stays, Job
<1>9. ASSUME NEW w \in Workers, j = workers[w].job, NEW answered \in BOOLEAN,
             CompleteStage(w, answered)
      PROVE  Effect(j)
  <2>1. HoldsClaim(w) /\ LeaseHeld(w, j) /\ workers[w].phase = "complete"
    BY <1>9 DEF CompleteStage, HoldsClaim
  <2>2. workers[w].seq = Len(checkpoints[j]) /\ ~ActivateCheckpointed(j)
    BY <1>9, <2>1, HolderView
  <2>3. workers[w].out \in Outputs /\ workers[w].token = jobs[j].token
    BY <2>1 DEF IInv, WorkersInv, ClaimInv, LeaseHeld
  <2>4. /\ checkpoints' = [checkpoints EXCEPT ![j] =
             Append(checkpoints[j], [token |-> workers[w].token, out |-> workers[w].out])]
        /\ jobs' = [jobs EXCEPT ![j] =
             [jobs[j] EXCEPT !.cutover = jobs[j].cutover \/ workers[w].seq + 1 = NStages]]
    BY <1>9, <2>2 DEF CompleteStage, StageConflict
  <2>5. checkpoints'[j] =
          Append(checkpoints[j], [token |-> jobs[j].token, out |-> workers[w].out])
    BY <2>3, <2>4 DEF IInv, TypeOK
  <2>6. jobs'[j].state = "running" /\ jobs[j].state = "running" /\ jobs[j].leaseLeft > 0
    BY <1>1, <2>1, <2>4 DEF LeaseHeld, Job
  <2> QED
    BY <2>2, <2>3, <2>5, <2>6 DEF Effect, Advances
<1>10. ASSUME NEW w \in Workers, j = workers[w].job, CancelAtSafePoint(w)
       PROVE  Effect(j)
  BY <1>1, <1>2, <1>10
  DEF CancelAtSafePoint, LeaseHeld, Cutover, Effect, Moves, JobStates
<1>11. ASSUME NEW w \in Workers, j = workers[w].job, Succeed(w)
       PROVE  Effect(j)
  <2>1. HoldsClaim(w) /\ LeaseHeld(w, j) /\ workers[w].phase = "succeed"
    BY <1>11 DEF Succeed, HoldsClaim
  <2>2. ActivateCheckpointed(j) /\ checkpoints[j][NStages].out = workers[w].out
    BY <1>11, <2>1, HolderView
  <2> QED
    BY <1>2, <1>11, <2>1, <2>2 DEF Succeed, LeaseHeld, Effect, Moves, JobStates
<1>12. ASSUME NEW w \in Workers, j = workers[w].job, Fail(w)
       PROVE  Effect(j)
  <2>1. HoldsClaim(w) /\ LeaseHeld(w, j) /\ workers[w].phase = "fail"
    BY <1>12 DEF Fail, HoldsClaim
  <2>2. ~ActivateCheckpointed(j)
    BY <1>12, <2>1, HolderView
  <2> QED
    BY <1>2, <1>12, <2>1, <2>2 DEF Fail, RetryState, LeaseHeld, Effect, Moves, JobStates
<1> QED
  BY <1>3, <1>4, <1>5, <1>6, <1>7, <1>8, <1>9, <1>10, <1>11, <1>12 DEF JobMove, QueueStep

-----------------------------------------------------------------------------
(* One project, and jobs that are over.                                    *)

\* A job waits only for its retry, and only a running job has a lease; every job
\* that exists belongs to the project of the guard row.
RestInv(j) ==
  /\ jobs[j].state # "running" => jobs[j].leaseLeft = 0
  /\ jobs[j].state # "retry_wait" => jobs[j].waitLeft = 0
  /\ jobs[j].state # "absent" => dataBearing = ProjectOf[j]

FullInv == IInv /\ \A j \in Jobs : RestInv(j)

\* What a move does to the deadlines of its job and to the guard row.
LEMMA MoveRest ==
  ASSUME FullInv, NEW j \in Jobs, JobMove(j)
  PROVE  RestInv(j)' /\ (dataBearing # None => dataBearing' = dataBearing)
<1>1. /\ jobs \in [Jobs -> Job] /\ jobs[j] \in Job /\ RestInv(j) /\ ProjectOf[j] \in Projects
      /\ IInv
  BY DEF FullInv, IInv, TypeOK
<1>2. ASSUME NEW s \in JobStates, NEW wait \in Nat, NEW digest, jobs[j].state = "running",
             s # "retry_wait" => wait = 0, s # "running",
             jobs' = [jobs EXCEPT ![j] = Released(j, s, wait, digest)], UNCHANGED dataBearing
      PROVE  RestInv(j)'
  BY <1>1, <1>2 DEF Released, Job, RestInv
<1>3. CASE Enqueue(j)
  BY <1>1, <1>3 DEF Enqueue, RestInv, Job
<1>4. CASE RequestCancel(j)
  BY <1>1, <1>4 DEF RequestCancel, RestInv, Job
<1>5. CASE Replay(j)
  BY <1>1, <1>5 DEF Replay, RestInv, Job
<1>6. ASSUME NEW retryable \in BOOLEAN
      PROVE  LET s == RetryState(j, retryable)
             IN s \in {"retry_wait", "dead_letter"} /\ (s # "retry_wait" => RetryWait(j, s) = 0)
  BY DEF RetryState, RetryWait
<1>7. ASSUME NEW w \in Workers, Reap(w, j) PROVE RestInv(j)' /\ UNCHANGED dataBearing
  <2>1. jobs[j].state = "running" /\ jobs[j].waitLeft = 0 /\ UNCHANGED dataBearing
    BY <1>1, <1>7 DEF Reap, RestInv
  <2>2. CASE ActivateCheckpointed(j)
    BY <1>2, <1>7, <2>1, <2>2 DEF Reap, ReapRow, JobStates
  <2>3. CASE ~ActivateCheckpointed(j)
    BY <1>2, <1>6, <1>7, <2>1, <2>3, WaitType DEF Reap, ReapRow, JobStates
  <2> QED
    BY <2>1, <2>2, <2>3
<1>8. ASSUME NEW w \in Workers, NEW answered \in BOOLEAN, Claim(w, j, answered)
      PROVE  RestInv(j)' /\ UNCHANGED dataBearing
  BY <1>1, <1>8 DEF Claim, Claimable, ClaimRow, RestInv, Job
<1>9. ASSUME NEW w \in Workers, j = workers[w].job, NEW answered \in BOOLEAN,
             Heartbeat(w, answered)
      PROVE  RestInv(j)' /\ UNCHANGED dataBearing
  BY <1>1, <1>9 DEF Heartbeat, LeaseHeld, RestInv, Job
<1>10. ASSUME NEW w \in Workers, j = workers[w].job, NEW answered \in BOOLEAN,
              CompleteStage(w, answered)
       PROVE  RestInv(j)' /\ UNCHANGED dataBearing
  <2>1. \/ UNCHANGED jobs
        \/ jobs' = [jobs EXCEPT ![j] =
             [jobs[j] EXCEPT !.cutover = jobs[j].cutover \/ workers[w].seq + 1 = NStages]]
    BY <1>10 DEF CompleteStage
  <2>2. UNCHANGED dataBearing
    BY <1>10 DEF CompleteStage
  <2> QED
    BY <1>1, <2>1, <2>2 DEF RestInv, Job
<1>11. ASSUME NEW w \in Workers, j = workers[w].job, CancelAtSafePoint(w) \/ Succeed(w)
       PROVE  RestInv(j)' /\ UNCHANGED dataBearing
  <2>1. LeaseHeld(w, j) /\ HoldsClaim(w) /\ UNCHANGED dataBearing
    BY <1>11 DEF CancelAtSafePoint, Succeed, HoldsClaim
  <2>2. jobs[j].state = "running" /\ jobs[j].waitLeft = 0
    BY <1>1, <2>1 DEF LeaseHeld, RestInv
  <2>5. jobs[j].waitLeft \in Nat
    BY <2>2
  <2>3. CASE CancelAtSafePoint(w)
    <3>1. jobs' = [jobs EXCEPT ![j] = Released(j, "cancelled", jobs[j].waitLeft, None)]
      BY <1>11, <2>3 DEF CancelAtSafePoint
    <3> QED
      BY <1>2, <2>1, <2>2, <2>5, <3>1 DEF JobStates
  <2>4. CASE Succeed(w)
    <3>1. jobs' = [jobs EXCEPT ![j] = Released(j, "succeeded", jobs[j].waitLeft, workers[w].out)]
      BY <1>1, <1>11, <2>1, <2>4, HolderView DEF Succeed
    <3> QED
      BY <1>2, <2>1, <2>2, <2>5, <3>1 DEF JobStates
  <2> QED
    BY <1>11, <2>1, <2>3, <2>4
<1>12. ASSUME NEW w \in Workers, j = workers[w].job, Fail(w)
       PROVE  RestInv(j)' /\ UNCHANGED dataBearing
  <2>1. jobs[j].state = "running" /\ UNCHANGED dataBearing /\ workers[w].retryable \in BOOLEAN
    BY <1>1, <1>12 DEF Fail, LeaseHeld, IInv, TypeOK, Worker
  <2> QED
    BY <1>2, <1>6, <1>12, <2>1, WaitType DEF Fail, JobStates
<1>13. CASE QueueStep(j)
  BY <1>1, <1>3, <1>4, <1>5, <1>13 DEF QueueStep, Enqueue, RequestCancel, Replay
<1> QED
  BY <1>7, <1>8, <1>9, <1>10, <1>11, <1>12, <1>13 DEF JobMove

\* Deadlines and the guard row keep their meaning through every step.
THEOREM FullInvariance == Spec => []FullInv
<1>1. Init => FullInv
  BY InitInv DEF Init, AbsentJob, FullInv, RestInv
<1>2. FullInv /\ [Next]_vars => FullInv'
  <2> SUFFICES ASSUME FullInv, [Next]_vars PROVE FullInv'
    OBVIOUS
  <2>1. IInv' /\ IInv
    BY NextInv DEF FullInv
  <2>2. CASE UNCHANGED <<jobs, attempts, checkpoints, dataBearing>>
    BY <2>1, <2>2 DEF FullInv, RestInv
  <2>3. CASE Tick
    <3>1. ASSUME NEW j \in Jobs PROVE RestInv(j)'
      <4>1. jobs'[j] = [jobs[j] EXCEPT
              !.leaseLeft = IF jobs[j].leaseLeft > 0 THEN jobs[j].leaseLeft - 1 ELSE 0,
              !.waitLeft = IF jobs[j].waitLeft > 0 THEN jobs[j].waitLeft - 1 ELSE 0]
        BY <2>3 DEF Tick
      <4>2. jobs[j] \in Job /\ RestInv(j) /\ UNCHANGED dataBearing
        BY <2>1, <2>3 DEF FullInv, IInv, TypeOK, Tick
      <4> QED
        BY <4>1, <4>2 DEF RestInv, Job
    <3> QED
      BY <2>1, <3>1 DEF FullInv
  <2>4. ASSUME NEW j \in Jobs, JobMove(j) PROVE FullInv'
    <3>1. RestInv(j)' /\ OthersKept(j) /\ (dataBearing # None => dataBearing' = dataBearing)
      BY <2>1, <2>4, MoveRest, MovesOneJob DEF FullInv
    <3>2. ASSUME NEW k \in Jobs \ {j} PROVE RestInv(k)'
      <4>1. jobs'[k] = jobs[k] /\ RestInv(k) /\ ProjectOf[k] # None
        BY <3>1 DEF OthersKept, JobPart, FullInv
      <4> QED
        BY <3>1, <4>1 DEF RestInv
    <3> QED
      BY <2>1, <3>1, <3>2 DEF FullInv
  <2> QED
    BY <2>1, <2>2, <2>3, <2>4, StepMoves DEF vars
<1> QED
  BY <1>1, <1>2, PTL DEF Spec

\* However requests of several projects interleave, only the first ever has jobs.
THEOREM OneProject == Spec => []OneDataBearingProject
<1>1. FullInv => OneDataBearingProject
  BY DEF FullInv, RestInv, OneDataBearingProject
<1> QED
  BY <1>1, FullInvariance, PTL

\* Only the current attempt of a running job, its lease unexpired, adds a checkpoint,
\* and it adds one.
THEOREM CheckpointsSafe == Spec => CheckpointsByHolder
<1>1. ASSUME IInv, Next, NEW j \in Jobs, checkpoints'[j] # checkpoints[j] PROVE Advances(j)
  <2>1. ~Tick
    BY <1>1 DEF Tick
  <2>2. PICK k \in Jobs : JobMove(k)
    BY <1>1, <2>1, StepMoves
  <2>3. k = j
    BY <1>1, <2>2, MovesOneJob DEF OthersKept, JobPart
  <2> QED
    BY <1>1, <2>2, <2>3, MoveEffect DEF Effect, Stays, Moves
<1>2. IInv /\ [Next]_vars =>
        [\A j \in Jobs :
           checkpoints'[j] # checkpoints[j] =>
             /\ jobs[j].state = "running" /\ jobs[j].leaseLeft > 0
             /\ \E out \in Outputs :
                  checkpoints'[j] = Append(checkpoints[j], [token |-> jobs[j].token, out |-> out])]_vars
  BY <1>1 DEF Advances
<1> QED
  BY <1>2, Invariance, PTL DEF Spec, CheckpointsByHolder

\* No late call changes a row, an attempt or a checkpoint of a job that is over.
THEOREM TerminalSafe == Spec => TerminalFrozen
<1>1. ASSUME FullInv, Next, NEW j \in Jobs, jobs[j].state \in {"succeeded", "cancelled"}
      PROVE  UNCHANGED JobPart(j)
  <2>1. ~JobMove(j)
    BY <1>1, MoveEffect DEF FullInv, Effect, Stays, Moves, Advances
  <2>2. Tick => UNCHANGED JobPart(j)
    <3> SUFFICES ASSUME Tick PROVE UNCHANGED JobPart(j)
      OBVIOUS
    <3>1. jobs'[j] = [jobs[j] EXCEPT
            !.leaseLeft = IF jobs[j].leaseLeft > 0 THEN jobs[j].leaseLeft - 1 ELSE 0,
            !.waitLeft = IF jobs[j].waitLeft > 0 THEN jobs[j].waitLeft - 1 ELSE 0]
      BY DEF Tick
    <3>2. jobs[j] \in Job /\ jobs[j].leaseLeft = 0 /\ jobs[j].waitLeft = 0
      BY <1>1 DEF FullInv, RestInv, IInv, TypeOK
    <3>3. jobs'[j] = [jobs[j] EXCEPT !.leaseLeft = jobs[j].leaseLeft,
                                     !.waitLeft = jobs[j].waitLeft]
      BY <3>1, <3>2
    <3>4. [jobs[j] EXCEPT !.leaseLeft = jobs[j].leaseLeft, !.waitLeft = jobs[j].waitLeft] = jobs[j]
      BY <3>2 DEF Job
    <3> QED
      BY <3>3, <3>4 DEF JobPart, Tick
  <2>3. ASSUME NEW k \in Jobs, JobMove(k) PROVE UNCHANGED JobPart(j)
    BY <1>1, <2>1, <2>3, MovesOneJob DEF FullInv, OthersKept
  <2> QED
    BY <1>1, <2>2, <2>3, StepMoves DEF FullInv, JobPart
<1>2. FullInv /\ [Next]_vars =>
        [\A j \in Jobs :
           jobs[j].state \in {"succeeded", "cancelled"} =>
             /\ jobs'[j] = jobs[j]
             /\ attempts'[j] = attempts[j]
             /\ checkpoints'[j] = checkpoints[j]]_vars
  BY <1>1 DEF JobPart
<1> QED
  BY <1>2, FullInvariance, PTL DEF Spec, TerminalFrozen

-----------------------------------------------------------------------------
(* The queue implements JobLedger.                                         *)

\* The ledger calls a job committed when its activate checkpoint is there.
LEMMA CommittedJob ==
  ASSUME IInv, NEW j \in Jobs
  PROVE  Ledger!Committed(j) <=> ActivateCheckpointed(j)
<1>1. checkpoints[j] \in Seq(Checkpoint) /\ Len(checkpoints[j]) \in Nat
  BY DEF IInv, TypeOK
<1>2. LedgerOutputs(j) = [i \in 1..Len(checkpoints[j]) |-> checkpoints[j][i].out]
  BY DEF LedgerOutputs
<1>3. Len(LedgerOutputs(j)) = Len(checkpoints[j])
  BY <1>1, <1>2
<1> QED
  BY <1>3 DEF Ledger!Committed, ActivateCheckpointed

\* A move that keeps the checkpoints changes at most the status of its job.
LEMMA LedgerMove ==
  ASSUME NEW j \in Jobs, OthersKept(j), checkpoints'[j] = checkpoints[j]
  PROVE  /\ [k \in Jobs |-> LedgerStatus(k)]' =
              [[k \in Jobs |-> LedgerStatus(k)] EXCEPT ![j] = LedgerStatus(j)']
         /\ UNCHANGED [k \in Jobs |-> LedgerOutputs(k)]
<1>1. \A k \in Jobs : LedgerOutputs(k)' = LedgerOutputs(k)
  BY DEF OthersKept, JobPart, LedgerOutputs
<1>2. \A k \in Jobs \ {j} : LedgerStatus(k)' = LedgerStatus(k)
  BY DEF OthersKept, JobPart, LedgerStatus
<1> QED
  BY <1>1, <1>2

\* A status that moves from one value to another is a Move of the ledger.
LEMMA LedgerStep ==
  ASSUME NEW j \in Jobs, OthersKept(j), checkpoints'[j] = checkpoints[j],
         NEW from, LedgerStatus(j) \in from
  PROVE  Ledger!Move(j, from, LedgerStatus(j)')
  BY LedgerMove DEF Ledger!Move

\* Completing a stage is an Advance of the ledger.
LEMMA LedgerAdvance ==
  ASSUME IInv, IInv', NEW j \in Jobs, OthersKept(j), Advances(j)
  PROVE  \E out \in Outputs : Ledger!Advance(j, out)
<1>1. PICK out \in Outputs :
        checkpoints'[j] = Append(checkpoints[j], [token |-> jobs[j].token, out |-> out])
  BY DEF Advances
<1>2. checkpoints[j] \in Seq(Checkpoint) /\ checkpoints'[j] \in Seq(Checkpoint)
  BY DEF IInv, TypeOK
<1> DEFINE e == [token |-> jobs[j].token, out |-> out]
           n == Len(checkpoints[j])
           old == LedgerOutputs(j)
<1>3. /\ n \in Nat /\ Len(checkpoints'[j]) = n + 1 /\ checkpoints'[j][n + 1] = e
      /\ \A i \in 1..n : checkpoints'[j][i] = checkpoints[j][i]
  <2>1. e \in Checkpoint
    BY DEF Checkpoint, IInv, TypeOK, Job
  <2> QED
    BY <1>1, <1>2, <2>1
<1>4. old = [i \in 1..n |-> checkpoints[j][i].out]
  BY DEF LedgerOutputs
<1>5. LedgerOutputs(j)' = [i \in 1..(n + 1) |-> checkpoints'[j][i].out]
  BY <1>3 DEF LedgerOutputs
<1>6. Append(old, out) = LedgerOutputs(j)'
  <2>2. \A i \in 1..n : checkpoints[j][i].out \in Outputs
    <3>1. ASSUME NEW i \in 1..n PROVE checkpoints[j][i] \in Checkpoint
      BY <1>2, ElementOfSeq
    <3> QED
      BY <3>1 DEF Checkpoint
  <2>3. \A i \in 1..(n + 1) : checkpoints'[j][i].out \in Outputs
    <3>1. ASSUME NEW i \in 1..(n + 1) PROVE checkpoints'[j][i] \in Checkpoint
      BY <1>2, <1>3, ElementOfSeq
    <3> QED
      BY <3>1 DEF Checkpoint
  <2>4. old \in Seq(Outputs) /\ Len(old) = n /\ \A i \in 1..n : old[i] = checkpoints[j][i].out
    <3>1. old \in [1..n -> Outputs]
      BY <1>4, <2>2
    <3>2. old \in Seq(Outputs)
      BY <1>3, <3>1, SeqDef, SMTT(30)
    <3> QED
      BY <1>3, <1>4, <3>2
  <2>5. /\ LedgerOutputs(j)' \in Seq(Outputs) /\ Len(LedgerOutputs(j)') = n + 1
        /\ \A i \in 1..(n + 1) : (LedgerOutputs(j)')[i] = checkpoints'[j][i].out
    <3>1. LedgerOutputs(j)' \in [1..(n + 1) -> Outputs] /\ n + 1 \in Nat
      BY <1>3, <1>5, <2>3
    <3>2. LedgerOutputs(j)' \in Seq(Outputs)
      BY <3>1, SeqDef
    <3> QED
      BY <1>5, <3>1, <3>2
  <2>6. out \in Outputs
    OBVIOUS
  <2> HIDE DEF old, n
  <2>7. /\ Append(old, out) \in Seq(Outputs) /\ Len(Append(old, out)) = n + 1
        /\ \A i \in 1..n : Append(old, out)[i] = old[i]
        /\ Append(old, out)[n + 1] = out
    BY <2>4, <2>6, AppendProperties
  <2>8. ASSUME NEW i \in 1..(n + 1) PROVE Append(old, out)[i] = (LedgerOutputs(j)')[i]
    <3>1. CASE i \in 1..n
      BY <1>3, <2>4, <2>5, <2>7, <3>1
    <3>2. CASE i = n + 1
      BY <1>3, <2>5, <2>7, <3>2
    <3>3. n \in Nat
      BY <1>3
    <3>4. i \in 1..n \/ i = n + 1
      BY <3>3
    <3> QED
      BY <3>1, <3>2, <3>4
  <2> QED
    BY <2>5, <2>7, <2>8, SeqEqual
<1>7. \A k \in Jobs \ {j} : LedgerOutputs(k)' = LedgerOutputs(k) /\ LedgerStatus(k)' = LedgerStatus(k)
  BY DEF OthersKept, JobPart, LedgerOutputs, LedgerStatus
<1>8. LedgerStatus(j) = "open" /\ LedgerStatus(j)' = "open"
  BY DEF Advances, LedgerStatus
<1>9. ~Ledger!Committed(j)
  BY CommittedJob DEF Advances
<1>10. [k \in Jobs |-> LedgerOutputs(k)]' =
         [[k \in Jobs |-> LedgerOutputs(k)] EXCEPT ![j] = Append(old, out)]
  BY <1>6, <1>7
<1>11. UNCHANGED [k \in Jobs |-> LedgerStatus(k)]
  BY <1>7, <1>8
<1> QED
  BY <1>8, <1>9, <1>10, <1>11 DEF Ledger!Advance

\* The initial state of the queue is the empty ledger.
LEMMA LedgerInitial == Init => Ledger!LedgerInit
<1> SUFFICES ASSUME Init PROVE Ledger!LedgerInit
  OBVIOUS
<1>1. \A j \in Jobs : LedgerStatus(j) = "absent"
  BY DEF Init, AbsentJob, LedgerStatus
<1>2. \A j \in Jobs : LedgerOutputs(j) = <<>>
  BY DEF Init, LedgerOutputs
<1> QED
  BY <1>1, <1>2 DEF Ledger!LedgerInit

\* Every step of the queue is a step of the ledger or leaves it as it is.
LEMMA LedgerNextStep ==
  ASSUME IInv, IInv', [Next]_vars
  PROVE  [Ledger!LedgerNext]_(Ledger!ledger)
<1>1. ASSUME \A j \in Jobs : LedgerStatus(j)' = LedgerStatus(j) /\ LedgerOutputs(j)' = LedgerOutputs(j)
      PROVE  UNCHANGED Ledger!ledger
  BY <1>1 DEF Ledger!ledger
<1>2. CASE UNCHANGED <<jobs, attempts, checkpoints, dataBearing>>
  BY <1>1, <1>2 DEF LedgerStatus, LedgerOutputs
<1>3. CASE Tick
  <2>1. ASSUME NEW j \in Jobs PROVE jobs'[j].state = jobs[j].state
    <3>1. jobs'[j] = [jobs[j] EXCEPT
            !.leaseLeft = IF jobs[j].leaseLeft > 0 THEN jobs[j].leaseLeft - 1 ELSE 0,
            !.waitLeft = IF jobs[j].waitLeft > 0 THEN jobs[j].waitLeft - 1 ELSE 0]
      BY <1>3 DEF Tick
    <3> QED
      BY <3>1 DEF IInv, TypeOK, Job
  <2> QED
    BY <1>1, <1>3, <2>1 DEF LedgerStatus, LedgerOutputs, Tick
<1>4. ASSUME NEW j \in Jobs, JobMove(j) PROVE [Ledger!LedgerNext]_(Ledger!ledger)
  <2>1. OthersKept(j) /\ Effect(j)
    BY <1>4, MovesOneJob, MoveEffect
  <2>2. Ledger!Committed(j) <=> ActivateCheckpointed(j)
    BY CommittedJob
  <2>3. CASE Advances(j)
    BY <2>1, <2>3, LedgerAdvance DEF Ledger!LedgerNext
  <2>4. CASE checkpoints'[j] = checkpoints[j] /\ LedgerStatus(j)' = LedgerStatus(j)
    BY <1>1, <2>1, <2>4 DEF OthersKept, JobPart, LedgerStatus, LedgerOutputs
  <2>5. CASE Moves(j, {"absent"}, "queued")
    <3>1. LedgerStatus(j) \in {"absent"} /\ LedgerStatus(j)' = "open" /\ checkpoints'[j] = checkpoints[j]
      BY <2>5 DEF Moves, LedgerStatus
    <3> QED
      BY <2>1, <3>1, LedgerStep DEF Ledger!LedgerNext, Ledger!Submit
  <2>6. CASE /\ Moves(j, {"queued", "retry_wait", "dead_letter", "running"}, "cancelled")
             /\ ~ActivateCheckpointed(j)
    <3>1. LedgerStatus(j) \in {"open", "dead"} /\ LedgerStatus(j)' = "cancelled" /\ checkpoints'[j] = checkpoints[j]
      BY <2>6 DEF Moves, LedgerStatus
    <3> QED
      BY <2>1, <2>2, <2>6, <3>1, LedgerStep DEF Ledger!LedgerNext, Ledger!Cancel
  <2>7. CASE Moves(j, {"dead_letter"}, "queued") /\ ~ActivateCheckpointed(j)
    <3>1. LedgerStatus(j) \in {"dead"} /\ LedgerStatus(j)' = "open" /\ checkpoints'[j] = checkpoints[j]
      BY <2>7 DEF Moves, LedgerStatus
    <3> QED
      BY <2>1, <2>2, <2>7, <3>1, LedgerStep DEF Ledger!LedgerNext, Ledger!Reopen
  <2>8. CASE Moves(j, {"running"}, "succeeded") /\ ActivateCheckpointed(j)
    <3>1. LedgerStatus(j) \in {"open"} /\ LedgerStatus(j)' = "done" /\ checkpoints'[j] = checkpoints[j]
      BY <2>8 DEF Moves, LedgerStatus
    <3> QED
      BY <2>1, <2>2, <2>8, <3>1, LedgerStep DEF Ledger!LedgerNext, Ledger!Finish
  <2>9. CASE Moves(j, {"running"}, "dead_letter") /\ ~ActivateCheckpointed(j)
    <3>1. LedgerStatus(j) \in {"open"} /\ LedgerStatus(j)' = "dead" /\ checkpoints'[j] = checkpoints[j]
      BY <2>9 DEF Moves, LedgerStatus
    <3> QED
      BY <2>1, <2>2, <2>9, <3>1, LedgerStep DEF Ledger!LedgerNext, Ledger!GiveUp
  <2>10. CASE Stays(j) \/ Moves(j, {"queued", "retry_wait"}, "running") \/ Moves(j, {"running"}, "retry_wait")
    BY <2>4, <2>10 DEF Stays, Moves, LedgerStatus
  <2> QED
    BY <2>1, <2>3, <2>5, <2>6, <2>7, <2>8, <2>9, <2>10 DEF Effect
<1> QED
  BY <1>2, <1>3, <1>4, StepMoves DEF vars

\* The queue and its workers, with their leases, retries, crashes, stale workers and
\* lost answers, implement the ledger: each stage of a job once and for good, and
\* nothing but success after the last.
THEOREM LedgerKept == Spec => KeepsLedger
<1>1. Spec => [][Ledger!LedgerNext]_(Ledger!ledger)
  BY LedgerNextStep, Invariance, PTL DEF Spec
<1>2. Spec => Ledger!LedgerInit
  BY LedgerInitial, PTL DEF Spec
<1> QED
  BY <1>1, <1>2, PTL DEF KeepsLedger, Ledger!LedgerSpec

=============================================================================
