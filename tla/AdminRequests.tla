--------------------------- MODULE AdminRequests ---------------------------
(***************************************************************************)
(* The administrator's side of materialization: requests to start, read    *)
(* and cancel a job, to approve capacity and to commit a collection plan,  *)
(* each bound to what the caller saw by an idempotency key or an If-Match  *)
(* value.  A request is authorized first and executed later, in one or two *)
(* database steps; its answer may be lost and the request sent again,      *)
(* while the worker, the scanner and other administrators go on.           *)
(*                                                                         *)
(* Source: packages/materialization-application/src/admin.ts,              *)
(* packages/materialization-postgres/src/admin.ts, apps/api/src/router.ts, *)
(* apps/api/src/errors.ts and migration 0018.                              *)
(*                                                                         *)
(* Abstractions: a job is identified by its idempotency key; updated_at is *)
(* a counter that every write to the job advances; ids, priorities, sizes  *)
(* and expiry dates satisfy their checks; the operations that only         *)
(* delegate (activate, refresh, confirm) are in the modules of the         *)
(* services they call.                                                     *)
(***************************************************************************)
EXTENDS Integers, Sequences, FiniteSets, TLAPS

CONSTANTS
  Slots,       \* requests in flight
  Operations,  \* the operations this instance's callers use
  Keys,        \* idempotency keys
  Groups,      \* accessible snapshot group versions
  Limits,      \* approved limits asked for
  MaxSends,    \* bound: requests sent
  MaxVersion,  \* bound: writes to a job
  MaxRevision, \* bound: inventory revisions
  MaxBatches,  \* batches of a collection plan
  None

VARIABLES
  jobs,       \* per key: None or [group, state, cancel, version]
  inventory,  \* [revision, measured]
  approvals,  \* set of [id, limit, revision]: capacity_approvals
  plans,      \* per plan digest: batches committed
  role,       \* the administrator's permissions
  req,        \* per slot: None or the request
  view,       \* what the client has been told: jobs, revisions, plan digests
  sends,      \* requests sent so far, which also names fresh ids
  done        \* history: what requests were answered and did

vars == <<jobs, inventory, approvals, plans, role, req, view, sends, done>>

Permission(op) == CASE op \in {"getJob", "getCapacityStatus"} -> "metadata.read"
                    [] op \in {"startJob", "cancelJob"} -> "metadata.edit"
                    [] OTHER -> "release.publish"
AllPermissions == {"metadata.read", "metadata.edit", "release.publish"}

Init ==
  /\ jobs = [k \in Keys |-> None]
  /\ inventory = [revision |-> 1, measured |-> TRUE]
  /\ approvals = {}
  /\ plans = <<>>
  /\ role = AllPermissions
  /\ req = [s \in Slots |-> None]
  /\ view = [jobs |-> {}, revisions |-> {}, plans |-> {}]
  /\ sends = 0
  /\ done = {}

-----------------------------------------------------------------------------
(* The router: a command is built from the path, the headers and the body. *)

Commands ==
  [op : {"startJob"}, key : Keys, group : Groups]
  \cup [op : {"getJob"}, key : Keys]
  \cup {[op |-> "cancelJob", key |-> v.key, ifMatch |-> v.version, saw |-> v] : v \in view.jobs}
  \cup [op : {"getCapacityStatus"}]
  \cup [op : {"approveCapacity"}, limit : Limits, ifMatch : view.revisions]
  \cup [op : {"dryRun"}]
  \cup [op : {"commit"}, plan : 1..Len(plans), ifMatch : view.plans]

Send(s, c) ==
  /\ req[s] = None /\ sends < MaxSends
  /\ c.op \in Operations
  /\ sends' = sends + 1
  /\ req' = [req EXCEPT ![s] = [cmd |-> c, phase |-> "received", id |-> sends + 1,
                                permitted |-> Permission(c.op) \in role]]
  /\ UNCHANGED <<jobs, inventory, approvals, plans, role, view, done>>

\* mapProblem: what the caller is told about each failure
Status(code) == CASE code \in {"FORBIDDEN", "OBJECT_NOT_ACCESSIBLE"} -> 404
                  [] code \in {"OBJECT_VERSION_CONFLICT", "JOB_NOT_CANCELLABLE"} -> 409
                  [] OTHER -> 200

\* the request is answered: the record of it is history, the slot is free.
\* told is what the answer adds to the client's view; it may be lost.
Answer(s, code, hit, told) ==
  /\ done' = done \cup {[cmd |-> req[s].cmd, code |-> code, status |-> Status(code), id |-> req[s].id,
                         permitted |-> req[s].permitted, hit |-> hit]}
  /\ req' = [req EXCEPT ![s] = None]
  /\ \/ view' = [jobs |-> view.jobs \cup told.jobs, revisions |-> view.revisions \cup told.revisions,
                 plans |-> view.plans \cup told.plans]
     \/ view' = view

Nothing == [jobs |-> {}, revisions |-> {}, plans |-> {}]
TellJob(k, j) == [Nothing EXCEPT !.jobs = {[key |-> k, group |-> j.group, state |-> j.state,
                                            cancel |-> j.cancel, version |-> j.version]}]

Authorize(s) ==
  /\ req[s] # None /\ req[s].phase = "received"
  /\ IF Permission(req[s].cmd.op) \in role
       THEN req' = [req EXCEPT ![s].phase = "authorized"] /\ UNCHANGED <<view, done>>
       ELSE Answer(s, "FORBIDDEN", None, Nothing)
  /\ UNCHANGED <<jobs, inventory, approvals, plans, role, sends>>

At(s, op, phase) == req[s] # None /\ req[s].phase = phase /\ req[s].cmd.op = op

-----------------------------------------------------------------------------
(* Jobs. *)

\* enqueue_materialization_job_admin: a known key answers the job it made
EnqueueJob(s) ==
  LET c == req[s].cmd
  IN /\ At(s, "startJob", "authorized")
     /\ IF jobs[c.key] = None
          THEN /\ jobs' = [jobs EXCEPT ![c.key] =
                 [group |-> c.group, state |-> "queued", cancel |-> FALSE, version |-> 1]]
               /\ req' = [req EXCEPT ![s].phase = "enqueued"]
               /\ UNCHANGED <<view, done>>
          ELSE /\ jobs' = jobs
               /\ IF jobs[c.key].group = c.group
                    THEN req' = [req EXCEPT ![s].phase = "reused"] /\ UNCHANGED <<view, done>>
                    ELSE Answer(s, "OBJECT_VERSION_CONFLICT", None, Nothing)
     /\ UNCHANGED <<inventory, approvals, plans, role, sends>>

\* #readJob after the enqueue, in a statement of its own
ReadStartedJob(s) ==
  LET k == req[s].cmd.key
  IN /\ req[s] # None /\ req[s].phase \in {"enqueued", "reused"}
     /\ Answer(s, req[s].phase, jobs[k].group, TellJob(k, jobs[k]))
     /\ UNCHANGED <<jobs, inventory, approvals, plans, role, sends>>

GetJob(s) ==
  LET k == req[s].cmd.key
  IN /\ At(s, "getJob", "authorized")
     /\ IF jobs[k] = None THEN Answer(s, "OBJECT_NOT_ACCESSIBLE", None, Nothing)
                          ELSE Answer(s, "ok", None, TellJob(k, jobs[k]))
     /\ UNCHANGED <<jobs, inventory, approvals, plans, role, sends>>

Finished(j) == j.state \in {"succeeded", "cancelled"}

Cancelled(j) == [j EXCEPT !.cancel = TRUE, !.version = @ + 1,
                          !.state = IF @ = "running" THEN @ ELSE "cancelled"]

\* Mutant of CancelJob: the version is compared with nothing
CancelJobBlindly(s) ==
  LET c == req[s].cmd
      j == jobs[c.key]
      saw == [key |-> c.key, group |-> j.group, state |-> j.state,
              cancel |-> j.cancel, version |-> j.version]
  IN /\ At(s, "cancelJob", "authorized")
     /\ IF Finished(j)
          THEN Answer(s, "JOB_NOT_CANCELLABLE", None, Nothing) /\ jobs' = jobs
          ELSE /\ jobs' = [jobs EXCEPT ![c.key] = Cancelled(j)]
               /\ Answer(s, "ok", saw, TellJob(c.key, Cancelled(j)))
     /\ UNCHANGED <<inventory, approvals, plans, role, sends>>

\* request_materialization_job_cancel_v2, and the read in its transaction
CancelJob(s) ==
  LET c == req[s].cmd
      j == jobs[c.key]
      saw == [key |-> c.key, group |-> j.group, state |-> j.state,
              cancel |-> j.cancel, version |-> j.version]
  IN /\ At(s, "cancelJob", "authorized")
     /\ CASE j.version # c.ifMatch ->
               Answer(s, "OBJECT_VERSION_CONFLICT", None, Nothing) /\ jobs' = jobs
          [] j.version = c.ifMatch /\ Finished(j) ->
               Answer(s, "JOB_NOT_CANCELLABLE", None, Nothing) /\ jobs' = jobs
          [] OTHER ->
               /\ jobs' = [jobs EXCEPT ![c.key] = Cancelled(j)]
               /\ Answer(s, "ok", saw, TellJob(c.key, Cancelled(j)))
     /\ UNCHANGED <<inventory, approvals, plans, role, sends>>

\* the worker claims, advances, finishes or loses the job; every write
\* advances updated_at
WorkerWrites(k, state) ==
  /\ jobs[k] # None /\ jobs[k].version < MaxVersion
  /\ <<jobs[k].state, state>> \in
       {<<"queued", "running">>, <<"running", "running">>, <<"running", "retry_wait">>,
        <<"retry_wait", "running">>, <<"running", "succeeded">>, <<"running", "cancelled">>}
  /\ state = "cancelled" => jobs[k].cancel
  /\ state = "succeeded" => ~jobs[k].cancel
  /\ jobs' = [jobs EXCEPT ![k].state = state, ![k].version = @ + 1]
  /\ UNCHANGED <<inventory, approvals, plans, role, req, view, sends, done>>

-----------------------------------------------------------------------------
(* Capacity. *)

GetCapacityStatus(s) ==
  /\ At(s, "getCapacityStatus", "authorized")
  /\ Answer(s, "ok", None, [Nothing EXCEPT !.revisions = {inventory.revision}])
  /\ UNCHANGED <<jobs, inventory, approvals, plans, role, sends>>

EvidenceDigest(id, c) == <<c.limit, c.ifMatch>>

\* approve_materialization_capacity
ApproveCapacity(s) ==
  LET c == req[s].cmd
      row == [id |-> req[s].id, limit |-> c.limit, revision |-> c.ifMatch,
              evidence |-> EvidenceDigest(req[s].id, c)]
      known == \E a \in approvals : a.evidence = row.evidence
  IN /\ At(s, "approveCapacity", "authorized")
     /\ IF ~inventory.measured \/ inventory.revision # c.ifMatch
          THEN Answer(s, "OBJECT_VERSION_CONFLICT", None, Nothing) /\ approvals' = approvals
          ELSE /\ approvals' = IF known THEN approvals ELSE approvals \cup {row}
               /\ Answer(s, IF known THEN "reused" ELSE "ok", None, Nothing)
     /\ UNCHANGED <<jobs, inventory, plans, role, sends>>

InventoryMoves ==
  /\ inventory.revision < MaxRevision
  /\ \E m \in BOOLEAN : inventory' = [revision |-> inventory.revision + 1, measured |-> m]
  /\ UNCHANGED <<jobs, approvals, plans, role, req, view, sends, done>>

-----------------------------------------------------------------------------
(* Collection: the binding is checked in one statement, the batch committed *)
(* in another.  A plan's digest never changes; here it is its number.       *)

DryRun(s) ==
  /\ At(s, "dryRun", "authorized")
  /\ Len(plans) < 2
  /\ plans' = Append(plans, 0)
  /\ Answer(s, "ok", None, [Nothing EXCEPT !.plans = {Len(plans')}])
  /\ UNCHANGED <<jobs, inventory, approvals, role, sends>>

AssertGcPlanBinding(s) ==
  /\ At(s, "commit", "authorized")
  /\ IF req[s].cmd.plan = req[s].cmd.ifMatch
       THEN req' = [req EXCEPT ![s].phase = "bound"] /\ UNCHANGED <<view, done>>
       ELSE Answer(s, "OBJECT_VERSION_CONFLICT", None, Nothing)
  /\ UNCHANGED <<jobs, inventory, approvals, plans, role, sends>>

CommitNext(s) ==
  LET p == req[s].cmd.plan
  IN /\ At(s, "commit", "bound")
     /\ plans' = [plans EXCEPT ![p] = IF @ < MaxBatches THEN @ + 1 ELSE @]
     /\ Answer(s, "ok", p, Nothing)
     /\ UNCHANGED <<jobs, inventory, approvals, role, sends>>

RevokeRole(p) ==
  /\ p \in role
  /\ role' = role \ {p}
  /\ UNCHANGED <<jobs, inventory, approvals, plans, req, view, sends, done>>

Next ==
  \/ \E s \in Slots : \E c \in Commands : Send(s, c)
  \/ \E s \in Slots : Authorize(s)
  \/ \E s \in Slots : EnqueueJob(s)
  \/ \E s \in Slots : ReadStartedJob(s)
  \/ \E s \in Slots : GetJob(s)
  \/ \E s \in Slots : CancelJob(s)
  \/ \E s \in Slots : GetCapacityStatus(s)
  \/ \E s \in Slots : ApproveCapacity(s)
  \/ \E s \in Slots : DryRun(s)
  \/ \E s \in Slots : AssertGcPlanBinding(s)
  \/ \E s \in Slots : CommitNext(s)
  \/ \E k \in Keys, st \in {"running", "retry_wait", "succeeded", "cancelled"} : WorkerWrites(k, st)
  \/ InventoryMoves
  \/ \E p \in AllPermissions : RevokeRole(p)

Spec == Init /\ [][Next]_vars

-----------------------------------------------------------------------------
\* The type invariant.
TypeOK ==
  /\ \A k \in Keys : jobs[k] # None =>
       /\ jobs[k].group \in Groups /\ jobs[k].version \in 1..(MaxVersion + MaxSends)
       /\ jobs[k].state \in {"queued", "running", "retry_wait", "succeeded", "cancelled"}
  /\ role \subseteq AllPermissions
  /\ \A s \in Slots : req[s] # None =>
       req[s].phase \in {"received", "authorized", "enqueued", "reused", "bound"}
  /\ \A i \in 1..Len(plans) : plans[i] \in 0..MaxBatches

\* A cancellation takes effect only on the job exactly as the caller last saw
\* it: whatever the worker wrote between the read and the cancel (a claim, a
\* heartbeat, a retry) makes it a conflict (request_materialization_job_cancel_v2).
CancelSeen ==
  \A d \in done : (d.cmd.op = "cancelJob" /\ d.code = "ok") => d.hit = d.cmd.saw

\* However often a start is sent again, its key made one job: one answer says
\* so and all the others that succeed say reused, for the same group
\* (enqueue_materialization_job_admin).
StartedOnce ==
  \A d, e \in done :
    (d.cmd.op = "startJob" /\ e.cmd.op = "startJob" /\ d.cmd.key = e.cmd.key
      /\ d.status = 200 /\ e.status = 200) =>
        /\ d.hit = e.hit /\ d.hit = d.cmd.group
        /\ (d.code = "enqueued" /\ e.code = "enqueued") => d.id = e.id

\* One decision about one measured inventory leaves one approval, whether or
\* not its answer arrived (approveCapacity, capacity_approvals_evidence_uq).
OneApprovalPerDecision ==
  \A a, b \in approvals : (a.limit = b.limit /\ a.revision = b.revision) => a = b

\* A plan's batches are committed only for a caller that presented the digest
\* of that very plan (assertGcPlanBinding).
CommitsTheSeenPlan ==
  \A d \in done : (d.cmd.op = "commit" /\ d.status = 200) => d.hit = d.cmd.ifMatch

\* A request that arrives without the permission does nothing and is told
\* the same whether its object exists or not (#authorize, mapProblem).
ForbiddenLearnsNothing == \A d \in done : ~d.permitted => d.status = 404

\* Answering an error changes nothing: the step that ends a request with a
\* failure leaves jobs, approvals and plans as they were (dependency,
\* mapAdminDatabaseError).
ErrorsChangeNothing ==
  (\E d \in done' \ done : d.status # 200) => UNCHANGED <<jobs, approvals, plans>>

-----------------------------------------------------------------------------
(* Proofs, for any slots, operations, keys, groups, limits and bounds.      *)
(*                                                                          *)
(* A job is never forgotten, keeps its group, and every write to it raises  *)
(* its version; so what a client was told of a job with the version it      *)
(* still has is what the job still is.  Only one request finds a key        *)
(* unknown: the one whose answer says that it enqueued the job.             *)

JobStates == {"queued", "running", "retry_wait", "succeeded", "cancelled"}
Job == [group : Groups, state : JobStates, cancel : BOOLEAN, version : Nat]

AdminAssumption == None \notin Job

JobsTyped == jobs \in [Keys -> Job \cup {None}]

\* A job as clients are told of it; what they were told is it or is older.
Row(k) == [key |-> k, group |-> jobs[k].group, state |-> jobs[k].state,
           cancel |-> jobs[k].cancel, version |-> jobs[k].version]
Known(v) ==
  /\ v.key \in Keys /\ jobs[v.key] # None
  /\ v.version \in Nat /\ v.version <= jobs[v.key].version
  /\ v.version = jobs[v.key].version => v = Row(v.key)

CommandSound(c) ==
  /\ c.op \in {"startJob", "getJob"} => c.key \in Keys
  /\ c.op = "startJob" => c.group \in Groups
  /\ c.op = "cancelJob" => Known(c.saw) /\ c.key = c.saw.key /\ c.ifMatch = c.saw.version

RequestSound(r) ==
  /\ r = [cmd |-> r.cmd, phase |-> r.phase, id |-> r.id, permitted |-> r.permitted]
  /\ CommandSound(r.cmd)
  /\ r.phase # "received" => r.permitted
  /\ ~r.permitted => Permission(r.cmd.op) \notin role
  /\ r.phase \in {"enqueued", "reused"} =>
       r.cmd.op = "startJob" /\ jobs[r.cmd.key] # None /\ jobs[r.cmd.key].group = r.cmd.group
  /\ r.phase = "bound" => r.cmd.op = "commit" /\ r.cmd.plan = r.cmd.ifMatch

AnswerSound(d) ==
  /\ d.cmd.op = "cancelJob" /\ d.code = "ok" => d.hit = d.cmd.saw
  /\ d.cmd.op = "startJob" /\ d.status = 200 =>
       /\ d.cmd.key \in Keys /\ jobs[d.cmd.key] # None
       /\ d.hit = jobs[d.cmd.key].group /\ d.hit = d.cmd.group
  /\ d.cmd.op = "commit" /\ d.status = 200 => d.hit = d.cmd.ifMatch
  /\ ~d.permitted => d.status = 404

\* The requests that enqueued the job of a key, answered or not.
Enqueuing(k) == {s \in Slots : req[s] # None /\ req[s].phase = "enqueued" /\ req[s].cmd.key = k}
Enqueued(k) == {d \in done : d.cmd.op = "startJob" /\ d.code = "enqueued" /\ d.cmd.key = k}
Makers(k) == {req[s].id : s \in Enqueuing(k)} \cup {d.id : d \in Enqueued(k)}
OneMaker(k) ==
  /\ \A i, j \in Makers(k) : i = j
  /\ Makers(k) # {} => jobs[k] # None

ApprovalsSound ==
  /\ \A a \in approvals : a.evidence = <<a.limit, a.revision>>
  /\ \A a, b \in approvals : a.evidence = b.evidence => a = b

IInv ==
  /\ JobsTyped
  /\ \A v \in view.jobs : Known(v)
  /\ \A s \in Slots : req[s] # None => RequestSound(req[s])
  /\ req = [s \in Slots |-> req[s]]
  /\ \A d \in done : AnswerSound(d)
  /\ \A k \in Keys : OneMaker(k)
  /\ ApprovalsSound

-----------------------------------------------------------------------------
(* Jobs only grow, and what was known of them stays known.                  *)

JobGrows(k) ==
  jobs[k] # None =>
    /\ jobs'[k] # None /\ jobs'[k].group = jobs[k].group
    /\ jobs[k].version <= jobs'[k].version
    /\ jobs'[k].version = jobs[k].version => jobs'[k] = jobs[k]
Grow == JobsTyped' /\ role' \subseteq role /\ \A k \in Keys : JobGrows(k)

LEMMA KnownStays ==
  ASSUME IInv, Grow, NEW v, Known(v)
  PROVE  Known(v)'
<1>1. /\ v.key \in Keys /\ jobs[v.key] \in Job /\ jobs'[v.key] \in Job
      /\ jobs[v.key].version \in Nat /\ jobs'[v.key].version \in Nat
  <2>1. jobs[v.key] \in Job /\ jobs'[v.key] \in Job /\ v.key \in Keys
    BY DEF IInv, Grow, JobsTyped, Known, JobGrows
  <2> QED
    BY <2>1 DEF Job
<1>2. v.version \in Nat /\ v.version <= jobs[v.key].version /\ JobGrows(v.key)
  BY DEF Known, Grow
<1>3. jobs'[v.key] # None /\ v.version <= jobs'[v.key].version
  BY <1>1, <1>2 DEF JobGrows, Known
<1>4. v.version = jobs'[v.key].version => v = Row(v.key)'
  BY <1>1, <1>2 DEF JobGrows, Known, Row
<1> QED
  BY <1>1, <1>2, <1>3, <1>4 DEF Known

LEMMA RequestStays ==
  ASSUME IInv, Grow, NEW r, RequestSound(r)
  PROVE  RequestSound(r)'
<1>1. CommandSound(r.cmd)'
  BY KnownStays DEF RequestSound, CommandSound
<1>2. ~r.permitted => Permission(r.cmd.op) \notin role'
  BY DEF RequestSound, Grow
<1>3. r.phase \in {"enqueued", "reused"} =>
        r.cmd.op = "startJob" /\ jobs'[r.cmd.key] # None /\ jobs'[r.cmd.key].group = r.cmd.group
  BY DEF RequestSound, CommandSound, Grow, JobGrows
<1> QED
  BY <1>1, <1>2, <1>3 DEF RequestSound, Permission

LEMMA AnswerStays ==
  ASSUME IInv, Grow, NEW d, AnswerSound(d)
  PROVE  AnswerSound(d)'
BY DEF AnswerSound, Grow, JobGrows

\* A step that leaves the requests to a slot, or to none, and enqueues nothing.
LEMMA RequestsStay ==
  ASSUME IInv, Grow, NEW t \in Slots, NEW r, req' = [req EXCEPT ![t] = r],
         r # None => RequestSound(r)'
  PROVE  /\ (\A s \in Slots : req[s] # None => RequestSound(req[s]))'
         /\ (req = [s \in Slots |-> req[s]])'
         /\ req'[t] = r /\ \A s \in Slots \ {t} : req'[s] = req[s]
<1>1. DOMAIN req = Slots
  BY DEF IInv
<1>2. req'[t] = r /\ \A s \in Slots \ {t} : req'[s] = req[s]
  BY <1>1
<1>3. req' = [s \in Slots |-> req'[s]]
  BY <1>1
<1>4. ASSUME NEW s \in Slots, req'[s] # None PROVE RequestSound(req[s])'
  <2>1. PICK y : y = req'[s]
    OBVIOUS
  <2>2. CASE s = t
    <3>1. RequestSound(y)'
      BY <1>2, <1>4, <2>1, <2>2
    <3> QED
      BY <2>1, <3>1 DEF RequestSound
  <2>3. CASE s # t
    <3>1. RequestSound(y)
      BY <1>2, <1>4, <2>1, <2>3 DEF IInv
    <3>2. RequestSound(y)'
      BY <3>1, RequestStays
    <3> QED
      BY <2>1, <3>2 DEF RequestSound
  <2> QED
    BY <2>2, <2>3
<1> QED
  BY <1>2, <1>3, <1>4

LEMMA MakersStay ==
  ASSUME NEW k \in Keys, OneMaker(k), JobGrows(k), Makers(k)' \subseteq Makers(k)
  PROVE  OneMaker(k)'
BY DEF OneMaker, JobGrows

LEMMA ViewStays ==
  ASSUME IInv, Grow, \A v \in view'.jobs : v \in view.jobs \/ Known(v)'
  PROVE  (\A v \in view.jobs : Known(v))'
BY KnownStays DEF IInv

LEMMA HistoryStays ==
  ASSUME IInv, Grow, NEW d, AnswerSound(d)', done' \subseteq done \cup {d}
  PROVE  (\A e \in done : AnswerSound(e))'
BY AnswerStays DEF IInv

-----------------------------------------------------------------------------
(* The kinds of steps.                                                      *)

\* The worker, the scanner and those who administer roles.
LEMMA WorldStep ==
  ASSUME IInv, Grow, ApprovalsSound', req' = req, view' = view, done' = done
  PROVE  IInv'
<1>1. (\A v \in view.jobs : Known(v))'
  BY ViewStays
<1>2. ASSUME NEW s \in Slots, req'[s] # None PROVE RequestSound(req[s])'
  <2>1. PICK y : y = req[s]
    OBVIOUS
  <2>2. RequestSound(y)
    BY <1>2, <2>1 DEF IInv
  <2>3. RequestSound(y)'
    BY <2>2, RequestStays
  <2> QED
    BY <2>1, <2>3 DEF RequestSound
<1>3. (req = [s \in Slots |-> req[s]])'
  BY DEF IInv
<1>4. ASSUME NEW d \in done' PROVE AnswerSound(d)'
  BY <1>4, AnswerStays DEF IInv
<1>5. ASSUME NEW k \in Keys PROVE OneMaker(k)'
  <2>1. Makers(k)' = Makers(k)
    BY DEF Makers, Enqueuing, Enqueued
  <2> QED
    BY <2>1, MakersStay DEF IInv, Grow
<1> QED
  BY <1>1, <1>2, <1>3, <1>4, <1>5 DEF IInv, Grow

\* A request is sent, authorized or bound.
LEMMA AdvanceStep ==
  ASSUME IInv, Grow, ApprovalsSound', view' = view, done' = done,
         NEW t \in Slots, NEW r, req' = [req EXCEPT ![t] = r],
         RequestSound(r)', r.phase # "enqueued"
  PROVE  IInv'
<1>1. (\A v \in view.jobs : Known(v))'
  BY ViewStays
<1>2. /\ (\A s \in Slots : req[s] # None => RequestSound(req[s]))'
      /\ (req = [s \in Slots |-> req[s]])'
      /\ req'[t] = r /\ \A s \in Slots \ {t} : req'[s] = req[s]
  BY RequestsStay
<1>3. ASSUME NEW d \in done' PROVE AnswerSound(d)'
  BY <1>3, AnswerStays DEF IInv
<1>4. ASSUME NEW k \in Keys PROVE OneMaker(k)'
  <2>1. Makers(k)' \subseteq Makers(k)
    BY <1>2 DEF Makers, Enqueuing, Enqueued
  <2> QED
    BY <2>1, MakersStay DEF IInv, Grow
<1> QED
  BY <1>1, <1>2, <1>3, <1>4 DEF IInv, Grow

Told(s, code, hit) ==
  [cmd |-> req[s].cmd, code |-> code, status |-> Status(code), id |-> req[s].id,
   permitted |-> req[s].permitted, hit |-> hit]

\* A request is answered.
LEMMA AnswerStep ==
  ASSUME IInv, Grow, ApprovalsSound', NEW t \in Slots, req[t] # None,
         NEW code, NEW hit, NEW told, Answer(t, code, hit, told),
         NEW d, d = Told(t, code, hit), AnswerSound(d)',
         \A v \in told.jobs : Known(v)',
         code = "enqueued" => req[t].phase = "enqueued"
  PROVE  IInv'
<1>1. done' = done \cup {d} /\ req' = [req EXCEPT ![t] = None]
  BY DEF Answer, Told
<1>2. (\A v \in view.jobs : Known(v))'
  <2>1. \A v \in view'.jobs : v \in view.jobs \/ v \in told.jobs
    BY DEF Answer
  <2> QED
    BY <2>1, ViewStays
<1>3. /\ (\A s \in Slots : req[s] # None => RequestSound(req[s]))'
      /\ (req = [s \in Slots |-> req[s]])'
      /\ req'[t] = None /\ \A s \in Slots \ {t} : req'[s] = req[s]
  BY <1>1, RequestsStay
<1>4. (\A e \in done : AnswerSound(e))'
  BY <1>1, HistoryStays
<1>5. ASSUME NEW k \in Keys PROVE OneMaker(k)'
  <2>1. ASSUME NEW i \in Makers(k)' PROVE i \in Makers(k)
    <3>1. CASE i \in {req[s].id : s \in Enqueuing(k)}'
      <4>1. PICK s \in Slots : /\ req'[s] # None /\ req'[s].phase = "enqueued"
                               /\ req'[s].cmd.key = k /\ i = req'[s].id
        BY <3>1 DEF Enqueuing
      <4>2. s # t /\ req'[s] = req[s]
        BY <1>3, <4>1
      <4> QED
        BY <4>1, <4>2 DEF Makers, Enqueuing
    <3>2. CASE i \in {e.id : e \in Enqueued(k)}'
      <4>1. PICK e \in done' : /\ e.cmd.op = "startJob" /\ e.code = "enqueued"
                               /\ e.cmd.key = k /\ i = e.id
        BY <3>2 DEF Enqueued
      <4>2. CASE e \in done
        BY <4>1, <4>2 DEF Makers, Enqueued
      <4>3. CASE e = d
        <5>1. /\ req[t].phase = "enqueued" /\ req[t].cmd.key = k /\ i = req[t].id
          BY <4>1, <4>3 DEF Told
        <5> QED
          BY <5>1 DEF Makers, Enqueuing
      <4> QED
        BY <1>1, <4>1, <4>2, <4>3
    <3> QED
      BY <2>1, <3>1, <3>2 DEF Makers
  <2> QED
    BY <2>1, MakersStay DEF IInv, Grow
<1> QED
  BY <1>2, <1>3, <1>4, <1>5 DEF IInv, Grow

\* Where the jobs and roles stay, they grow.
LEMMA Still ==
  ASSUME IInv, UNCHANGED jobs, role' \subseteq role
  PROVE  Grow
<1>1. ASSUME NEW k \in Keys PROVE JobGrows(k)
  <2>1. jobs[k] # None => jobs[k].version \in Nat
    BY DEF IInv, JobsTyped, Job
  <2> QED
    BY <2>1 DEF JobGrows
<1> QED
  BY <1>1 DEF Grow, IInv, JobsTyped

\* A job is created, or written with a higher version.
LEMMA Written ==
  ASSUME AdminAssumption, IInv, NEW k \in Keys, NEW j \in Job, jobs' = [jobs EXCEPT ![k] = j],
         UNCHANGED role,
         jobs[k] # None => j.group = jobs[k].group /\ j.version > jobs[k].version
  PROVE  Grow /\ jobs'[k] = j /\ j # None
<1>1. jobs \in [Keys -> Job \cup {None}] /\ j # None
  BY DEF IInv, JobsTyped, AdminAssumption
<1>2. jobs'[k] = j /\ \A i \in Keys \ {k} : jobs'[i] = jobs[i]
  BY <1>1
<1>3. JobsTyped'
  BY <1>1 DEF JobsTyped
<1>4. ASSUME NEW i \in Keys PROVE JobGrows(i)
  <2>1. jobs[i] # None => jobs[i].version \in Nat
    BY <1>1 DEF Job
  <2>2. j.version \in Nat
    BY DEF Job
  <2> QED
    BY <1>1, <1>2, <2>1, <2>2 DEF JobGrows
<1> QED
  BY <1>1, <1>2, <1>3, <1>4 DEF Grow

\* Past its authorization, a request was permitted.
LEMMA Authorized ==
  ASSUME IInv, NEW s \in Slots, req[s] # None, req[s].phase # "received"
  PROVE  /\ RequestSound(req[s]) /\ req[s].permitted
         /\ req[s] = [cmd |-> req[s].cmd, phase |-> req[s].phase, id |-> req[s].id,
                      permitted |-> req[s].permitted]
BY DEF IInv, RequestSound

LEMMA Statuses ==
  /\ Status("ok") = 200 /\ Status("enqueued") = 200 /\ Status("reused") = 200
  /\ Status("FORBIDDEN") = 404 /\ Status("OBJECT_NOT_ACCESSIBLE") = 404
  /\ Status("OBJECT_VERSION_CONFLICT") = 409 /\ Status("JOB_NOT_CANCELLABLE") = 409
BY DEF Status

\* An error that is answered says and does nothing.
LEMMA ErrorStep ==
  ASSUME IInv, Grow, ApprovalsSound', NEW s \in Slots, req[s] # None,
         NEW code, Status(code) \in {404, 409}, Status(code) = 404 \/ req[s].permitted,
         NEW hit, Answer(s, code, hit, Nothing)
  PROVE  IInv'
<1>1. code # "ok" /\ code # "enqueued" /\ Status(code) # 200
  BY Statuses
<1>2. PICK d : d = Told(s, code, hit)
  OBVIOUS
<1>3. /\ d.code = code /\ d.status = Status(code) /\ d.permitted = req[s].permitted
  BY <1>2 DEF Told
<1>4. AnswerSound(d)'
  BY <1>1, <1>3 DEF AnswerSound
<1>5. \A v \in Nothing.jobs : Known(v)'
  BY DEF Nothing
<1> QED
  BY <1>1, <1>2, <1>4, <1>5, AnswerStep

\* So does an answer that only tells of revisions, plans or batches.
LEMMA PlainStep ==
  ASSUME IInv, Grow, ApprovalsSound', NEW s \in Slots, req[s] # None,
         req[s].phase # "received", req[s].cmd.op \notin {"startJob", "cancelJob"},
         NEW code \in {"ok", "reused"}, NEW hit, NEW told, Answer(s, code, hit, told),
         told.jobs = {}, req[s].cmd.op = "commit" => hit = req[s].cmd.ifMatch
  PROVE  IInv'
<1>1. PICK d : d = Told(s, code, hit)
  OBVIOUS
<1>2. d.cmd = req[s].cmd /\ d.permitted = req[s].permitted /\ d.hit = hit
  BY <1>1 DEF Told
<1>3. req[s].permitted
  BY Authorized
<1>4. AnswerSound(d)'
  BY <1>2, <1>3 DEF AnswerSound
<1> QED
  BY <1>1, <1>4, AnswerStep

\* A job that is there is known as what it is.
LEMMA RowKnown ==
  ASSUME IInv, NEW k \in Keys, jobs[k] # None
  PROVE  Known(Row(k))
<1>1. jobs[k] \in Job /\ jobs[k].version \in Nat
  BY DEF IInv, JobsTyped, Job
<1> QED
  BY <1>1 DEF Known, Row

-----------------------------------------------------------------------------
(* One lemma for each action.                                               *)

LEMMA SendStep ==
  ASSUME IInv, NEW s \in Slots, NEW c \in Commands, Send(s, c)
  PROVE  IInv'
<1>1. /\ jobs' = jobs /\ role' = role /\ view' = view /\ done' = done /\ approvals' = approvals
      /\ req' = [req EXCEPT ![s] = [cmd |-> c, phase |-> "received", id |-> sends + 1,
                                    permitted |-> Permission(c.op) \in role]]
  BY DEF Send
<1>2. Grow /\ ApprovalsSound'
  BY <1>1, Still DEF IInv, ApprovalsSound
<1>3. CommandSound(c)
  <2>1. CASE c \in [op : {"startJob"}, key : Keys, group : Groups] \cup [op : {"getJob"}, key : Keys]
    BY <2>1 DEF CommandSound
  <2>2. CASE c \in {[op |-> "cancelJob", key |-> v.key, ifMatch |-> v.version, saw |-> v] :
                      v \in view.jobs}
    BY <2>2 DEF CommandSound, IInv
  <2>3. CASE \/ c \in [op : {"getCapacityStatus"}]
             \/ c \in [op : {"approveCapacity"}, limit : Limits, ifMatch : view.revisions]
             \/ c \in [op : {"dryRun"}]
             \/ c \in [op : {"commit"}, plan : 1..Len(plans), ifMatch : view.plans]
    BY <2>3 DEF CommandSound
  <2> QED
    BY <2>1, <2>2, <2>3 DEF Commands
<1>4. PICK r : r = [cmd |-> c, phase |-> "received", id |-> sends + 1,
                    permitted |-> Permission(c.op) \in role]
  OBVIOUS
<1>5. RequestSound(r)
  BY <1>3, <1>4 DEF RequestSound
<1>6. RequestSound(r)' /\ r.phase # "enqueued"
  BY <1>2, <1>4, <1>5, RequestStays
<1> QED
  BY <1>1, <1>2, <1>4, <1>6, AdvanceStep

LEMMA AuthorizeStep ==
  ASSUME IInv, NEW s \in Slots, Authorize(s)
  PROVE  IInv'
<1>1. jobs' = jobs /\ role' = role /\ approvals' = approvals /\ req[s] # None
  BY DEF Authorize
<1>2. Grow /\ ApprovalsSound'
  BY <1>1, Still DEF IInv, ApprovalsSound
<1>3. RequestSound(req[s]) /\ req[s].phase = "received"
  BY <1>1 DEF IInv, Authorize
<1>4. CASE Permission(req[s].cmd.op) \in role
  <2>1. view' = view /\ done' = done /\ req' = [req EXCEPT ![s].phase = "authorized"]
    BY <1>4 DEF Authorize
  <2>2. PICK r : r = [req[s] EXCEPT !.phase = "authorized"]
    OBVIOUS
  <2>3. /\ r = [cmd |-> req[s].cmd, phase |-> "authorized", id |-> req[s].id,
                permitted |-> req[s].permitted]
        /\ req' = [req EXCEPT ![s] = r]
    BY <1>3, <2>1, <2>2 DEF RequestSound
  <2>4. RequestSound(r)
    BY <1>3, <1>4, <2>3 DEF RequestSound
  <2>5. RequestSound(r)' /\ r.phase # "enqueued"
    BY <1>2, <2>3, <2>4, RequestStays
  <2> QED
    BY <1>2, <2>1, <2>3, <2>5, AdvanceStep
<1>5. CASE Permission(req[s].cmd.op) \notin role
  <2>1. Answer(s, "FORBIDDEN", None, Nothing)
    BY <1>5 DEF Authorize
  <2> QED
    BY <1>1, <1>2, <2>1, Statuses, ErrorStep
<1> QED
  BY <1>4, <1>5

LEMMA EnqueueStep ==
  ASSUME AdminAssumption, IInv, NEW s \in Slots, EnqueueJob(s)
  PROVE  IInv'
<1> DEFINE c == req[s].cmd
<1>1. /\ req[s] # None /\ req[s].phase = "authorized" /\ c.op = "startJob"
      /\ role' = role /\ approvals' = approvals
  BY DEF EnqueueJob, At
<1>2. /\ RequestSound(req[s]) /\ req[s].permitted
      /\ req[s] = [cmd |-> c, phase |-> "authorized", id |-> req[s].id,
                   permitted |-> req[s].permitted]
      /\ c.key \in Keys /\ c.group \in Groups
  <2>1. RequestSound(req[s]) /\ req[s].permitted
    BY <1>1, Authorized
  <2> QED
    BY <1>1, <2>1 DEF RequestSound, CommandSound
<1>3. ApprovalsSound'
  BY <1>1 DEF IInv, ApprovalsSound
<1>4. CASE jobs[c.key] = None
  <2>1. PICK j \in Job : /\ j = [group |-> c.group, state |-> "queued", cancel |-> FALSE, version |-> 1]
                         /\ jobs' = [jobs EXCEPT ![c.key] = j] /\ j.group = c.group
    <3> DEFINE new == [group |-> c.group, state |-> "queued", cancel |-> FALSE, version |-> 1]
    <3>1. new \in Job
      BY <1>2 DEF Job, JobStates
    <3>2. jobs' = [jobs EXCEPT ![c.key] = new]
      BY <1>4 DEF EnqueueJob
    <3> QED
      BY <3>1, <3>2
  <2>2. Grow /\ jobs'[c.key] = j /\ j # None
    BY <1>1, <1>2, <1>4, <2>1, Written
  <2>3. PICK r : r = [req[s] EXCEPT !.phase = "enqueued"]
    OBVIOUS
  <2>4. /\ r = [cmd |-> c, phase |-> "enqueued", id |-> req[s].id, permitted |-> req[s].permitted]
        /\ req' = [req EXCEPT ![s] = r] /\ view' = view /\ done' = done
    BY <1>2, <1>4, <2>3 DEF EnqueueJob
  <2>5. RequestSound(r)'
    <3>1. PICK q : q = req[s]
      OBVIOUS
    <3>2. RequestSound(q)'
      BY <1>2, <2>2, <3>1, RequestStays
    <3>3. /\ CommandSound(r.cmd)' /\ (~r.permitted => Permission(r.cmd.op) \notin role')
          /\ r.permitted
      BY <1>2, <2>4, <3>1, <3>2 DEF RequestSound
    <3> QED
      BY <1>1, <2>1, <2>2, <2>4, <3>3 DEF RequestSound
  <2>6. /\ (\A t \in Slots : req[t] # None => RequestSound(req[t]))'
        /\ (req = [t \in Slots |-> req[t]])'
        /\ req'[s] = r /\ \A t \in Slots \ {s} : req'[t] = req[t]
    BY <2>2, <2>4, <2>5, RequestsStay
  <2>7. ASSUME NEW k \in Keys PROVE OneMaker(k)'
    <3>1. CASE k = c.key
      <4>1. Makers(k) = {}
        BY <1>4, <3>1 DEF IInv, OneMaker
      <4>2. Makers(k)' \subseteq {r.id}
        <5>1. Enqueuing(k) = {} /\ Enqueued(k) = {}
          BY <4>1 DEF Makers
        <5>2. Enqueuing(k)' \subseteq {s} /\ Enqueued(k)' = {}
          BY <2>4, <2>6, <5>1 DEF Enqueuing, Enqueued
        <5> QED
          BY <2>6, <5>2 DEF Makers
      <4> QED
        BY <2>2, <3>1, <4>2 DEF OneMaker
    <3>2. CASE k # c.key
      <4>1. Makers(k)' \subseteq Makers(k)
        BY <2>4, <2>6, <3>2 DEF Makers, Enqueuing, Enqueued
      <4> QED
        BY <2>2, <4>1, MakersStay DEF IInv, Grow
    <3> QED
      BY <3>1, <3>2
  <2>8. (\A v \in view.jobs : Known(v))'
    BY <2>2, <2>4, ViewStays
  <2>9. ASSUME NEW d \in done' PROVE AnswerSound(d)'
    BY <2>2, <2>4, <2>9, AnswerStays DEF IInv
  <2> QED
    BY <1>3, <2>2, <2>6, <2>7, <2>8, <2>9 DEF IInv, Grow
<1>5. CASE jobs[c.key] # None
  <2>1. jobs' = jobs /\ Grow
    BY <1>1, <1>5, Still DEF EnqueueJob
  <2>2. CASE jobs[c.key].group = c.group
    <3>1. view' = view /\ done' = done /\ req' = [req EXCEPT ![s].phase = "reused"]
      BY <1>5, <2>2 DEF EnqueueJob
    <3>2. PICK r : r = [req[s] EXCEPT !.phase = "reused"]
      OBVIOUS
    <3>3. /\ r = [cmd |-> c, phase |-> "reused", id |-> req[s].id, permitted |-> req[s].permitted]
          /\ req' = [req EXCEPT ![s] = r]
      BY <1>2, <3>1, <3>2
    <3>4. RequestSound(r)
      BY <1>1, <1>2, <1>5, <2>2, <3>3 DEF RequestSound
    <3>5. RequestSound(r)' /\ r.phase # "enqueued"
      BY <2>1, <3>3, <3>4, RequestStays
    <3> QED
      BY <1>3, <2>1, <3>1, <3>3, <3>5, AdvanceStep
  <2>3. CASE jobs[c.key].group # c.group
    <3>1. Answer(s, "OBJECT_VERSION_CONFLICT", None, Nothing)
      BY <1>5, <2>3 DEF EnqueueJob
    <3> QED
      BY <1>1, <1>2, <1>3, <2>1, <3>1, Statuses, ErrorStep
  <2> QED
    BY <2>2, <2>3
<1> QED
  BY <1>4, <1>5

LEMMA ReadStartedStep ==
  ASSUME IInv, NEW s \in Slots, ReadStartedJob(s)
  PROVE  IInv'
<1> DEFINE k == req[s].cmd.key
<1>1. /\ req[s] # None /\ req[s].phase \in {"enqueued", "reused"}
      /\ Answer(s, req[s].phase, jobs[k].group, TellJob(k, jobs[k]))
      /\ jobs' = jobs /\ role' = role /\ approvals' = approvals
  BY DEF ReadStartedJob
<1>2. /\ RequestSound(req[s]) /\ req[s].permitted /\ req[s].cmd.op = "startJob"
      /\ k \in Keys /\ jobs[k] # None /\ jobs[k].group = req[s].cmd.group
  BY <1>1, Authorized DEF RequestSound, CommandSound
<1>3. Grow /\ ApprovalsSound'
  BY <1>1, Still DEF IInv, ApprovalsSound
<1>4. PICK d : d = Told(s, req[s].phase, jobs[k].group)
  OBVIOUS
<1>5. AnswerSound(d)'
  BY <1>1, <1>2, <1>4 DEF AnswerSound, Told
<1>6. \A v \in TellJob(k, jobs[k]).jobs : Known(v)'
  <2>1. TellJob(k, jobs[k]).jobs = {Row(k)}
    BY DEF TellJob, Nothing, Row
  <2>2. PICK w : w = Row(k)
    OBVIOUS
  <2>3. Known(w)'
    BY <1>2, <1>3, <2>2, RowKnown, KnownStays
  <2> QED
    BY <2>1, <2>2, <2>3
<1> QED
  BY <1>1, <1>3, <1>4, <1>5, <1>6, AnswerStep

LEMMA GetJobStep ==
  ASSUME IInv, NEW s \in Slots, GetJob(s)
  PROVE  IInv'
<1> DEFINE k == req[s].cmd.key
<1>1. /\ req[s] # None /\ req[s].phase = "authorized" /\ req[s].cmd.op = "getJob"
      /\ jobs' = jobs /\ role' = role /\ approvals' = approvals
  BY DEF GetJob, At
<1>2. RequestSound(req[s]) /\ req[s].permitted /\ k \in Keys
  BY <1>1, Authorized DEF RequestSound, CommandSound
<1>3. Grow /\ ApprovalsSound'
  BY <1>1, Still DEF IInv, ApprovalsSound
<1>4. CASE jobs[k] = None
  <2>1. Answer(s, "OBJECT_NOT_ACCESSIBLE", None, Nothing)
    BY <1>4 DEF GetJob
  <2> QED
    BY <1>1, <1>3, <2>1, Statuses, ErrorStep
<1>5. CASE jobs[k] # None
  <2>1. Answer(s, "ok", None, TellJob(k, jobs[k]))
    BY <1>5 DEF GetJob
  <2>2. PICK d : d = Told(s, "ok", None)
    OBVIOUS
  <2>3. AnswerSound(d)'
    BY <1>1, <1>2, <2>2 DEF AnswerSound, Told
  <2>4. \A v \in TellJob(k, jobs[k]).jobs : Known(v)'
    <3>1. TellJob(k, jobs[k]).jobs = {Row(k)}
      BY DEF TellJob, Nothing, Row
    <3>2. PICK w : w = Row(k)
      OBVIOUS
    <3>3. Known(w)'
      BY <1>2, <1>3, <1>5, <3>2, RowKnown, KnownStays
    <3> QED
      BY <3>1, <3>2, <3>3
  <2> QED
    BY <1>1, <1>3, <2>1, <2>2, <2>3, <2>4, AnswerStep
<1> QED
  BY <1>4, <1>5

\* The version that the caller saw is still the job's, so the job is what the
\* caller saw.
LEMMA CancelStep ==
  ASSUME AdminAssumption, IInv, NEW s \in Slots, CancelJob(s)
  PROVE  IInv'
<1> DEFINE c == req[s].cmd
           k == c.key
           j == jobs[k]
<1>1. /\ req[s] # None /\ req[s].phase = "authorized" /\ c.op = "cancelJob"
      /\ role' = role /\ approvals' = approvals
  BY DEF CancelJob, At
<1>2. /\ req[s].permitted /\ Known(c.saw) /\ k = c.saw.key /\ c.ifMatch = c.saw.version
      /\ k \in Keys /\ j \in Job
  <2>1. RequestSound(req[s]) /\ req[s].permitted
    BY <1>1, Authorized
  <2>2. Known(c.saw) /\ k = c.saw.key /\ c.ifMatch = c.saw.version
    BY <1>1, <2>1 DEF RequestSound, CommandSound
  <2>3. k \in Keys /\ j # None
    BY <2>2 DEF Known
  <2> QED
    BY <2>1, <2>2, <2>3 DEF IInv, JobsTyped
<1>3. ApprovalsSound'
  BY <1>1 DEF IInv, ApprovalsSound
<1>4. CASE j.version # c.ifMatch \/ Finished(j)
  <2>1. jobs' = jobs /\ Grow
    <3>1. jobs' = jobs
      BY <1>4 DEF CancelJob
    <3> QED
      BY <1>1, <3>1, Still
  <2>2. PICK code \in {"OBJECT_VERSION_CONFLICT", "JOB_NOT_CANCELLABLE"} :
          Answer(s, code, None, Nothing)
    BY <1>4 DEF CancelJob
  <2>3. Status(code) = 409
    BY Statuses
  <2> QED
    BY <1>1, <1>2, <1>3, <2>1, <2>2, <2>3, ErrorStep
<1>5. CASE j.version = c.ifMatch /\ ~Finished(j)
  <2>1. PICK new : new = Cancelled(j)
    OBVIOUS
  <2>2. new \in Job /\ new.group = j.group /\ new.version = j.version + 1
    <3>1. /\ j.group \in Groups /\ j.state \in JobStates /\ j.version \in Nat
          /\ j = [group |-> j.group, state |-> j.state, cancel |-> j.cancel, version |-> j.version]
      BY <1>2 DEF Job
    <3>2. new = [group |-> j.group, state |-> IF j.state = "running" THEN j.state ELSE "cancelled",
                 cancel |-> TRUE, version |-> j.version + 1]
      BY <2>1, <3>1 DEF Cancelled
    <3>3. j.version + 1 \in Nat
      BY <3>1
    <3>4. (IF j.state = "running" THEN j.state ELSE "cancelled") \in JobStates
      BY DEF JobStates
    <3> QED
      BY <3>1, <3>2, <3>3, <3>4 DEF Job
  <2>3. /\ jobs' = [jobs EXCEPT ![k] = new]
        /\ Answer(s, "ok", [key |-> k, group |-> j.group, state |-> j.state,
                            cancel |-> j.cancel, version |-> j.version], TellJob(k, new))
    BY <1>5, <2>1 DEF CancelJob
  <2>4. Grow /\ jobs'[k] = new /\ new # None
    <3>1. new.version > j.version
      BY <1>2, <2>2 DEF Job
    <3> QED
      BY <1>1, <1>2, <2>2, <2>3, <3>1, Written
  <2>5. PICK d : d = Told(s, "ok", Row(k))
    OBVIOUS
  <2>6. Row(k) = c.saw
    BY <1>2, <1>5 DEF Known
  <2>7. AnswerSound(d)'
    BY <1>1, <1>2, <2>5, <2>6 DEF AnswerSound, Told
  <2>8. \A v \in TellJob(k, new).jobs : Known(v)'
    <3>1. PICK w : w = [key |-> k, group |-> new.group, state |-> new.state,
                        cancel |-> new.cancel, version |-> new.version]
      OBVIOUS
    <3>2. TellJob(k, new).jobs = {w}
      BY <3>1 DEF TellJob, Nothing
    <3>3. w.key = k /\ w.version = new.version /\ new.version \in Nat
      BY <2>2, <3>1 DEF Job
    <3>4. Known(w)'
      BY <1>2, <2>4, <3>1, <3>3 DEF Known, Row
    <3> QED
      BY <3>2, <3>4
  <2>9. Answer(s, "ok", Row(k), TellJob(k, new))
    BY <2>3 DEF Row
  <2> QED
    BY <1>1, <1>3, <2>4, <2>5, <2>7, <2>8, <2>9, AnswerStep
<1> QED
  BY <1>4, <1>5

LEMMA WorkerStep ==
  ASSUME AdminAssumption, IInv, NEW k \in Keys,
         NEW state \in {"running", "retry_wait", "succeeded", "cancelled"}, WorkerWrites(k, state)
  PROVE  IInv'
<1>1. /\ role' = role /\ approvals' = approvals /\ req' = req /\ view' = view /\ done' = done
      /\ jobs[k] # None /\ jobs' = [jobs EXCEPT ![k].state = state, ![k].version = @ + 1]
  BY DEF WorkerWrites
<1>2. jobs \in [Keys -> Job \cup {None}] /\ jobs[k] \in Job
  BY <1>1 DEF IInv, JobsTyped
<1>3. PICK new : new = [jobs[k] EXCEPT !.state = state, !.version = @ + 1]
  OBVIOUS
<1>4. /\ new \in Job /\ new.group = jobs[k].group /\ new.version > jobs[k].version
      /\ jobs' = [jobs EXCEPT ![k] = new]
  <2>1. new \in Job /\ new.group = jobs[k].group /\ new.version > jobs[k].version
    <3>1. /\ jobs[k].group \in Groups /\ jobs[k].version \in Nat /\ jobs[k].cancel \in BOOLEAN
          /\ jobs[k] = [group |-> jobs[k].group, state |-> jobs[k].state,
                        cancel |-> jobs[k].cancel, version |-> jobs[k].version]
      BY <1>2 DEF Job
    <3>2. new = [group |-> jobs[k].group, state |-> state, cancel |-> jobs[k].cancel,
                 version |-> jobs[k].version + 1]
      BY <1>3, <3>1
    <3>3. jobs[k].version + 1 \in Nat /\ jobs[k].version + 1 > jobs[k].version
      BY <3>1
    <3> QED
      BY <3>1, <3>2, <3>3 DEF Job, JobStates
  <2> QED
    BY <1>1, <1>2, <1>3, <2>1
<1>5. Grow /\ ApprovalsSound'
  <2>1. Grow
    BY <1>1, <1>4, Written
  <2> QED
    BY <1>1, <2>1 DEF IInv, ApprovalsSound
<1> QED
  BY <1>1, <1>5, WorldStep

\* The evidence of a decision tells decisions apart.
LEMMA ApproveStep ==
  ASSUME IInv, NEW s \in Slots, ApproveCapacity(s)
  PROVE  IInv'
<1> DEFINE c == req[s].cmd
           row == [id |-> req[s].id, limit |-> c.limit, revision |-> c.ifMatch,
                   evidence |-> EvidenceDigest(req[s].id, c)]
           known == \E a \in approvals : a.evidence = row.evidence
<1>1. /\ req[s] # None /\ req[s].phase = "authorized" /\ c.op = "approveCapacity"
      /\ jobs' = jobs /\ role' = role
  BY DEF ApproveCapacity, At
<1>2. Grow /\ req[s].permitted
  BY <1>1, Still, Authorized
<1>3. CASE ~inventory.measured \/ inventory.revision # c.ifMatch
  <2>1. Answer(s, "OBJECT_VERSION_CONFLICT", None, Nothing) /\ approvals' = approvals
    BY <1>3 DEF ApproveCapacity
  <2>2. ApprovalsSound'
    BY <2>1 DEF IInv, ApprovalsSound
  <2> QED
    BY <1>1, <1>2, <2>1, <2>2, Statuses, ErrorStep
<1>4. CASE inventory.measured /\ inventory.revision = c.ifMatch
  <2>1. /\ approvals' = IF known THEN approvals ELSE approvals \cup {row}
        /\ Answer(s, IF known THEN "reused" ELSE "ok", None, Nothing)
    BY <1>4 DEF ApproveCapacity
  <2>2. ApprovalsSound'
    <3>1. row.evidence = <<row.limit, row.revision>>
      BY DEF EvidenceDigest
    <3> HIDE DEF row
    <3> QED
      BY <2>1, <3>1 DEF IInv, ApprovalsSound
  <2>3. Nothing.jobs = {}
    BY DEF Nothing
  <2> HIDE DEF known, row
  <2>4. PICK code \in {"ok", "reused"} : Answer(s, code, None, Nothing)
    BY <2>1
  <2> QED
    BY <1>1, <1>2, <2>2, <2>3, <2>4, PlainStep
<1> QED
  BY <1>3, <1>4

LEMMA StatusStep ==
  ASSUME IInv, NEW s \in Slots, GetCapacityStatus(s) \/ DryRun(s)
  PROVE  IInv'
<1>1. /\ req[s] # None /\ req[s].phase = "authorized"
      /\ req[s].cmd.op \in {"getCapacityStatus", "dryRun"}
      /\ jobs' = jobs /\ role' = role /\ approvals' = approvals
  BY DEF GetCapacityStatus, DryRun, At
<1>2. Grow /\ ApprovalsSound'
  BY <1>1, Still DEF IInv, ApprovalsSound
<1>3. PICK told : Answer(s, "ok", None, told) /\ told.jobs = {}
  BY DEF GetCapacityStatus, DryRun, Nothing
<1> QED
  BY <1>1, <1>2, <1>3, PlainStep

LEMMA BindingStep ==
  ASSUME IInv, NEW s \in Slots, AssertGcPlanBinding(s)
  PROVE  IInv'
<1>1. /\ req[s] # None /\ req[s].phase = "authorized" /\ req[s].cmd.op = "commit"
      /\ jobs' = jobs /\ role' = role /\ approvals' = approvals
  BY DEF AssertGcPlanBinding, At
<1>2. Grow /\ ApprovalsSound'
  BY <1>1, Still DEF IInv, ApprovalsSound
<1>3. RequestSound(req[s]) /\ req[s].permitted
  BY <1>1, Authorized
<1>4. CASE req[s].cmd.plan = req[s].cmd.ifMatch
  <2>1. view' = view /\ done' = done /\ req' = [req EXCEPT ![s].phase = "bound"]
    BY <1>4 DEF AssertGcPlanBinding
  <2>2. PICK r : r = [req[s] EXCEPT !.phase = "bound"]
    OBVIOUS
  <2>3. /\ r = [cmd |-> req[s].cmd, phase |-> "bound", id |-> req[s].id,
                permitted |-> req[s].permitted]
        /\ req' = [req EXCEPT ![s] = r]
    BY <1>3, <2>1, <2>2 DEF RequestSound
  <2>4. RequestSound(r)
    BY <1>1, <1>3, <1>4, <2>3 DEF RequestSound
  <2>5. RequestSound(r)' /\ r.phase # "enqueued"
    BY <1>2, <2>3, <2>4, RequestStays
  <2> QED
    BY <1>2, <2>1, <2>3, <2>5, AdvanceStep
<1>5. CASE req[s].cmd.plan # req[s].cmd.ifMatch
  <2>1. Answer(s, "OBJECT_VERSION_CONFLICT", None, Nothing)
    BY <1>5 DEF AssertGcPlanBinding
  <2> QED
    BY <1>1, <1>2, <1>3, <2>1, Statuses, ErrorStep
<1> QED
  BY <1>4, <1>5

LEMMA CommitStep ==
  ASSUME IInv, NEW s \in Slots, CommitNext(s)
  PROVE  IInv'
<1>1. /\ req[s] # None /\ req[s].phase = "bound" /\ req[s].cmd.op = "commit"
      /\ jobs' = jobs /\ role' = role /\ approvals' = approvals
      /\ Answer(s, "ok", req[s].cmd.plan, Nothing)
  BY DEF CommitNext, At
<1>2. Grow /\ ApprovalsSound'
  BY <1>1, Still DEF IInv, ApprovalsSound
<1>3. req[s].cmd.plan = req[s].cmd.ifMatch
  BY <1>1, Authorized DEF RequestSound
<1>4. Nothing.jobs = {}
  BY DEF Nothing
<1> QED
  BY <1>1, <1>2, <1>3, <1>4, PlainStep

-----------------------------------------------------------------------------
(* The theorems.                                                            *)

LEMMA Initially ==
  ASSUME Init
  PROVE  IInv
BY DEF Init, IInv, JobsTyped, OneMaker, Makers, Enqueuing, Enqueued, ApprovalsSound

LEMMA Step ==
  ASSUME AdminAssumption, IInv, [Next]_vars
  PROVE  IInv'
<1>1. ASSUME NEW s \in Slots, \E c \in Commands : Send(s, c) PROVE IInv'
  BY <1>1, SendStep
<1>2. ASSUME NEW s \in Slots, Authorize(s) \/ EnqueueJob(s) \/ ReadStartedJob(s) \/ GetJob(s)
      PROVE  IInv'
  BY <1>2, AuthorizeStep, EnqueueStep, ReadStartedStep, GetJobStep
<1>3. ASSUME NEW s \in Slots, CancelJob(s) \/ GetCapacityStatus(s) \/ ApproveCapacity(s)
      PROVE  IInv'
  BY <1>3, CancelStep, StatusStep, ApproveStep
<1>4. ASSUME NEW s \in Slots, DryRun(s) \/ AssertGcPlanBinding(s) \/ CommitNext(s)
      PROVE  IInv'
  BY <1>4, StatusStep, BindingStep, CommitStep
<1>5. ASSUME NEW k \in Keys, NEW st \in {"running", "retry_wait", "succeeded", "cancelled"},
             WorkerWrites(k, st)
      PROVE  IInv'
  BY <1>5, WorkerStep
<1>6. ASSUME InventoryMoves \/ UNCHANGED vars \/ \E p \in AllPermissions : RevokeRole(p)
      PROVE  IInv'
  <2>1. /\ jobs' = jobs /\ approvals' = approvals /\ req' = req /\ view' = view /\ done' = done
        /\ role' \subseteq role
    BY <1>6 DEF InventoryMoves, RevokeRole, vars
  <2>2. Grow /\ ApprovalsSound'
    BY <2>1, Still DEF IInv, ApprovalsSound
  <2> QED
    BY <2>1, <2>2, WorldStep
<1> QED
  BY <1>1, <1>2, <1>3, <1>4, <1>5, <1>6 DEF Next

(* What clients were told, what requests hold between their steps and what  *)
(* answers claim stays true of the jobs, approvals and permissions, however *)
(* requests, the worker and the scanner interleave.                         *)
THEOREM Invariance ==
  ASSUME AdminAssumption
  PROVE  Spec => []IInv
<1>1. Init => IInv
  BY Initially
<1>2. IInv /\ [Next]_vars => IInv'
  BY Step
<1> QED
  BY <1>1, <1>2, PTL DEF Spec

(* A cancellation takes effect only on the job exactly as its caller saw it *)
(* (request_materialization_job_cancel_v2); a key makes one job, and one    *)
(* request is told that it did (enqueue_materialization_job_admin).         *)
THEOREM JobsActedOnAsSeen ==
  ASSUME AdminAssumption
  PROVE  Spec => [](CancelSeen /\ StartedOnce)
<1>1. IInv => CancelSeen /\ StartedOnce
  <2> SUFFICES ASSUME IInv PROVE CancelSeen /\ StartedOnce
    OBVIOUS
  <2>1. CancelSeen
    BY DEF IInv, AnswerSound, CancelSeen
  <2>2. StartedOnce
    <3> SUFFICES ASSUME NEW d \in done, NEW e \in done,
                        d.cmd.op = "startJob", e.cmd.op = "startJob", d.cmd.key = e.cmd.key,
                        d.status = 200, e.status = 200
                 PROVE  /\ d.hit = e.hit /\ d.hit = d.cmd.group
                        /\ (d.code = "enqueued" /\ e.code = "enqueued") => d.id = e.id
      BY DEF StartedOnce
    <3>1. AnswerSound(d) /\ AnswerSound(e)
      BY DEF IInv
    <3>2. d.hit = e.hit /\ d.hit = d.cmd.group /\ d.cmd.key \in Keys
      BY <3>1 DEF AnswerSound
    <3>3. (d.code = "enqueued" /\ e.code = "enqueued") =>
            d.id \in Makers(d.cmd.key) /\ e.id \in Makers(d.cmd.key)
      BY DEF Makers, Enqueued
    <3> QED
      BY <3>2, <3>3 DEF IInv, OneMaker
  <2> QED
    BY <2>1, <2>2
<1> QED
  BY <1>1, Invariance, PTL

(* One decision about one measured inventory leaves one approval            *)
(* (capacity_approvals_evidence_uq), batches are committed only for the     *)
(* plan that was presented (assertGcPlanBinding), and a request without the *)
(* permission is told the same whatever there is (#authorize, mapProblem).  *)
THEOREM DecisionsBound ==
  ASSUME AdminAssumption
  PROVE  Spec => [](OneApprovalPerDecision /\ CommitsTheSeenPlan /\ ForbiddenLearnsNothing)
<1>1. IInv => OneApprovalPerDecision /\ CommitsTheSeenPlan /\ ForbiddenLearnsNothing
  <2> SUFFICES ASSUME IInv
               PROVE  OneApprovalPerDecision /\ CommitsTheSeenPlan /\ ForbiddenLearnsNothing
    OBVIOUS
  <2>1. OneApprovalPerDecision
    BY DEF IInv, ApprovalsSound, OneApprovalPerDecision
  <2>2. CommitsTheSeenPlan /\ ForbiddenLearnsNothing
    BY DEF IInv, AnswerSound, CommitsTheSeenPlan, ForbiddenLearnsNothing
  <2> QED
    BY <2>1, <2>2
<1> QED
  BY <1>1, Invariance, PTL

LEMMA OneAnswer ==
  ASSUME NEW s, NEW code, NEW hit, NEW told, Answer(s, code, hit, told)
  PROVE  \A d \in done' \ done : d.status = Status(code)
BY DEF Answer

(* A step that answers an error leaves jobs, approvals and plans as they    *)
(* were (dependency, mapAdminDatabaseError).                                *)
THEOREM ErrorsHarmless == Spec => [][ErrorsChangeNothing]_vars
<1>1. ASSUME [Next]_vars PROVE ErrorsChangeNothing
  <2>1. CASE UNCHANGED <<jobs, approvals, plans>>
    BY <2>1 DEF ErrorsChangeNothing
  <2>2. CASE done' = done
    BY <2>2 DEF ErrorsChangeNothing
  <2>3. ASSUME NEW s \in Slots, CancelJob(s) PROVE ErrorsChangeNothing
    <3> DEFINE c == req[s].cmd
               j == jobs[c.key]
    <3>1. CASE j.version # c.ifMatch \/ Finished(j)
      <4>1. UNCHANGED <<jobs, approvals, plans>>
        BY <2>3, <3>1 DEF CancelJob
      <4> QED
        BY <4>1 DEF ErrorsChangeNothing
    <3>2. CASE j.version = c.ifMatch /\ ~Finished(j)
      <4>1. PICK hit, told : Answer(s, "ok", hit, told)
        BY <2>3, <3>2 DEF CancelJob
      <4> QED
        BY <4>1, OneAnswer, Statuses DEF ErrorsChangeNothing
    <3> QED
      BY <3>1, <3>2
  <2>4. ASSUME NEW s \in Slots, ApproveCapacity(s) PROVE ErrorsChangeNothing
    <3>1. CASE ~inventory.measured \/ inventory.revision # req[s].cmd.ifMatch
      <4>1. UNCHANGED <<jobs, approvals, plans>>
        BY <2>4, <3>1 DEF ApproveCapacity
      <4> QED
        BY <4>1 DEF ErrorsChangeNothing
    <3>2. CASE inventory.measured /\ inventory.revision = req[s].cmd.ifMatch
      <4>1. PICK code \in {"ok", "reused"} : Answer(s, code, None, Nothing)
        BY <2>4, <3>2 DEF ApproveCapacity
      <4> QED
        BY <4>1, OneAnswer, Statuses DEF ErrorsChangeNothing
    <3> QED
      BY <3>1, <3>2
  <2>5. ASSUME NEW s \in Slots, DryRun(s) \/ CommitNext(s) PROVE ErrorsChangeNothing
    <3>1. PICK hit, told : Answer(s, "ok", hit, told)
      BY <2>5 DEF DryRun, CommitNext
    <3> QED
      BY <3>1, OneAnswer, Statuses DEF ErrorsChangeNothing
  <2>6. ASSUME NEW s \in Slots, EnqueueJob(s) PROVE ErrorsChangeNothing
    <3>1. done' = done \/ UNCHANGED <<jobs, approvals, plans>>
      BY <2>6 DEF EnqueueJob
    <3> QED
      BY <2>1, <2>2, <3>1
  <2>7. ASSUME NEW s \in Slots,
               \/ Authorize(s) \/ ReadStartedJob(s) \/ GetJob(s) \/ GetCapacityStatus(s)
               \/ AssertGcPlanBinding(s)
        PROVE  UNCHANGED <<jobs, approvals, plans>>
    BY <2>7 DEF Authorize, ReadStartedJob, GetJob, GetCapacityStatus, AssertGcPlanBinding
  <2>8. ASSUME \/ \E s \in Slots : \E c \in Commands : Send(s, c)
               \/ \E k \in Keys, st \in {"running", "retry_wait", "succeeded", "cancelled"} :
                    WorkerWrites(k, st)
               \/ InventoryMoves \/ UNCHANGED vars \/ \E p \in AllPermissions : RevokeRole(p)
        PROVE  done' = done
    BY <2>8 DEF Send, WorkerWrites, InventoryMoves, RevokeRole, vars
  <2> QED
    BY <1>1, <2>1, <2>2, <2>3, <2>4, <2>5, <2>6, <2>7, <2>8 DEF Next
<1> QED
  BY <1>1, PTL DEF Spec
=============================================================================
