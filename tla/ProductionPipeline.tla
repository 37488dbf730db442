------------------------- MODULE ProductionPipeline -------------------------
(***************************************************************************)
(* The stage executor of the materialization worker.  A job runs eight     *)
(* stages; each completed stage is a checkpoint and a later attempt, or a  *)
(* replay after a dead letter, resumes behind the last checkpoint.  All    *)
(* jobs of a project share one physical inventory: a revision, whether the *)
(* revision is measured, and what the measurement saw.                     *)
(*                                                                         *)
(* Source: packages/materialization-application/src/production-pipeline.ts,*)
(* packages/materialization-postgres/src/production-pipeline.ts and the    *)
(* functions of migrations/db-00/0018 they call.                           *)
(*                                                                         *)
(* Abstractions: leases, tokens and attempt budgets are those of           *)
(* MaterializationJob, so here an attempt only starts, ends, or loses its  *)
(* lease; rows, mapping and quality rules are outcomes; limits and         *)
(* approvals are those of ProjectionCapacity and IndexAdmission.           *)
(***************************************************************************)
EXTENDS Naturals, FiniteSets

CONSTANTS Jobs,         \* materialization jobs of one project
          Members,      \* members of the snapshot group of every job
          Rejections,   \* kinds of bad input that may occur
          Rescans,      \* whether somebody outside the pipeline measures
          MaxRevision,  \* bound: inventory revisions
          MaxChanges,   \* bound: physical changes by collection or DDL
          MaxLosses     \* bound: attempts that lose their lease

PipelineAssumption ==
  /\ Rejections \subseteq {"source", "mapping", "quality", "capacity"}
  /\ Rescans \in BOOLEAN
  /\ MaxRevision \in Nat \ {0} /\ MaxChanges \in Nat /\ MaxLosses \in Nat

VARIABLES inventory,  \* project_runtime_inventories
          member,     \* per job and member: generation and its evidence
          job,        \* per job: state, checkpoints, cause of the dead letter
          work,       \* per job: where its current attempt is
          late,       \* scans of attempts that lost their lease
          indexed,    \* every planned index is ready
          budget      \* what is left of the bounds

vars == <<inventory, member, job, work, late, indexed, budget>>

Cells == Jobs \X Members
Idle == [at |-> "idle", expect |-> 0, seen |-> {}]
Missing == [generations |-> 0, state |-> "none", promoted |-> FALSE, quality |-> "none",
            pre |-> 0, post |-> 0, covered |-> FALSE]
Transient == {"INVENTORY_STALE", "FENCED", "DEPENDENCY", "CONFIRMATION"}
Permanent == {"SOURCE", "MAPPING", "QUALITY", "CAPACITY", "INDEX", "CONFLICT", "NOT_READY"}
Positions == {"idle", "start", "revision", "snapshot", "record", "head", "member", "rebind"}

TypeOK ==
  /\ inventory \in [revision : 1..MaxRevision, complete : BOOLEAN, covers : SUBSET Cells]
  /\ member \in [Cells ->
       [generations : Nat, state : {"none", "building", "ready"}, promoted : BOOLEAN,
        quality : {"none", "passed", "failed", "awaiting", "confirmed"},
        pre : 0..MaxRevision, post : 0..MaxRevision, covered : BOOLEAN]]
  /\ job \in [Jobs -> [state : {"queued", "running", "retry_wait", "dead_letter", "succeeded"},
                       done : 0..8, bound : 0..MaxRevision, cause : Permanent \union {"none"}]]
  /\ work \in [Jobs -> [at : Positions, expect : 0..MaxRevision, seen : SUBSET Cells]]
  /\ late \subseteq [expect : 1..MaxRevision, seen : SUBSET Cells]
  /\ indexed \in BOOLEAN
  /\ budget \in [changes : 0..MaxChanges, losses : 0..MaxLosses]

Init ==
  /\ inventory = [revision |-> 1, complete |-> TRUE, covers |-> {}]
  /\ member = [c \in Cells |-> Missing]
  /\ job = [j \in Jobs |-> [state |-> "queued", done |-> 0, bound |-> 0, cause |-> "none"]]
  /\ work = [j \in Jobs |-> Idle]
  /\ late = {}
  /\ indexed = TRUE
  /\ budget = [changes |-> MaxChanges, losses |-> MaxLosses]

\* The promoted bases are what a scan of the relations finds on disk.
OnDisk == {c \in Cells : member[c].promoted}
MembersOf(j) == {j} \X Members
StageOf(j) == job[j].done + 1
Running(j, stage, at) == job[j].state = "running" /\ StageOf(j) = stage /\ work[j].at = at
GoTo(j, at) == work' = [work EXCEPT ![j].at = at]

-----------------------------------------------------------------------------
(* How a stage ends.                                                       *)

\* completeStage: the checkpoint is stored and the next stage starts.
Checkpoint(j) ==
  /\ job' = [job EXCEPT ![j].done = @ + 1]
  /\ work' = [work EXCEPT ![j] = [Idle EXCEPT !.at = "start"]]

\* classifyProductionStageFailure: the listed codes are retried, any other
\* code is permanent.
FailState(code) == IF code \in Transient THEN "retry_wait" ELSE "dead_letter"

\* stageFailure and the fail call of the worker.
FailStage(j, code) ==
  /\ job' = [job EXCEPT ![j].state = FailState(code),
                        ![j].cause = IF code \in Permanent THEN code
                                     ELSE IF FailState(code) = "dead_letter" THEN "CONFLICT"
                                     ELSE "none"]
  /\ work' = [work EXCEPT ![j] = Idle]

\* processNext: a claimed job resumes behind its last checkpoint.
Claim(j) ==
  /\ job[j].state \in {"queued", "retry_wait"}
  /\ job' = [job EXCEPT ![j].state = "running"]
  /\ work' = [work EXCEPT ![j] = [Idle EXCEPT !.at = "start"]]
  /\ UNCHANGED <<inventory, member, late, indexed, budget>>

\* A manual replay keeps every checkpoint.
Replay(j) ==
  /\ job[j].state = "dead_letter"
  /\ job' = [job EXCEPT ![j].state = "queued", ![j].cause = "none"]
  /\ UNCHANGED <<inventory, member, work, late, indexed, budget>>

\* The lease of an attempt ends.  Its calls on the job are refused from then
\* on, but a scan of the inventory carries no fence and may still arrive.
LoseLease(j) ==
  /\ job[j].state = "running" /\ budget.losses > 0
  /\ job' = [job EXCEPT ![j].state = "retry_wait"]
  /\ work' = [work EXCEPT ![j] = Idle]
  /\ late' = IF work[j].at = "record"
             THEN late \union {[expect |-> work[j].expect, seen |-> work[j].seen]}
             ELSE late
  /\ budget' = [budget EXCEPT !.losses = @ - 1]
  /\ UNCHANGED <<inventory, member, indexed>>

-----------------------------------------------------------------------------
(* The physical inventory.                                                 *)

\* record_project_physical_measurement.
Recorded(seen) == [revision |-> inventory.revision + 1, complete |-> TRUE, covers |-> seen]

LateScan(s) ==
  /\ s \in late
  /\ late' = late \ {s}
  /\ IF inventory.revision = s.expect /\ inventory.revision < MaxRevision
     THEN inventory' = Recorded(s.seen)
     ELSE UNCHANGED inventory
  /\ UNCHANGED <<member, job, work, indexed, budget>>

\* A batch of a collection, or an index build or drop of the DDL executor,
\* leaves the next revision unmeasured.
PhysicalChange(ready) ==
  /\ budget.changes > 0 /\ inventory.revision < MaxRevision
  /\ inventory' = [inventory EXCEPT !.revision = @ + 1, !.complete = FALSE]
  /\ indexed' = ready
  /\ budget' = [budget EXCEPT !.changes = @ - 1]
  /\ UNCHANGED <<member, job, work, late>>

\* A measurement that somebody other than the pipeline asks for.
Rescan ==
  /\ Rescans /\ ~inventory.complete /\ inventory.revision < MaxRevision
  /\ inventory' = Recorded(OnDisk)
  /\ UNCHANGED <<member, job, work, late, indexed, budget>>

\* readCurrentInventoryRevision: only a measured revision is returned.
ReadRevision(j) ==
  /\ job[j].state = "running" /\ work[j].at = "revision"
  /\ IF inventory.complete
     THEN /\ work' = [work EXCEPT ![j].at = "snapshot", ![j].expect = inventory.revision]
          /\ UNCHANGED job
     ELSE FailStage(j, "CONFLICT")
  /\ UNCHANGED <<inventory, member, late, indexed, budget>>

\* scanAndRecordProjectPhysicalInventory opens its snapshot after the
\* revision was read.
BeginScan(j) ==
  /\ job[j].state = "running" /\ work[j].at = "snapshot"
  /\ work' = [work EXCEPT ![j].at = "record", ![j].seen = OnDisk]
  /\ UNCHANGED <<inventory, member, job, late, indexed, budget>>

\* ... and records it only at the revision it expects.
RecordScan(j) ==
  /\ job[j].state = "running" /\ work[j].at = "record"
  /\ IF inventory.revision # work[j].expect
     THEN /\ FailStage(j, "INVENTORY_STALE")
          /\ UNCHANGED inventory
     ELSE /\ inventory.revision < MaxRevision
          /\ inventory' = Recorded(work[j].seen)
          /\ GoTo(j, IF StageOf(j) = 1 THEN "head" ELSE "rebind")
          /\ UNCHANGED job
  /\ UNCHANGED <<member, late, indexed, budget>>

-----------------------------------------------------------------------------
(* Stage 1, scan.                                                          *)

\* prepare_materialization_build: a member without a live generation gets one.
PrepareBuild(j) ==
  /\ Running(j, 1, "start")
  /\ member' = [c \in Cells |->
       IF c \in MembersOf(j) /\ member[c].state = "none"
       THEN [member[c] EXCEPT !.generations = @ + 1, !.state = "building"]
       ELSE member[c]]
  /\ GoTo(j, "revision")
  /\ UNCHANGED <<inventory, job, late, indexed, budget>>

\* Every source object must still be at the registered version.
HeadLatestVersion(j) ==
  /\ Running(j, 1, "head")
  /\ \/ Checkpoint(j)
     \/ "source" \in Rejections /\ FailStage(j, "SOURCE")
  /\ UNCHANGED <<inventory, member, late, indexed, budget>>

(* Stage 2, map; stage 3, validate; stage 4, build_stage.                  *)

\* A stage that treats the members one by one ends with the last.
EndsWhen(j, settled) ==
  /\ settled
  /\ Checkpoint(j)
  /\ UNCHANGED <<inventory, member, late, indexed, budget>>

MapMember(j, c) ==
  /\ Running(j, 2, "start") /\ ~member[c].promoted
  /\ \/ /\ member' = [member EXCEPT ![c].promoted = TRUE]
        /\ UNCHANGED <<job, work>>
     \/ /\ "mapping" \in Rejections
        /\ FailStage(j, "MAPPING")
        /\ UNCHANGED member
  /\ UNCHANGED <<inventory, late, indexed, budget>>

MapEnds(j) ==
  /\ Running(j, 2, "start")
  /\ EndsWhen(j, \A c \in MembersOf(j) : member[c].promoted)

\* The quality outcome is stored before the stage fails on it.
ValidateMember(j, c) ==
  /\ Running(j, 3, "start") /\ member[c].quality \notin {"passed", "confirmed"}
  /\ \E outcome \in IF member[c].quality # "none" THEN {member[c].quality}
                    ELSE IF "quality" \in Rejections THEN {"passed", "failed", "awaiting"}
                    ELSE {"passed"} :
       /\ member' = [member EXCEPT ![c].quality = outcome]
       /\ CASE outcome = "failed"   -> FailStage(j, "QUALITY")
            [] outcome = "awaiting" -> FailStage(j, "CONFIRMATION")
            [] OTHER                -> UNCHANGED <<job, work>>
  /\ UNCHANGED <<inventory, late, indexed, budget>>

\* The owner confirms an unexpected row count.
Confirm(c) ==
  /\ member[c].quality = "awaiting"
  /\ member' = [member EXCEPT ![c].quality = "confirmed"]
  /\ UNCHANGED <<inventory, job, work, late, indexed, budget>>

ValidateEnds(j) ==
  /\ Running(j, 3, "start")
  /\ EndsWhen(j, \A c \in MembersOf(j) : member[c].quality \in {"passed", "confirmed"})

\* has_current_materialization_capacity_admission.
Current(revision) == inventory.complete /\ revision = inventory.revision

\* ProjectionCapacityAdmissionService.admit: a revision without measurement
\* is a protocol conflict.
Admit(j, c, phase) ==
  \/ /\ inventory.complete
     /\ member' = IF phase = "PREBUILD"
                  THEN [member EXCEPT ![c].pre = inventory.revision]
                  ELSE [member EXCEPT ![c].post = inventory.revision,
                                      ![c].covered = c \in inventory.covers]
     /\ UNCHANGED <<job, work>>
  \/ /\ ~inventory.complete
     /\ FailStage(j, "CONFLICT")
     /\ UNCHANGED member
  \/ /\ "capacity" \in Rejections
     /\ FailStage(j, "CAPACITY")
     /\ UNCHANGED member

\* A member already admitted in this stage is behind the loop, so only the
\* member that the loop has reached is looked at.
AdmitPrebuild(j, c) ==
  /\ Running(j, 4, "start") /\ c \notin work[j].seen /\ ~Current(member[c].pre)
  /\ Admit(j, c, "PREBUILD")
  /\ UNCHANGED <<inventory, late, indexed, budget>>

PrebuildNext(j, c) ==
  /\ Running(j, 4, "start") /\ c \notin work[j].seen /\ Current(member[c].pre)
  /\ work' = [work EXCEPT ![j].seen = @ \union {c}]
  /\ UNCHANGED <<inventory, member, job, late, indexed, budget>>

PrebuildEnds(j) ==
  /\ Running(j, 4, "start")
  /\ EndsWhen(j, work[j].seen = MembersOf(j))

(* Stage 5, build_index.                                                   *)

\* verify_materialization_index_inventory: every planned index is ready.
IndexesReady == indexed

VerifyIndexes(j) ==
  /\ Running(j, 5, "start")
  /\ IF IndexesReady THEN Checkpoint(j) ELSE FailStage(j, "INDEX")
  /\ UNCHANGED <<inventory, member, late, indexed, budget>>

-----------------------------------------------------------------------------
(* Stage 6, ready_for_activation.                                          *)

\* hasAnyCurrentPostbuildAdmission.
AnyCurrentPostbuild(j) == \E c \in MembersOf(j) : Current(member[c].post)

\* With every member admitted at the current revision the stage is done; with
\* none a new measurement is taken; otherwise an earlier attempt measured.
PrepareReady(j) ==
  /\ Running(j, 6, "start")
  /\ IF \A c \in MembersOf(j) : Current(member[c].post)
     THEN Checkpoint(j)
     ELSE /\ GoTo(j, IF AnyCurrentPostbuild(j) THEN "rebind" ELSE "revision")
          /\ UNCHANGED job
  /\ UNCHANGED <<inventory, member, late, indexed, budget>>

\* rebind_materialization_index_admissions.
Rebind(j) ==
  /\ Running(j, 6, "rebind")
  /\ IF inventory.complete
     THEN /\ job' = [job EXCEPT ![j].bound = inventory.revision]
          /\ work' = [work EXCEPT ![j] = [Idle EXCEPT !.at = "member"]]
     ELSE FailStage(j, "INVENTORY_STALE")
  /\ UNCHANGED <<inventory, member, late, indexed, budget>>

AdmitPostbuild(j, c) ==
  /\ Running(j, 6, "member") /\ c \notin work[j].seen /\ ~Current(member[c].post)
  /\ Admit(j, c, "POSTBUILD")
  /\ UNCHANGED <<inventory, late, indexed, budget>>

PostbuildNext(j, c) ==
  /\ Running(j, 6, "member") /\ c \notin work[j].seen /\ Current(member[c].post)
  /\ work' = [work EXCEPT ![j].seen = @ \union {c}]
  /\ UNCHANGED <<inventory, member, job, late, indexed, budget>>

\* Without a measurement of its own the result names the current revision,
\* which must be measured.
PostbuildEnds(j) ==
  /\ Running(j, 6, "member")
  /\ EndsWhen(j, work[j].seen = MembersOf(j))

(* Stage 7, catch_up: the production overlay is empty.                     *)
CatchUp(j) ==
  /\ Running(j, 7, "start")
  /\ Checkpoint(j)
  /\ UNCHANGED <<inventory, member, late, indexed, budget>>

(* Stage 8, activate: finish_materialization_build.                        *)

BuildReady(j) ==
  /\ inventory.complete
  /\ \A c \in MembersOf(j) : /\ member[c].quality \in {"passed", "confirmed"}
                             /\ member[c].post = inventory.revision

FinishReady(j) ==
  /\ Running(j, 8, "start")
  /\ IF ~BuildReady(j) THEN FailStage(j, "NOT_READY") /\ UNCHANGED member
     ELSE IF ~IndexesReady THEN FailStage(j, "INDEX") /\ UNCHANGED member
     ELSE IF job[j].bound # inventory.revision
     THEN FailStage(j, "INVENTORY_STALE") /\ UNCHANGED member
     ELSE /\ member' = [c \in Cells |-> IF c \in MembersOf(j)
                                        THEN [member[c] EXCEPT !.state = "ready"]
                                        ELSE member[c]]
          /\ job' = [job EXCEPT ![j].done = 8, ![j].state = "succeeded"]
          /\ work' = [work EXCEPT ![j] = Idle]
  /\ UNCHANGED <<inventory, late, indexed, budget>>

-----------------------------------------------------------------------------
MemberStep(j, c) ==
  \/ MapMember(j, c) \/ ValidateMember(j, c)
  \/ AdmitPrebuild(j, c) \/ PrebuildNext(j, c)
  \/ AdmitPostbuild(j, c) \/ PostbuildNext(j, c)

JobStep(j) ==
  \/ PrepareBuild(j) \/ ReadRevision(j) \/ BeginScan(j) \/ RecordScan(j)
  \/ HeadLatestVersion(j) \/ MapEnds(j) \/ ValidateEnds(j) \/ PrebuildEnds(j)
  \/ VerifyIndexes(j) \/ PrepareReady(j) \/ Rebind(j) \/ PostbuildEnds(j)
  \/ CatchUp(j) \/ FinishReady(j)
  \/ \E c \in MembersOf(j) : MemberStep(j, c)

Next ==
  \/ \E j \in Jobs : Claim(j) \/ JobStep(j) \/ Replay(j) \/ LoseLease(j)
  \/ \E c \in Cells : Confirm(c)
  \/ \E s \in late : LateScan(s)
  \/ \E ready \in BOOLEAN : PhysicalChange(ready)
  \/ Rescan

Spec == Init /\ [][Next]_vars

-----------------------------------------------------------------------------
\* A generation becomes ready only on a capacity admission whose measurement
\* was taken with its own base on disk, whatever other jobs, late scans and
\* physical changes did to the inventory meanwhile (#prepareReady and
\* finish_materialization_build).
ReadyWasMeasured == \A c \in Cells : member[c].state = "ready" => member[c].covered

\* However often a job is retried or replayed, a member of its group has one
\* generation (prepare_materialization_build).
OneGeneration == \A c \in Cells : member[c].generations <= 1

\* A job alone in its project is dead-lettered for its input or for a missing
\* index only, never for the state of the inventory: what its own lost
\* attempts left behind is retried (classifyProductionStageFailure).
DeadLetterHasCause ==
  \A j \in Jobs : job[j].state = "dead_letter"
                    => job[j].cause \in {"SOURCE", "MAPPING", "QUALITY", "CAPACITY", "INDEX"}
=============================================================================
