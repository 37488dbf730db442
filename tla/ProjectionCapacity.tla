------------------------ MODULE ProjectionCapacity ------------------------
(***************************************************************************)
(* Admission of generations against the byte budgets of a project, and the *)
(* dry run and commit of a collection over the same inventory.             *)
(*                                                                         *)
(* Source: packages/materialization-domain/src/projection-capacity.ts and  *)
(* projection-baseline.ts; packages/materialization-application/src/       *)
(* index-capacity.ts (ProjectionCapacityAdmissionService);                 *)
(* packages/materialization-postgres/src/index-capacity.ts (the snapshot   *)
(* and the stored admission).                                              *)
(*                                                                         *)
(* An admission reads one repeatable-read snapshot, decides in memory and  *)
(* stores: Snapshot and Store.  Abstractions: bytes are small numbers, the *)
(* safety margin is 150 %; the estimate from rows is the forecast; one     *)
(* project; one generation per member of a release.                        *)
(***************************************************************************)
EXTENDS Naturals, FiniteSets, FiniteSetsExt

CONSTANTS
  Generations, Releases,
  Links,         \* generations of link members, which may be empty
  MaxBytes,      \* bound: bytes of a generation
  Slack,         \* bound: bytes of the tables that belong to no generation
  NormalRelease, HardRelease, NormalSteady, NormalPeak, HardPeak,
  Approved,      \* maximumProjectPeakBytes of the approvals a loader may return
  Grace,         \* minimumGcGraceMs
  MaxTime,       \* bound: clock
  MaxRevision,   \* bound: inventory revisions
  None

LimitsOK ==
  /\ NormalRelease <= HardRelease /\ NormalSteady <= NormalPeak /\ NormalPeak <= HardPeak
  /\ Links \subseteq Generations

VARIABLES
  gen,         \* runtime.generations with forecast and measurement
  inv,         \* [rev, complete, bytes]: inventory and last physical measurement
  head,        \* generation each release serves, or None
  lease,       \* expiry of the query root of each generation, 0: none
  caller,      \* the admission in progress of each generation
  admissions,  \* capacity_admissions
  plan,        \* collection dry run
  now

vars == <<gen, inv, head, lease, caller, admissions, plan, now>>

NoGeneration == [state |-> "absent", forecast |-> 0, observed |-> 0, left |-> 0,
                 recent |-> FALSE, gone |-> FALSE]
NoPlan == [rev |-> 0, candidates |-> {}]

Init ==
  /\ gen = [g \in Generations |-> NoGeneration]
  /\ inv = [rev |-> 1, complete |-> TRUE, bytes |-> 0]
  /\ head = [r \in Releases |-> None]
  /\ lease = [g \in Generations |-> 0]
  /\ caller = [g \in Generations |-> [at |-> "idle"]]
  /\ admissions = {}
  /\ plan = NoPlan
  /\ now = 0

Present == {g \in Generations : gen[g].state # "absent"}
Total(S, f(_)) == MapThenSumSet(f, S)

-----------------------------------------------------------------------------
(* evaluateCapacity                                                         *)

\* applySafetyMargin with ceilRatio.
Margin(bytes) == (bytes * 3 + 1) \div 2

Larger(a, b) == IF a > b THEN a ELSE b

\* estimateGeneration.
Reserved(q) == Margin(Larger(q.forecast, q.observed))

\* The generations of the report: no row has the state COLLECTED, and the
\* loader does not read tombstones (index-capacity.ts:1213).
Counted(gens) == {g \in Generations : gens[g].state # "absent"}

\* validateInventory: a generation without rows is refused.
InventoryValid(gens) ==
  \A g \in Counted(gens) : g \in Links => gens[g].forecast > 0

Unattributed(bytes, reserved) ==
  IF Margin(bytes) > reserved THEN Margin(bytes) - reserved ELSE 0

\* The totals of the report.
Report(s) ==
  LET Bytes(g) == Reserved(s.gen[g])
      all == Total(Counted(s.gen), Bytes)
      peak == all + Unattributed(s.bytes, all)
      staging == Total({g \in Counted(s.gen) : s.gen[g].state \in {"building", "failed"}}, Bytes)
  IN  [peak |-> peak, steady |-> peak - staging,
       release |-> [r \in Releases |-> IF s.head[r] = None THEN 0 ELSE Bytes(s.head[r])]]

HardOK(report) ==
  report.peak <= HardPeak /\ \A r \in Releases : report.release[r] <= HardRelease

NormalOK(report) ==
  /\ report.peak <= NormalPeak /\ report.steady <= NormalSteady
  /\ \A r \in Releases : report.release[r] <= NormalRelease

\* validateCapacityApproval: within the hard limit and the approved bytes, and
\* a release that is served will retire.
ApprovalOK(approval, s, report) ==
  /\ approval # None /\ approval <= HardPeak /\ report.peak <= approval
  /\ \E r \in Releases : s.head[r] # None

\* evaluateCapacity and assertCapacityAccepted.
Accepted(s, approval) ==
  LET report == Report(s) IN
  /\ s.complete /\ InventoryValid(s.gen) /\ HardOK(report)
  /\ NormalOK(report) \/ ApprovalOK(approval, s, report)

-----------------------------------------------------------------------------
(* ProjectionCapacityAdmissionService.admit                                 *)

\* loadConservativeProjectionCapacitySnapshot: the measurement must be of the
\* current revision.
Snapshot(g) ==
  /\ caller[g].at = "idle" /\ gen[g].state = "building" /\ ~gen[g].gone
  /\ \E approval \in Approved \cup {None} :
       LET s == [gen |-> gen, head |-> head, bytes |-> inv.bytes, complete |-> inv.complete]
           phase == IF gen[g].observed = 0 THEN "PREBUILD" ELSE "POSTBUILD"
       IN  IF Accepted(s, approval)
           THEN caller' = [caller EXCEPT ![g] =
                  [at |-> "store",
                   row |-> [gen |-> g, phase |-> phase, rev |-> inv.rev,
                            peak |-> Report(s).peak]]]
           ELSE UNCHANGED caller
  /\ UNCHANGED <<gen, inv, head, lease, admissions, plan, now>>

\* persistCapacityAdmission: the first row for a phase and a revision stays, a
\* second one must be equal to it.
Store(g) ==
  LET row == caller[g].row
      same == {a \in admissions : a.gen = g /\ a.phase = row.phase /\ a.rev = row.rev}
  IN
  /\ caller[g].at = "store"
  /\ admissions' = IF same = {} THEN admissions \cup {row} ELSE admissions
  /\ caller' = [caller EXCEPT ![g] = [at |-> "idle"]]
  /\ UNCHANGED <<gen, inv, head, lease, plan, now>>

AdmittedAt(g, phase, rev) == \E a \in admissions : a.gen = g /\ a.phase = phase /\ a.rev = rev
Admitted(g) == \E a \in admissions : a.gen = g

-----------------------------------------------------------------------------
(* The build                                                                *)

\* prepare_materialization_build inserts the generation and its forecast.
Prepare(g) ==
  /\ gen[g].state = "absent"
  /\ \E f \in (IF g \in Links THEN 0 ELSE 1) .. MaxBytes :
       gen' = [gen EXCEPT ![g] = [NoGeneration EXCEPT !.state = "building", !.forecast = f,
                                                      !.left = now]]
  /\ UNCHANGED <<inv, head, lease, caller, admissions, plan, now>>

\* The rows are written and measured; they may be more than the forecast.
Materialize(g) ==
  /\ gen[g].state = "building" /\ gen[g].observed = 0
  /\ \E a \in admissions : a.gen = g /\ a.phase = "PREBUILD"
  /\ \E b \in 1 .. MaxBytes : gen' = [gen EXCEPT ![g].observed = b]
  /\ UNCHANGED <<inv, head, lease, caller, admissions, plan, now>>

\* record_project_physical_measurement.
Measure ==
  /\ inv.rev < MaxRevision
  /\ \E s \in 0 .. Slack :
       inv' = [rev |-> inv.rev + 1, complete |-> TRUE,
               bytes |-> s + Total({g \in Generations : ~gen[g].gone},
                                   LAMBDA g : gen[g].observed)]
  /\ UNCHANGED <<gen, head, lease, caller, admissions, plan, now>>

\* finish_materialization_build.
Finish(g) ==
  /\ gen[g].state = "building" /\ AdmittedAt(g, "POSTBUILD", inv.rev)
  /\ gen' = [gen EXCEPT ![g].state = "ready"]
  /\ UNCHANGED <<inv, head, lease, caller, admissions, plan, now>>

\* finalize_materialization_quality with a failed report; an admission of the
\* generation may be in progress.
Fail(g) ==
  /\ gen[g].state = "building"
  /\ gen' = [gen EXCEPT ![g].state = "failed"]
  /\ UNCHANGED <<inv, head, lease, caller, admissions, plan, now>>

\* A cutover: the generation that leaves is the last successful one.
Serve(r, g) ==
  LET old == head[r] IN
  /\ gen[g].state = "ready" /\ ~gen[g].gone /\ \A q \in Releases : head[q] # g
  /\ head' = [head EXCEPT ![r] = g]
  /\ gen' = [x \in Generations |->
       [gen[x] EXCEPT !.recent = IF old = None THEN @ ELSE x = old,
                      !.left = IF x = old THEN now ELSE @]]
  /\ UNCHANGED <<inv, lease, caller, admissions, plan, now>>

\* plan_query_lease and commit_query_lease.
Lease(g) ==
  /\ gen[g].state = "ready" /\ ~gen[g].gone
  /\ lease' = [lease EXCEPT ![g] = now + 1]
  /\ UNCHANGED <<gen, inv, head, caller, admissions, plan, now>>

Tick ==
  /\ now < MaxTime
  /\ now' = now + 1
  /\ UNCHANGED <<gen, inv, head, lease, caller, admissions, plan>>

-----------------------------------------------------------------------------
(* createGarbageCollectionDryRun, assertGarbageCollectionCommitAllowed      *)

\* activeReferenceRoots.
Rooted(g) == (\E r \in Releases : head[r] = g) \/ lease[g] > now

Retention(g) == gen[g].recent \/ now - gen[g].left < Grace

Candidates == {g \in Present : ~gen[g].gone /\ ~Rooted(g) /\ ~Retention(g)}

DryRun ==
  /\ inv.complete /\ Candidates # {}
  /\ plan' = [rev |-> inv.rev, candidates |-> Candidates]
  /\ UNCHANGED <<gen, inv, head, lease, caller, admissions, now>>

CommitAllowed == inv.complete /\ plan.rev = inv.rev /\ plan.candidates \subseteq Candidates

\* commit_generation_gc_batch, of all the candidates at once.
CommitCollection ==
  /\ plan # NoPlan /\ CommitAllowed /\ inv.rev < MaxRevision
  /\ gen' = [g \in Generations |->
       IF g \in plan.candidates THEN [gen[g] EXCEPT !.gone = TRUE] ELSE gen[g]]
  /\ inv' = [rev |-> inv.rev + 1, complete |-> FALSE, bytes |-> inv.bytes]
  /\ plan' = NoPlan
  /\ UNCHANGED <<head, lease, caller, admissions, now>>

Next ==
  \/ \E g \in Generations : \/ Snapshot(g) \/ Store(g) \/ Prepare(g) \/ Materialize(g)
                            \/ Finish(g) \/ Fail(g) \/ Lease(g)
                            \/ \E r \in Releases : Serve(r, g)
  \/ Measure \/ Tick \/ DryRun \/ CommitCollection

Spec == Init /\ [][Next]_vars

-----------------------------------------------------------------------------
(* Properties                                                               *)

\* Generations that were admitted together fit under the hard limit by their
\* forecasts, however their snapshots and stores overlap: each row exists
\* before its own snapshot, so the last snapshot counts them all.
AdmittedWithinHard ==
  Total({g \in Generations : Admitted(g)}, LAMBDA g : Margin(gen[g].forecast)) <= HardPeak

\* What is finished fits under the hard limit by the bytes that were measured,
\* even where they exceed the forecast (POSTBUILD admission).
FinishedWithinHard ==
  Total({g \in Generations : gen[g].state = "ready" /\ ~gen[g].gone},
        LAMBDA g : Margin(gen[g].observed)) <= HardPeak

\* An admission never reserves less than 150 % of the bytes on disk when it was
\* decided: catalog bytes without an owner count as orphans.
AdmissionCoversDisk ==
  \A a \in admissions : a.rev = inv.rev => a.peak >= Margin(inv.bytes)

\* A collection removes nothing that is served, leased, the last success or
\* within the grace since it left, whatever happened after the dry run.
CollectsUnrooted ==
  \A g \in Generations : gen'[g].gone /\ ~gen[g].gone =>
    /\ \A r \in Releases : head[r] # g
    /\ lease[g] <= now /\ ~gen[g].recent /\ now >= gen[g].left + Grace
=============================================================================
