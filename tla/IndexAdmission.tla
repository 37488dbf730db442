-------------------------- MODULE IndexAdmission --------------------------
(***************************************************************************)
(* Admission of the index plan of a release against the plans a project    *)
(* already retains, while the inventory of physical indexes moves on.      *)
(*                                                                         *)
(* Source: packages/materialization-application/src/index-capacity.ts,     *)
(* packages/materialization-domain/src/index-plan.ts (admitIndexPlan) and  *)
(* packages/materialization-postgres/src/index-capacity.ts; migrations     *)
(* 0014 (requests, measurement) and 0018 (rebinding); for what it meets,   *)
(* projection-ddl.ts and publish of metadata-postgres/src/release.ts.      *)
(*                                                                         *)
(* stageReleasePlan reads the inventory revision, reads the retained       *)
(* plans in a second statement, decides in memory and stores in a          *)
(* serializable transaction.  The snapshot of that transaction is taken    *)
(* by its first statement, the one that waits for the advisory lock: it    *)
(* is SnapshotPersist, the rest Persist.                                   *)
(*                                                                         *)
(* Abstractions: a release has one object type.  A plan is its set of      *)
(* physical signatures and the evidence it cites; both enter its digest,   *)
(* and the digest of a release plan is that of its plan.  An approval is   *)
(* in its period and allows the hard limits; it names a release to retire. *)
(***************************************************************************)
EXTENDS Naturals, FiniteSets, FiniteSetsExt

CONSTANTS
  Procs,       \* callers of IndexPlanAdmissionService
  Releases,
  Indexes,     \* physical signatures
  Cost,        \* unit cost of each index
  Plans,       \* plans a caller may submit for a release
  Approvals,   \* releases an approval may name as retiring
  NormalUnits, HardUnits,   \* limits of the units of the project
  NormalCount, HardCount,   \* limits of its physical indexes
  MaxRevision, \* bound: inventory revisions
  None

Plan == [indexes : SUBSET Indexes, evidence : {"e1", "e2"}]

ConstantsOK ==
  /\ Cost \in [Indexes -> Nat \ {0}] /\ Plans \in [Releases -> SUBSET Plan]
  /\ NormalUnits <= HardUnits /\ NormalCount <= HardCount
  /\ Approvals \subseteq Releases /\ None \notin Releases

VARIABLES
  inv,         \* project_runtime_inventories: [rev, complete]
  phys,        \* index_inventory: state of each index
  admissions,  \* index_plan_admissions
  serving,     \* releases a channel serves
  proc,        \* stage of each caller
  refused      \* the last refusal of a plan with an approval

vars == <<inv, phys, admissions, serving, proc, refused>>

Admission == [release : Releases, plan : Plan, rev : 1 .. MaxRevision, units : Nat,
              count : Nat, mode : {"WITHIN_NORMAL", "NON_EXPANDING_OVERAGE", "APPROVED_OVERAGE"}]

IdleProc == [at |-> "idle"]
NoRefusal == [plan |-> None, approval |-> None, retained |-> {}]

Units(S) == MapThenSumSet(LAMBDA i : Cost[i], S)
IndexesOf(plans) == UNION {q.plan.indexes : q \in plans}

\* Plans with an admission, each with its release: what readIndexInventory returns.
Retained == {[release |-> a.release, plan |-> a.plan] : a \in admissions}
Pending == \E i \in Indexes : phys[i] \in {"planned", "failed"}
MeasurementComplete == inv.complete /\ ~Pending

Init ==
  /\ inv = [rev |-> 1, complete |-> TRUE]
  /\ phys = [i \in Indexes |-> "none"]
  /\ admissions = {}
  /\ serving = {}
  /\ proc = [p \in Procs |-> IdleProc]
  /\ refused = NoRefusal

-----------------------------------------------------------------------------
(* admitIndexPlan                                                           *)

SamePhysicalPlan(a, b) == a.indexes = b.indexes

ReleaseUnchanged(r, plan, retained) ==
  \A q \in retained : q.release = r => SamePhysicalPlan(q.plan, plan)

WithinNormal(units, count) == units <= NormalUnits /\ count <= NormalCount
WithinHard(units, count) == units <= HardUnits /\ count <= HardCount

\* validateIndexApproval: the release to retire must be retained as SERVING,
\* a reason groupRetainedPlans gives to no plan (index-capacity.ts:985).
Reasons(q) == {"PROTECTED"}

ApprovalValid(approval, retained) ==
  approval # None /\ \E q \in retained : q.release = approval /\ "SERVING" \in Reasons(q)

\* The mode of an admission, or "refused".
Mode(r, plan, approval, retained) ==
  LET union == IndexesOf(retained) \cup plan.indexes
      kept == IndexesOf(retained)
      units == Units(union)
      count == Cardinality(union)
  IN  CASE ~ReleaseUnchanged(r, plan, retained) -> "refused"
        [] ~WithinHard(units, count) -> "refused"
        [] WithinNormal(units, count) -> "WITHIN_NORMAL"
        [] approval = None ->
             IF units <= Units(kept) /\ count <= Cardinality(kept)
             THEN "NON_EXPANDING_OVERAGE" ELSE "refused"
        [] OTHER -> IF ApprovalValid(approval, retained) THEN "APPROVED_OVERAGE" ELSE "refused"

-----------------------------------------------------------------------------
(* stageReleasePlan                                                         *)

\* The first query of readIndexInventory.
ReadRevision(p) ==
  /\ proc[p].at = "idle"
  /\ \E r \in Releases, approval \in Approvals \cup {None} : \E plan \in Plans[r] :
       proc' = [proc EXCEPT ![p] =
         [at |-> "plans", release |-> r, plan |-> plan, approval |-> approval,
          rev |-> inv.rev, complete |-> MeasurementComplete]]
  /\ UNCHANGED <<inv, phys, admissions, serving, refused>>

\* groupRetainedPlans: one release plan digest for each release.
OneDigest(retained) ==
  \A a, b \in retained : a.release = b.release => a.plan = b.plan

\* Mutant of RetainedPlans: the plans whose indexes exist.
RetainedPlansBuilt == {q \in Retained : \A i \in q.plan.indexes : phys[i] = "ready"}

RetainedPlans == Retained

\* The second query, admitIndexPlan and the report.
Decide(p) ==
  LET c == proc[p]
      retained == RetainedPlans
      union == IndexesOf(retained) \cup c.plan.indexes
      mode == Mode(c.release, c.plan, c.approval, retained)
  IN
  /\ c.at = "plans"
  /\ IF ~OneDigest(retained) \/ ~c.complete
     THEN proc' = [proc EXCEPT ![p] = IdleProc] /\ UNCHANGED refused
     ELSE IF mode = "refused"
     THEN /\ proc' = [proc EXCEPT ![p] = IdleProc]
          /\ refused' = IF c.approval = None THEN refused
                       ELSE [plan |-> c.plan, approval |-> c.approval, retained |-> retained]
     ELSE /\ proc' = [proc EXCEPT ![p] =
               [at |-> "decided",
                row |-> [release |-> c.release, plan |-> c.plan, rev |-> c.rev,
                         units |-> Units(union), count |-> Cardinality(union), mode |-> mode]]]
          /\ UNCHANGED refused
  /\ UNCHANGED <<inv, phys, admissions, serving>>

\* persistAdmittedIndexPlans: the revision must still be the one decided on.
SnapshotPersist(p) ==
  /\ proc[p].at = "decided"
  /\ proc' = [proc EXCEPT ![p] =
       IF MeasurementComplete /\ inv.rev = proc[p].row.rev
       THEN [at |-> "storing", row |-> proc[p].row, seen |-> admissions]
       ELSE IdleProc]
  /\ UNCHANGED <<inv, phys, admissions, serving, refused>>

SameKey(a, b) == a.release = b.release /\ a.plan = b.plan /\ a.rev = b.rev

\* ON CONFLICT DO NOTHING and the comparison after it: a row the snapshot does
\* not show is a serialization failure, one it shows must be equal.
Storable(row, seen) == \A a \in admissions : SameKey(a, row) => a \in seen /\ a = row

Persist(p) ==
  LET row == proc[p].row IN
  /\ proc[p].at = "storing"
  /\ admissions' = IF Storable(row, proc[p].seen) THEN admissions \cup {row} ELSE admissions
  /\ proc' = [proc EXCEPT ![p] = IdleProc]
  /\ UNCHANGED <<inv, phys, serving, refused>>

-----------------------------------------------------------------------------
(* The inventory moves.                                                     *)

\* request_projection_index_build.
RequestBuild(i) ==
  /\ phys[i] = "none" /\ inv.complete
  /\ \E a \in admissions : i \in a.plan.indexes /\ a.rev = inv.rev
  /\ phys' = [phys EXCEPT ![i] = "planned"]
  /\ UNCHANGED <<inv, admissions, serving, proc, refused>>

\* markSucceeded and markFailedQuietly of the DDL executor, which repairs a
\* failed build; an index that is claimed and building counts as planned.
Build(i) ==
  /\ phys[i] \in {"planned", "failed"}
  /\ \E s \in {"ready", "failed"} : phys' = [phys EXCEPT ![i] = s]
  /\ UNCHANGED <<inv, admissions, serving, proc, refused>>

\* record_project_physical_measurement.
Measure ==
  /\ ~Pending /\ inv.rev < MaxRevision
  /\ inv' = [rev |-> inv.rev + 1, complete |-> TRUE]
  /\ UNCHANGED <<phys, admissions, serving, proc, refused>>

\* A collection drops an index that no generation still uses, which are those of
\* releases that are not served at the most.  A retired index is never ready
\* again: the inventory refuses the transition.
Drop(i) ==
  /\ phys[i] = "ready" /\ inv.rev < MaxRevision
  /\ \A a \in admissions : a.release \in serving => i \notin a.plan.indexes
  /\ phys' = [phys EXCEPT ![i] = "retired"]
  /\ inv' = [rev |-> inv.rev + 1, complete |-> FALSE]
  /\ UNCHANGED <<admissions, serving, proc, refused>>

\* publish, of a release with a ready activation: its indexes were verified.
Serve(r) ==
  /\ r \notin serving
  /\ \E a \in admissions : a.release = r /\ \A i \in a.plan.indexes : phys[i] = "ready"
  /\ serving' = serving \cup {r}
  /\ UNCHANGED <<inv, phys, admissions, proc, refused>>

Ready == {i \in Indexes : phys[i] = "ready"}

\* The mode rebind_materialization_index_admissions gives, or "refused".
RebindMode(prior, units, count) ==
  CASE ~WithinHard(units, count) -> "refused"
    [] WithinNormal(units, count) -> "WITHIN_NORMAL"
    [] /\ prior.mode = "NON_EXPANDING_OVERAGE"
       /\ units <= prior.units /\ count <= prior.count -> "NON_EXPANDING_OVERAGE"
    [] prior.mode = "APPROVED_OVERAGE" -> "APPROVED_OVERAGE"
    [] OTHER -> "refused"

\* A plan admitted at an earlier revision is admitted at the current one.
Rebind(r) ==
  /\ inv.complete
  /\ \E prior \in admissions :
       LET units == Units(Ready)
           count == Cardinality(Ready)
           mode == RebindMode(prior, units, count)
       IN  /\ prior.release = r
           /\ \A a \in admissions : a.release = r /\ a.plan = prior.plan => a.rev <= prior.rev
           /\ prior.rev # inv.rev /\ mode # "refused"
           /\ admissions' = admissions \cup
                {[release |-> r, plan |-> prior.plan, rev |-> inv.rev, units |-> units,
                  count |-> count, mode |-> mode]}
  /\ UNCHANGED <<inv, phys, serving, proc, refused>>

Next ==
  \/ \E p \in Procs : \/ ReadRevision(p) \/ Decide(p) \/ SnapshotPersist(p) \/ Persist(p)
  \/ \E i \in Indexes : RequestBuild(i) \/ Build(i) \/ Drop(i)
  \/ \E r \in Releases : Serve(r) \/ Rebind(r)
  \/ Measure

Spec == Init /\ [][Next]_vars

-----------------------------------------------------------------------------
(* Properties                                                               *)

\* Rows are well formed and none belongs to a revision that is still to come
\* (schema of index_plan_admissions).
TypeOK ==
  /\ inv \in [rev : 1 .. MaxRevision, complete : BOOLEAN]
  /\ phys \in [Indexes -> {"none", "planned", "failed", "ready", "retired"}]
  /\ admissions \subseteq Admission
  /\ \A a \in admissions : a.rev <= inv.rev
  /\ serving \subseteq Releases

\* All retained plans together stay within the normal limits when no approval
\* raised them (ADR-008 5.3, admitIndexPlan), whatever is built, measured,
\* dropped and rebound in between.
UnionWithinNormal ==
  WithinNormal(Units(IndexesOf(Retained)), Cardinality(IndexesOf(Retained)))

\* ADR-008 5.3 and 7.1 say that of the hard limits with any approval and any
\* number of callers.  It does not hold: admissions of two releases, each
\* decided before the other is stored, leave the inventory's revision alone.
UnionWithinHard ==
  WithinHard(Units(IndexesOf(Retained)), Cardinality(IndexesOf(Retained)))

\* One admission for a release, a plan and a revision, even when two callers
\* submit the same plan at once and decide on different inventories.
OneAdmission == \A a, b \in admissions : SameKey(a, b) => a = b

\* A release never retains two plans that differ in their indexes ("Immutable
\* Release cannot change its physical Index Plan", index-plan.ts:339).
ReleaseKeepsIndexes ==
  \A a, b \in admissions : a.release = b.release => a.plan.indexes = b.plan.indexes
=============================================================================
