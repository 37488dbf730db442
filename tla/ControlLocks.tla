---------------------------- MODULE ControlLocks ----------------------------
(***************************************************************************)
(* The transactions on the control records of one project as sequences of  *)
(* row and advisory locks, and the owner check that publication and        *)
(* packages make inside their transaction.                                 *)
(*                                                                         *)
(* Source: packages/metadata-postgres/src (index.ts, release.ts,           *)
(* package.ts), the functions of migrations 0016, 0017, 0023 and 0028, the *)
(* order of tools/metadata-control-plane/model.ts.                         *)
(*                                                                         *)
(* A step of a plan takes one lock, reads a role or commits.  Locks are    *)
(* kept until the transaction ends; the modes used here conflict (FOR      *)
(* UPDATE with each other and with FOR SHARE and FOR KEY SHARE), so each   *)
(* is exclusive.  PostgreSQL is external: it makes a transaction wait for  *)
(* a held lock and ends one that waits in a cycle.  The triggers of        *)
(* 0017:364 take the project's advisory lock, "gcroot", when a channel,    *)
(* release or serving head is written, which in the plans below is after   *)
(* the last row that is waited for; the functions that begin with "gcroot" *)
(* take it themselves.  The locks foreign keys take are left out.          *)
(*                                                                         *)
(* "resource" and "revision" are of the resource that is edited and        *)
(* published, "target" and "targetRevision" of one it depends on, which    *)
(* is pinned with it.                                                      *)
(***************************************************************************)
EXTENDS Naturals, Sequences, FiniteSets

CONSTANTS
  Transactions,  \* those that run: names of the plans below
  MaxRuns,       \* bound: how often each of them starts
  NULL

VARIABLES
  held,    \* the transaction that holds each lock
  pc,      \* next step of each transaction, 0 when it does not run
  sawOwner,\* what its owner check found, NULL before
  isOwner, \* whether the principal of publication and package is an owner
  runs     \* how often each transaction has started

vars == <<held, pc, sawOwner, isOwner, runs>>

Locks == {"project", "epoch", "binding", "channel", "release", "resource", "revision",
          "target", "targetRevision", "package", "installation", "inventory", "gcplan", "gcroot"}

Lock(l) == [kind |-> "lock", lock |-> l]
Check == [kind |-> "check", lock |-> NULL]
Commit == [kind |-> "commit", lock |-> NULL]

-----------------------------------------------------------------------------
(* The plans.                                                              *)

\* publishRelease: project control, channel, release, owner, pins in their
\* order (FOR UPDATE OF resource, revision), the package change, writes.
PublishPlan == <<Lock("project"), Lock("epoch"), Lock("channel"), Lock("release"), Check,
                 Lock("resource"), Lock("revision"), Lock("target"), Lock("targetRevision"),
                 Lock("installation"), Lock("gcroot"), Commit>>

\* stageRelease; validateReleaseDraft is the same without the write.
StagePlan == <<Lock("project"), Lock("epoch"), Lock("channel"), Lock("release"),
               Lock("gcroot"), Commit>>

\* createReleaseDraft: FOR KEY SHARE OF revision, resource.
CreatePlan == <<Lock("project"), Lock("epoch"), Lock("revision"), Lock("resource"),
                Lock("targetRevision"), Lock("target"), Lock("gcroot"), Commit>>

\* lockProjectAndAssertOwner reads the role in the query that locks the
\* project, and locks the epoch after it; then the package's identity, its
\* resources one after the other, and the channel of its release draft.
PackagePlan == <<Lock("project"), Check, Lock("epoch"), Lock("package"), Lock("installation"),
                 Lock("resource"), Lock("revision"), Lock("target"), Lock("targetRevision"),
                 Lock("channel"), Lock("gcroot"), Commit>>

\* replaceRoleBinding.
RolePlan == <<Lock("epoch"), Lock("binding"), Commit>>

\* archiveProject.
ArchivePlan == <<Lock("epoch"), Lock("project"), Commit>>

\* patchDraftRevision, createChildDraft and transitionRevisionState.
DraftPlan == <<Lock("resource"), Lock("revision"), Commit>>

\* The same of the resource that the other depends on.
TargetPlan == <<Lock("target"), Lock("targetRevision"), Commit>>

\* validateDraftRevision: the root's resource before its revision, those it
\* depends on the other way round (FOR UPDATE OF revision, resource).
ValidatePlan == <<Lock("project"), Lock("resource"), Lock("revision"),
                  Lock("targetRevision"), Lock("target"), Commit>>

\* g20211_commit_snapshot_group_cutover.
CutoverPlan == <<Lock("project"), Lock("channel"), Lock("release"), Lock("inventory"),
                 Lock("gcroot"), Commit>>

\* g20212_assert_plan_current and the batch that follows it.
CollectPlan == <<Lock("gcroot"), Lock("gcplan"), Lock("inventory"), Commit>>

\* plan_query_lease.
LeasePlan == <<Lock("gcroot"), Lock("release"), Lock("epoch"), Commit>>

\* retire_release_serving_head.
RetirePlan == <<Lock("gcroot"), Lock("project"), Lock("release"), Commit>>

Plan(t) ==
  CASE t = "publish"  -> PublishPlan  [] t = "stage"   -> StagePlan
    [] t = "create"   -> CreatePlan   [] t = "package" -> PackagePlan
    [] t = "role"     -> RolePlan     [] t = "archive" -> ArchivePlan
    [] t = "draft"    -> DraftPlan    [] t = "target"  -> TargetPlan
    [] t = "validate" -> ValidatePlan [] t = "cutover" -> CutoverPlan
    [] t = "collect"  -> CollectPlan  [] t = "lease"   -> LeasePlan
    [] t = "retire"   -> RetirePlan

-----------------------------------------------------------------------------
Init ==
  /\ held = [l \in Locks |-> NULL]
  /\ pc = [t \in Transactions |-> 0]
  /\ sawOwner = [t \in Transactions |-> NULL]
  /\ isOwner = TRUE
  /\ runs = [t \in Transactions |-> 0]

Step(t) == Plan(t)[pc[t]]
Running(t) == pc[t] # 0

Begin(t) ==
  /\ ~Running(t)
  /\ runs[t] < MaxRuns
  /\ pc' = [pc EXCEPT ![t] = 1]
  /\ runs' = [runs EXCEPT ![t] = @ + 1]
  /\ UNCHANGED <<held, sawOwner, isOwner>>

Acquire(t) ==
  /\ Running(t) /\ Step(t).kind = "lock"
  /\ held[Step(t).lock] = NULL
  /\ held' = [held EXCEPT ![Step(t).lock] = t]
  /\ pc' = [pc EXCEPT ![t] = @ + 1]
  /\ UNCHANGED <<sawOwner, isOwner, runs>>

CheckOwner(t) ==
  /\ Running(t) /\ Step(t).kind = "check"
  /\ sawOwner' = [sawOwner EXCEPT ![t] = isOwner]
  /\ pc' = [pc EXCEPT ![t] = @ + 1]
  /\ UNCHANGED <<held, isOwner, runs>>

Released(t) == [l \in Locks |-> IF held[l] = t THEN NULL ELSE held[l]]

\* A role change takes the owner's role away or gives it back.
Finish(t) ==
  /\ Running(t) /\ Step(t).kind = "commit"
  /\ sawOwner[t] # FALSE
  /\ held' = Released(t)
  /\ pc' = [pc EXCEPT ![t] = 0]
  /\ sawOwner' = [sawOwner EXCEPT ![t] = NULL]
  /\ isOwner' = IF t = "role" THEN ~isOwner ELSE isOwner
  /\ UNCHANGED runs

\* The transactions t waits for.
WaitsFor(t) ==
  IF Running(t) /\ Step(t).kind = "lock" /\ held[Step(t).lock] \notin {NULL, t}
  THEN {held[Step(t).lock]} ELSE {}

\* t waits, through others, for itself: each waits for one transaction, so
\* as many steps as there are transactions lead back to t or to one that runs.
InCycle(t) ==
  LET next(S) == UNION {WaitsFor(u) : u \in S}
      reach[n \in 1 .. Cardinality(Transactions)] ==
        IF n = 1 THEN WaitsFor(t) ELSE next(reach[n - 1])
  IN  WaitsFor(t) # {} /\ \E n \in DOMAIN reach : t \in reach[n]

\* A refusal (no owner any more) or the deadlock detector rolls back.
Rollback(t) ==
  /\ Running(t)
  /\ sawOwner[t] = FALSE \/ InCycle(t)
  /\ held' = Released(t)
  /\ pc' = [pc EXCEPT ![t] = 0]
  /\ sawOwner' = [sawOwner EXCEPT ![t] = NULL]
  /\ UNCHANGED <<isOwner, runs>>

Next == \E t \in Transactions :
          \/ Begin(t)
          \/ Acquire(t)
          \/ CheckOwner(t)
          \/ Finish(t)
          \/ Rollback(t)

Spec == Init /\ [][Next]_vars

\* Every transaction that can go on does: the database schedules them all.
Fairness ==
  \A t \in Transactions :
    WF_vars(Acquire(t) \/ CheckOwner(t) \/ Finish(t) \/ Rollback(t))

-----------------------------------------------------------------------------
(* Properties.                                                             *)

\* No transactions wait for each other in a circle, so none is ended by the
\* deadlock detector: what one order of locks for all of them is for
\* (LOCK_ORDER).
NoDeadlock == \A t \in Transactions : ~InCycle(t)

\* The transactions that take the locks of others in another order: the epoch
\* before the project, or the advisory lock before what the others hold when
\* their triggers ask for it, or a revision before its resource.
OutOfOrder == {"archive", "collect", "lease", "retire", "create", "validate"}

\* Transactions that wait in a circle wait for one that is out of order: those
\* that keep to the order never end each other, and a circle of two revisions'
\* locks needs an edit beside it.
CyclesNeedOutOfOrder ==
  (\E t \in Transactions : InCycle(t)) =>
    \E t \in Transactions :
      /\ InCycle(t) /\ t \in OutOfOrder
      /\ t \in {"create", "validate"} => \E u \in Transactions : InCycle(u) /\ u \in {"draft", "target"}

\* A publication commits only for a principal that is an owner when it
\* commits, however a change of roles interleaves (assertPublisherOwner after
\* lock_authorization_epoch).
PublishedByOwner ==
  \A t \in Transactions :
    t = "publish" /\ pc[t] = Len(Plan(t)) /\ pc'[t] = 0 /\ sawOwner[t] = TRUE => isOwner

\* Every transaction that starts ends.
AllEnd == \A t \in Transactions : Running(t) ~> ~Running(t)

-----------------------------------------------------------------------------
\* The transactions are those that have a plan; NULL is nothing else.
LockAssumption ==
  /\ Transactions \subseteq {"publish", "stage", "create", "package", "role", "archive", "draft",
                             "target", "validate", "cutover", "collect", "lease", "retire"}
  /\ NULL \notin Transactions /\ NULL \notin BOOLEAN
=============================================================================
