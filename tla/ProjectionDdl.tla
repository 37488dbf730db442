----------------------------- MODULE ProjectionDdl -----------------------------
(***************************************************************************)
(* The projection DDL executor: short-lived processes that create or drop  *)
(* one index each, outside any transaction, and record the result.  They   *)
(* can be killed between any two statements and started again for the same *)
(* request, also while another one runs.                                   *)
(*                                                                         *)
(* Source: materialization-postgres/src/projection-ddl.ts; the request     *)
(* function and triggers of migrations 0014 and 0017.                      *)
(*                                                                         *)
(* Abstractions.  One project.  An index's definition is equal to the      *)
(* planned one or not ("foreign").  A collection plan has one index.  A    *)
(* build is named by the set of indexes its index plan contains.           *)
(***************************************************************************)
EXTENDS Integers, FiniteSets

CONSTANTS
  Indexes,
  Builds,          \* builds, each the set of indexes it needs
  Executors,
  None,
  MaxRevision      \* bound: inventory revisions

DdlAssumption ==
  /\ Builds \subseteq SUBSET Indexes /\ None \notin Executors /\ MaxRevision \in Nat \ {0}

Revisions == 1..MaxRevision
Actions == {"CREATE", "DROP"}

VARIABLES
  catalog,     \* what PostgreSQL has under an index's name
  inv,         \* runtime.index_inventory states
  inventory,   \* [rev, complete]
  requests,    \* projection_ddl_requests by index, action and revision
  plan,        \* the collection plan a DROP belongs to
  builds,      \* builds and the revision they were measured at
  exec,        \* executor processes
  lock         \* the project's session advisory lock

vars == <<catalog, inv, inventory, requests, plan, builds, exec, lock>>

Stopped == [at |-> "idle", q |-> None]
NoPlan == [state |-> "none", index |-> None, rev |-> 0, moved |-> FALSE]

Init ==
  /\ catalog = [i \in Indexes |-> "absent"]
  /\ inv = [i \in Indexes |-> "none"]
  /\ inventory = [rev |-> 1, complete |-> TRUE]
  /\ requests = [q \in Indexes \X Actions \X Revisions |-> "none"]
  /\ plan = NoPlan
  /\ builds = [b \in Builds |-> [state |-> "none", rev |-> 0]]
  /\ exec = [e \in Executors |-> Stopped]
  /\ lock = None

-----------------------------------------------------------------------------
(* Who asks for DDL and who relies on it.                                   *)

\* request_projection_index_build.
RequestCreate(i) ==
  /\ inventory.complete
  /\ requests[i, "CREATE", inventory.rev] = "none"
  /\ requests' = [requests EXCEPT ![i, "CREATE", inventory.rev] = "APPROVED"]
  /\ inv' = [inv EXCEPT ![i] = IF @ = "none" THEN "planned" ELSE @]
  /\ UNCHANGED <<catalog, inventory, plan, builds, exec, lock>>

References(i) == {b \in Builds : builds[b].state # "none" /\ i \in b}

\* A collection plan with one unreferenced index has reached INDEX_REQUEST.
RequestDrop(i) ==
  /\ lock = None /\ plan.state \in {"none", "stale", "committed"}
  /\ inv[i] = "ready" /\ inventory.complete /\ References(i) = {}
  /\ requests[i, "DROP", inventory.rev] = "none"
  /\ plan' = [state |-> "waiting_for_index_ddl", index |-> i, rev |-> inventory.rev,
              moved |-> FALSE]
  /\ requests' = [requests EXCEPT ![i, "DROP", inventory.rev] = "APPROVED"]
  /\ UNCHANGED <<catalog, inv, inventory, builds, exec, lock>>

\* The plan's next commit finds its request SUCCEEDED.
CommitPlan ==
  /\ lock = None /\ plan.state = "waiting_for_index_ddl"
  /\ inv[plan.index] = "retired" /\ plan.rev = inventory.rev /\ ~plan.moved
  /\ plan' = [plan EXCEPT !.state = "committed"]
  /\ UNCHANGED <<catalog, inv, inventory, requests, builds, exec, lock>>

\* A build inserts its generations, which are roots: a root change takes the
\* project's lock and moves the digest every open plan is compared with.
StartBuild(b) ==
  /\ lock = None /\ builds[b].state = "none"
  /\ builds' = [builds EXCEPT ![b].state = "started"]
  /\ plan' = [plan EXCEPT !.moved = TRUE]
  /\ UNCHANGED <<catalog, inv, inventory, requests, exec, lock>>

\* scanAndRecordProjectPhysicalInventory: every row of the inventory is ready
\* and in the catalog, valid and with its signature; no index is untracked.
Scanned ==
  \A i \in Indexes : IF inv[i] = "none" THEN catalog[i] = "absent"
                     ELSE inv[i] = "ready" /\ catalog[i] = "valid"

\* It takes the executors' lock for its transaction.
Measured ==
  /\ lock = None /\ Scanned /\ inventory.rev < MaxRevision
  /\ inventory' = [rev |-> inventory.rev + 1, complete |-> TRUE]

Measure ==
  /\ Measured
  /\ UNCHANGED <<catalog, inv, requests, plan, builds, exec, lock>>

MeasureBuild(b) ==
  /\ builds[b].state = "started"
  /\ Measured
  /\ builds' = [builds EXCEPT ![b] = [state |-> "measured", rev |-> inventory.rev + 1]]
  /\ UNCHANGED <<catalog, inv, requests, plan, exec, lock>>

\* verify_materialization_index_inventory and finish_materialization_build.
FinishBuild(b) ==
  /\ builds[b].state = "measured" /\ builds[b].rev = inventory.rev /\ inventory.complete
  /\ \A i \in b : inv[i] = "ready"
  /\ builds' = [builds EXCEPT ![b].state = "ready"]
  /\ UNCHANGED <<catalog, inv, inventory, requests, plan, exec, lock>>

\* Somebody creates an index of that name with another definition.
ForeignIndex(i) ==
  /\ catalog[i] = "absent" /\ inv[i] = "none"
  /\ catalog' = [catalog EXCEPT ![i] = "foreign"]
  /\ UNCHANGED <<inv, inventory, requests, plan, builds, exec, lock>>

-----------------------------------------------------------------------------
(* The triggers on index_inventory and projection_ddl_requests.             *)

InventoryMayBecome(i, s) ==
  \/ inv[i] = s
  \/ <<inv[i], s>> \in {<<"planned", "building">>, <<"planned", "failed">>, <<"building", "ready">>,
                        <<"building", "failed">>, <<"failed", "building">>, <<"ready", "retired">>,
                        <<"ready", "failed">>}

RequestMayBecome(q, s) ==
  \/ requests[q] \in {"APPROVED", "FAILED", "RUNNING"} /\ s = "RUNNING"
  \/ requests[q] = "RUNNING" /\ s \in {"SUCCEEDED", "FAILED"}
  \/ requests[q] = "SUCCEEDED" /\ s = "FAILED"

-----------------------------------------------------------------------------
(* An executor.                                                             *)

Unlock(e) == lock' = IF lock = e THEN None ELSE lock
Stop(e) == exec' = [exec EXCEPT ![e] = Stopped] /\ Unlock(e)
Goto(e, at) == exec' = [exec EXCEPT ![e].at = at]

\* claimRequest: its own transaction, before the lock.  A succeeded DROP is
\* answered from its record, a succeeded CREATE is reconciled again.
Claim(e, q) ==
  /\ exec[e].at = "idle" /\ requests[q] # "none"
  /\ ~(q[2] = "DROP" /\ requests[q] = "SUCCEEDED")
  /\ q[2] = "DROP" => inv[q[1]] \in {"ready", "retired"}
  /\ exec' = [exec EXCEPT ![e] = [at |-> "claimed", q |-> q]]
  /\ IF requests[q] = "SUCCEEDED"
       THEN UNCHANGED <<requests, inv>>
       ELSE /\ requests' = [requests EXCEPT ![q] = "RUNNING"]
            /\ inv' = IF q[2] = "CREATE" /\ inv[q[1]] \in {"planned", "building", "failed"}
                        THEN [inv EXCEPT ![q[1]] = "building"] ELSE inv
  /\ UNCHANGED <<catalog, inventory, plan, builds, lock>>

\* markFailedQuietly: one transaction, given up if a trigger refuses it.
MarkFailed(e, stale) ==
  LET q == exec[e].q
      create == q[2] = "CREATE"
  IN /\ IF RequestMayBecome(q, "FAILED") /\ (create => InventoryMayBecome(q[1], "failed"))
          THEN /\ requests' = [requests EXCEPT ![q] = "FAILED"]
               /\ inv' = IF create THEN [inv EXCEPT ![q[1]] = "failed"] ELSE inv
               /\ plan' = IF ~create /\ stale /\ plan.state = "waiting_for_index_ddl"
                            THEN [plan EXCEPT !.state = "stale"] ELSE plan
          ELSE UNCHANGED <<requests, inv, plan>>
     /\ Stop(e)
     /\ UNCHANGED <<catalog, inventory, builds>>

\* Mutant of TryLock: whoever comes last has the lock.
TryLockShared(e) ==
  /\ exec[e].at = "claimed"
  /\ lock' = e /\ Goto(e, "locked")
  /\ UNCHANGED <<catalog, inv, inventory, requests, plan, builds>>

TryLock(e) ==
  /\ exec[e].at = "claimed" /\ lock = None
  /\ lock' = e /\ Goto(e, "locked")
  /\ UNCHANGED <<catalog, inv, inventory, requests, plan, builds>>

IndexBusy(e) == exec[e].at = "claimed" /\ lock # None /\ MarkFailed(e, FALSE)

\* verifyGcDropAuthorization under the lock.
Authorized(q) ==
  /\ plan.state = "waiting_for_index_ddl" /\ plan.index = q[1]
  /\ plan.rev = inventory.rev /\ ~plan.moved
  /\ inv[q[1]] = "ready"

Verified(q) == q[3] = inventory.rev /\ (q[2] = "DROP" => Authorized(q))

\* loadRequest again, assertInventoryRevision and the authorization of a drop.
Verify(e) ==
  /\ exec[e].at = "locked"
  /\ IF Verified(exec[e].q)
       THEN Goto(e, "verified") /\ UNCHANGED <<catalog, inv, inventory, requests, plan, builds, lock>>
       ELSE MarkFailed(e, TRUE)

\* assertCatalogDefinition.
Matches(i, allowInvalid) ==
  \/ catalog[i] = "valid"
  \/ allowInvalid /\ catalog[i] = "invalid"

\* reconcileCreate: reuse, or drop an invalid index and create; CREATE INDEX
\* CONCURRENTLY leaves an invalid index while it runs.
Reconcile(e) ==
  LET i == exec[e].q[1]
  IN /\ exec[e].at = "verified" /\ exec[e].q[2] = "CREATE"
     /\ catalog[i] = "absent" \/ Matches(i, TRUE)
     /\ IF catalog[i] = "valid"
          THEN Goto(e, "applied") /\ UNCHANGED catalog
          ELSE Goto(e, "creating") /\ catalog' = [catalog EXCEPT ![i] = "invalid"]
     /\ UNCHANGED <<inv, inventory, requests, plan, builds, lock>>

Created(e) ==
  /\ exec[e].at = "creating"
  /\ catalog' = [catalog EXCEPT ![exec[e].q[1]] = "valid"]
  /\ Goto(e, "applied")
  /\ UNCHANGED <<inv, inventory, requests, plan, builds, lock>>

\* reconcileDrop.
ReconcileDrop(e) ==
  LET i == exec[e].q[1]
  IN /\ exec[e].at = "verified" /\ exec[e].q[2] = "DROP"
     /\ catalog[i] = "absent" \/ Matches(i, FALSE)
     /\ catalog' = [catalog EXCEPT ![i] = "absent"]
     /\ Goto(e, "applied")
     /\ UNCHANGED <<inv, inventory, requests, plan, builds, lock>>

\* DDL_INDEX_DEFINITION_MISMATCH, or a statement that fails while the
\* connection survives.
DdlFails(e) == exec[e].at \in {"verified", "creating", "applied"} /\ MarkFailed(e, FALSE)

\* markSucceeded, unless a trigger refuses it.
MarkSucceeded(e) ==
  LET q == exec[e].q
      i == q[1]
      result == CASE q[2] = "CREATE" -> "ready" [] inv[i] = "ready" -> "retired" [] OTHER -> inv[i]
  IN /\ exec[e].at = "applied"
     /\ IF RequestMayBecome(q, "SUCCEEDED") /\ InventoryMayBecome(i, result)
          THEN /\ requests' = [requests EXCEPT ![q] = "SUCCEEDED"]
               /\ inv' = [inv EXCEPT ![i] = result]
               /\ IF q[2] = "CREATE"
                    THEN UNCHANGED <<inventory, plan>>
                    ELSE /\ inventory' = [rev |-> inventory.rev + 1, complete |-> FALSE]
                         /\ plan' = IF plan.state = "waiting_for_index_ddl"
                                      THEN [plan EXCEPT !.rev = inventory.rev + 1] ELSE plan
               /\ Stop(e)
               /\ UNCHANGED <<catalog, builds>>
          ELSE MarkFailed(e, FALSE)
     /\ inventory.rev < MaxRevision

\* The process or its connection is killed: the session's lock goes with it.
Killed(e) ==
  /\ exec[e].at # "idle"
  /\ Stop(e)
  /\ UNCHANGED <<catalog, inv, inventory, requests, plan, builds>>

ExecutorStep(e) ==
  \/ TryLock(e) \/ IndexBusy(e) \/ Verify(e) \/ Reconcile(e) \/ Created(e)
  \/ ReconcileDrop(e) \/ MarkSucceeded(e)

Next ==
  \/ CommitPlan \/ Measure
  \/ \E i \in Indexes : RequestCreate(i) \/ RequestDrop(i) \/ ForeignIndex(i)
  \/ \E b \in Builds : StartBuild(b) \/ MeasureBuild(b) \/ FinishBuild(b)
  \/ \E e \in Executors :
       \/ \E q \in DOMAIN requests : Claim(e, q)
       \/ ExecutorStep(e) \/ DdlFails(e) \/ Killed(e)

Spec == Init /\ [][Next]_vars

-----------------------------------------------------------------------------
(* Types.                                                                   *)
TypeOK ==
  /\ \A i \in Indexes :
       /\ catalog[i] \in {"absent", "invalid", "valid", "foreign"}
       /\ inv[i] \in {"none", "planned", "building", "ready", "failed", "retired"}
  /\ inventory.rev \in Revisions /\ inventory.complete \in BOOLEAN
  /\ \A q \in DOMAIN requests :
       requests[q] \in {"none", "APPROVED", "RUNNING", "SUCCEEDED", "FAILED"}
  /\ lock \in Executors \cup {None}
  /\ \A e \in Executors : exec[e].at \in {"locked", "verified", "creating", "applied"} => lock = e

(* A finished build has all its indexes in the catalog, valid, although an  *)
(* executor may have been killed between dropping an index and recording    *)
(* it, which leaves an inventory that calls the index ready.                *)
BuiltOnValidIndexes ==
  \A b \in Builds : builds[b].state = "ready" => \A i \in b : catalog[i] = "valid"

(* An index of another definition is never dropped, replaced or taken for   *)
(* the planned one.                                                         *)
ForeignIndexKept == \A i \in Indexes : catalog[i] = "foreign" =>
                      catalog'[i] = "foreign" /\ inv'[i] # "ready"
=============================================================================
