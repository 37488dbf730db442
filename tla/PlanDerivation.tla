--------------------------- MODULE PlanDerivation ---------------------------
(***************************************************************************)
(* Staging derives a release's runtime plan from its pins, the snapshot    *)
(* group definitions of the project and the index admissions of the        *)
(* moment, and stores it.  Staging again derives it again, from facts that *)
(* have moved on, and must find the plan it stored.                        *)
(*                                                                         *)
(* Source: stageRelease and deriveAndPersistRuntimePlan of                 *)
(* packages/metadata-postgres/src/release.ts,                              *)
(* packages/materialization-domain/src/runtime-plan.ts and the tables and  *)
(* triggers of migration 0015.                                             *)
(*                                                                         *)
(* Abstractions: a release pins revisions, which never change, so a        *)
(* mapping stands for its pinned revision; its schema is pinned with it; a *)
(* plan is the set of its members and its digest is that set.  Group       *)
(* definitions list their mappings in the order of their ids, which only   *)
(* their author guarantees.                                                *)
(***************************************************************************)
EXTENDS Integers, FiniteSets

CONSTANTS
  Releases,
  Mappings,
  Target,        \* per mapping: the target it maps to
  LinkTargets,   \* the targets that are link types
  PinnedMappings, PinnedTargets, \* per release
  Groups,
  Digests,       \* index plans an object target may be admitted with
  MaxInventory,  \* bound: inventory revisions
  MaxAdmissions, \* bound: index admissions
  LinkDigest,    \* the one plan of a link target
  None

VARIABLES
  defs,       \* per group: its mappings; {} when not defined
  admissions, \* set of [release, target, digest, revision, approval, at]
  inventory,  \* [revision, complete]
  approval,   \* the capacity approval is active and not expired
  plans,      \* per release: None or the members stored
  state,      \* per release: "draft", "staging", "ready"
  certified   \* per release: a complete current certificate set exists

vars == <<defs, admissions, inventory, approval, plans, state, certified>>

Init == /\ defs = [g \in Groups |-> {}]
        /\ admissions = {}
        /\ inventory = [revision |-> 1, complete |-> TRUE]
        /\ approval = TRUE
        /\ plans = [r \in Releases |-> None]
        /\ state = [r \in Releases |-> "draft"]
        /\ certified = [r \in Releases |-> FALSE]

-----------------------------------------------------------------------------
(* compileRuntimeMemberPlan. *)

GroupsOf(m) == {g \in Groups : m \in defs[g]}

\* parseGroups and mappingGroup: a mapping of the project is in one group
GroupsParse == \A m \in Mappings : Cardinality(GroupsOf(m)) <= 1

\* a group with one pinned mapping has all of them pinned
GroupsPinned(r) ==
  \A m \in PinnedMappings[r] :
    GroupsOf(m) # {} /\ \A g \in GroupsOf(m) : defs[g] \subseteq PinnedMappings[r]

TargetsPinned(r) == \A m \in PinnedMappings[r] : Target[m] \in PinnedTargets[r]

\* parseRuntimeMemberPlan: no two members share a key
KeysUnique(r) == \A m, n \in PinnedMappings[r] : Target[m] = Target[n] => m = n

Indexed(r, indexes) == \A m \in PinnedMappings[r] : \E i \in indexes : i.target = Target[m]

Compiles(r, indexes) ==
  GroupsParse /\ GroupsPinned(r) /\ TargetsPinned(r) /\ KeysUnique(r) /\ Indexed(r, indexes)

CompileRuntimeMemberPlan(r, indexes) ==
  {[mapping |-> m, target |-> Target[m], group |-> CHOOSE g \in Groups : m \in defs[g],
    digest |-> (CHOOSE i \in indexes : i.target = Target[m]).digest] : m \in PinnedMappings[r]}

-----------------------------------------------------------------------------
(* deriveAndPersistRuntimePlan. *)

CurrentAdmission(a) == /\ a.revision = inventory.revision /\ inventory.complete
                       /\ a.approval => approval

\* the one plan a link target has, made when it is first needed
EnsureLinkIndexPlan(r) ==
  {[target |-> t, digest |-> LinkDigest] :
     t \in {Target[m] : m \in PinnedMappings[r]} \cap LinkTargets}

\* the latest current admission of each target, and the plans of the links
ReadNewRuntimePlanIndexes(r) ==
  LET current == {a \in admissions : a.release = r /\ CurrentAdmission(a)}
  IN {[target |-> a.target, digest |-> a.digest] :
        a \in {b \in current : \A c \in current : c.target = b.target => c.at <= b.at}}
     \cup EnsureLinkIndexPlan(r)

\* Mutant of Indexes: the admissions of the moment, whatever was stored
IndexesAnew(r) == ReadNewRuntimePlanIndexes(r)

\* a stored plan is compiled with its own indexes
Indexes(r) == IF plans[r] = None THEN ReadNewRuntimePlanIndexes(r)
              ELSE {[target |-> x.target, digest |-> x.digest] : x \in plans[r]}

\* assertPersistedRuntimePlanMembers, and the digest and count before it
AssertPersisted(r, plan) == plans[r] # None => plan = plans[r]

\* the plan that is stored, or kept; nothing when it is refused
DeriveAndPersistRuntimePlan(r) ==
  LET plan == CompileRuntimeMemberPlan(r, Indexes(r))
  IN /\ Compiles(r, Indexes(r))
     /\ AssertPersisted(r, plan)
     /\ plans' = [plans EXCEPT ![r] = IF plan = {} THEN None ELSE plan]

\* stageRelease, in one transaction; a refusal changes nothing
StageRelease(r) ==
  /\ DeriveAndPersistRuntimePlan(r)
  /\ state[r] = "ready" => certified[r] \/ plans'[r] = None
  /\ state' = [state EXCEPT ![r] =
                 IF certified[r] \/ plans'[r] = None THEN "ready" ELSE "staging"]
  /\ UNCHANGED <<defs, admissions, inventory, approval, certified>>

-----------------------------------------------------------------------------
(* What moves between two stagings. *)

\* a definition is made once, complete, of mappings no other group has
DefineGroup(g, s) ==
  /\ defs[g] = {} /\ s # {}
  /\ \A m \in s : GroupsOf(m) = {}
  /\ defs' = [defs EXCEPT ![g] = s]
  /\ UNCHANGED <<admissions, inventory, approval, plans, state, certified>>

AdmitIndex(r, t, d, needsApproval) ==
  /\ inventory.complete /\ t \notin LinkTargets
  /\ Cardinality(admissions) < MaxAdmissions
  /\ needsApproval => approval
  /\ admissions' = admissions \cup
       {[release |-> r, target |-> t, digest |-> d, revision |-> inventory.revision,
         approval |-> needsApproval, at |-> Cardinality(admissions) + 1]}
  /\ UNCHANGED <<defs, inventory, approval, plans, state, certified>>

MoveInventory ==
  /\ inventory.revision < MaxInventory
  /\ \E c \in BOOLEAN : inventory' = [revision |-> inventory.revision + 1, complete |-> c]
  /\ UNCHANGED <<defs, admissions, approval, plans, state, certified>>

ApprovalExpires ==
  /\ approval /\ approval' = FALSE
  /\ UNCHANGED <<defs, admissions, inventory, plans, state, certified>>

\* certificates are issued for the stored plan, and cease to be current
Certify(r) ==
  /\ plans[r] # None
  /\ certified' = [certified EXCEPT ![r] = ~@]
  /\ UNCHANGED <<defs, admissions, inventory, approval, plans, state>>

Next ==
  \/ \E r \in Releases : StageRelease(r)
  \/ \E g \in Groups, s \in SUBSET Mappings : DefineGroup(g, s)
  \/ \E r \in Releases : \E t \in PinnedTargets[r], d \in Digests, b \in BOOLEAN : AdmitIndex(r, t, d, b)
  \/ MoveInventory \/ ApprovalExpires
  \/ \E r \in Releases : Certify(r)

Spec == Init /\ [][Next]_vars

-----------------------------------------------------------------------------
\* The type invariant.
TypeOK == /\ defs \in [Groups -> SUBSET Mappings] /\ GroupsParse
          /\ \A r \in Releases : plans[r] # None =>
               /\ plans[r] # {} /\ \A x \in plans[r] : x.mapping \in Mappings /\ x.group \in Groups
          /\ state \in [Releases -> {"draft", "staging", "ready"}]

\* A stored plan can always be derived again and is found unchanged, whatever
\* groups were defined, admissions superseded, approvals expired and disks
\* measured since (deriveAndPersistRuntimePlan): staging is never stranded.
StaysDerivable ==
  \A r \in Releases : plans[r] # None =>
    Compiles(r, Indexes(r)) /\ CompileRuntimeMemberPlan(r, Indexes(r)) = plans[r]

\* A plan once stored is never replaced or removed (release_runtime_plans).
PlanNeverChanges ==
  \A r \in Releases : plans[r] # None => plans'[r] = plans[r]

\* When a plan is stored, every object member's index plan is admitted for this
\* release at the inventory of that moment (readNewRuntimePlanIndexes and the
\* trigger g20210_validate_runtime_plan_insert).
PlannedOnAdmitted ==
  \A r \in Releases : (plans[r] = None /\ plans'[r] # None) =>
    \A x \in plans'[r] : x.target \in LinkTargets \/
      \E a \in admissions : /\ a.release = r /\ a.target = x.target /\ a.digest = x.digest
                            /\ a.revision = inventory.revision /\ inventory.complete
                            /\ a.approval => approval
=============================================================================
