----------------------------- MODULE GenerationGC -----------------------------
(***************************************************************************)
(* Garbage collection of one project's generations, indexes and orphan     *)
(* uploads.  A dry run reads a snapshot of the inventory, classifies it    *)
(* and stores a plan; commits then delete in batches, each of which the    *)
(* database refuses once anything the plan rests on has changed.           *)
(*                                                                         *)
(* Source: materialization-application, -domain and -postgres              *)
(* src/garbage-collection.ts; migrations 0017, 0021 and 0023.              *)
(*                                                                         *)
(* Abstractions.  All generations are of one member, numbered in the order *)
(* of their identifiers.  An index is named by the generations whose index *)
(* plans contain it.  The roots of an activated generation (channel,       *)
(* serving head, head set, query lease) are all implied by its activation, *)
(* which is never forgotten.  A batch deletes what one generation has in   *)
(* one table.  An attempt is kept with the generation it staged.  state_-  *)
(* revision moves only where inventory_revision does, so one counter       *)
(* stands for both.                                                        *)
(***************************************************************************)
EXTENDS Integers, Sequences, FiniteSets, FiniteSetTheorems, TLAPS

CONSTANTS
  NGenerations,    \* generations built in a behaviour
  Uploads,         \* upload sessions
  Indexes,         \* physical indexes: the sets of generations that use them
  Keep,            \* recent successes that are kept (2)
  Grace,           \* the retention of generations (7 days)
  OrphanGrace,     \* the retention of orphan uploads (1 day)
  MaxTime,         \* bound: clock
  MaxRevision,     \* bound: inventory revisions
  MaxRoot,         \* bound: root revisions
  MaxPlans         \* bound: plans

Generations == 1..NGenerations

GcAssumption ==
  /\ {NGenerations, Keep, MaxTime, MaxRevision, MaxRoot, MaxPlans} \subseteq Nat
  /\ Grace \in Nat \ {0} /\ OrphanGrace \in Nat \ {0}
  /\ Indexes \subseteq SUBSET Generations

\* The row phases PROVENANCE, CURRENT and BASE are one here, REPORT and ATTEMPT
\* the other.
Phases == <<"BASE", "ATTEMPT">>

VARIABLES
  now,
  inventory,   \* [rev, complete]: project_runtime_inventories
  root,        \* gc_root_epochs.root_revision
  gens,        \* generations and their roots
  indexes,     \* index_inventory states
  uploads,     \* upload sessions and the stored object versions
  scan,        \* the snapshot of the dry run under way
  plans,       \* gc_plans with their entries
  call         \* the commitNext call that deletes claimed uploads

vars == <<now, inventory, root, gens, indexes, uploads, scan, plans, call>>

NoScan == [at |-> "idle"]
NoCall == [plan |-> 0, left |-> {}, deleted |-> {}]
Absent == [state |-> "absent", changed |-> 0, adm |-> 0, job |-> FALSE, prepared |-> FALSE,
           activated |-> FALSE, lost |-> 0, collected |-> FALSE]

Init ==
  /\ now = 0 /\ inventory = [rev |-> 1, complete |-> TRUE] /\ root = 0
  /\ gens = [g \in Generations |-> Absent]
  /\ indexes = [i \in Indexes |-> "ready"]
  /\ uploads = [u \in Uploads |-> [state |-> "open", changed |-> 0, stored |-> FALSE]]
  /\ scan = NoScan /\ plans = <<>> /\ call = NoCall

-----------------------------------------------------------------------------
(* The rest of the system: builds, cutovers, leases, uploads, measurements. *)

\* g20212_lock_gc_root_change: every write of a root table.
RootChanged == root < MaxRoot /\ root' = root + 1

gc == <<scan, plans, call>>

StartBuild(g) ==
  /\ gens[g].state = "absent" /\ \A h \in 1..(g - 1) : gens[h].state # "absent"
  /\ RootChanged
  /\ gens' = [gens EXCEPT ![g].state = "staging", ![g].job = TRUE, ![g].changed = now]
  /\ UNCHANGED <<now, inventory, indexes, uploads, gc>>

\* The job ends: the generation is ready at the admission's revision, with every
\* index of its plan ready, or it has failed.
EndBuild(g, state) ==
  /\ gens[g].state = "staging" /\ gens[g].job
  /\ state = "ready" => inventory.complete /\ \A i \in Indexes : g \in i => indexes[i] = "ready"
  /\ RootChanged
  /\ gens' = [gens EXCEPT ![g].state = state, ![g].job = FALSE, ![g].changed = now,
                          ![g].adm = inventory.rev]
  /\ UNCHANGED <<now, inventory, indexes, uploads, gc>>

\* A cutover is prepared with a certificate of the current inventory revision.
Prepare(g) ==
  /\ gens[g].state = "ready" /\ ~gens[g].prepared
  /\ inventory.complete /\ gens[g].adm = inventory.rev
  /\ RootChanged
  /\ gens' = [gens EXCEPT ![g].prepared = TRUE]
  /\ UNCHANGED <<now, inventory, indexes, uploads, gc>>

Activate(g) ==
  /\ gens[g].state = "ready" /\ gens[g].prepared
  /\ inventory.complete /\ gens[g].adm = inventory.rev
  /\ RootChanged
  /\ gens' = [h \in Generations |->
       CASE h = g -> [gens[h] EXCEPT !.state = "active", !.activated = TRUE,
                                     !.prepared = FALSE, !.changed = now]
         [] gens[h].state = "active" -> [gens[h] EXCEPT !.state = "retired", !.changed = now]
         [] OTHER -> gens[h]]
  /\ UNCHANGED <<now, inventory, indexes, uploads, gc>>

\* A query lease of an activated generation is committed, released or expires.
QueryLease ==
  /\ \E g \in Generations : gens[g].activated
  /\ RootChanged
  /\ UNCHANGED <<now, inventory, gens, indexes, uploads, gc>>

\* An upload session stores its object and ends.
EndUpload(u, state) ==
  /\ uploads[u].state = "open"
  /\ RootChanged
  /\ uploads' = [uploads EXCEPT ![u] = [state |-> state, changed |-> now, stored |-> TRUE]]
  /\ UNCHANGED <<now, inventory, gens, indexes, gc>>

\* record_project_physical_measurement.
Measure ==
  /\ inventory.rev < MaxRevision
  /\ inventory' = [rev |-> inventory.rev + 1, complete |-> TRUE]
  /\ UNCHANGED <<now, root, gens, indexes, uploads, gc>>

Tick ==
  /\ now < MaxTime
  /\ now' = now + 1
  /\ UNCHANGED <<inventory, root, gens, indexes, uploads, gc>>

-----------------------------------------------------------------------------
(* analyzeGarbageCollectionInventory.                                       *)

Live(g) == gens[g].state # "absent" /\ ~gens[g].collected

\* ops.gc_generation_roots.
Rooted(g) == gens[g].job \/ gens[g].prepared \/ gens[g].activated

\* The successes, the latest change first and then by identifier.
Successes == {g \in Generations : Live(g) /\ gens[g].state \in {"ready", "retired"}}
Before(h, g) == \/ gens[h].changed > gens[g].changed
                \/ gens[h].changed = gens[g].changed /\ h < g

\* The most recent ones.
Recent == {g \in Successes : Cardinality({h \in Successes : Before(h, g)}) < Keep}

Candidates ==
  {g \in Generations :
     Live(g) /\ ~Rooted(g) /\ g \notin Recent /\ now - gens[g].changed >= Grace}

Orphan(u) == uploads[u].state \in {"failed", "expired"}

OrphanCandidates == {u \in Uploads : Orphan(u) /\ now - uploads[u].changed >= OrphanGrace}

\* No generation but those of the plan and the collected ones uses the index.
Unreferenced(i, dead) == \A g \in i : ~Live(g) \/ g \in dead

IndexCandidates == {i \in Indexes : indexes[i] = "ready" /\ Unreferenced(i, Candidates)}

\* completenessViolations: of the measured providers, only the measurement can
\* be missing; the index inventory is then complete as well.
Complete == inventory.complete

-----------------------------------------------------------------------------
(* The dry run.                                                             *)

LiveRoots == {g \in Generations : Rooted(g)}
Keys == <<{g \in Generations : Live(g)}, {u \in Uploads : uploads[u].state # "cleaned"}>>

\* readInventory in one repeatable-read snapshot, and its analysis.
DryRun ==
  /\ scan.at = "idle" /\ Len(plans) < MaxPlans
  /\ scan' = [at |-> "analyzed", ready |-> Complete, rev |-> inventory.rev,
              roots |-> LiveRoots, keys |-> Keys, observed |-> now,
              gens |-> Candidates, uploads |-> OrphanCandidates, indexes |-> IndexCandidates]
  /\ UNCHANGED <<now, inventory, root, gens, indexes, uploads, plans, call>>

\* g20212_assert_candidate_safety of what a plan has yet to do.
CandidateSafe(p, at) ==
  /\ \A g \in p.gens : gens[g].collected \/
       (~Rooted(g) /\ gens[g].state # "active" /\ at - gens[g].changed >= Grace /\ g \notin Recent)
  /\ \A u \in p.uploads : uploads[u].state = "cleaned" \/
       (Orphan(u) /\ at - uploads[u].changed >= OrphanGrace)
  /\ \A i \in p.indexes : indexes[i] = "ready" => Unreferenced(i, p.gens)

NewPlan ==
  [state |-> "planned", phase |-> 1, rev |-> inventory.rev, root |-> root,
   gens |-> scan.gens, uploads |-> scan.uploads, indexes |-> scan.indexes, claimed |-> {}]

Persistable ==
  /\ scan.ready /\ scan.rev = inventory.rev /\ inventory.complete
  /\ scan.roots = LiveRoots /\ scan.keys = Keys
  /\ CandidateSafe(NewPlan, scan.observed)

\* persist_generation_gc_dry_run; a blocked or refused run leaves no plan.
PersistDryRun ==
  /\ scan.at = "analyzed"
  /\ plans' = IF Persistable THEN Append(plans, NewPlan) ELSE plans
  /\ scan' = NoScan
  /\ UNCHANGED <<now, inventory, root, gens, indexes, uploads, call>>

-----------------------------------------------------------------------------
(* Commits.                                                                 *)

\* The revisions and the digest of the roots are those the plan last saw.
Unmoved(p) == plans[p].rev = inventory.rev /\ plans[p].root = root

Open == {"planned", "committing", "waiting_for_index_ddl"}

\* g20212_assert_plan_current.
PlanCurrent(p) == plans[p].state \in Open /\ Unmoved(p) /\ CandidateSafe(plans[p], now)

\* Mutant of RecordBatch: the inventory keeps its revision and its measurement.
RecordBatchUnnoticed(p, new) ==
  /\ inventory' = inventory
  /\ plans' = [plans EXCEPT ![p] = new]

\* g20212_record_gc_batch: the inventory moves and takes the plan with it.
RecordBatch(p, new) ==
  /\ inventory.rev < MaxRevision
  /\ inventory' = [rev |-> inventory.rev + 1, complete |-> FALSE]
  /\ plans' = [plans EXCEPT ![p] = [new EXCEPT !.rev = inventory.rev + 1]]

ToDelete(p) == {u \in plans[p].uploads : uploads[u].state # "cleaned"}

\* claim_gc_orphan_upload_batch, with what an earlier call had claimed.
ClaimUploads(p) ==
  /\ call = NoCall
  /\ PlanCurrent(p) /\ ToDelete(p) # {}
  /\ plans' = [plans EXCEPT ![p].state = "committing", ![p].claimed = @ \cup ToDelete(p)]
  /\ call' = [plan |-> p, left |-> ToDelete(p), deleted |-> {}]
  /\ UNCHANGED <<now, inventory, root, gens, indexes, uploads, scan>>

\* deleteVersion: outside any transaction.
DeleteVersion(u) ==
  /\ u \in call.left /\ call.deleted = {}
  /\ uploads' = [uploads EXCEPT ![u].stored = FALSE]
  /\ call' = [call EXCEPT !.deleted = {u}]
  /\ UNCHANGED <<now, inventory, root, gens, indexes, scan, plans>>

\* The call is over when nothing is left, when it fails, or when its process dies.
Acknowledged(u) == IF call.left = {u} THEN NoCall
                   ELSE [call EXCEPT !.left = @ \ {u}, !.deleted = {}]

\* acknowledge_gc_orphan_upload: the deletion has happened, so it is recorded
\* even if the plan has become stale, which is then noted on the plan.
AcknowledgeUpload(u) ==
  LET p == call.plan
  IN /\ u \in call.deleted
     /\ plans[p].state \in {"committing", "waiting_for_index_ddl"}
     /\ RootChanged
     /\ IF Unmoved(p)
          THEN RecordBatch(p, [plans[p] EXCEPT !.root = root + 1])
          ELSE /\ inventory.rev < MaxRevision
               /\ inventory' = [rev |-> inventory.rev + 1, complete |-> FALSE]
               /\ plans' = [plans EXCEPT ![p].state = "stale"]
     /\ uploads' = [uploads EXCEPT ![u].state = "cleaned"]
     /\ call' = Acknowledged(u)
     /\ UNCHANGED <<now, gens, indexes, scan>>

CallFails ==
  /\ call # NoCall
  /\ call' = NoCall
  /\ UNCHANGED <<now, inventory, root, gens, indexes, uploads, scan, plans>>

\* The phase a relational batch works in: the first with rows of a candidate left.
Work(p, k) == {g \in plans[p].gens : gens[g].lost < k}
WorkPhases(p) == {k \in plans[p].phase..Len(Phases) : Work(p, k) # {}}
First(S) == CHOOSE k \in S : \A j \in S : k <= j

\* commit_generation_gc_batch in the row phases.
DeleteRows(p) ==
  /\ PlanCurrent(p) /\ ToDelete(p) = {} /\ WorkPhases(p) # {}
  /\ LET k == First(WorkPhases(p))
     IN /\ RecordBatch(p, [plans[p] EXCEPT !.state = "committing", !.phase = k])
        /\ gens' = [gens EXCEPT ![First(Work(p, k))].lost = k]
  /\ UNCHANGED <<now, root, indexes, uploads, scan, call>>

RowsDone(p) == ToDelete(p) = {} /\ WorkPhases(p) = {}

\* Phase GENERATION.
CollectGenerations(p) ==
  /\ PlanCurrent(p) /\ RowsDone(p)
  /\ \E g \in plans[p].gens : ~gens[g].collected
  /\ RecordBatch(p, [plans[p] EXCEPT !.state = "committing"])
  /\ gens' = [g \in Generations |->
       IF g \in plans[p].gens THEN [gens[g] EXCEPT !.collected = TRUE] ELSE gens[g]]
  /\ UNCHANGED <<now, root, indexes, uploads, scan, call>>

ToDrop(p) == {i \in plans[p].indexes : indexes[i] # "retired"}

\* Phase INDEX_REQUEST: one DROP request at a time, then the plan is committed.
RequestIndexDrop(p) ==
  /\ PlanCurrent(p) /\ RowsDone(p)
  /\ \A g \in plans[p].gens : gens[g].collected
  /\ plans' = [plans EXCEPT ![p].state =
       IF ToDrop(p) = {} THEN "committed" ELSE "waiting_for_index_ddl"]
  /\ plans' # plans
  /\ UNCHANGED <<now, inventory, root, gens, indexes, uploads, scan, call>>

\* The DDL executor: verifyGcDropAuthorization, then the drop and its record.
\* Its refusal of a stale plan marks the plan stale.
DropIndex(p, i) ==
  /\ plans[p].state = "waiting_for_index_ddl" /\ i \in ToDrop(p)
  /\ IF PlanCurrent(p)
       THEN /\ inventory.rev < MaxRevision
            /\ inventory' = [rev |-> inventory.rev + 1, complete |-> FALSE]
            /\ indexes' = [indexes EXCEPT ![i] = "retired"]
            /\ plans' = [plans EXCEPT ![p].rev = inventory.rev + 1]
       ELSE /\ plans' = [plans EXCEPT ![p].state = "stale"]
            /\ UNCHANGED <<inventory, indexes>>
  /\ UNCHANGED <<now, root, gens, uploads, scan, call>>

Next ==
  \/ Tick \/ Measure \/ QueryLease \/ DryRun \/ PersistDryRun \/ CallFails
  \/ \E g \in Generations :
       \/ StartBuild(g) \/ Prepare(g) \/ Activate(g)
       \/ \E state \in {"ready", "failed"} : EndBuild(g, state)
  \/ \E u \in Uploads :
       \/ \E state \in {"registered", "failed", "expired"} : EndUpload(u, state)
       \/ DeleteVersion(u) \/ AcknowledgeUpload(u)
  \/ \E p \in DOMAIN plans :
       \/ ClaimUploads(p) \/ DeleteRows(p) \/ CollectGenerations(p) \/ RequestIndexDrop(p)
       \/ \E i \in Indexes : DropIndex(p, i)

Spec == Init /\ [][Next]_vars

-----------------------------------------------------------------------------
(* Types.                                                                   *)
TypeOK ==
  /\ now \in 0..MaxTime /\ root \in 0..MaxRoot
  /\ inventory.rev \in 1..MaxRevision /\ inventory.complete \in BOOLEAN
  /\ \A g \in Generations :
       /\ gens[g].state \in {"absent", "staging", "ready", "failed", "active", "retired"}
       /\ gens[g].lost \in 0..Len(Phases) /\ gens[g].changed \in 0..now
       /\ gens[g].activated => gens[g].state \in {"active", "retired"}
  /\ \A i \in Indexes : indexes[i] \in {"ready", "retired"}
  /\ \A p \in DOMAIN plans : plans[p].state \in Open \cup {"stale", "committed"}

(* A generation that has lost any of its rows is never served: it is not    *)
(* prepared for a cutover, activated or built any more, however the plan    *)
(* that deleted them ends and whatever is measured or built afterwards.     *)
RootedIsWhole == \A g \in Generations : Rooted(g) => gens[g].lost = 0 /\ ~gens[g].collected

(* A finished generation that has all its rows has all its indexes, also if *)
(* it was built after an index of its was marked or requested to be dropped. *)
IndexesOfWholeGenerationsKept ==
  \A i \in Indexes : \A g \in i :
    gens[g].state \in {"ready", "active", "retired"} /\ gens[g].lost = 0 => indexes[i] = "ready"

(* Only orphans' objects are deleted: the object version of a session that  *)
(* is open or registered stays.                                             *)
RegisteredObjectsKept ==
  \A u \in Uploads : uploads[u].state = "registered" => uploads[u].stored

(* The latest successes of a member keep their rows: there is a generation  *)
(* to fall back to.                                                         *)
RecentIsWhole == \A g \in Recent : gens[g].lost = 0

(* A session is recorded as cleaned only when its object version is gone:   *)
(* a crash between the deletion and its acknowledgement leaves the session  *)
(* to be claimed again, never an object without a session that names it.    *)
CleanedIsDeleted ==
  \A u \in Uploads : uploads[u].state = "cleaned" => ~uploads[u].stored

-----------------------------------------------------------------------------
(* Proofs, for any generations, uploads, indexes, retentions and bounds:   *)
(* what is deleted is needed by nothing, whatever is built, cut over and   *)
(* measured between the batches.                                           *)
(*                                                                         *)
(* Every batch moves the inventory's revision, so that what is ready can   *)
(* no longer be prepared or activated: it is settled.  A generation that   *)
(* has lost rows is settled and no root will reach it again; and the       *)
(* successes before it, of which there are enough, are settled with it.    *)

States == {"absent", "staging", "ready", "failed", "active", "retired"}
Generation == [state : States, changed : Nat, adm : Nat, job : BOOLEAN, prepared : BOOLEAN,
               activated : BOOLEAN, lost : 0..2, collected : BOOLEAN]
Upload == [state : {"open", "registered", "failed", "expired", "cleaned"}, changed : Nat,
           stored : BOOLEAN]
Plan == [state : Open \cup {"stale", "committed"}, phase : 1..2, rev : Nat, root : Nat,
         gens : SUBSET Generations, uploads : SUBSET Uploads, indexes : SUBSET Indexes,
         claimed : SUBSET Uploads]

Types ==
  /\ now \in Nat /\ root \in Nat /\ inventory \in [rev : Nat, complete : BOOLEAN]
  /\ gens \in [Generations -> Generation]
  /\ indexes \in [Indexes -> {"ready", "retired"}]
  /\ uploads \in [Uploads -> Upload]
  /\ plans \in Seq(Plan)
  /\ call \in [plan : Nat, left : SUBSET Uploads, deleted : SUBSET Uploads]

\* What a generation's row says of itself: it is a candidate for nothing once
\* it has lost rows.
GenerationSound(g) ==
  /\ gens[g].changed <= now /\ gens[g].adm <= inventory.rev
  /\ gens[g].job <=> gens[g].state = "staging"
  /\ gens[g].prepared => gens[g].state = "ready"
  /\ gens[g].activated <=> gens[g].state \in {"active", "retired"}
  /\ gens[g].state = "absent" => gens[g].lost = 0 /\ ~gens[g].collected
  /\ gens[g].collected => gens[g].lost = 2
  /\ gens[g].lost > 0 =>
       /\ ~Rooted(g)
       /\ gens[g].state = "ready" => gens[g].adm < inventory.rev

\* What a plan may still do: its generations are there, and they are collected
\* before one of its indexes is dropped.
PlanSound(p) ==
  /\ \A g \in p.gens : gens[g].state # "absent"
  /\ p.state \in {"waiting_for_index_ddl", "committed"} => \A g \in p.gens : gens[g].collected

ScanSound ==
  scan.at = "analyzed" =>
    /\ scan.gens \subseteq Generations /\ scan.uploads \subseteq Uploads
    /\ scan.indexes \subseteq Indexes
    /\ \A g \in scan.gens : gens[g].state # "absent"

\* A success that will not be activated any more.
Settled(h) ==
  /\ h \in Successes
  /\ gens[h].state = "ready" => gens[h].adm < inventory.rev
Ahead(g) == {h \in Generations : Settled(h) /\ Before(h, g)}
EnoughAhead == \A g \in Successes : gens[g].lost > 0 => Cardinality(Ahead(g)) >= Keep

UploadSound(u) ==
  /\ uploads[u].state = "registered" => uploads[u].stored
  /\ uploads[u].state = "cleaned" => ~uploads[u].stored
  /\ u \in call.left => uploads[u].state \in {"failed", "expired", "cleaned"}
  /\ u \in call.deleted => ~uploads[u].stored /\ u \in call.left

IInv ==
  /\ Types
  /\ \A g \in Generations : GenerationSound(g)
  /\ \A p \in DOMAIN plans : PlanSound(plans[p])
  /\ ScanSound
  /\ IndexesOfWholeGenerationsKept
  /\ EnoughAhead
  /\ \A u \in Uploads : UploadSound(u)

-----------------------------------------------------------------------------
(* Numbers and finite sets.                                                 *)

LEMMA Least ==
  ASSUME NEW S \in SUBSET Nat, S # {}
  PROVE  \E m \in S : \A k \in S : m <= k
<1> DEFINE R == OpToRel(<, Nat)
<1>1. IsWellFoundedOn(R, Nat)
  BY NatLessThanWellFounded
<1>2. \A x, y \in Nat : x < y => <<x, y>> \in R
  BY DEF OpToRel
<1> HIDE DEF R
<1>3. PICK m \in S : \A k \in S : ~(<<k, m>> \in R)
  BY <1>1, WFMin
<1>4. \A k \in S : ~(k < m) /\ k \in Nat /\ m \in Nat
  BY <1>2, <1>3
<1> QED
  BY <1>4

LEMMA FirstIsLeast ==
  ASSUME NEW S \in SUBSET Nat, S # {}
  PROVE  First(S) \in S /\ \A k \in S : First(S) <= k
BY Least DEF First

LEMMA Constants ==
  ASSUME GcAssumption
  PROVE  NGenerations \in Nat /\ Keep \in Nat /\ Generations \subseteq Nat /\ Len(Phases) = 2
BY DEF GcAssumption, Generations, Phases

LEMMA Counted ==
  ASSUME GcAssumption, NEW S \in SUBSET Generations, NEW T \in SUBSET Generations, S \subseteq T
  PROVE  Cardinality(S) \in Nat /\ Cardinality(T) \in Nat /\ Cardinality(S) <= Cardinality(T)
<1>1. IsFiniteSet(Generations)
  BY Constants, FS_Interval DEF Generations
<1>2. IsFiniteSet(T)
  BY <1>1, FS_Subset
<1>3. IsFiniteSet(S) /\ Cardinality(S) <= Cardinality(T)
  BY <1>2, FS_Subset
<1> QED
  BY <1>2, <1>3, FS_CardinalityType

-----------------------------------------------------------------------------
(* The order of the successes.                                              *)

LEMMA BeforeOrders ==
  ASSUME GcAssumption, Types, NEW a \in Generations, NEW b \in Generations, NEW c \in Generations
  PROVE  /\ Before(a, b) /\ Before(b, c) => Before(a, c)
         /\ a = b \/ Before(a, b) \/ Before(b, a)
<1>1. /\ a \in Nat /\ b \in Nat /\ c \in Nat
      /\ gens[a].changed \in Nat /\ gens[b].changed \in Nat /\ gens[c].changed \in Nat
  BY Constants DEF Types, Generation
<1> QED
  BY <1>1 DEF Before

(* A set of generations has a first one.                                    *)
LEMMA Foremost ==
  ASSUME GcAssumption, IInv, NEW S \in SUBSET Generations, S # {}
  PROVE  \E m \in S : \A h \in S : ~Before(h, m)
<1> DEFINE age(h) == now - gens[h].changed
           Ages == {age(h) : h \in S}
<1>1. /\ Generations \subseteq Nat /\ now \in Nat
      /\ \A h \in Generations : gens[h].changed \in Nat /\ gens[h].changed <= now
  BY Constants DEF IInv, Types, Generation, GenerationSound
<1>2. \A h \in S : age(h) \in Nat
  BY <1>1
<1>3. Ages \in SUBSET Nat /\ Ages # {}
  BY <1>2
<1>4. PICK d \in Ages : \A e \in Ages : d <= e
  BY <1>3, Least
<1> DEFINE Newest == {h \in S : age(h) = d}
<1>5. Newest \in SUBSET Nat /\ Newest # {}
  BY <1>1, <1>4
<1>6. PICK m \in Newest : \A h \in Newest : m <= h
  BY <1>5, Least
<1>7. ASSUME NEW h \in S PROVE ~Before(h, m)
  <2>1. /\ m \in S /\ age(m) = d /\ d <= age(h) /\ (age(h) = d => m <= h)
        /\ m \in Nat /\ h \in Nat
    BY <1>1, <1>4, <1>6, <1>7
  <2>2. now \in Nat /\ gens[h].changed \in Nat /\ gens[m].changed \in Nat
    BY <1>1, <1>7, <2>1
  <2> QED
    BY <2>1, <2>2 DEF Before
<1> QED
  BY <1>6, <1>7

(* Before a success that is not recent there are recent ones enough: the    *)
(* first that is not recent has only recent ones before it.                 *)
LEMMA RecentAhead ==
  ASSUME GcAssumption, IInv, NEW g \in Successes \ Recent
  PROVE  \E S \in SUBSET Recent : (\A h \in S : Before(h, g)) /\ Cardinality(S) >= Keep
<1>1. PICK m \in Successes \ Recent : \A h \in Successes \ Recent : ~Before(h, m)
  <2>1. Successes \ Recent \in SUBSET Generations
    BY DEF Successes
  <2> QED
    BY <2>1, Foremost
<1> DEFINE S == {h \in Successes : Before(h, m)}
<1>2. S \in SUBSET Recent
  BY <1>1
<1>3. Cardinality(S) \in Nat /\ Keep \in Nat
  <2>1. S \in SUBSET Generations
    BY DEF Successes
  <2> QED
    BY <2>1, Counted, Constants
<1>4. Cardinality(S) >= Keep
  BY <1>1, <1>3 DEF Recent
<1>5. \A h \in S : Before(h, g)
  <2>1. m \in Generations /\ g \in Generations /\ (m = g \/ Before(m, g))
    BY <1>1, BeforeOrders DEF IInv, Successes
  <2> QED
    BY <2>1, BeforeOrders DEF IInv, Successes
<1> QED
  BY <1>2, <1>4, <1>5

-----------------------------------------------------------------------------
(* What the steps have in common.                                           *)

\* Rows that were settled stay as they are, and those that change have lost
\* nothing: the successes ahead of what lost rows remain.
LEMMA AheadStays ==
  ASSUME GcAssumption, IInv, Types', inventory.rev <= inventory'.rev,
         \A h \in Generations : gens'[h] = gens[h] \/ (~Settled(h) /\ gens'[h].lost = 0)
  PROVE  EnoughAhead'
<1> SUFFICES ASSUME NEW g \in Generations, g \in Successes', gens'[g].lost > 0
             PROVE  Cardinality(Ahead(g))' >= Keep
  BY DEF EnoughAhead, Successes
<1>1. /\ gens'[g] = gens[g] /\ gens[g].lost > 0
      /\ inventory.rev \in Nat /\ inventory'.rev \in Nat
      /\ \A h \in Generations : gens[h].adm \in Nat
  BY DEF IInv, Types, Generation
<1>2. g \in Successes
  BY <1>1 DEF Successes, Live
<1>3. Cardinality(Ahead(g)) >= Keep
  BY <1>1, <1>2 DEF IInv, EnoughAhead
<1>4. \A h \in Generations : Settled(h) /\ Before(h, g) => Settled(h)' /\ Before(h, g)'
  <2> SUFFICES ASSUME NEW h \in Generations, Settled(h), Before(h, g)
               PROVE  Settled(h)' /\ Before(h, g)'
    OBVIOUS
  <2>1. gens'[h] = gens[h] /\ gens[h].adm \in Nat
    BY <1>1
  <2>2. Before(h, g)'
    BY <1>1, <2>1 DEF Before
  <2>3. Settled(h)'
    BY <1>1, <2>1 DEF Settled, Successes, Live
  <2> QED
    BY <2>2, <2>3
<1>5. Ahead(g) \subseteq Ahead(g)' /\ Ahead(g) \in SUBSET Generations /\ Ahead(g)' \in SUBSET Generations
  BY <1>4 DEF Ahead
<1> QED
  BY <1>3, <1>5, Counted, Constants

\* The generations and the counters they are compared with.
LEMMA StillSound ==
  ASSUME GcAssumption, IInv, Types', gens' = gens, now <= now', inventory.rev <= inventory'.rev
  PROVE  (\A g \in Generations : GenerationSound(g))' /\ EnoughAhead'
<1>1. /\ now \in Nat /\ now' \in Nat /\ inventory.rev \in Nat /\ inventory'.rev \in Nat
      /\ \A g \in Generations : gens[g].changed \in Nat /\ gens[g].adm \in Nat
  BY DEF IInv, Types, Generation
<1>2. ASSUME NEW g \in Generations PROVE GenerationSound(g)'
  BY <1>1, <1>2 DEF IInv, GenerationSound, Rooted
<1>3. EnoughAhead'
  BY AheadStays
<1> QED
  BY <1>2, <1>3

\* Generations never disappear, nor do they come back once they are collected.
LEMMA PlansKept ==
  ASSUME IInv, Types',
         \A g \in Generations : /\ gens[g].state # "absent" => gens'[g].state # "absent"
                                /\ gens[g].collected => gens'[g].collected,
         \A p \in DOMAIN plans' : PlanSound(plans'[p])
  PROVE  (\A p \in DOMAIN plans : PlanSound(plans[p]))'
<1> SUFFICES ASSUME NEW p \in DOMAIN plans' PROVE PlanSound(plans[p])'
  OBVIOUS
<1>1. PlanSound(plans'[p]) /\ plans'[p].gens \subseteq Generations
  <2>1. plans' \in Seq(Plan)
    BY DEF Types
  <2>2. plans'[p] \in Plan
    BY <2>1
  <2> QED
    BY <2>2 DEF Plan
<1> QED
  BY <1>1 DEF PlanSound

LEMMA ScanKept ==
  ASSUME ScanSound, scan' = scan,
         \A g \in Generations : gens[g].state # "absent" => gens'[g].state # "absent"
  PROVE  ScanSound'
BY DEF ScanSound

LEMMA UploadsKept ==
  ASSUME IInv, uploads' = uploads, call' = call
  PROVE  (\A u \in Uploads : UploadSound(u))'
BY DEF IInv, UploadSound

LEMMA QuietStep ==
  ASSUME GcAssumption, IInv, Types', gens' = gens, indexes' = indexes,
         now <= now', inventory.rev <= inventory'.rev,
         \A p \in DOMAIN plans' : PlanSound(plans'[p]),
         ScanSound', (\A u \in Uploads : UploadSound(u))'
  PROVE  IInv'
<1>1. (\A g \in Generations : GenerationSound(g))' /\ EnoughAhead'
  BY StillSound
<1>2. (\A p \in DOMAIN plans : PlanSound(plans[p]))'
  BY PlansKept
<1>3. IndexesOfWholeGenerationsKept'
  BY DEF IInv, IndexesOfWholeGenerationsKept
<1> QED
  BY <1>1, <1>2, <1>3 DEF IInv

\* A plan that is changed in its place.
LEMMA PlanReplaced ==
  ASSUME Types, NEW p, NEW new, p \in DOMAIN plans => new \in Plan
  PROVE  /\ [plans EXCEPT ![p] = new] \in Seq(Plan)
         /\ DOMAIN [plans EXCEPT ![p] = new] = DOMAIN plans
         /\ \A q \in DOMAIN plans : [plans EXCEPT ![p] = new][q] = IF q = p THEN new ELSE plans[q]
<1> DEFINE new2 == [plans EXCEPT ![p] = new]
<1>1. plans \in Seq(Plan) /\ DOMAIN plans = 1..Len(plans) /\ Len(plans) \in Nat
  BY DEF Types
<1>2. DOMAIN new2 = DOMAIN plans
  OBVIOUS
<1>3. \A q \in DOMAIN plans : new2[q] = IF q = p THEN new ELSE plans[q]
  OBVIOUS
<1>4. \A q \in 1..Len(plans) : new2[q] \in Plan
  BY <1>1, <1>3
<1>5. new2 = [q \in 1..Len(plans) |-> new2[q]]
  BY <1>1
<1>6. new2 \in [1..Len(plans) -> Plan]
  BY <1>4, <1>5
<1>7. new2 \in Seq(Plan)
  BY <1>1, <1>6
<1> QED
  BY <1>2, <1>3, <1>7

\* A batch: the plan is taken to the next revision.
LEMMA Batch ==
  ASSUME Types, NEW p \in DOMAIN plans, NEW new \in Plan, RecordBatch(p, new)
  PROVE  /\ inventory' \in [rev : Nat, complete : BOOLEAN] /\ inventory'.rev = inventory.rev + 1
         /\ plans' \in Seq(Plan) /\ DOMAIN plans' = DOMAIN plans
         /\ \A q \in DOMAIN plans :
              plans'[q] = IF q = p THEN [new EXCEPT !.rev = inventory.rev + 1] ELSE plans[q]
<1>1. inventory.rev \in Nat
  BY DEF Types
<1>2. [new EXCEPT !.rev = inventory.rev + 1] \in Plan
  BY <1>1 DEF Plan
<1>3. plans' = [plans EXCEPT ![p] = [new EXCEPT !.rev = inventory.rev + 1]]
  BY DEF RecordBatch
<1>4. inventory' = [rev |-> inventory.rev + 1, complete |-> FALSE]
  BY DEF RecordBatch
<1>5. inventory' \in [rev : Nat, complete : BOOLEAN] /\ inventory'.rev = inventory.rev + 1
  BY <1>1, <1>4
<1> QED
  BY <1>2, <1>3, <1>5, PlanReplaced

-----------------------------------------------------------------------------
(* One lemma for each kind of step.                                         *)

LEMMA ClockAndCounters ==
  ASSUME GcAssumption, IInv, Tick \/ Measure \/ QueryLease \/ CallFails \/ UNCHANGED vars
  PROVE  IInv'
<1>1. Types'
  <2>1. CASE Tick \/ UNCHANGED vars
    BY <2>1 DEF IInv, Types, Tick, vars, gc
  <2>2. CASE Measure
    BY <2>2 DEF IInv, Types, Measure, gc
  <2>3. CASE QueryLease
    BY <2>3 DEF IInv, Types, QueryLease, RootChanged, gc
  <2>4. CASE CallFails
    BY <2>4 DEF IInv, Types, CallFails, NoCall
  <2> QED
    BY <2>1, <2>2, <2>3, <2>4
<1>2. /\ gens' = gens /\ indexes' = indexes /\ plans' = plans /\ scan' = scan
      /\ uploads' = uploads /\ (call' = call \/ call' = NoCall)
  BY DEF Tick, Measure, QueryLease, CallFails, vars, gc
<1>3. now <= now' /\ inventory.rev <= inventory'.rev
  BY DEF IInv, Types, Tick, Measure, QueryLease, CallFails, vars, gc
<1>4. (\A u \in Uploads : UploadSound(u))'
  BY <1>2 DEF IInv, UploadSound, NoCall
<1>5. ScanSound'
  BY <1>2, ScanKept DEF IInv
<1>6. \A p \in DOMAIN plans' : PlanSound(plans'[p])
  BY <1>2 DEF IInv
<1> QED
  BY <1>1, <1>2, <1>3, <1>4, <1>5, <1>6, QuietStep

LEMMA DryRunStep ==
  ASSUME GcAssumption, IInv, DryRun
  PROVE  IInv'
<1>1. Types' /\ gens' = gens /\ indexes' = indexes /\ plans' = plans /\ now' = now
  BY DEF IInv, Types, DryRun
<1>2. inventory' = inventory /\ now \in Nat /\ inventory.rev \in Nat
  BY DEF IInv, Types, DryRun
<1>3. ScanSound'
  <2>1. /\ Candidates \subseteq Generations /\ OrphanCandidates \subseteq Uploads
        /\ IndexCandidates \subseteq Indexes
        /\ \A g \in Candidates : gens[g].state # "absent"
    BY DEF Candidates, OrphanCandidates, IndexCandidates, Live
  <2>2. /\ scan'.gens = Candidates /\ scan'.uploads = OrphanCandidates
        /\ scan'.indexes = IndexCandidates
    BY DEF DryRun
  <2> QED
    BY <1>1, <2>1, <2>2 DEF ScanSound
<1>4. (\A u \in Uploads : UploadSound(u))'
  BY UploadsKept DEF DryRun
<1>5. \A p \in DOMAIN plans' : PlanSound(plans'[p])
  BY <1>1 DEF IInv
<1>6. now <= now' /\ inventory.rev <= inventory'.rev
  BY <1>1, <1>2
<1> QED
  BY <1>1, <1>3, <1>4, <1>5, <1>6, QuietStep

LEMMA PersistStep ==
  ASSUME GcAssumption, IInv, PersistDryRun
  PROVE  IInv'
<1>1. /\ gens' = gens /\ indexes' = indexes /\ now' = now /\ inventory' = inventory
      /\ root' = root /\ uploads' = uploads /\ call' = call /\ scan' = NoScan
  BY DEF PersistDryRun
<1>2. now \in Nat /\ inventory.rev \in Nat /\ root \in Nat /\ plans \in Seq(Plan)
  BY DEF IInv, Types
<1>3. NewPlan \in Plan /\ PlanSound(NewPlan)
  <2>1. /\ scan.gens \subseteq Generations /\ scan.uploads \subseteq Uploads
        /\ scan.indexes \subseteq Indexes /\ \A g \in scan.gens : gens[g].state # "absent"
    BY DEF IInv, ScanSound, PersistDryRun
  <2> QED
    BY <1>2, <2>1 DEF NewPlan, Plan, PlanSound, Open
<1>4. /\ plans' \in Seq(Plan)
      /\ \A p \in DOMAIN plans' :
           (p \in DOMAIN plans /\ plans'[p] = plans[p]) \/ plans'[p] = NewPlan
  BY <1>2, <1>3 DEF PersistDryRun
<1>5. Types'
  BY <1>1, <1>4 DEF IInv, Types
<1>6. \A p \in DOMAIN plans' : PlanSound(plans'[p])
  BY <1>3, <1>4 DEF IInv
<1>7. ScanSound'
  BY <1>1 DEF ScanSound, NoScan
<1>8. (\A u \in Uploads : UploadSound(u))'
  BY <1>1, UploadsKept
<1>9. now <= now' /\ inventory.rev <= inventory'.rev
  BY <1>1, <1>2
<1> QED
  BY <1>1, <1>5, <1>6, <1>7, <1>8, <1>9, QuietStep

-----------------------------------------------------------------------------
(* Uploads.                                                                 *)

LEMMA EndUploadStep ==
  ASSUME GcAssumption, IInv, NEW u \in Uploads, NEW state \in {"registered", "failed", "expired"},
         EndUpload(u, state)
  PROVE  IInv'
<1>1. /\ gens' = gens /\ indexes' = indexes /\ now' = now /\ inventory' = inventory
      /\ plans' = plans /\ call' = call /\ scan' = scan
  BY DEF EndUpload, gc
<1>2. /\ now \in Nat /\ inventory.rev \in Nat /\ root \in Nat /\ root' \in Nat
      /\ uploads \in [Uploads -> Upload]
  BY DEF IInv, Types, EndUpload, RootChanged
<1> DEFINE row == [state |-> state, changed |-> now, stored |-> TRUE]
<1>3. row \in Upload
  BY <1>2 DEF Upload
<1>4. uploads' = [uploads EXCEPT ![u] = row] /\ uploads[u].state = "open"
  BY DEF EndUpload
<1>5. Types'
  <2>1. uploads' \in [Uploads -> Upload]
    BY <1>2, <1>3, <1>4
  <2> QED
    BY <1>1, <1>2, <2>1 DEF IInv, Types
<1>6. (\A w \in Uploads : UploadSound(w))'
  <2> SUFFICES ASSUME NEW w \in Uploads PROVE UploadSound(w)'
    OBVIOUS
  <2>1. UploadSound(w) /\ UploadSound(u)
    BY DEF IInv
  <2>2. CASE w = u
    BY <1>1, <1>2, <1>4, <2>1, <2>2 DEF UploadSound
  <2>3. CASE w # u
    BY <1>1, <1>2, <1>4, <2>1, <2>3 DEF UploadSound
  <2> QED
    BY <2>2, <2>3
<1>7. ScanSound'
  BY <1>1, ScanKept DEF IInv
<1>8. \A p \in DOMAIN plans' : PlanSound(plans'[p])
  BY <1>1 DEF IInv
<1>9. now <= now' /\ inventory.rev <= inventory'.rev
  BY <1>1, <1>2
<1> QED
  BY <1>1, <1>5, <1>6, <1>7, <1>8, <1>9, QuietStep

LEMMA ClaimStep ==
  ASSUME GcAssumption, IInv, NEW p \in DOMAIN plans, ClaimUploads(p)
  PROVE  IInv'
<1>1. /\ gens' = gens /\ indexes' = indexes /\ now' = now /\ inventory' = inventory
      /\ root' = root /\ uploads' = uploads /\ scan' = scan
  BY DEF ClaimUploads
<1>2. now \in Nat /\ inventory.rev \in Nat /\ plans \in Seq(Plan) /\ p \in Nat
  BY DEF IInv, Types
<1>3. ToDelete(p) \subseteq Uploads /\ plans[p] \in Plan
  <2>1. plans[p] \in Plan
    BY <1>2
  <2> QED
    BY <2>1 DEF Plan, ToDelete
<1> DEFINE new == [plans[p] EXCEPT !.state = "committing", !.claimed = @ \cup ToDelete(p)]
<1>4. new \in Plan /\ new.gens = plans[p].gens /\ new.state = "committing"
  BY <1>3 DEF Plan, Open
<1>5. plans' = [plans EXCEPT ![p] = new]
  BY DEF ClaimUploads
<1> HIDE DEF new
<1>6. /\ plans' \in Seq(Plan) /\ DOMAIN plans' = DOMAIN plans
      /\ \A q \in DOMAIN plans : plans'[q] = IF q = p THEN new ELSE plans[q]
  BY <1>4, <1>5, PlanReplaced DEF IInv
<1>7. call' = [plan |-> p, left |-> ToDelete(p), deleted |-> {}]
  BY DEF ClaimUploads
<1>8. Types'
  BY <1>1, <1>2, <1>3, <1>6, <1>7 DEF IInv, Types
<1>9. \A q \in DOMAIN plans' : PlanSound(plans'[q])
  BY <1>4, <1>6 DEF IInv, PlanSound
<1>10. \A u \in ToDelete(p) : uploads[u].state \in {"failed", "expired"}
  BY DEF ClaimUploads, PlanCurrent, CandidateSafe, ToDelete, Orphan
<1>11. (\A u \in Uploads : UploadSound(u))'
  BY <1>1, <1>7, <1>10 DEF IInv, UploadSound
<1>12. ScanSound'
  BY <1>1, ScanKept DEF IInv
<1>13. now <= now' /\ inventory.rev <= inventory'.rev
  BY <1>1, <1>2
<1> QED
  BY <1>1, <1>8, <1>9, <1>11, <1>12, <1>13, QuietStep

LEMMA DeleteVersionStep ==
  ASSUME GcAssumption, IInv, NEW u \in Uploads, DeleteVersion(u)
  PROVE  IInv'
<1>1. /\ gens' = gens /\ indexes' = indexes /\ now' = now /\ inventory' = inventory
      /\ plans' = plans /\ root' = root /\ scan' = scan
  BY DEF DeleteVersion
<1>2. /\ now \in Nat /\ inventory.rev \in Nat /\ uploads \in [Uploads -> Upload]
      /\ call \in [plan : Nat, left : SUBSET Uploads, deleted : SUBSET Uploads]
  BY DEF IInv, Types
<1>3. /\ uploads' = [uploads EXCEPT ![u].stored = FALSE]
      /\ call' = [call EXCEPT !.deleted = {u}] /\ u \in call.left
  BY DEF DeleteVersion
<1>4. Types'
  <2>1. uploads' \in [Uploads -> Upload]
    BY <1>2, <1>3 DEF Upload
  <2>2. call' \in [plan : Nat, left : SUBSET Uploads, deleted : SUBSET Uploads]
    BY <1>2, <1>3
  <2> QED
    BY <1>1, <2>1, <2>2 DEF IInv, Types
<1>5. (\A w \in Uploads : UploadSound(w))'
  <2> SUFFICES ASSUME NEW w \in Uploads PROVE UploadSound(w)'
    OBVIOUS
  <2>1. UploadSound(w) /\ UploadSound(u) /\ uploads[w] \in Upload /\ uploads[u] \in Upload
    BY <1>2 DEF IInv
  <2>2. call'.left = call.left /\ call'.deleted = {u}
    BY <1>2, <1>3
  <2>3. CASE w = u
    <3>1. uploads'[w].state = uploads[w].state /\ uploads'[w].stored = FALSE
      BY <1>2, <1>3, <2>1, <2>3 DEF Upload
    <3> QED
      BY <1>3, <2>1, <2>2, <2>3, <3>1 DEF UploadSound
  <2>4. CASE w # u
    <3>1. uploads'[w] = uploads[w]
      BY <1>2, <1>3, <2>4
    <3> QED
      BY <1>3, <2>1, <2>2, <2>4, <3>1 DEF UploadSound
  <2> QED
    BY <2>3, <2>4
<1>6. ScanSound'
  BY <1>1, ScanKept DEF IInv
<1>7. \A p \in DOMAIN plans' : PlanSound(plans'[p])
  BY <1>1 DEF IInv
<1>8. now <= now' /\ inventory.rev <= inventory'.rev
  BY <1>1, <1>2
<1> QED
  BY <1>1, <1>4, <1>5, <1>6, <1>7, <1>8, QuietStep

LEMMA AcknowledgeStep ==
  ASSUME GcAssumption, IInv, NEW u \in Uploads, AcknowledgeUpload(u)
  PROVE  IInv'
<1> DEFINE p == call.plan
<1>1. /\ gens' = gens /\ indexes' = indexes /\ now' = now /\ scan' = scan
      /\ uploads' = [uploads EXCEPT ![u].state = "cleaned"] /\ call' = Acknowledged(u)
      /\ u \in call.deleted /\ root' = root + 1
  BY DEF AcknowledgeUpload, RootChanged
<1>2. /\ now \in Nat /\ inventory.rev \in Nat /\ root \in Nat /\ uploads \in [Uploads -> Upload]
      /\ call \in [plan : Nat, left : SUBSET Uploads, deleted : SUBSET Uploads]
      /\ plans \in Seq(Plan)
  BY DEF IInv, Types
<1>3. PICK new : /\ plans' = [plans EXCEPT ![p] = new]
                 /\ p \in DOMAIN plans => new \in Plan /\ PlanSound(new)
  <2> DEFINE moved == [[plans[p] EXCEPT !.root = root + 1] EXCEPT !.rev = inventory.rev + 1]
             stale == [plans[p] EXCEPT !.state = "stale"]
  <2>1. p \in DOMAIN plans => plans[p] \in Plan /\ PlanSound(plans[p])
    BY <1>2 DEF IInv
  <2>2. p \in DOMAIN plans => moved \in Plan /\ PlanSound(moved)
    <3> SUFFICES ASSUME p \in DOMAIN plans PROVE moved \in Plan /\ PlanSound(moved)
      OBVIOUS
    <3>1. inventory.rev + 1 \in Nat /\ root + 1 \in Nat
      BY <1>2
    <3>2. moved \in Plan
      BY <2>1, <3>1 DEF Plan
    <3>3. moved.gens = plans[p].gens /\ moved.state = plans[p].state
      BY <2>1 DEF Plan
    <3> QED
      BY <2>1, <3>2, <3>3 DEF PlanSound
  <2>3. p \in DOMAIN plans => stale \in Plan /\ PlanSound(stale)
    <3> SUFFICES ASSUME p \in DOMAIN plans PROVE stale \in Plan /\ PlanSound(stale)
      OBVIOUS
    <3>1. stale \in Plan /\ stale.gens = plans[p].gens /\ stale.state = "stale"
      BY <2>1 DEF Plan
    <3> QED
      BY <2>1, <3>1 DEF PlanSound
  <2>4. plans' = [plans EXCEPT ![p] = moved] \/ plans' = [plans EXCEPT ![p] = stale]
    BY DEF AcknowledgeUpload, RecordBatch
  <2> HIDE DEF moved, stale
  <2> QED
    BY <2>2, <2>3, <2>4
<1>4. /\ plans' \in Seq(Plan) /\ DOMAIN plans' = DOMAIN plans
      /\ \A q \in DOMAIN plans : plans'[q] = IF q = p THEN new ELSE plans[q]
  BY <1>3, PlanReplaced DEF IInv
<1>5. inventory' = [rev |-> inventory.rev + 1, complete |-> FALSE]
  BY DEF AcknowledgeUpload, RecordBatch
<1>6. /\ call' \in [plan : Nat, left : SUBSET Uploads, deleted : SUBSET Uploads]
      /\ call'.left \subseteq call.left /\ call'.deleted = {}
  BY <1>1, <1>2 DEF Acknowledged, NoCall
<1>7. Types'
  <2>1. uploads' \in [Uploads -> Upload]
    BY <1>1, <1>2 DEF Upload
  <2>2. inventory' \in [rev : Nat, complete : BOOLEAN] /\ root' \in Nat
    BY <1>1, <1>2, <1>5
  <2> QED
    BY <1>1, <1>4, <1>6, <2>1, <2>2 DEF IInv, Types
<1>8. (\A w \in Uploads : UploadSound(w))'
  <2> SUFFICES ASSUME NEW w \in Uploads PROVE UploadSound(w)'
    OBVIOUS
  <2>1. UploadSound(w) /\ UploadSound(u) /\ uploads[w] \in Upload /\ uploads[u] \in Upload
    BY <1>2 DEF IInv
  <2>2. CASE w = u
    <3>1. uploads'[w].state = "cleaned" /\ uploads'[w].stored = uploads[w].stored
      BY <1>1, <1>2, <2>1, <2>2 DEF Upload
    <3> QED
      BY <1>1, <1>6, <2>1, <2>2, <3>1 DEF UploadSound
  <2>3. CASE w # u
    <3>1. uploads'[w] = uploads[w]
      BY <1>1, <1>2, <2>3
    <3> QED
      BY <1>6, <2>1, <3>1 DEF UploadSound
  <2> QED
    BY <2>2, <2>3
<1>9. ScanSound'
  BY <1>1, ScanKept DEF IInv
<1>10. \A q \in DOMAIN plans' : PlanSound(plans'[q])
  BY <1>3, <1>4 DEF IInv
<1>11. now <= now' /\ inventory.rev <= inventory'.rev
  BY <1>1, <1>2, <1>5
<1> QED
  BY <1>1, <1>7, <1>8, <1>9, <1>10, <1>11, QuietStep

-----------------------------------------------------------------------------
(* Indexes.                                                                 *)

LEMMA RequestDropStep ==
  ASSUME GcAssumption, IInv, NEW p \in DOMAIN plans, RequestIndexDrop(p)
  PROVE  IInv'
<1>1. /\ gens' = gens /\ indexes' = indexes /\ now' = now /\ inventory' = inventory
      /\ root' = root /\ uploads' = uploads /\ call' = call /\ scan' = scan
  BY DEF RequestIndexDrop
<1>2. now \in Nat /\ inventory.rev \in Nat /\ plans \in Seq(Plan)
  BY DEF IInv, Types
<1>3. plans[p] \in Plan /\ PlanSound(plans[p])
  BY <1>2 DEF IInv
<1>4. PICK state \in {"committed", "waiting_for_index_ddl"} :
        plans' = [plans EXCEPT ![p].state = state]
  BY DEF RequestIndexDrop
<1> DEFINE new == [plans[p] EXCEPT !.state = state]
<1>5. new \in Plan /\ new.gens = plans[p].gens
  BY <1>3 DEF Plan, Open
<1>6. PlanSound(new)
  <2>1. \A g \in plans[p].gens : gens[g].collected
    BY DEF RequestIndexDrop
  <2> QED
    BY <1>3, <1>5, <2>1 DEF PlanSound
<1>7. plans' = [plans EXCEPT ![p] = new]
  BY <1>4
<1> HIDE DEF new
<1>8. /\ plans' \in Seq(Plan) /\ DOMAIN plans' = DOMAIN plans
      /\ \A q \in DOMAIN plans : plans'[q] = IF q = p THEN new ELSE plans[q]
  BY <1>5, <1>7, PlanReplaced DEF IInv
<1>9. Types'
  BY <1>1, <1>8 DEF IInv, Types
<1>10. \A q \in DOMAIN plans' : PlanSound(plans'[q])
  BY <1>6, <1>8 DEF IInv
<1>11. ScanSound' /\ (\A u \in Uploads : UploadSound(u))'
  BY <1>1, ScanKept, UploadsKept DEF IInv
<1>12. now <= now' /\ inventory.rev <= inventory'.rev
  BY <1>1, <1>2
<1> QED
  BY <1>1, <1>9, <1>10, <1>11, <1>12, QuietStep

\* When the executor drops an index, the generations of the plan are collected,
\* and all others that use the index were collected before.
LEMMA DropIndexStep ==
  ASSUME GcAssumption, IInv, NEW p \in DOMAIN plans, NEW i \in Indexes, DropIndex(p, i)
  PROVE  IInv'
<1>1. /\ gens' = gens /\ now' = now /\ root' = root /\ uploads' = uploads /\ call' = call
      /\ scan' = scan
  BY DEF DropIndex
<1>2. /\ now \in Nat /\ inventory.rev \in Nat /\ plans \in Seq(Plan)
      /\ inventory \in [rev : Nat, complete : BOOLEAN]
      /\ indexes \in [Indexes -> {"ready", "retired"}]
  BY DEF IInv, Types
<1>3. plans[p] \in Plan /\ PlanSound(plans[p])
  BY <1>2 DEF IInv
<1>4. PICK new : plans' = [plans EXCEPT ![p] = new] /\ new \in Plan /\ PlanSound(new)
  <2> DEFINE moved == [plans[p] EXCEPT !.rev = inventory.rev + 1]
             stale == [plans[p] EXCEPT !.state = "stale"]
  <2>1. moved \in Plan /\ moved.gens = plans[p].gens /\ moved.state = plans[p].state
    <3>1. inventory.rev + 1 \in Nat
      BY <1>2
    <3> QED
      BY <1>3, <3>1 DEF Plan
  <2>2. stale \in Plan /\ stale.gens = plans[p].gens /\ stale.state = "stale"
    BY <1>3 DEF Plan
  <2>3. PlanSound(moved) /\ PlanSound(stale)
    BY <1>3, <2>1, <2>2 DEF PlanSound
  <2>4. plans' = [plans EXCEPT ![p] = moved] \/ plans' = [plans EXCEPT ![p] = stale]
    BY DEF DropIndex
  <2> QED
    BY <2>1, <2>2, <2>3, <2>4
<1>5. /\ plans' \in Seq(Plan) /\ DOMAIN plans' = DOMAIN plans
      /\ \A q \in DOMAIN plans : plans'[q] = IF q = p THEN new ELSE plans[q]
  BY <1>4, PlanReplaced DEF IInv
<1>6. /\ inventory' \in [rev : Nat, complete : BOOLEAN]
      /\ inventory'.rev \in {inventory.rev, inventory.rev + 1}
  <2>1. inventory' = inventory \/ inventory' = [rev |-> inventory.rev + 1, complete |-> FALSE]
    BY DEF DropIndex
  <2>2. CASE inventory' = inventory
    BY <1>2, <2>2
  <2>3. CASE inventory' = [rev |-> inventory.rev + 1, complete |-> FALSE]
    BY <1>2, <2>3
  <2> QED
    BY <2>1, <2>2, <2>3
<1>7. indexes' \in [Indexes -> {"ready", "retired"}]
  BY <1>2 DEF DropIndex
<1>8. Types'
  BY <1>1, <1>5, <1>6, <1>7 DEF IInv, Types
<1>9. now <= now' /\ inventory.rev <= inventory'.rev
  BY <1>1, <1>2, <1>6
<1>10. (\A g \in Generations : GenerationSound(g))' /\ EnoughAhead'
  BY <1>1, <1>8, <1>9, StillSound
<1>11. (\A q \in DOMAIN plans : PlanSound(plans[q]))'
  <2>1. \A q \in DOMAIN plans' : PlanSound(plans'[q])
    BY <1>4, <1>5 DEF IInv
  <2> QED
    BY <1>1, <1>8, <2>1, PlansKept
<1>12. ScanSound' /\ (\A u \in Uploads : UploadSound(u))'
  BY <1>1, ScanKept, UploadsKept DEF IInv
<1>13. IndexesOfWholeGenerationsKept'
  <2> SUFFICES ASSUME NEW j \in Indexes, NEW g \in j,
                      gens[g].state \in {"ready", "active", "retired"}, gens[g].lost = 0
               PROVE  indexes'[j] = "ready"
    BY <1>1 DEF IndexesOfWholeGenerationsKept
  <2>1. indexes[j] = "ready"
    BY DEF IInv, IndexesOfWholeGenerationsKept
  <2>2. g \in Generations
    BY DEF GcAssumption
  <2>3. ~gens[g].collected
    BY <2>2 DEF IInv, GenerationSound
  <2>4. Live(g)
    BY <2>3 DEF Live
  <2>5. CASE PlanCurrent(p) /\ j = i
    <3>1. \A h \in plans[p].gens : gens[h].collected
      BY <1>3, <2>5 DEF DropIndex, PlanSound
    <3>2. i \in plans[p].indexes
      BY DEF DropIndex, ToDrop
    <3>3. Unreferenced(i, plans[p].gens)
      BY <2>1, <2>5, <3>2 DEF PlanCurrent, CandidateSafe
    <3> QED
      BY <2>3, <2>4, <2>5, <3>1, <3>3 DEF Unreferenced
  <2>6. CASE ~PlanCurrent(p) \/ j # i
    BY <1>2, <2>1, <2>6 DEF DropIndex
  <2> QED
    BY <2>5, <2>6
<1> QED
  BY <1>8, <1>10, <1>11, <1>12, <1>13 DEF IInv

-----------------------------------------------------------------------------
(* Builds and cutovers.                                                     *)

\* What these steps do to the rows, and that it suffices.
LEMMA RowsStep ==
  ASSUME GcAssumption, IInv, RootChanged, gens' \in [Generations -> Generation],
         UNCHANGED <<now, inventory, indexes, uploads, gc>>,
         \A g \in Generations :
           \/ gens'[g] = gens[g]
           \/ /\ ~Settled(g) /\ gens'[g].lost = 0 /\ gens'[g].state # "absent"
              /\ gens[g].collected => gens'[g].collected
              /\ GenerationSound(g)'
              /\ gens'[g].state \in {"ready", "active", "retired"} =>
                   \A i \in Indexes : g \in i => indexes[i] = "ready"
  PROVE  IInv'
<1>1. /\ now' = now /\ inventory' = inventory /\ indexes' = indexes /\ uploads' = uploads
      /\ scan' = scan /\ plans' = plans /\ call' = call
  BY DEF gc
<1>2. Types'
  BY <1>1 DEF IInv, Types, RootChanged
<1>3. inventory.rev <= inventory'.rev
  BY <1>1 DEF IInv, Types
<1>4. EnoughAhead'
  BY <1>2, <1>3, AheadStays
<1>5. ASSUME NEW g \in Generations PROVE GenerationSound(g)'
  BY <1>1, <1>5 DEF IInv, GenerationSound, Rooted
<1>6. (\A p \in DOMAIN plans : PlanSound(plans[p]))'
  <2>1. \A p \in DOMAIN plans' : PlanSound(plans'[p])
    BY <1>1 DEF IInv
  <2> QED
    BY <1>2, <2>1, PlansKept
<1>7. ScanSound' /\ (\A u \in Uploads : UploadSound(u))'
  BY <1>1, ScanKept, UploadsKept DEF IInv
<1>8. IndexesOfWholeGenerationsKept'
  <2> SUFFICES ASSUME NEW i \in Indexes, NEW g \in i,
                      gens'[g].state \in {"ready", "active", "retired"}, gens'[g].lost = 0
               PROVE  indexes[i] = "ready"
    BY <1>1 DEF IndexesOfWholeGenerationsKept
  <2>1. g \in Generations
    BY DEF GcAssumption
  <2> QED
    BY <2>1 DEF IInv, IndexesOfWholeGenerationsKept
<1> QED
  BY <1>2, <1>4, <1>5, <1>6, <1>7, <1>8 DEF IInv

LEMMA StartBuildStep ==
  ASSUME GcAssumption, IInv, NEW g \in Generations, StartBuild(g)
  PROVE  IInv'
<1> DEFINE new == [gens[g] EXCEPT !.state = "staging", !.job = TRUE, !.changed = now]
<1>1. /\ gens \in [Generations -> Generation] /\ gens[g] \in Generation
      /\ now \in Nat /\ inventory.rev \in Nat /\ GenerationSound(g)
  BY DEF IInv, Types
<1>2. /\ RootChanged /\ UNCHANGED <<now, inventory, indexes, uploads, gc>>
      /\ gens[g].state = "absent"
      /\ gens' = [gens EXCEPT ![g].state = "staging", ![g].job = TRUE, ![g].changed = now]
  BY DEF StartBuild
<1>3. new \in Generation
  BY <1>1 DEF Generation, States
<1>4. gens' = [gens EXCEPT ![g] = new]
  BY <1>1, <1>2
<1>5. gens' \in [Generations -> Generation] /\ \A h \in Generations \ {g} : gens'[h] = gens[h]
  BY <1>1, <1>3, <1>4
<1>6. /\ gens'[g].state = "staging" /\ gens'[g].job = TRUE /\ gens'[g].changed = now
      /\ gens'[g].adm = gens[g].adm /\ gens'[g].prepared = gens[g].prepared
      /\ gens'[g].activated = gens[g].activated /\ gens'[g].lost = gens[g].lost
      /\ gens'[g].collected = gens[g].collected
  BY <1>1, <1>4 DEF Generation
<1>7. ~Settled(g)
  BY <1>2 DEF Settled, Successes
<1>8. GenerationSound(g)' /\ gens'[g].lost = 0
  BY <1>1, <1>2, <1>6 DEF GenerationSound
<1> QED
  BY <1>2, <1>5, <1>6, <1>7, <1>8, RowsStep

LEMMA EndBuildStep ==
  ASSUME GcAssumption, IInv, NEW g \in Generations, NEW state \in {"ready", "failed"},
         EndBuild(g, state)
  PROVE  IInv'
<1> DEFINE new == [gens[g] EXCEPT !.state = state, !.job = FALSE, !.changed = now,
                                  !.adm = inventory.rev]
<1>1. /\ gens \in [Generations -> Generation] /\ gens[g] \in Generation
      /\ now \in Nat /\ inventory.rev \in Nat /\ GenerationSound(g)
  BY DEF IInv, Types
<1>2. /\ RootChanged /\ UNCHANGED <<now, inventory, indexes, uploads, gc>>
      /\ gens[g].state = "staging" /\ gens[g].job
      /\ state = "ready" => \A i \in Indexes : g \in i => indexes[i] = "ready"
      /\ gens' = [gens EXCEPT ![g].state = state, ![g].job = FALSE, ![g].changed = now,
                              ![g].adm = inventory.rev]
  BY DEF EndBuild
<1>3. new \in Generation
  BY <1>1 DEF Generation, States
<1>4. gens' = [gens EXCEPT ![g] = new]
  BY <1>1, <1>2
<1>5. gens' \in [Generations -> Generation] /\ \A h \in Generations \ {g} : gens'[h] = gens[h]
  BY <1>1, <1>3, <1>4
<1>6. /\ gens'[g].state = state /\ gens'[g].job = FALSE /\ gens'[g].changed = now
      /\ gens'[g].adm = inventory.rev /\ gens'[g].prepared = gens[g].prepared
      /\ gens'[g].activated = gens[g].activated /\ gens'[g].lost = gens[g].lost
      /\ gens'[g].collected = gens[g].collected
  BY <1>1, <1>4 DEF Generation
<1>7. ~Settled(g)
  BY <1>2 DEF Settled, Successes
<1>8. gens[g].lost = 0
  BY <1>1, <1>2 DEF GenerationSound, Rooted, Generation
<1>9. GenerationSound(g)'
  BY <1>1, <1>2, <1>6, <1>8 DEF GenerationSound
<1> QED
  BY <1>2, <1>5, <1>6, <1>7, <1>8, <1>9, RowsStep

\* What is ready at the inventory's revision has lost nothing.
LEMMA CurrentIsWhole ==
  ASSUME GcAssumption, IInv, NEW g \in Generations,
         gens[g].state = "ready", gens[g].adm = inventory.rev
  PROVE  ~Settled(g) /\ gens[g].lost = 0 /\ ~gens[g].collected /\ ~gens[g].job
<1>1. GenerationSound(g) /\ gens[g] \in Generation /\ inventory.rev \in Nat
  BY DEF IInv, Types
<1> QED
  BY <1>1 DEF Settled, GenerationSound, Generation

LEMMA PrepareStep ==
  ASSUME GcAssumption, IInv, NEW g \in Generations, Prepare(g)
  PROVE  IInv'
<1> DEFINE new == [gens[g] EXCEPT !.prepared = TRUE]
<1>1. /\ gens \in [Generations -> Generation] /\ gens[g] \in Generation
      /\ now \in Nat /\ inventory.rev \in Nat /\ GenerationSound(g)
  BY DEF IInv, Types
<1>2. /\ RootChanged /\ UNCHANGED <<now, inventory, indexes, uploads, gc>>
      /\ gens[g].state = "ready" /\ gens[g].adm = inventory.rev
      /\ gens' = [gens EXCEPT ![g].prepared = TRUE]
  BY DEF Prepare
<1>3. ~Settled(g) /\ gens[g].lost = 0 /\ ~gens[g].collected /\ ~gens[g].job
  BY <1>2, CurrentIsWhole
<1>4. new \in Generation
  BY <1>1 DEF Generation
<1>5. gens' = [gens EXCEPT ![g] = new]
  BY <1>1, <1>2
<1>6. gens' \in [Generations -> Generation] /\ \A h \in Generations \ {g} : gens'[h] = gens[h]
  BY <1>1, <1>4, <1>5
<1>7. /\ gens'[g].state = gens[g].state /\ gens'[g].job = gens[g].job
      /\ gens'[g].changed = gens[g].changed
      /\ gens'[g].adm = gens[g].adm /\ gens'[g].prepared = TRUE
      /\ gens'[g].activated = gens[g].activated /\ gens'[g].lost = gens[g].lost
      /\ gens'[g].collected = gens[g].collected
  BY <1>1, <1>5 DEF Generation
<1>8. GenerationSound(g)'
  BY <1>1, <1>2, <1>3, <1>7 DEF GenerationSound
<1>9. \A i \in Indexes : g \in i => indexes[i] = "ready"
  BY <1>2, <1>3 DEF IInv, IndexesOfWholeGenerationsKept
<1> QED
  BY <1>2, <1>3, <1>6, <1>7, <1>8, <1>9, RowsStep

LEMMA ActivateStep ==
  ASSUME GcAssumption, IInv, NEW g \in Generations, Activate(g)
  PROVE  IInv'
<1>1. /\ gens \in [Generations -> Generation] /\ now \in Nat /\ inventory.rev \in Nat
      /\ \A h \in Generations : gens[h] \in Generation /\ GenerationSound(h)
  BY DEF IInv, Types
<1>2. /\ RootChanged /\ UNCHANGED <<now, inventory, indexes, uploads, gc>>
      /\ gens[g].state = "ready" /\ gens[g].adm = inventory.rev
  BY DEF Activate
<1> DEFINE served == [gens[g] EXCEPT !.state = "active", !.activated = TRUE,
                                     !.prepared = FALSE, !.changed = now]
           left(h) == [gens[h] EXCEPT !.state = "retired", !.changed = now]
           row(h) == CASE h = g -> served [] gens[h].state = "active" -> left(h)
                       [] OTHER -> gens[h]
<1>3. gens' = [h \in Generations |-> row(h)]
  BY DEF Activate
<1>4. served \in Generation /\ \A h \in Generations : left(h) \in Generation
  BY <1>1 DEF Generation, States
<1>5. /\ row(g) = served
      /\ \A h \in Generations \ {g} : row(h) = IF gens[h].state = "active" THEN left(h)
                                             ELSE gens[h]
  <2> HIDE DEF served, left
  <2> QED
    BY <1>2
<1>6. \A h \in Generations : row(h) \in Generation
  <2> HIDE DEF served, left, row
  <2> QED
    BY <1>1, <1>4, <1>5
<1>7. /\ gens' \in [Generations -> Generation] /\ gens'[g] = served
      /\ \A h \in Generations \ {g} : gens'[h] = IF gens[h].state = "active" THEN left(h)
                                               ELSE gens[h]
  <2> HIDE DEF served, left, row
  <2> QED
    BY <1>3, <1>5, <1>6
<1> HIDE DEF row
<1> DEFINE Ok(h) == /\ ~Settled(h) /\ gens'[h].lost = 0 /\ gens'[h].state # "absent"
                    /\ gens[h].collected => gens'[h].collected
                    /\ GenerationSound(h)'
                    /\ gens'[h].state \in {"ready", "active", "retired"} =>
                         \A i \in Indexes : h \in i => indexes[i] = "ready"
<1>8. Ok(g)
  <2>1. ~Settled(g) /\ gens[g].lost = 0 /\ ~gens[g].collected /\ ~gens[g].job
    BY <1>2, CurrentIsWhole
  <2>2. /\ gens'[g].state = "active" /\ gens'[g].job = gens[g].job /\ gens'[g].changed = now
        /\ gens'[g].adm = gens[g].adm /\ gens'[g].prepared = FALSE
        /\ gens'[g].activated = TRUE /\ gens'[g].lost = gens[g].lost
        /\ gens'[g].collected = gens[g].collected
    BY <1>1, <1>7 DEF Generation
  <2>3. GenerationSound(g)'
    BY <1>1, <1>2, <2>1, <2>2 DEF GenerationSound
  <2>4. \A i \in Indexes : g \in i => indexes[i] = "ready"
    BY <1>2, <2>1 DEF IInv, IndexesOfWholeGenerationsKept
  <2> QED
    BY <2>1, <2>2, <2>3, <2>4
<1>9. ASSUME NEW h \in Generations \ {g}, gens[h].state = "active" PROVE Ok(h)
  <2>1. /\ gens'[h].state = "retired" /\ gens'[h].job = gens[h].job /\ gens'[h].changed = now
        /\ gens'[h].adm = gens[h].adm /\ gens'[h].prepared = gens[h].prepared
        /\ gens'[h].activated = gens[h].activated /\ gens'[h].lost = gens[h].lost
        /\ gens'[h].collected = gens[h].collected
    <3>1. gens'[h] = left(h) /\ gens[h] \in Generation
      BY <1>1, <1>7, <1>9
    <3> QED
      BY <3>1 DEF Generation
  <2>2. GenerationSound(h) /\ gens[h] \in Generation
    BY <1>1
  <2>3. gens[h].lost = 0
    BY <1>9, <2>2 DEF GenerationSound, Rooted, Generation
  <2>4. GenerationSound(h)'
    BY <1>1, <1>2, <1>9, <2>1, <2>2, <2>3 DEF GenerationSound
  <2>5. ~Settled(h)
    BY <1>9 DEF Settled, Successes
  <2>6. \A i \in Indexes : h \in i => indexes[i] = "ready"
    BY <1>9, <2>3 DEF IInv, IndexesOfWholeGenerationsKept
  <2> QED
    BY <2>1, <2>3, <2>4, <2>5, <2>6
<1>10. \A h \in Generations : gens'[h] = gens[h] \/ Ok(h)
  BY <1>7, <1>8, <1>9
<1> QED
  BY <1>2, <1>7, <1>10, RowsStep

-----------------------------------------------------------------------------
(* Batches.                                                                 *)

\* The successes ahead of one that lost rows are kept.
LEMMA RecentLostNothing ==
  ASSUME GcAssumption, IInv
  PROVE  RecentIsWhole
<1> SUFFICES ASSUME NEW g \in Recent, gens[g].lost # 0 PROVE FALSE
  BY DEF RecentIsWhole
<1>1. g \in Successes /\ g \in Generations
  BY DEF Recent, Successes
<1>2. gens[g].lost > 0
  <2>1. gens[g] \in Generation
    BY <1>1 DEF IInv, Types
  <2> QED
    BY <2>1 DEF Generation
<1>3. Cardinality(Ahead(g)) >= Keep
  BY <1>1, <1>2 DEF IInv, EnoughAhead
<1> DEFINE S == {h \in Successes : Before(h, g)}
<1>4. Ahead(g) \subseteq S /\ S \in SUBSET Generations /\ Ahead(g) \in SUBSET Generations
  BY DEF Ahead, Settled, Successes
<1>5. Cardinality(S) < Keep
  BY DEF Recent
<1>6. Cardinality(Ahead(g)) <= Cardinality(S) /\ Cardinality(Ahead(g)) \in Nat
      /\ Cardinality(S) \in Nat /\ Keep \in Nat
  BY <1>4, Counted, Constants
<1> QED
  BY <1>3, <1>5, <1>6

\* Every batch settles what is ready, and the recent successes, which it leaves
\* alone, are ahead of all that it takes from.
LEMMA BatchAhead ==
  ASSUME GcAssumption, IInv, Types', inventory'.rev = inventory.rev + 1,
         \A h \in Recent : gens'[h] = gens[h],
         \A h \in Generations : /\ gens'[h].changed = gens[h].changed
                                /\ gens'[h].state = gens[h].state
                                /\ gens[h].collected => gens'[h].collected,
         \A g \in Recent : gens'[g].lost = 0
  PROVE  EnoughAhead'
<1> SUFFICES ASSUME NEW g \in Generations, g \in Successes', gens'[g].lost > 0
             PROVE  Cardinality(Ahead(g))' >= Keep
  BY DEF EnoughAhead, Successes
<1>1. g \in Successes
  <2>1. gens[g].collected \in BOOLEAN /\ gens'[g].collected \in BOOLEAN
    BY DEF IInv, Types, Generation
  <2> QED
    BY <2>1 DEF Successes, Live
<1>2. g \notin Recent
  OBVIOUS
<1>3. PICK S \in SUBSET Recent : (\A h \in S : Before(h, g)) /\ Cardinality(S) >= Keep
  BY <1>1, <1>2, RecentAhead
<1>4. ASSUME NEW h \in S PROVE h \in Generations /\ Settled(h)' /\ Before(h, g)'
  <2>1. h \in Recent /\ h \in Successes /\ h \in Generations /\ gens'[h] = gens[h]
    BY <1>3, <1>4 DEF Recent, Successes
  <2>2. h \in Successes'
    BY <2>1 DEF Successes, Live
  <2>3. gens[h].adm <= inventory.rev /\ gens[h].adm \in Nat /\ inventory.rev \in Nat
    BY <2>1 DEF IInv, GenerationSound, Types, Generation
  <2>4. gens'[h].adm < inventory'.rev
    BY <2>1, <2>3
  <2>5. Settled(h)'
    BY <2>2, <2>4 DEF Settled
  <2>6. Before(h, g)'
    BY <1>3, <1>4, <2>1 DEF Before
  <2> QED
    BY <2>1, <2>5, <2>6
<1>5. S \subseteq Ahead(g)' /\ S \in SUBSET Generations /\ Ahead(g)' \in SUBSET Generations
  BY <1>4 DEF Ahead
<1> DEFINE A == Ahead(g)'
<1>6. A = Ahead(g)' /\ Cardinality(A) = Cardinality(Ahead(g))'
  OBVIOUS
<1> HIDE DEF A
<1>7. Cardinality(S) \in Nat /\ Cardinality(A) \in Nat /\ Cardinality(S) <= Cardinality(A)
      /\ Keep \in Nat
  BY <1>5, <1>6, Counted, Constants
<1> QED
  BY <1>3, <1>6, <1>7

\* What a batch may do to the rows of its plan's generations, and that it suffices.
LEMMA BatchStep ==
  ASSUME GcAssumption, IInv, NEW p \in DOMAIN plans, NEW new \in Plan, RecordBatch(p, new),
         new.gens = plans[p].gens, new.state = "committing",
         gens' \in [Generations -> Generation],
         UNCHANGED <<now, root, indexes, uploads, scan, call>>,
         \A g \in Generations :
           \/ gens'[g] = gens[g]
           \/ /\ gens[g].state # "absent" /\ ~Rooted(g) /\ g \notin Recent
              /\ gens'[g].state = gens[g].state /\ gens'[g].changed = gens[g].changed
              /\ gens'[g].adm = gens[g].adm /\ gens'[g].job = gens[g].job
              /\ gens'[g].prepared = gens[g].prepared
              /\ gens'[g].activated = gens[g].activated
              /\ gens'[g].lost >= gens[g].lost
              /\ gens[g].collected => gens'[g].collected
              /\ gens'[g].collected => gens'[g].lost = 2
  PROVE  IInv'
<1>1. /\ inventory' \in [rev : Nat, complete : BOOLEAN] /\ inventory'.rev = inventory.rev + 1
      /\ plans' \in Seq(Plan) /\ DOMAIN plans' = DOMAIN plans
      /\ \A q \in DOMAIN plans :
           plans'[q] = IF q = p THEN [new EXCEPT !.rev = inventory.rev + 1] ELSE plans[q]
  BY Batch DEF IInv
<1>2. Types'
  BY <1>1 DEF IInv, Types
<1>3. inventory.rev \in Nat /\ now \in Nat
  BY DEF IInv, Types
<1>4. ASSUME NEW g \in Generations PROVE GenerationSound(g)'
  <2>1. GenerationSound(g) /\ gens[g] \in Generation /\ gens'[g] \in Generation
    BY DEF IInv, Types
  <2>2. CASE gens'[g] = gens[g]
    BY <1>1, <1>3, <2>1, <2>2 DEF GenerationSound, Rooted, Generation
  <2>3. CASE /\ gens[g].state # "absent" /\ ~Rooted(g) /\ g \notin Recent
             /\ gens'[g].state = gens[g].state /\ gens'[g].changed = gens[g].changed
             /\ gens'[g].adm = gens[g].adm /\ gens'[g].job = gens[g].job
             /\ gens'[g].prepared = gens[g].prepared
             /\ gens'[g].activated = gens[g].activated
             /\ gens'[g].lost >= gens[g].lost
             /\ gens[g].collected => gens'[g].collected
             /\ gens'[g].collected => gens'[g].lost = 2
    <3>1. gens'[g].adm < inventory'.rev
      BY <1>1, <1>3, <2>1, <2>3 DEF GenerationSound, Generation
    <3>2. ~Rooted(g)'
      BY <2>1, <2>3 DEF Rooted, Generation
    <3>3. gens'[g].changed <= now' /\ gens'[g].adm <= inventory'.rev
      BY <1>1, <1>3, <2>1, <2>3, <3>1 DEF GenerationSound, Generation
    <3> QED
      BY <2>1, <2>3, <3>1, <3>2, <3>3 DEF GenerationSound
  <2> QED
    BY <2>2, <2>3
<1>5. EnoughAhead'
  <2>1. \A h \in Recent : h \in Generations /\ gens'[h] = gens[h] /\ gens'[h].lost = 0
    BY RecentLostNothing DEF RecentIsWhole, Recent, Successes
  <2> QED
    BY <1>1, <1>2, <2>1, BatchAhead
<1>6. (\A q \in DOMAIN plans : PlanSound(plans[q]))'
  <2>1. PlanSound(plans'[p])
    <3>1. plans'[p].gens = plans[p].gens /\ plans'[p].state = "committing"
      BY <1>1 DEF Plan
    <3> QED
      BY <3>1 DEF IInv, PlanSound
  <2>2. \A q \in DOMAIN plans' : PlanSound(plans'[q])
    BY <1>1, <2>1 DEF IInv
  <2> QED
    BY <1>2, <2>2, PlansKept
<1>7. ScanSound'
  BY ScanKept DEF IInv
<1>8. (\A u \in Uploads : UploadSound(u))'
  BY UploadsKept
<1>9. IndexesOfWholeGenerationsKept'
  <2> SUFFICES ASSUME NEW i \in Indexes, NEW g \in i,
                      gens'[g].state \in {"ready", "active", "retired"}, gens'[g].lost = 0
               PROVE  indexes[i] = "ready"
    BY DEF IndexesOfWholeGenerationsKept
  <2>1. g \in Generations
    BY DEF GcAssumption
  <2>2. gens[g].lost = 0 /\ gens[g].state \in {"ready", "active", "retired"}
    <3>1. gens[g] \in Generation /\ gens'[g] \in Generation
      BY <2>1 DEF IInv, Types
    <3> QED
      BY <2>1, <3>1 DEF Generation
  <2> QED
    BY <2>2 DEF IInv, IndexesOfWholeGenerationsKept
<1> QED
  BY <1>2, <1>4, <1>5, <1>6, <1>7, <1>8, <1>9 DEF IInv

\* A candidate that is not collected yet is rooted nowhere and not recent.
LEMMA CandidateOutside ==
  ASSUME IInv, NEW p \in DOMAIN plans, PlanCurrent(p), NEW g \in plans[p].gens
  PROVE  /\ gens[g].state # "absent" /\ g \in Generations
         /\ gens[g].collected \/ (~Rooted(g) /\ g \notin Recent)
<1>1. plans[p] \in Plan /\ PlanSound(plans[p])
  BY DEF IInv, Types
<1> QED
  BY <1>1 DEF Plan, PlanSound, PlanCurrent, CandidateSafe

LEMMA DeleteRowsStep ==
  ASSUME GcAssumption, IInv, NEW p \in DOMAIN plans, DeleteRows(p)
  PROVE  IInv'
<1> DEFINE k == First(WorkPhases(p))
           g0 == First(Work(p, k))
           new == [plans[p] EXCEPT !.state = "committing", !.phase = k]
<1>1. /\ plans[p] \in Plan /\ gens \in [Generations -> Generation]
  BY DEF IInv, Types
<1>2. k \in WorkPhases(p) /\ k \in 1..2
  <2>1. WorkPhases(p) # {} /\ WorkPhases(p) \in SUBSET (1..2)
    <3>1. plans[p].phase \in 1..2 /\ Len(Phases) = 2
      BY <1>1, Constants DEF Plan
    <3> QED
      BY <3>1 DEF DeleteRows, WorkPhases
  <2>2. WorkPhases(p) \in SUBSET Nat
    BY <2>1
  <2> QED
    BY <2>1, <2>2, FirstIsLeast
<1>3. g0 \in Work(p, k)
  <2>1. Work(p, k) # {}
    BY <1>2 DEF WorkPhases
  <2>2. Work(p, k) \in SUBSET Nat
    BY <1>1, Constants DEF Work, Plan
  <2> QED
    BY <2>1, <2>2, FirstIsLeast
<1>4. RecordBatch(p, new) /\ gens' = [gens EXCEPT ![g0].lost = k]
  BY DEF DeleteRows
<1> HIDE DEF k, g0
<1>5. new \in Plan /\ new.gens = plans[p].gens /\ new.state = "committing"
  BY <1>1, <1>2 DEF Plan, Open
<1> HIDE DEF new
<1>6. g0 \in plans[p].gens /\ gens[g0].lost < k
  BY <1>3 DEF Work
<1>7. /\ gens[g0].state # "absent" /\ g0 \in Generations /\ gens[g0] \in Generation
      /\ gens[g0].collected \/ (~Rooted(g0) /\ g0 \notin Recent)
  <2>1. PlanCurrent(p)
    BY DEF DeleteRows
  <2> QED
    BY <1>1, <1>6, <2>1, CandidateOutside
<1>8. ~gens[g0].collected
  <2>1. gens[g0].collected => gens[g0].lost = 2
    BY <1>7 DEF IInv, GenerationSound
  <2> QED
    BY <1>2, <1>6, <2>1
<1> DEFINE row == [gens[g0] EXCEPT !.lost = k]
<1>9. gens' = [gens EXCEPT ![g0] = row]
  BY <1>1, <1>4, <1>7
<1>10. /\ row \in Generation
       /\ row.state = gens[g0].state /\ row.changed = gens[g0].changed
       /\ row.adm = gens[g0].adm /\ row.job = gens[g0].job /\ row.prepared = gens[g0].prepared
       /\ row.activated = gens[g0].activated /\ row.lost = k
       /\ row.collected = gens[g0].collected
  BY <1>2, <1>7 DEF Generation
<1>11. row.lost >= gens[g0].lost
  BY <1>2, <1>6, <1>7, <1>10 DEF Generation
<1> HIDE DEF row
<1>12. /\ gens' \in [Generations -> Generation] /\ gens'[g0] = row
       /\ \A g \in Generations \ {g0} : gens'[g] = gens[g]
  BY <1>1, <1>7, <1>9, <1>10
<1>13. UNCHANGED <<now, root, indexes, uploads, scan, call>>
  BY DEF DeleteRows
<1> QED
  BY <1>4, <1>5, <1>7, <1>8, <1>10, <1>11, <1>12, <1>13, BatchStep

LEMMA CollectStep ==
  ASSUME GcAssumption, IInv, NEW p \in DOMAIN plans, CollectGenerations(p)
  PROVE  IInv'
<1> DEFINE new == [plans[p] EXCEPT !.state = "committing"]
           row(g) == IF g \in plans[p].gens THEN [gens[g] EXCEPT !.collected = TRUE] ELSE gens[g]
<1>1. /\ plans[p] \in Plan /\ gens \in [Generations -> Generation]
  BY DEF IInv, Types
<1>2. RecordBatch(p, new) /\ gens' = [g \in Generations |-> row(g)]
  BY DEF CollectGenerations
<1>3. new \in Plan /\ new.gens = plans[p].gens /\ new.state = "committing"
  BY <1>1 DEF Plan, Open
<1>4. \A g \in plans[p].gens : g \in Generations /\ gens[g].lost = 2
  <2>1. 2 \in plans[p].phase..Len(Phases)
    <3>1. plans[p].phase \in 1..2 /\ Len(Phases) = 2
      BY <1>1, Constants DEF Plan
    <3> QED
      BY <3>1
  <2>2. Work(p, 2) = {}
    BY <2>1 DEF CollectGenerations, RowsDone, WorkPhases
  <2>3. \A g \in plans[p].gens : g \in Generations /\ ~(gens[g].lost < 2) /\ gens[g].lost \in 0..2
    BY <1>1, <2>2 DEF Work, Plan, Generation
  <2> QED
    BY <2>3
<1>5. \A g \in Generations : row(g) \in Generation
  BY <1>1 DEF Generation
<1>6. gens' \in [Generations -> Generation] /\ \A g \in Generations : gens'[g] = row(g)
  <2> HIDE DEF row
  <2> QED
    BY <1>2, <1>5
<1>7. ASSUME NEW g \in Generations
      PROVE  \/ gens'[g] = gens[g]
             \/ /\ gens[g].state # "absent" /\ ~Rooted(g) /\ g \notin Recent
                /\ gens'[g].state = gens[g].state /\ gens'[g].changed = gens[g].changed
                /\ gens'[g].adm = gens[g].adm /\ gens'[g].job = gens[g].job
                /\ gens'[g].prepared = gens[g].prepared
                /\ gens'[g].activated = gens[g].activated
                /\ gens'[g].lost >= gens[g].lost
                /\ gens[g].collected => gens'[g].collected
                /\ gens'[g].collected => gens'[g].lost = 2
  <2>1. gens[g] \in Generation /\ gens'[g] = row(g)
    BY <1>1, <1>6
  <2>2. CASE g \notin plans[p].gens
    BY <2>1, <2>2
  <2>3. CASE g \in plans[p].gens /\ gens[g].collected
    BY <2>1, <2>3 DEF Generation
  <2>4. CASE g \in plans[p].gens /\ ~gens[g].collected
    <3>1. gens[g].state # "absent" /\ ~Rooted(g) /\ g \notin Recent
      BY <2>4, CandidateOutside DEF CollectGenerations
    <3>2. /\ gens'[g].state = gens[g].state /\ gens'[g].changed = gens[g].changed
          /\ gens'[g].adm = gens[g].adm /\ gens'[g].job = gens[g].job
          /\ gens'[g].prepared = gens[g].prepared
          /\ gens'[g].activated = gens[g].activated
          /\ gens'[g].lost = gens[g].lost /\ gens'[g].collected = TRUE
      BY <2>1, <2>4 DEF Generation
    <3>3. gens[g].lost = 2
      BY <1>4, <2>4
    <3> QED
      BY <3>1, <3>2, <3>3
  <2> QED
    BY <2>2, <2>3, <2>4
<1>8. UNCHANGED <<now, root, indexes, uploads, scan, call>>
  BY DEF CollectGenerations
<1> HIDE DEF new, row
<1> QED
  BY <1>2, <1>3, <1>6, <1>7, <1>8, BatchStep

-----------------------------------------------------------------------------
(* The theorems.                                                            *)

LEMMA Initially ==
  ASSUME GcAssumption, Init
  PROVE  IInv
<1>1. Types
  <2>1. Absent \in Generation
    BY DEF Absent, Generation, States
  <2>2. gens \in [Generations -> Generation]
    BY <2>1 DEF Init
  <2>3. uploads \in [Uploads -> Upload]
    BY DEF Init, Upload
  <2>4. plans \in Seq(Plan)
    <3>1. <<>> \in Seq(Plan)
      OBVIOUS
    <3> QED
      BY <3>1 DEF Init
  <2> QED
    BY <2>2, <2>3, <2>4 DEF Types, Init, NoCall
<1>2. ASSUME NEW g \in Generations PROVE GenerationSound(g)
  BY DEF Init, Absent, GenerationSound, Rooted
<1>3. (\A p \in DOMAIN plans : PlanSound(plans[p])) /\ ScanSound
  BY DEF Init, NoScan, ScanSound
<1>4. IndexesOfWholeGenerationsKept
  BY DEF IndexesOfWholeGenerationsKept, Init
<1>5. EnoughAhead
  BY DEF EnoughAhead, Successes, Init, Absent
<1>6. \A u \in Uploads : UploadSound(u)
  BY DEF UploadSound, Init, NoCall
<1> QED
  BY <1>1, <1>2, <1>3, <1>4, <1>5, <1>6 DEF IInv

LEMMA Step ==
  ASSUME GcAssumption, IInv, [Next]_vars
  PROVE  IInv'
<1>1. CASE Tick \/ Measure \/ QueryLease \/ CallFails \/ UNCHANGED vars
  BY <1>1, ClockAndCounters
<1>2. CASE DryRun
  BY <1>2, DryRunStep
<1>3. CASE PersistDryRun
  BY <1>3, PersistStep
<1>4. ASSUME NEW g \in Generations,
             \/ StartBuild(g) \/ Prepare(g) \/ Activate(g)
             \/ \E state \in {"ready", "failed"} : EndBuild(g, state)
      PROVE  IInv'
  BY <1>4, StartBuildStep, PrepareStep, ActivateStep, EndBuildStep
<1>5. ASSUME NEW u \in Uploads,
             \/ \E state \in {"registered", "failed", "expired"} : EndUpload(u, state)
             \/ DeleteVersion(u) \/ AcknowledgeUpload(u)
      PROVE  IInv'
  BY <1>5, EndUploadStep, DeleteVersionStep, AcknowledgeStep
<1>6. ASSUME NEW p \in DOMAIN plans,
             \/ ClaimUploads(p) \/ DeleteRows(p) \/ CollectGenerations(p) \/ RequestIndexDrop(p)
             \/ \E i \in Indexes : DropIndex(p, i)
      PROVE  IInv'
  BY <1>6, ClaimStep, DeleteRowsStep, CollectStep, RequestDropStep, DropIndexStep
<1> QED
  BY <1>1, <1>2, <1>3, <1>4, <1>5, <1>6 DEF Next

(* The records stay sound and connected: what has lost rows is rooted       *)
(* nowhere and can be activated no more, however plans, builds, cutovers    *)
(* and measurements interleave.                                             *)
THEOREM GcInvariance ==
  ASSUME GcAssumption
  PROVE  Spec => []IInv
<1>1. Init => IInv
  BY Initially
<1>2. IInv /\ [Next]_vars => IInv'
  BY Step
<1> QED
  BY <1>1, <1>2, PTL DEF Spec

(* No generation that is built, prepared or was ever activated has lost a   *)
(* row or its record (ops.gc_generation_roots, g20212_assert_plan_current); *)
(* what has all its rows has its indexes (verifyGcDropAuthorization); and   *)
(* the latest successes have all their rows (the recent window).            *)
THEOREM GenerationsKept ==
  ASSUME GcAssumption
  PROVE  Spec => [](RootedIsWhole /\ IndexesOfWholeGenerationsKept /\ RecentIsWhole)
<1>1. IInv => RootedIsWhole /\ IndexesOfWholeGenerationsKept /\ RecentIsWhole
  <2> SUFFICES ASSUME IInv
               PROVE  RootedIsWhole /\ IndexesOfWholeGenerationsKept /\ RecentIsWhole
    OBVIOUS
  <2>1. ASSUME NEW g \in Generations, Rooted(g) PROVE gens[g].lost = 0 /\ ~gens[g].collected
    <3>1. GenerationSound(g) /\ gens[g] \in Generation
      BY DEF IInv, Types
    <3> QED
      BY <2>1, <3>1 DEF GenerationSound, Generation
  <2>2. RecentIsWhole
    BY RecentLostNothing
  <2> QED
    BY <2>1, <2>2 DEF IInv, RootedIsWhole
<1> QED
  BY <1>1, GcInvariance, PTL

(* Only the objects of orphans are deleted, and a session is recorded as    *)
(* cleaned only after its object is gone, wherever the commit call fails    *)
(* between deleteVersion and acknowledge_gc_orphan_upload.                  *)
THEOREM ObjectsKept ==
  ASSUME GcAssumption
  PROVE  Spec => [](RegisteredObjectsKept /\ CleanedIsDeleted)
<1>1. IInv => RegisteredObjectsKept /\ CleanedIsDeleted
  BY DEF IInv, UploadSound, RegisteredObjectsKept, CleanedIsDeleted
<1> QED
  BY <1>1, GcInvariance, PTL
=============================================================================
