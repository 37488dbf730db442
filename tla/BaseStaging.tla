---------------------------- MODULE BaseStaging ----------------------------
(***************************************************************************)
(* The map stage of one materialization job with an object and a link      *)
(* generation.  An attempt resolves identities, stages batches under its   *)
(* own ownership, and promotes a whole generation at once.  An attempt     *)
(* that has lost its lease keeps running until a call refuses it, and a    *)
(* call that passed the fence before the lease was lost still commits.     *)
(*                                                                         *)
(* Source: packages/materialization-application/src/base.ts, the #map      *)
(* stage of production-pipeline.ts, materialization-postgres/src/base.ts,  *)
(* functions of migrations/db-00/0011, 0012 and 0018.                      *)
(*                                                                         *)
(* Abstractions: a batch digest is what it binds (its sequence, rows and   *)
(* dangling rows); properties are left out, a row is its key; mapping      *)
(* rejections are a set of row numbers.  An attempt sends a batch once, so *)
(* the comparison with an already staged batch never runs.                 *)
(***************************************************************************)
EXTENDS Naturals, FiniteSets, SequencesExt

CONSTANTS Keys,          \* primary keys of the object type
          Elsewhere,     \* keys that a job of another group also stages
          ObjectFile,    \* sequence of batches, each a set of keys
          LinkFile,      \* sequence of batches, each a set of <<source, target>>
          RejectedRows,  \* rows of the object file that mapping rejects
          MaxAttempts    \* attempt budget of the job

BaseAssumption ==
  /\ Elsewhere \subseteq Keys
  /\ ObjectFile \in Seq(SUBSET Keys) /\ LinkFile \in Seq(SUBSET (Keys \X Keys))
  /\ IsFiniteSet(RejectedRows) /\ MaxAttempts \in Nat \ {0}

Generations == {"object", "link"}
Attempts == 1..MaxAttempts
Rids == 0..Cardinality(Keys)
NoBase == [owner |-> 0, rows |-> {}, digest |-> <<>>]

VARIABLES identity,     \* runtime.object_identities: key to rid, 0 if absent
          job,          \* current attempt and state of the job
          staged,       \* per attempt and generation: batches in order
          base,         \* per generation: the promoted stage and its rows
          observed,     \* quality observations of the two generations
          work          \* per attempt: where it is

vars == <<identity, job, staged, base, observed, work>>

File(g) == IF g = "object" THEN ObjectFile ELSE LinkFile
Idle == [at |-> "idle", todo |-> {}, batch |-> 0, seq |-> 0, found |-> [k \in {} |-> 0]]
Batch == [seq : Nat, rows : SUBSET (Keys \union Keys \X Keys), dangling : SUBSET (Keys \X Keys)]

TypeOK ==
  /\ identity \in [Keys -> Rids]
  /\ job.attempt \in 0..MaxAttempts
  /\ job.state \in {"queued", "running", "mapped", "exhausted", "conflict"}
  /\ \A a \in Attempts, g \in Generations : \A i \in DOMAIN staged[a][g] : staged[a][g][i] \in Batch
  /\ \A g \in Generations : base[g].owner \in 0..MaxAttempts
  /\ observed \subseteq RejectedRows \union Keys \X Keys
  /\ \A a \in Attempts :
       /\ work[a].at \in {"idle", "read", "batch", "stage", "insert", "observe", "reject",
                          "promote", "commit"}
       /\ work[a].todo \subseteq Generations

Init ==
  /\ identity = [k \in Keys |-> 0]
  /\ job = [attempt |-> 0, state |-> "queued"]
  /\ staged = [a \in Attempts |-> [g \in Generations |-> <<>>]]
  /\ base = [g \in Generations |-> NoBase]
  /\ observed = {}
  /\ work = [a \in Attempts |-> Idle]

-----------------------------------------------------------------------------
(* Attempts *)

\* The fence of every staging function: the attempt owns a live lease.
Fenced(a) == job.state # "running" \/ job.attempt # a
At(a, step) == work[a].at = step
GoTo(a, step) == work' = [work EXCEPT ![a].at = step]
\* Objects come before links.
Current(a) == IF "object" \in work[a].todo THEN "object" ELSE "link"

\* The attempt ends; a job that still runs it is queued again or stops.
EndAttempt(a, permanent) ==
  /\ work' = [work EXCEPT ![a] = Idle]
  /\ job' = IF Fenced(a) THEN job
            ELSE [job EXCEPT !.state = CASE permanent -> "conflict"
                                         [] ~permanent /\ a = MaxAttempts -> "exhausted"
                                         [] OTHER -> "queued"]

\* A worker takes the job with a new attempt.
Claim ==
  /\ job.state = "queued" /\ job.attempt < MaxAttempts
  /\ job' = [attempt |-> job.attempt + 1, state |-> "running"]
  /\ work' = [work EXCEPT ![job.attempt + 1] = [Idle EXCEPT !.at = "read"]]
  /\ UNCHANGED <<identity, staged, base, observed>>

\* The lease expires while the attempt runs.
LoseLease ==
  /\ job.state = "running" /\ job.attempt < MaxAttempts
  /\ job' = [job EXCEPT !.state = "queued"]
  /\ UNCHANGED <<identity, staged, base, observed, work>>

\* A manual replay starts a new attempt of a job that stopped on a conflict.
Replay ==
  /\ job.state = "conflict" /\ job.attempt < MaxAttempts
  /\ job' = [job EXCEPT !.state = "queued"]
  /\ UNCHANGED <<identity, staged, base, observed, work>>

\* readBuild: generations whose base is promoted are skipped, and the batch
\* sequence of the attempt starts at 1 whatever is skipped.
ReadBuild(a) ==
  /\ At(a, "read")
  /\ IF Fenced(a) THEN EndAttempt(a, FALSE)
     ELSE LET todo == {g \in Generations : base[g].owner = 0} IN
          IF todo = {}
          THEN /\ job' = [job EXCEPT !.state = "mapped"]
               /\ work' = [work EXCEPT ![a] = Idle]
          ELSE /\ work' = [work EXCEPT ![a] = [Idle EXCEPT !.at = "batch", !.todo = todo,
                                                           !.batch = 1, !.seq = 1]]
               /\ UNCHANGED job
  /\ UNCHANGED <<identity, staged, base, observed>>

-----------------------------------------------------------------------------
(* Identities *)

\* Mutant of Resolved: a rid of the caller replaces the stored one.
ResolvedCandidate(keys) ==
  [k \in Keys |-> IF k \in keys
     THEN CHOOSE r \in 1..Cardinality(Keys) :
            \A l \in Keys \ {k} : identity[l] # r /\ identity[k] # r
     ELSE identity[k]]

\* resolve_or_create_object_identities inserts on conflict do nothing, then
\* reads back: a key without a rid takes a fresh candidate, in one statement.
Resolved(keys) ==
  LET missing == {k \in keys : identity[k] = 0}
      fresh == 1..Cardinality(Keys) \ {identity[k] : k \in Keys}
      choice == CHOOSE f \in [missing -> fresh] : \A k, l \in missing : k # l => f[k] # f[l]
  IN  [k \in Keys |-> IF k \in missing THEN choice[k] ELSE identity[k]]

Lookup(keys) == [k \in {k \in keys : identity[k] # 0} |-> identity[k]]

\* A job of another snapshot group stages an object with the same key.
ResolveElsewhere(k) ==
  /\ k \in Elsewhere
  /\ identity' = Resolved({k})
  /\ UNCHANGED <<job, staged, base, observed, work>>

\* The next step of a generation after its last batch.
NextBatch(a) ==
  LET g == Current(a) IN
  IF work[a].batch < Len(File(g)) THEN "batch" ELSE "promote"
Exhausted(a) == work[a].batch > Len(File(Current(a)))

\* stageObjectBatch, first call: it carries no fence.
ResolveObjects(a) ==
  LET keys == ObjectFile[work[a].batch]
      resolved == Resolved(keys)
  IN  /\ At(a, "batch") /\ Current(a) = "object" /\ ~Exhausted(a)
      /\ identity' = resolved
      /\ work' = [work EXCEPT ![a].at = "stage", ![a].found = [k \in keys |-> resolved[k]]]
      /\ UNCHANGED <<job, staged, base, observed>>

\* stageLinkBatch, first call: endpoints without an identity stay unresolved.
LookupEndpoints(a) ==
  LET links == LinkFile[work[a].batch]
      keys == UNION {{l[1], l[2]} : l \in links}
  IN  /\ At(a, "batch") /\ Current(a) = "link" /\ ~Exhausted(a)
      /\ work' = [work EXCEPT ![a].at = "stage", ![a].found = Lookup(keys)]
      /\ UNCHANGED <<identity, job, staged, base, observed>>

\* A file without an accepted row stages no batch.
EmptyFile(a) ==
  /\ At(a, "batch") /\ Exhausted(a)
  /\ GoTo(a, IF RejectedRows # {} /\ Current(a) = "object" THEN "reject" ELSE "promote")
  /\ UNCHANGED <<identity, job, staged, base, observed>>

-----------------------------------------------------------------------------
(* Batches *)

Dangling(links, found) == {l \in links : ~({l[1], l[2]} \subseteq DOMAIN found)}

\* The digest of a batch binds its sequence, rows and dangling rows.
BatchOf(a) ==
  LET g == Current(a)
      input == File(g)[work[a].batch]
      lost == IF g = "object" THEN {} ELSE Dangling(input, work[a].found)
  IN  [seq |-> work[a].seq, rows |-> input \ lost, dangling |-> lost]

StagedRows(a, g) == UNION {staged[a][g][i].rows : i \in DOMAIN staged[a][g]}

\* stage_object_base_batch and stage_link_base_batch read the lease.
StageBegin(a) ==
  /\ At(a, "stage")
  /\ IF Fenced(a) THEN EndAttempt(a, FALSE) ELSE GoTo(a, "insert") /\ UNCHANGED job
  /\ UNCHANGED <<identity, staged, base, observed>>

\* Where the attempt goes behind a staged batch.
AfterBatch(a, dangling) ==
  CASE dangling # {} -> "observe"
    [] dangling = {} /\ NextBatch(a) = "batch" -> "batch"
    [] dangling = {} /\ NextBatch(a) = "promote" ->
         (IF RejectedRows # {} /\ Current(a) = "object" THEN "reject" ELSE "promote")

Advance(a, step) ==
  work' = [work EXCEPT ![a].at = step, ![a].batch = @ + 1, ![a].seq = @ + 1,
                       ![a].found = Idle.found]

\* The batch and its rows are inserted; a row staged before is a conflict.
StageInsert(a) ==
  LET g == Current(a)
      new == BatchOf(a)
  IN  /\ At(a, "insert")
      /\ IF new.rows \intersect StagedRows(a, g) # {}
         THEN EndAttempt(a, TRUE) /\ UNCHANGED staged
         ELSE /\ staged' = [staged EXCEPT ![a][g] = Append(@, new)]
              /\ Advance(a, AfterBatch(a, new.dangling))
              /\ UNCHANGED job
      /\ UNCHANGED <<identity, base, observed>>

\* g20207_assert_live_quality: a live lease and a promoted stage.
LiveQuality(a, g) == ~Fenced(a) /\ base[g].owner # 0

\* stageObservations of dangling links, behind their batch.
ObserveDangling(a) ==
  LET g == Current(a)
      lost == Last(staged[a][g]).dangling
  IN  /\ At(a, "observe")
      /\ IF LiveQuality(a, g)
         THEN /\ observed' = observed \union lost
              /\ GoTo(a, IF Exhausted(a) THEN "promote" ELSE "batch")
              /\ UNCHANGED job
         ELSE EndAttempt(a, FALSE) /\ UNCHANGED observed
      /\ UNCHANGED <<identity, staged, base>>

\* stageObservations of the rows that mapping rejected.
ObserveRejected(a) ==
  /\ At(a, "reject")
  /\ IF LiveQuality(a, "object")
     THEN /\ observed' = observed \union RejectedRows
          /\ GoTo(a, "promote")
          /\ UNCHANGED job
     ELSE EndAttempt(a, FALSE) /\ UNCHANGED observed
  /\ UNCHANGED <<identity, staged, base>>

-----------------------------------------------------------------------------
(* Promotion *)

\* promote_materialization_base locks the stage of the attempt, not the job.
PromoteBegin(a) ==
  /\ At(a, "promote")
  /\ IF Fenced(a) THEN EndAttempt(a, FALSE) ELSE GoTo(a, "commit") /\ UNCHANGED job
  /\ UNCHANGED <<identity, staged, base, observed>>

\* Behind a promotion: the next generation, or another look at the build.
NextGeneration(a) ==
  LET left == work[a].todo \ {Current(a)} IN
  work' = [work EXCEPT ![a] = IF left = {} THEN [Idle EXCEPT !.at = "read"]
                              ELSE [@ EXCEPT !.at = "batch", !.todo = left, !.batch = 1]]

\* An empty base must come from no batch at all.
Promotable(a, g) == StagedRows(a, g) # {} \/ staged[a][g] = <<>>

\* A promoted stage of the generation is reused when its digest is equal; the
\* unique index lets one stage through when two commit.
PromoteCommit(a) ==
  LET g == Current(a)
      prior == base[g].owner # 0
  IN  /\ At(a, "commit")
      /\ IF \/ prior /\ base[g].digest # staged[a][g]
            \/ ~Promotable(a, g)
         THEN EndAttempt(a, TRUE) /\ UNCHANGED base
         ELSE /\ base' = IF prior THEN base
                         ELSE [base EXCEPT ![g] = [owner |-> a, rows |-> StagedRows(a, g),
                                                   digest |-> staged[a][g]]]
              /\ NextGeneration(a)
              /\ UNCHANGED job
      /\ UNCHANGED <<identity, staged, observed>>

Step(a) ==
  \/ ReadBuild(a) \/ ResolveObjects(a) \/ LookupEndpoints(a) \/ EmptyFile(a)
  \/ StageBegin(a) \/ StageInsert(a) \/ ObserveDangling(a) \/ ObserveRejected(a)
  \/ PromoteBegin(a) \/ PromoteCommit(a)

Steady ==
  \/ Claim
  \/ \E k \in Elsewhere : ResolveElsewhere(k)
  \/ \E a \in Attempts : Step(a)

Next == Steady \/ LoseLease \/ Replay

Spec == Init /\ [][Next]_vars
-----------------------------------------------------------------------------
(* Properties *)

AllRows(g) == UNION {File(g)[i] : i \in DOMAIN File(g)}

\* A key keeps the rid it was given first, whoever resolves it again: object
\* identities are permanent, and no two keys share a rid.
IdentityIsPermanent ==
  /\ \A k \in Keys : identity[k] # 0 => identity'[k] = identity[k]
  /\ \A k, l \in Keys : identity'[k] # 0 /\ identity'[k] = identity'[l] => k = l

\* A promoted base is the whole file of its generation as one attempt staged
\* it: no batch is missing, and a row left out is an observed dangling link.
BaseIsWholeFile ==
  \A g \in Generations : base[g].owner # 0 =>
    /\ base[g].rows = StagedRows(base[g].owner, g)
    /\ AllRows(g) \ base[g].rows \subseteq observed

\* Once promoted, a base never changes, not even by a promotion of an attempt
\* that passed its fence before.
BaseIsFrozen ==
  \A g \in Generations : base[g].owner # 0 => base'[g] = base[g]

\* A base link joins two objects that have an identity.
EndpointsHaveIdentity ==
  \A l \in base["link"].rows : identity[l[1]] # 0 /\ identity[l[2]] # 0

\* A recorded rejection belongs to a promoted base, so that the quality report
\* counts it against rows that are final.
ObservedIsPromoted == observed # {} => \E g \in Generations : base[g].owner # 0
============================================================================
