--------------------------- MODULE RuntimeRefresh ---------------------------
(***************************************************************************)
(* Preparing a snapshot group's refresh: find the releases the group       *)
(* version concerns, make sure a job builds it, and certify its            *)
(* generations for each release, member by member, each step a             *)
(* transaction of its own.  Builds finish, fail and are replayed, their    *)
(* reports are refused, versions are superseded and disks measured between *)
(* any two steps, and a caller that meets an error starts again.           *)
(*                                                                         *)
(* Source: packages/materialization-application/src/runtime-plan.ts,       *)
(* packages/materialization-postgres/src/runtime-plan.ts,                  *)
(* ensure_runtime_refresh_job and issue_compatibility_certificate of       *)
(* migration 0015; for the builds and the cutovers it meets, migrations    *)
(* 0012, 0013, 0014, 0016 and 0018.                                        *)
(*                                                                         *)
(* Abstractions: releases and members are numbers, in the order the code   *)
(* sorts them; whether a member's snapshot fits a release's plan is a      *)
(* constant, for both are immutable; a certificate's digest is what it     *)
(* certifies, the inventory revision of its capacity admission included; a *)
(* job that is leased or waits for a retry is "queued"; the state before   *)
(* "materializing" of a version is not told apart.                         *)
(***************************************************************************)
EXTENDS Integers, Sequences, FiniteSets

CONSTANTS
  NReleases,
  Members,        \* member numbers, those of the group version
  PlanMembers,    \* per release: the members its plan has in this group
  Generations,    \* numbers, in the order they are created
  MemberOf,       \* per generation: its member
  PlanOf,         \* per member: the release whose plan its snapshot was taken for
  Fits,           \* pairs <<member, release>> that are compatible
  MaxCalls,       \* bound: calls of prepareSnapshotGroupRefresh
  MaxInventory,   \* bound: inventory revisions
  None

Releases == 1..NReleases

\* A call keeps whether the job was dead and the generations were fit to
\* certify throughout.
VARIABLES
  job,        \* None or the state of the version's latest job
  version,    \* the group version: "materializing", "ready", "active", "superseded"
  gen,        \* per generation: its state
  inventory,  \* revision
  admitted,   \* per generation: the revision of its POSTBUILD admission
  certs,      \* set of [id, gen, release, revision]
  call,       \* None or the call in progress; dead and calm of it are history
  answer,     \* the last answer, or None
  calls, ids

vars == <<job, version, gen, inventory, admitted, certs, call, answer, calls, ids>>

Init == /\ job = None /\ version = "materializing"
        /\ gen = [g \in Generations |-> "absent"]
        /\ inventory = 1
        /\ admitted = [g \in Generations |-> 0]
        /\ certs = {}
        /\ call = None /\ answer = None
        /\ calls = 0 /\ ids = 0

-----------------------------------------------------------------------------
(* prepareSnapshotGroupRefresh. *)

Dead == {"dead_letter", "cancelled"}
Eligible(m) == {g \in Generations : MemberOf[g] = m /\ gen[g] \in {"ready", "active"}}

Called == /\ call = None /\ calls < MaxCalls
          /\ calls' = calls + 1
          /\ call' = [targets |-> None, job |-> None, todo |-> 0, member |-> {}, candidates |-> <<>>,
                      reused |-> FALSE, failed |-> FALSE, stale |-> FALSE, got |-> {}, results |-> <<>>,
                      dead |-> job \in Dead,
                      calm |-> /\ job = "succeeded"
                               /\ \A m \in Members : \E g \in Eligible(m) : admitted[g] = inventory]
          /\ answer' = None
          /\ UNCHANGED <<job, version, gen, inventory, admitted, certs, ids>>

\* an error ends the call; what it has issued stays
Throws == call' = None

\* targets and job are asked for together: either comes first
ReadRefreshTargets ==
  /\ call # None /\ call.targets = None
  /\ call' = [call EXCEPT !.targets = IF version = "superseded" THEN {} ELSE Releases]
  /\ UNCHANGED <<job, version, gen, inventory, admitted, certs, answer, calls, ids>>

\* ensure_runtime_refresh_job: the latest job of the version, or a new one
EnsureMaterializationJob ==
  /\ call # None /\ call.job = None
  /\ IF version = "superseded" \/ (job = None /\ version \in {"ready", "active"})
       THEN Throws /\ job' = job
       ELSE /\ job' = IF job = None THEN "queued" ELSE job
            /\ call' = [call EXCEPT !.job = job']
  /\ UNCHANGED <<version, gen, inventory, admitted, certs, answer, calls, ids>>

Asked == call # None /\ call.targets # None /\ call.job # None
Current == Len(call.results) + 1       \* the release being prepared
Compatible(r) == PlanMembers[r] = Members

StartRelease ==
  /\ Asked /\ call.todo = 0 /\ Len(call.results) < Cardinality(call.targets)
  /\ call' = IF Compatible(Current)
       THEN [call EXCEPT !.todo = Current, !.member = PlanMembers[Current], !.candidates = <<>>,
                         !.reused = FALSE, !.failed = FALSE, !.stale = FALSE, !.got = {}]
       ELSE [call EXCEPT !.results = Append(@, [outcome |-> "stale", certificates |-> {}])]
  /\ UNCHANGED <<job, version, gen, inventory, admitted, certs, answer, calls, ids>>

NextMember == CHOOSE m \in call.member : \A n \in call.member : m <= n
Rank(st) == IF st = "active" THEN 0 ELSE 1
Ordered(s) == CHOOSE q \in [1..Cardinality(s) -> s] :
                /\ \A i, j \in DOMAIN q : i # j => q[i] # q[j]
                /\ \A i, j \in DOMAIN q : i < j =>
                     \/ Rank(gen[q[i]]) < Rank(gen[q[j]])
                     \/ Rank(gen[q[i]]) = Rank(gen[q[j]]) /\ q[i] > q[j]

\* readGenerationCandidates: those ready or active are tried, in this order
ReadGenerationCandidates ==
  /\ Asked /\ call.todo # 0 /\ call.member # {} /\ call.candidates = <<>>
  /\ LET m == NextMember
         failed == \E g \in Generations : MemberOf[g] = m /\ gen[g] = "failed"
     IN call' = IF Eligible(m) = {}
          THEN [call EXCEPT !.failed = @ \/ failed, !.member = @ \ {m}]
          ELSE [call EXCEPT !.failed = @ \/ failed, !.candidates = Ordered(Eligible(m))]
  /\ UNCHANGED <<job, version, gen, inventory, admitted, certs, answer, calls, ids>>

-----------------------------------------------------------------------------
(* issue_compatibility_certificate. *)

\* The report a generation rests on must be of a job that has succeeded.
Verdict(g, r) == CASE \/ gen[g] \notin {"ready", "active"} \/ version \notin {"ready", "active"}
                      \/ job # "succeeded" \/ <<MemberOf[g], r>> \notin Fits -> "INCOMPATIBLE"
                   [] admitted[g] # inventory -> "STALE"
                   [] OTHER -> "issued"

Same(c, g, r) == c.gen = g /\ c.release = r /\ c.revision = inventory

\* a certificate with this digest is the one that is returned
Issue(g, r) ==
  LET known == {c \in certs : Same(c, g, r)}
  IN IF known = {}
       THEN [certs |-> certs \cup {[id |-> ids + 1, gen |-> g, release |-> r, revision |-> inventory]},
             id |-> ids + 1]
       ELSE [certs |-> certs, id |-> (CHOOSE c \in known : TRUE).id]

\* the next candidate, or the next member when there is none
AfterFailure(verdict) ==
  [call EXCEPT !.stale = @ \/ verdict = "STALE", !.candidates = Tail(@),
               !.member = IF Len(call.candidates) = 1 THEN @ \ {NextMember} ELSE @]

IssueCompatibilityCertificate ==
  /\ Asked /\ call.todo # 0 /\ call.candidates # <<>>
  /\ LET g == Head(call.candidates)
         r == call.todo
         made == Issue(g, r)
     IN IF Verdict(g, r) = "issued"
          THEN /\ certs' = made.certs /\ ids' = ids + 1
               /\ call' = [call EXCEPT !.got = @ \cup {[member |-> NextMember, id |-> made.id]},
                                       !.reused = @ \/ PlanOf[NextMember] # r,
                                       !.candidates = <<>>, !.member = @ \ {NextMember}]
          ELSE /\ call' = AfterFailure(Verdict(g, r))
               /\ UNCHANGED <<certs, ids>>
  /\ UNCHANGED <<job, version, gen, inventory, admitted, answer, calls>>

Outcome(complete) ==
  CASE complete -> IF call.reused THEN "reused" ELSE "ready"
    [] ~complete /\ call.stale -> "stale"
    [] ~complete /\ ~call.stale /\ (call.failed \/ call.job \in Dead) -> "failed"
    [] OTHER -> "pending"

FinishRelease ==
  /\ Asked /\ call.todo # 0 /\ call.member = {}
  /\ call' = [call EXCEPT !.todo = 0, !.results = Append(@,
       [outcome |-> Outcome(Cardinality(call.got) = Cardinality(PlanMembers[call.todo])),
        certificates |-> call.got])]
  /\ UNCHANGED <<job, version, gen, inventory, admitted, certs, answer, calls, ids>>

Answered(results) == results

Return ==
  /\ Asked /\ call.todo = 0 /\ Len(call.results) = Cardinality(call.targets)
  /\ answer' = [results |-> Answered(call.results), targets |-> call.targets,
                dead |-> call.dead, calm |-> call.calm]
  /\ call' = None
  /\ UNCHANGED <<job, version, gen, inventory, admitted, certs, calls, ids>>

\* a dependency fails: the caller gets an error
Fails ==
  /\ call # None /\ Throws
  /\ UNCHANGED <<job, version, gen, inventory, admitted, certs, answer, calls, ids>>

-----------------------------------------------------------------------------
(* The worker, the scanner and the cutover. *)

Live(m) == {g \in Generations : MemberOf[g] = m /\ gen[g] \in {"building", "ready", "active"}}
Absent(m) == {g \in Generations : MemberOf[g] = m /\ gen[g] = "absent"}

\* prepare_materialization_build: a generation for each member that has none
\* alive.  How often a member is built again is bounded by Generations.
PrepareBuild ==
  /\ job = "queued" /\ \E m \in Members : Live(m) = {}
  /\ \A m \in Members : Live(m) = {} => Absent(m) # {}
  /\ gen' = [g \in Generations |->
       IF Live(MemberOf[g]) = {} /\ g \in Absent(MemberOf[g]) /\ \A h \in Absent(MemberOf[g]) : g <= h
         THEN "building" ELSE gen[g]]
  /\ UNCHANGED <<job, version, inventory, admitted, certs, call, answer, calls, ids>>

\* a failed quality report, or a row count that an administrator rejects
RefuseGeneration(g) ==
  /\ gen[g] = "building"
  /\ gen' = [gen EXCEPT ![g] = "failed"]
  /\ UNCHANGED <<job, version, inventory, admitted, certs, call, answer, calls, ids>>

\* persistCapacityAdmission at POSTBUILD, for a generation of the running build
Admit(g) ==
  /\ job = "queued" /\ gen[g] \in {"building", "ready"} /\ admitted[g] # inventory
  /\ admitted' = [admitted EXCEPT ![g] = inventory]
  /\ UNCHANGED <<job, version, gen, inventory, certs, call, answer, calls, ids>>

\* finish_materialization_build: every member has a generation admitted at the
\* current inventory
FinishBuild ==
  /\ job = "queued"
  /\ \A m \in Members : \E g \in Live(m) : admitted[g] = inventory
  /\ gen' = [g \in Generations |-> IF gen[g] = "building" THEN "ready" ELSE gen[g]]
  /\ version' = IF version = "materializing" THEN "ready" ELSE version
  /\ UNCHANGED <<job, inventory, admitted, certs, call, answer, calls, ids>>

\* succeed_materialization_job, after the build has finished
JobSucceeds ==
  /\ job = "queued" /\ version = "ready" /\ \A m \in Members : Eligible(m) # {}
  /\ job' = "succeeded"
  /\ UNCHANGED <<version, gen, inventory, admitted, certs, call, answer, calls, ids>>

\* The job ends without success: what it has built stays as it is.
JobFails ==
  /\ job = "queued" /\ job' \in Dead
  /\ UNCHANGED <<version, gen, inventory, admitted, certs, call, answer, calls, ids>>

\* replay_materialization_job, which leaves the generations alone too
JobReplayed ==
  /\ job = "dead_letter" /\ job' = "queued"
  /\ call' = IF call = None THEN None ELSE [call EXCEPT !.dead = FALSE]
  /\ UNCHANGED <<version, gen, inventory, admitted, certs, answer, calls, ids>>

Disturbed == call' = IF call = None THEN None ELSE [call EXCEPT !.calm = FALSE]

\* record_project_physical_measurement, of this build or of another one: only
\* a build that runs admits its generations again
Measure ==
  /\ inventory < MaxInventory /\ inventory' = inventory + 1
  /\ Disturbed
  /\ UNCHANGED <<job, version, gen, admitted, certs, answer, calls, ids>>

\* a cutover of a release whose members are certified at this inventory
CutOver ==
  /\ version = "ready"
  /\ \E r \in Releases : Compatible(r) /\ \A m \in Members : \E c \in certs :
       c.release = r /\ MemberOf[c.gen] = m /\ c.revision = inventory
  /\ version' = "active"
  /\ gen' = [g \in Generations |-> IF gen[g] = "ready" THEN "active" ELSE gen[g]]
  /\ UNCHANGED <<job, inventory, admitted, certs, call, answer, calls, ids>>

\* A cutover to another version, after which no release serves this one: its
\* active generations retire.
Supersede ==
  /\ version = "active" /\ version' = "superseded"
  /\ gen' = [g \in Generations |-> IF gen[g] = "active" THEN "retired" ELSE gen[g]]
  /\ Disturbed
  /\ UNCHANGED <<job, inventory, admitted, certs, answer, calls, ids>>

Next ==
  \/ Called \/ ReadRefreshTargets \/ EnsureMaterializationJob \/ StartRelease
  \/ ReadGenerationCandidates \/ IssueCompatibilityCertificate \/ FinishRelease
  \/ Return \/ Fails
  \/ PrepareBuild \/ FinishBuild \/ JobSucceeds \/ JobFails \/ JobReplayed \/ Measure
  \/ \E g \in Generations : RefuseGeneration(g) \/ Admit(g)
  \/ CutOver \/ Supersede

Spec == Init /\ [][Next]_vars

-----------------------------------------------------------------------------
CertOf(id) == CHOOSE c \in certs : c.id = id

\* The type invariant, with at most one generation of a member alive.
TypeOK == /\ gen \in [Generations -> {"absent", "building", "ready", "active", "retired", "failed"}]
          /\ \A m \in Members : Cardinality(Live(m)) <= 1
          /\ \A c \in certs : c.id \in 1..ids /\ c.revision \in 1..inventory
          /\ answer # None => Len(answer.results) = Cardinality(answer.targets)
          /\ call # None => call.member \subseteq Members

\* A release reported ready or reused has one certificate per member of its
\* plan, each issued for this release and for a generation of that member that
\* fits it, although they were issued one by one (#prepareRelease).
ReadyIsCertified ==
  answer # None => \A r \in answer.targets :
    answer.results[r].outcome \in {"ready", "reused"} =>
      /\ {c.member : c \in answer.results[r].certificates} = PlanMembers[r]
      /\ \A c \in answer.results[r].certificates :
           LET cert == CertOf(c.id)
           IN cert.release = r /\ MemberOf[cert.gen] = c.member /\ <<c.member, r>> \in Fits

\* However often calls fail and are repeated, one generation is certified for
\* one release at one inventory revision once (issue_compatibility_certificate).
CertifiedOnce ==
  \A c, d \in certs : (c.gen = d.gen /\ c.release = d.release /\ c.revision = d.revision) => c = d

\* A call through which the job is dead or cancelled reports no release as
\* pending, which would be waited for in vain (prepareSnapshotGroupRefresh).
NoVainPending ==
  (answer # None /\ answer.dead) => \A r \in answer.targets : answer.results[r].outcome # "pending"

\* Releases fail alone: one that every member fits is ready or reused when the
\* build had succeeded and nothing moved during the call, whichever other
\* releases are refused and whichever older generations have failed
\* (#prepareRelease).
FailAlone ==
  (answer # None /\ answer.calm) =>
    \A r \in answer.targets :
      (Compatible(r) /\ \A m \in Members : <<m, r>> \in Fits)
      => answer.results[r].outcome \in {"ready", "reused"}
=============================================================================
