--------------------------- MODULE RuntimeServing ---------------------------
(***************************************************************************)
(* How built data comes to be served.                                      *)
(*                                                                         *)
(* A worker builds versions of snapshot groups; a compatibility            *)
(* certificate says that a release may serve a version; a release is       *)
(* staged and published on a channel; and a snapshot-group cutover, in two *)
(* phases, creates the runtime activations and moves the project's object  *)
(* heads, the serving heads and the channels to the new version.           *)
(*                                                                         *)
(* Source: migrations/db-00/0016 (cutover), 0015 (certificates), 0014,     *)
(* 0017 and 0018 (physical inventory, builds), 0005 and 0007 (publication  *)
(* triggers), 0028 (retirement), metadata-postgres/src/release.ts (stage   *)
(* and publish), production-pipeline.ts (the build's last stages).         *)
(*                                                                         *)
(* Abstractions.  One project.  A group has one member, so a group version *)
(* is its generation and its snapshot, whose states move together; and one *)
(* object, of whose value only the semantic digest is kept (None when the  *)
(* version has no row for it).  A certificate is named by (release, group, *)
(* version, inventory revision): its digest covers the revision, and a     *)
(* second issue at the same revision returns the first.  Activations and   *)
(* head sets are named by their place in order of creation.  Every         *)
(* transaction that locks meta.projects FOR UPDATE first is one step.      *)
(* Prepare does not: its reads up to the insertion of the preparation are  *)
(* separate steps, and the rest, which runs under the foreign-key lock on  *)
(* the project that the insertion takes, is one.                           *)
(***************************************************************************)
EXTENDS Integers, Sequences, FiniteSets, TLAPS

CONSTANTS
  Releases,
  Channels,
  ChannelOf,     \* target_channel_name of each release
  Groups,        \* snapshot groups
  PlanGroups,    \* the groups of each release's runtime plan
  NVersions,     \* bound: versions built of each group
  Values,        \* semantic digests an object may have
  Preparations,  \* idempotency keys of cutover requests
  MaxRevision,   \* bound: inventory_revision
  None

Versions == 1..NVersions

ASSUME ServingAssumption ==
  /\ ChannelOf \in [Releases -> Channels]
  /\ PlanGroups \in [Releases -> (SUBSET Groups) \ {{}}]
  /\ NVersions \in Nat \ {0}
  /\ MaxRevision \in Nat \ {0}
  /\ Groups # {}
  /\ None \notin Releases \cup Values

VARIABLES
  control,      \* meta.projects.publication_sequence
  inventory,    \* runtime.project_runtime_inventories
  versions,     \* runtime.snapshot_group_versions (and generations, snapshots)
  certs,        \* certs[r][g][v]: revision of the latest certificate, 0 if none
  releases,     \* meta.releases
  channels,     \* meta.release_channels
  activations,  \* meta.runtime_activations with their members, per release
  serving,      \* meta.release_serving_heads
  headSets,     \* runtime.object_head_sets with their rows
  pointer,      \* runtime.project_object_head_pointers
  preps         \* runtime.snapshot_group_cutover_preparations

vars == <<control, inventory, versions, certs, releases, channels, activations,
          serving, headSets, pointer, preps>>

-----------------------------------------------------------------------------
(* Types.                                                                  *)

Inventory == [st : Nat, rev : Nat, complete : BOOLEAN]

\* building and measured are the states of an unfinished build, before and after
\* its ready_for_activation stage has scanned the disk; adm is the inventory
\* revision of its latest POSTBUILD capacity admission.
Version == [state : {"absent", "building", "measured", "ready", "active", "retired"},
            adm   : Nat,
            value : Values \cup {None}]

ChannelRow == [rel : Releases \cup {None}, act : Nat, seq : Nat]
NoChannel == [rel |-> None, act |-> 0, seq |-> 0]

\* ctl and chan are what staged_validation_context_digest covers that can change.
Release == [state : {"draft", "staging", "ready", "published", "superseded"},
            ctl   : Nat,
            chan  : ChannelRow]

Member == [ver : Nat, rev : Nat]
NoMember == [ver |-> 0, rev |-> 0]
Content == [Groups -> Member]
NoContent == [g \in Groups |-> NoMember]

ServingRow == [act : Nat, seq : Nat]
NotServed == [act |-> 0, seq |-> 0]

HeadRow == [ver : Nat, hv : Nat]
NoHead == [ver |-> 0, hv |-> 0]
HeadSet == [rows : [Groups -> HeadRow], state : {"prepared", "active", "retired"}]

\* A preparation: what prepare read (the three revisions, the pointer) and what it
\* recorded per candidate release.  phase is where its transaction has got to.
Preparation == [phase   : {"none", "revisions", "pointer", "prepared", "committed"},
                grp     : Groups,
                ver     : Nat,
                ctl     : Nat,
                st      : Nat,
                rev     : Nat,
                head    : Nat,
                rels    : SUBSET Releases,
                serv    : [Releases -> ServingRow],
                chan    : [Channels -> ChannelRow],
                content : [Releases -> Content],
                cand    : Nat]

NoPreparation ==
  [phase |-> "none", grp |-> CHOOSE g \in Groups : TRUE, ver |-> 0, ctl |-> 0,
   st |-> 0, rev |-> 0, head |-> 0, rels |-> {},
   serv |-> [r \in Releases |-> NotServed], chan |-> [c \in Channels |-> NoChannel],
   content |-> [r \in Releases |-> NoContent], cand |-> 0]

\* The state keeps the shape of the tables: rows, revisions and pointers.
TypeOK ==
  /\ control \in Nat
  /\ inventory \in Inventory
  /\ versions \in [Groups -> [Versions -> Version]]
  /\ certs \in [Releases -> [Groups -> [Versions -> Nat]]]
  /\ releases \in [Releases -> Release]
  /\ channels \in [Channels -> ChannelRow]
  /\ activations \in [Releases -> Seq(Content)]
  /\ serving \in [Releases -> ServingRow]
  /\ headSets \in Seq(HeadSet)
  /\ pointer \in 0..Len(headSets)
  /\ preps \in [Preparations -> Preparation]

\* A project is provisioned with a measured inventory (no code under packages or
\* migrations inserts that row; the pipeline needs it complete to start).
Init ==
  /\ control = 0
  /\ inventory = [st |-> 1, rev |-> 1, complete |-> TRUE]
  /\ versions = [g \in Groups |-> [v \in Versions |->
                   [state |-> "absent", adm |-> 0, value |-> None]]]
  /\ certs = [r \in Releases |-> [g \in Groups |-> [v \in Versions |-> 0]]]
  /\ releases = [r \in Releases |-> [state |-> "draft", ctl |-> 0, chan |-> NoChannel]]
  /\ channels = [c \in Channels |-> NoChannel]
  /\ activations = [r \in Releases |-> <<>>]
  /\ serving = [r \in Releases |-> NotServed]
  /\ headSets = <<>>
  /\ pointer = 0
  /\ preps = [p \in Preparations |-> NoPreparation]

-----------------------------------------------------------------------------
(* The build of a group version and the physical inventory.                *)

\* record_project_physical_measurement, at the revision the pipeline has read:
\* readCurrentInventoryRevision finds none while the measurement is incomplete.
Measured ==
  /\ inventory.complete
  /\ inventory.rev < MaxRevision
  /\ inventory' = [inventory EXCEPT !.rev = @ + 1]

\* Stage scan: prepareBuild inserts the generations and the disk is measured.
ScanBuild(g, v) ==
  /\ versions[g][v].state = "absent"
  /\ Measured
  /\ versions' = [versions EXCEPT ![g][v].state = "building"]
  /\ UNCHANGED <<control, certs, releases, channels, activations, serving,
                 headSets, pointer, preps>>

\* Stage ready_for_activation, unless a current admission exists: measure again ...
MeasureBuild(g, v) ==
  /\ versions[g][v].state \in {"building", "measured"}
  /\ versions[g][v].adm # inventory.rev
  /\ Measured
  /\ versions' = [versions EXCEPT ![g][v].state = "measured"]
  /\ UNCHANGED <<control, certs, releases, channels, activations, serving,
                 headSets, pointer, preps>>

\* ... and admit the build at whatever revision is current by then.
AdmitBuild(g, v) ==
  /\ versions[g][v].state = "measured"
  /\ versions[g][v].adm # inventory.rev
  /\ inventory.complete
  /\ versions' = [versions EXCEPT ![g][v].adm = inventory.rev]
  /\ UNCHANGED <<control, inventory, certs, releases, channels, activations,
                 serving, headSets, pointer, preps>>

\* Stage activate: finish_materialization_build.  x is what was built.
FinishBuild(g, v, x) ==
  /\ versions[g][v].state = "measured"
  /\ inventory.complete
  /\ versions[g][v].adm = inventory.rev
  /\ versions' = [versions EXCEPT ![g][v].state = "ready", ![g][v].value = x]
  /\ UNCHANGED <<control, inventory, certs, releases, channels, activations,
                 serving, headSets, pointer, preps>>

\* The DDL executor has dropped an index of a collection plan.
DropIndex ==
  /\ inventory.rev < MaxRevision
  /\ inventory' = [inventory EXCEPT !.rev = @ + 1, !.complete = FALSE]
  /\ UNCHANGED <<control, versions, certs, releases, channels, activations,
                 serving, headSets, pointer, preps>>

\* A batch of a collection plan has deleted rows.
RecordGcBatch ==
  /\ inventory.rev < MaxRevision
  /\ inventory' = [inventory EXCEPT !.st = @ + 1, !.rev = @ + 1, !.complete = FALSE]
  /\ UNCHANGED <<control, versions, certs, releases, channels, activations,
                 serving, headSets, pointer, preps>>

-----------------------------------------------------------------------------
(* Compatibility certificates.                                             *)

Usable(g, v) == versions[g][v].state \in {"ready", "active"}

\* A row of runtime.current_compatibility_certificates.
CurrentAt(g, m) ==
  /\ inventory.complete
  /\ m.rev = inventory.rev
  /\ m.ver \in Versions
  /\ Usable(g, m.ver)

CertCurrent(r, g, v) == CurrentAt(g, [ver |-> v, rev |-> certs[r][g][v]])

\* issue_compatibility_certificate; which pairs are compatible is left open.
Certify(r, g, v) ==
  /\ releases[r].state # "draft"
  /\ g \in PlanGroups[r]
  /\ Usable(g, v)
  /\ inventory.complete
  /\ versions[g][v].adm = inventory.rev
  /\ certs[r][g][v] # inventory.rev
  /\ certs' = [certs EXCEPT ![r][g][v] = inventory.rev]
  /\ UNCHANGED <<control, inventory, versions, releases, channels, activations,
                 serving, headSets, pointer, preps>>

-----------------------------------------------------------------------------
(* Stage, publish and retire a release.                                    *)

\* releaseRuntimeMembersReady, which the release_runtime_ready_guard repeats.
MembersReady(r) == \A g \in PlanGroups[r] : \E v \in Versions : CertCurrent(r, g, v)

\* The context recorded at stage still describes the project and the channel.
SameContext(r) ==
  /\ releases[r].ctl = control
  /\ releases[r].chan = channels[ChannelOf[r]]

\* stageRelease: a draft records its context, and a draft or staging release whose
\* members are all certified becomes ready.
Stage(r) ==
  /\ \/ releases[r].state = "draft"
     \/ releases[r].state = "staging" /\ SameContext(r) /\ MembersReady(r)
  /\ releases' = [releases EXCEPT ![r] =
       [state |-> IF MembersReady(r) THEN "ready" ELSE "staging",
        ctl |-> control, chan |-> channels[ChannelOf[r]]]]
  /\ UNCHANGED <<control, inventory, versions, certs, channels, activations,
                 serving, headSets, pointer, preps>>

Publish_KeepsSequence(r) ==
  LET c == ChannelOf[r]
      a == Len(activations[r])
  IN /\ releases[r].state = "ready"
     /\ SameContext(r)
     /\ a > 0
     /\ serving' = [serving EXCEPT ![r] = [act |-> a, seq |-> 1]]
     /\ releases' = [q \in Releases |->
          IF q = r THEN [releases[q] EXCEPT !.state = "published"]
          ELSE IF q = channels[c].rel THEN [releases[q] EXCEPT !.state = "superseded"]
          ELSE releases[q]]
     /\ channels' = [channels EXCEPT ![c] = [rel |-> r, act |-> a, seq |-> @.seq + 1]]
     /\ UNCHANGED <<control, inventory, versions, certs, activations, headSets, pointer,
                    preps>>

\* publishRelease: the activation is the latest one created, whatever the state of
\* its generations.
Publish(r) ==
  LET c == ChannelOf[r]
      a == Len(activations[r])
  IN /\ releases[r].state = "ready"
     /\ SameContext(r)
     /\ a > 0
     /\ serving' = [serving EXCEPT ![r] = [act |-> a, seq |-> 1]]
     /\ releases' = [q \in Releases |->
          IF q = r THEN [releases[q] EXCEPT !.state = "published"]
          ELSE IF q = channels[c].rel THEN [releases[q] EXCEPT !.state = "superseded"]
          ELSE releases[q]]
     /\ channels' = [channels EXCEPT ![c] = [rel |-> r, act |-> a, seq |-> @.seq + 1]]
     /\ control' = control + 1
     /\ UNCHANGED <<inventory, versions, certs, activations, headSets, pointer, preps>>

\* retire_release_serving_head, once support_until has passed.
Retire(r) ==
  /\ releases[r].state = "superseded"
  /\ \A c \in Channels : channels[c].rel # r
  /\ serving[r].act # 0
  /\ serving' = [serving EXCEPT ![r] = NotServed]
  /\ control' = control + 1
  /\ UNCHANGED <<inventory, versions, certs, releases, channels, activations,
                 headSets, pointer, preps>>

-----------------------------------------------------------------------------
(* Prepare a cutover of group g to version v.                              *)

\* prepare_snapshot_group_cutover: the project and inventory revisions are read ...
PrepareRevisions(p, g, v) ==
  /\ preps[p].phase = "none"
  /\ inventory.complete
  /\ preps' = [preps EXCEPT ![p] =
       [NoPreparation EXCEPT !.phase = "revisions", !.grp = g, !.ver = v,
          !.ctl = control, !.st = inventory.st, !.rev = inventory.rev]]
  /\ UNCHANGED <<control, inventory, versions, certs, releases, channels,
                 activations, serving, headSets, pointer>>

\* ... then the pointer and the state of the group version ...
PreparePointer(p) ==
  /\ preps[p].phase = "revisions"
  /\ Usable(preps[p].grp, preps[p].ver)
  /\ preps' = [preps EXCEPT ![p].phase = "pointer", ![p].head = pointer]
  /\ UNCHANGED <<control, inventory, versions, certs, releases, channels,
                 activations, serving, headSets, pointer>>

\* The releases that may take part: certified for the target version and, in every
\* other group, certified (if not served) or served by a certificate still current.
Eligible(r, g, v) ==
  /\ releases[r].state \in {"ready", "published", "superseded"}
  /\ g \in PlanGroups[r]
  /\ CertCurrent(r, g, v)
  /\ \A h \in PlanGroups[r] \ {g} :
       IF serving[r].act = 0
       THEN \E u \in Versions : CertCurrent(r, h, u)
       ELSE CurrentAt(h, activations[r][serving[r].act][h])

\* The members selected for a release (in an unserved group the latest certificate
\* issued; the order of issue is not kept, so any current one).
IsContent(r, g, v, k) ==
  /\ k[g] = [ver |-> v, rev |-> certs[r][g][v]]
  /\ \A h \in Groups \ {g} :
       IF h \notin PlanGroups[r] THEN k[h] = NoMember
       ELSE IF serving[r].act # 0 THEN k[h] = activations[r][serving[r].act][h]
       ELSE \E u \in Versions : /\ CertCurrent(r, h, u)
                                /\ k[h] = [ver |-> u, rev |-> certs[r][h][u]]

Contents(r, g, v) ==
  {k \in [Groups -> {NoMember} \cup [ver : Versions, rev : {inventory.rev}]] :
     IsContent(r, g, v, k)}

\* runtime.object_heads: the rows of the head set the project points at.
Heads == IF pointer = 0 THEN [g \in Groups |-> NoHead] ELSE headSets[pointer].rows

TargetHeads_AlwaysUpdates(g, v) ==
  IF versions[g][v].value = None \/ Heads[g].ver = v THEN Heads
  ELSE [Heads EXCEPT ![g] = [ver |-> v, hv |-> @.hv + 1]]

\* The complete target head set: insert, repoint (same digest) or update.
TargetHeads(g, v) ==
  IF versions[g][v].value = None \/ Heads[g].ver = v THEN Heads
  ELSE [Heads EXCEPT ![g] =
         [ver |-> v,
          hv  |-> IF /\ @.ver # 0
                     /\ versions[g][@.ver].value = versions[g][v].value
                  THEN @.hv
                  ELSE @.hv + 1]]

Candidate_AlwaysNew(rows) == Len(headSets) + 1

\* The head set with these rows: the one its digest finds, or a new one.
Candidate(rows) ==
  LET same == {i \in 1..Len(headSets) : headSets[i].rows = rows}
  IN IF same # {} THEN CHOOSE i \in same : TRUE ELSE Len(headSets) + 1

\* ... then everything else, under the lock taken by inserting the preparation: the
\* candidate releases and their members, the head set (an equal one is reused) and
\* what the commit will compare.
PrepareBuild(p) ==
  LET g == preps[p].grp
      v == preps[p].ver
      rels == {r \in Releases : Eligible(r, g, v)}
      rows == TargetHeads(g, v)
  IN /\ preps[p].phase = "pointer"
     /\ rels # {}
     /\ headSets' = IF \E i \in 1..Len(headSets) : headSets[i].rows = rows THEN headSets
                    ELSE Append(headSets, [rows |-> rows, state |-> "prepared"])
     /\ \E k \in [Releases -> {NoContent} \cup UNION {Contents(r, g, v) : r \in rels}] :
          /\ \A r \in Releases :
               IF r \in rels THEN IsContent(r, g, v, k[r]) ELSE k[r] = NoContent
          /\ preps' = [preps EXCEPT ![p] =
               [@ EXCEPT !.phase = "prepared", !.rels = rels, !.serv = serving,
                         !.chan = channels, !.content = k,
                         !.cand = Candidate(rows)]]
     /\ UNCHANGED <<control, inventory, versions, certs, releases, channels,
                    activations, serving, pointer>>

\* A prepare that is refused or loses its connection leaves nothing behind.
PrepareAborts(p) ==
  /\ preps[p].phase \in {"revisions", "pointer"}
  /\ preps' = [preps EXCEPT ![p] = NoPreparation]
  /\ UNCHANGED <<control, inventory, versions, certs, releases, channels,
                 activations, serving, headSets, pointer>>

-----------------------------------------------------------------------------
(* Commit a prepared cutover.                                              *)

\* activation_content_bindings: the activation that holds this content, or a new one.
Resolved(p, r) ==
  LET same == {i \in 1..Len(activations[r]) : activations[r][i] = preps[p].content[r]}
  IN IF same # {} THEN CHOOSE i \in same : TRUE ELSE Len(activations[r]) + 1

NewActivation(p, r) == r \in preps[p].rels /\ Resolved(p, r) > Len(activations[r])

\* A serving head moves if there was one at preparation and the activation differs.
MovesServing(p, r) ==
  /\ r \in preps[p].rels
  /\ preps[p].serv[r].act # 0
  /\ Resolved(p, r) # preps[p].serv[r].act

\* Only the release that owned its channel at preparation may move it.
OwnsChannel(p, r) ==
  r \in preps[p].rels /\ preps[p].chan[ChannelOf[r]].rel = r

MovesChannel_Never(p, r) == FALSE

MovesChannel(p, r) ==
  /\ OwnsChannel(p, r)
  /\ preps[p].chan[ChannelOf[r]].act = preps[p].serv[r].act
  /\ Resolved(p, r) # preps[p].chan[ChannelOf[r]].act

AfterCutover_RetiresAll(p) ==
  LET g == preps[p].grp
      v == preps[p].ver
  IN [versions EXCEPT ![g] = [u \in Versions |->
        IF u = v THEN [versions[g][u] EXCEPT !.state = "active"]
        ELSE IF versions[g][u].state = "active"
        THEN [versions[g][u] EXCEPT !.state = "retired"]
        ELSE versions[g][u]]]

\* Active versions of the group that no serving head reaches any more are retired.
AfterCutover(p) ==
  LET g == preps[p].grp
      v == preps[p].ver
      reached == {activations'[r][serving'[r].act][g].ver :
                    r \in {q \in Releases : serving'[q].act # 0}}
  IN [versions EXCEPT ![g] = [u \in Versions |->
        IF u = v THEN [versions[g][u] EXCEPT !.state = "active"]
        ELSE IF versions[g][u].state = "active" /\ u \notin reached
        THEN [versions[g][u] EXCEPT !.state = "retired"]
        ELSE versions[g][u]]]

SwitchHeads_KeepsOld(p) ==
  [i \in 1..Len(headSets) |->
     IF i = preps[p].cand THEN [headSets[i] EXCEPT !.state = "active"] ELSE headSets[i]]

\* The candidate head set becomes the active one; the one it replaces is retired.
SwitchHeads(p) ==
  IF preps[p].cand = preps[p].head THEN headSets
  ELSE [i \in 1..Len(headSets) |->
          IF i = preps[p].cand THEN [headSets[i] EXCEPT !.state = "active"]
          ELSE IF i = preps[p].head THEN [headSets[i] EXCEPT !.state = "retired"]
          ELSE headSets[i]]

\* The comparisons of commit_snapshot_group_cutover that precede its first write.
Fresh(p) ==
  /\ preps[p].ctl = control
  /\ preps[p].head = pointer
  /\ preps[p].st = inventory.st
  /\ preps[p].rev = inventory.rev
  /\ inventory.complete

CommitChecks(p) ==
  /\ preps[p].phase = "prepared"
  /\ Fresh(p)
  /\ \A r \in preps[p].rels : releases[r].state \in {"ready", "published", "superseded"}
  /\ Usable(preps[p].grp, preps[p].ver)
  /\ \A r \in preps[p].rels : \A g \in PlanGroups[r] : CurrentAt(g, preps[p].content[r][g])

\* The compare-and-swap of the serving heads and channels themselves.
PointersUnmoved(p) ==
  \A r \in Releases :
    /\ MovesServing(p, r) => serving[r] = preps[p].serv[r]
    /\ OwnsChannel(p, r) => channels[ChannelOf[r]] = preps[p].chan[ChannelOf[r]]

\* The deferred trigger g20108_assert_publication_integrity refuses an activation
\* inserted for a published or superseded release that has no serving head.
Trapped(p) ==
  \E r \in preps[p].rels :
    /\ NewActivation(p, r)
    /\ releases[r].state \in {"published", "superseded"}
    /\ serving[r].act = 0

Commit(p) ==
  /\ CommitChecks(p)
  /\ PointersUnmoved(p)
  /\ ~Trapped(p)
  /\ activations' = [r \in Releases |->
       IF NewActivation(p, r) THEN Append(activations[r], preps[p].content[r])
       ELSE activations[r]]
  /\ pointer' = preps[p].cand
  /\ headSets' = SwitchHeads(p)
  /\ serving' = [r \in Releases |->
       IF MovesServing(p, r)
       THEN [act |-> Resolved(p, r), seq |-> serving[r].seq + 1]
       ELSE serving[r]]
  /\ channels' = [c \in Channels |->
       IF channels[c].rel # None /\ ChannelOf[channels[c].rel] = c
            /\ MovesChannel(p, channels[c].rel)
       THEN [channels[c] EXCEPT !.act = Resolved(p, channels[c].rel), !.seq = @ + 1]
       ELSE channels[c]]
  /\ versions' = AfterCutover(p)
  /\ control' = IF serving' # serving \/ channels' # channels THEN control + 1 ELSE control
  /\ inventory' =
       IF \/ activations' # activations
          \/ pointer' # pointer
          \/ serving' # serving
          \/ channels' # channels
          \/ versions' # versions
       THEN [inventory EXCEPT !.st = @ + 1] ELSE inventory
  /\ preps' = [preps EXCEPT ![p] = [NoPreparation EXCEPT !.phase = "committed"]]
  /\ UNCHANGED <<certs, releases>>

-----------------------------------------------------------------------------
BuildStep ==
  \/ \E g \in Groups, v \in Versions :
       \/ ScanBuild(g, v)
       \/ MeasureBuild(g, v)
       \/ AdmitBuild(g, v)
       \/ \E x \in Values \cup {None} : FinishBuild(g, v, x)
  \/ DropIndex
  \/ RecordGcBatch

ReleaseStep ==
  \E r \in Releases :
    \/ \E g \in Groups, v \in Versions : Certify(r, g, v)
    \/ Stage(r)
    \/ Publish(r)
    \/ Retire(r)

CutoverStep ==
  \E p \in Preparations :
    \/ \E g \in Groups, v \in Versions : PrepareRevisions(p, g, v)
    \/ PreparePointer(p)
    \/ PrepareBuild(p)
    \/ PrepareAborts(p)
    \/ Commit(p)

Next == BuildStep \/ ReleaseStep \/ CutoverStep

Spec == Init /\ [][Next]_vars

-----------------------------------------------------------------------------
(* Properties.                                                             *)

\* Prepare reads its facts in several unlocked statements and commit compares three
\* revisions and the pointer: when these agree, the serving heads and channels that
\* prepare recorded are still the current ones, so that their later compare-and-
\* swaps never fail.
PreparationsGuarded ==
  \A p \in Preparations :
    (preps[p].phase = "prepared" /\ Fresh(p)) =>
      /\ preps[p].serv = serving
      /\ preps[p].chan = channels

\* A channel names a published release and the activation that release serves; no
\* release is published beside the owner of its channel.
ChannelServesOwner ==
  /\ \A c \in Channels : channels[c].rel # None =>
       LET r == channels[c].rel
       IN /\ releases[r].state = "published"
          /\ ChannelOf[r] = c
          /\ serving[r].act = channels[c].act
          /\ serving[r].act \in 1..Len(activations[r])
  /\ \A r \in Releases : releases[r].state = "published" => channels[ChannelOf[r]].rel = r

\* The project points at its one active head set, and no head names a generation
\* that was never cut over to.
HeadsCutOver ==
  /\ \A i \in 1..Len(headSets) : headSets[i].state = "active" <=> i = pointer
  /\ \A g \in Groups : Heads[g].ver # 0 =>
       versions[g][Heads[g].ver].state \in {"active", "retired"}

\* The generations of the activation a release serves, as the query path needs them.
Servable(r) ==
  /\ serving[r].act # 0
  /\ \A g \in PlanGroups[r] :
       versions[g][activations[r][serving[r].act][g].ver].state = "active"

\* No step takes the data away from a release that can be queried: it stays
\* queryable until it is retired, whatever is cut over for other releases.
ServedStaysServed ==
  [][\A r \in Releases : (Servable(r) /\ serving'[r].act # 0) => Servable(r)']_vars

\* A head version counts the changes of its object's value: it is never lost, it
\* grows by one when the digest changes, and not when the row is only repointed.
HeadVersionsCountChanges ==
  [][\A g \in Groups :
       LET old == Heads[g]
           new == Heads'[g]
       IN IF old.ver = 0 THEN new = NoHead \/ new.hv = 1
          ELSE /\ new.ver # 0
               /\ new.hv = IF versions[g][old.ver].value = versions'[g][new.ver].value
                           THEN old.hv ELSE old.hv + 1]_vars

\* Whoever is served can be queried: every serving head's activation has only
\* active generations.
ServingServable == \A r \in Releases : serving[r].act # 0 => Servable(r)

\* A data refresh replaces one snapshot group's members: a served release with a
\* current certificate for a version of one of its groups can be cut over to it.
RefreshReplacesGroup ==
  \A r \in Releases, g \in Groups, v \in Versions :
    (serving[r].act # 0 /\ g \in PlanGroups[r] /\ CertCurrent(r, g, v)) => Eligible(r, g, v)

\* A cutover that passes all its own checks is not refused by the trigger.
CutoverNotTrapped == \A p \in Preparations : CommitChecks(p) => ~Trapped(p)

-----------------------------------------------------------------------------
(* Proofs: what a prepared cutover recorded is still true when its commit  *)
(* finds the publication sequence unchanged, and what follows from that    *)
(* for channels, object heads and the releases served.                     *)

\* A preparation never knows a later publication sequence than the project's; once
\* it is built, and for as long as the sequence has not moved, it knows the serving
\* heads and channels as they are, and keeps the served members of every group that
\* it does not cut over.
PrepInv(p) ==
  /\ preps[p].ctl <= control
  /\ preps[p].phase \in {"revisions", "pointer", "prepared"} => preps[p].ver \in Versions
  /\ preps[p].phase = "prepared" =>
       /\ preps[p].cand \in 1..Len(headSets)
       /\ preps[p].ctl = control =>
            /\ preps[p].serv = serving
            /\ preps[p].chan = channels
            /\ \A r \in preps[p].rels :
                 /\ preps[p].content[r][preps[p].grp].ver = preps[p].ver
                 /\ serving[r].act # 0 =>
                      \A h \in PlanGroups[r] \ {preps[p].grp} :
                        preps[p].content[r][h] = activations[r][serving[r].act][h]

\* A serving head names an activation of its release, which has been published; an
\* activation has a version for every group of the plan.
ServingInv(r) ==
  /\ serving[r].act \in 0..Len(activations[r])
  /\ serving[r].act # 0 => releases[r].state \in {"published", "superseded"}
  /\ \A i \in 1..Len(activations[r]), g \in PlanGroups[r] : activations[r][i][g].ver \in Versions

IInv ==
  /\ TypeOK
  /\ \A p \in Preparations : PrepInv(p)
  /\ \A r \in Releases : ServingInv(r)
  /\ ChannelServesOwner

-----------------------------------------------------------------------------
\* The empty rows have the types of rows.
LEMMA EmptyRows ==
  /\ NoChannel \in ChannelRow
  /\ NoMember \in Member
  /\ NoContent \in Content
  /\ NotServed \in ServingRow
  /\ NoHead \in HeadRow
  /\ NoPreparation \in Preparation
<1>1. NoChannel \in ChannelRow /\ NoMember \in Member /\ NotServed \in ServingRow /\ NoHead \in HeadRow
  BY DEF NoChannel, ChannelRow, NoMember, Member, NotServed, ServingRow, NoHead, HeadRow
<1>2. NoContent \in Content
  BY <1>1 DEF NoContent, Content
<1>3. (CHOOSE g \in Groups : TRUE) \in Groups
  BY ServingAssumption
<1>4. NoPreparation \in Preparation
  BY <1>1, <1>2, <1>3 DEF NoPreparation, Preparation
<1> QED
  BY <1>1, <1>2, <1>4

\* The initial state satisfies the invariant.
LEMMA InitInv == Init => IInv
<1> SUFFICES ASSUME Init PROVE IInv
  OBVIOUS
<1>1. releases \in [Releases -> Release] /\ channels \in [Channels -> ChannelRow]
      /\ serving \in [Releases -> ServingRow] /\ preps \in [Preparations -> Preparation]
  BY EmptyRows DEF Init, Release
<1>2. control \in Nat /\ inventory \in Inventory /\ versions \in [Groups -> [Versions -> Version]]
      /\ certs \in [Releases -> [Groups -> [Versions -> Nat]]]
  BY DEF Init, Inventory, Version
<1>3. activations \in [Releases -> Seq(Content)] /\ headSets \in Seq(HeadSet)
      /\ pointer \in 0..Len(headSets)
  BY DEF Init
<1>4. TypeOK
  BY <1>1, <1>2, <1>3 DEF TypeOK
<1>5. ASSUME NEW p \in Preparations PROVE PrepInv(p)
  BY DEF Init, PrepInv, NoPreparation
<1>6. ASSUME NEW r \in Releases PROVE ServingInv(r)
  BY DEF Init, ServingInv, NotServed
<1>7. ChannelServesOwner
  BY ServingAssumption DEF Init, ChannelServesOwner, NoChannel
<1> QED
  BY <1>4, <1>5, <1>6, <1>7 DEF IInv

-----------------------------------------------------------------------------
\* Counting up the revisions of the inventory yields an inventory.
LEMMA InventoryRow ==
  ASSUME NEW i \in Inventory
  PROVE  /\ [i EXCEPT !.rev = i.rev + 1] \in Inventory
         /\ [i EXCEPT !.st = i.st + 1] \in Inventory
         /\ [i EXCEPT !.rev = i.rev + 1, !.complete = FALSE] \in Inventory
         /\ [i EXCEPT !.st = i.st + 1, !.rev = i.rev + 1, !.complete = FALSE] \in Inventory
<1>1. i.st \in Nat /\ i.rev \in Nat
  BY DEF Inventory
<1>2. i.st + 1 \in Nat /\ i.rev + 1 \in Nat
  BY <1>1
<1>3. [i EXCEPT !.rev = i.rev + 1] \in Inventory
  BY <1>2 DEF Inventory
<1>4. [i EXCEPT !.st = i.st + 1] \in Inventory
  BY <1>2 DEF Inventory
<1>5. [i EXCEPT !.rev = i.rev + 1, !.complete = FALSE] \in Inventory
  BY <1>2 DEF Inventory
<1>6. [i EXCEPT !.st = i.st + 1, !.rev = i.rev + 1, !.complete = FALSE] \in Inventory
  BY <1>2 DEF Inventory
<1> QED
  BY <1>3, <1>4, <1>5, <1>6

-----------------------------------------------------------------------------
(* Steps that touch neither serving heads, channels nor preparations.      *)

\* Builds and collections change versions and the inventory alone.
LEMMA BuildInv == ASSUME IInv, BuildStep PROVE IInv'
<1>1. UNCHANGED <<control, certs, releases, channels, activations, serving, headSets, pointer,
                  preps>>
  BY DEF BuildStep, ScanBuild, MeasureBuild, AdmitBuild, FinishBuild, DropIndex, RecordGcBatch
<1>2. inventory \in Inventory /\ versions \in [Groups -> [Versions -> Version]]
  BY DEF IInv, TypeOK
<1>3. inventory' \in Inventory
  <2>1. inventory' \in {inventory, [inventory EXCEPT !.rev = inventory.rev + 1],
                        [inventory EXCEPT !.rev = inventory.rev + 1, !.complete = FALSE],
                        [inventory EXCEPT !.st = inventory.st + 1, !.rev = inventory.rev + 1,
                                          !.complete = FALSE]}
    BY ZenonT(40) DEF BuildStep, ScanBuild, MeasureBuild, AdmitBuild, FinishBuild, DropIndex,
                      RecordGcBatch, Measured
  <2> QED
    BY <1>2, <2>1, InventoryRow
<1>4. versions' \in [Groups -> [Versions -> Version]]
  <2>1. ASSUME NEW g \in Groups, NEW v \in Versions, NEW row \in Version
        PROVE  [versions EXCEPT ![g][v] = row] \in [Groups -> [Versions -> Version]]
    BY <1>2
  <2>2. ASSUME NEW g \in Groups, NEW v \in Versions, ScanBuild(g, v) \/ MeasureBuild(g, v)
        PROVE  versions' \in [Groups -> [Versions -> Version]]
    <3>1. PICK s \in {"building", "measured"} : versions' = [versions EXCEPT ![g][v].state = s]
      BY <2>2 DEF ScanBuild, MeasureBuild
    <3>2. [versions[g][v] EXCEPT !.state = s] \in Version
      <4>1. PICK row \in Version : row = versions[g][v]
        BY <1>2
      <4> QED
        BY <4>1 DEF Version
    <3> QED
      BY <3>1, <3>2, <2>1
  <2>3. ASSUME NEW g \in Groups, NEW v \in Versions, AdmitBuild(g, v)
        PROVE  versions' \in [Groups -> [Versions -> Version]]
    <3>1. [versions[g][v] EXCEPT !.adm = inventory.rev] \in Version
      <4>1. PICK row \in Version, n \in Nat : row = versions[g][v] /\ n = inventory.rev
        BY <1>2 DEF Inventory
      <4> QED
        BY <4>1 DEF Version
    <3> QED
      BY <2>3, <3>1, <2>1 DEF AdmitBuild
  <2>4. ASSUME NEW g \in Groups, NEW v \in Versions, NEW x \in Values \cup {None},
               FinishBuild(g, v, x)
        PROVE  versions' \in [Groups -> [Versions -> Version]]
    <3>1. [versions[g][v] EXCEPT !.state = "ready", !.value = x] \in Version
      <4>1. PICK row \in Version : row = versions[g][v]
        BY <1>2
      <4> QED
        BY <4>1 DEF Version
    <3>2. versions' = [versions EXCEPT ![g][v] = [versions[g][v] EXCEPT !.state = "ready", !.value = x]]
      BY <2>4, <1>2 DEF FinishBuild
    <3> QED
      BY <3>1, <3>2, <2>1
  <2>5. ASSUME DropIndex \/ RecordGcBatch
        PROVE  versions' \in [Groups -> [Versions -> Version]]
    BY <1>2, <2>5 DEF DropIndex, RecordGcBatch
  <2> QED
    BY <2>2, <2>3, <2>4, <2>5 DEF BuildStep
<1>5. TypeOK'
  BY <1>1, <1>3, <1>4 DEF IInv, TypeOK
<1> QED
  BY <1>1, <1>5 DEF IInv, PrepInv, ServingInv, ChannelServesOwner

\* A certificate changes no pointer.
LEMMA CertifyInv ==
  ASSUME IInv, NEW r \in Releases, NEW g \in Groups, NEW v \in Versions, Certify(r, g, v)
  PROVE  IInv'
<1>1. TypeOK'
  BY DEF Certify, IInv, TypeOK, Inventory
<1> QED
  BY <1>1 DEF Certify, IInv, PrepInv, ServingInv, ChannelServesOwner

\* Staging moves a release that is neither published nor superseded.
LEMMA StageInv == ASSUME IInv, NEW r \in Releases, Stage(r) PROVE IInv'
<1>1. releases' = [releases EXCEPT ![r] = releases'[r]]
      /\ releases'[r].state \in {"staging", "ready"} /\ releases'[r] \in Release
  <2>1. channels[ChannelOf[r]] \in ChannelRow
    BY ServingAssumption DEF IInv, TypeOK
  <2> QED
    BY <2>1 DEF Stage, IInv, TypeOK, Release
<1>2. TypeOK'
  BY <1>1 DEF Stage, IInv, TypeOK
<1>3. releases[r].state \in {"draft", "staging"} /\ releases \in [Releases -> Release]
  BY DEF Stage, IInv, TypeOK
<1>4. \A q \in Releases : ServingInv(q)'
  BY <1>1, <1>3 DEF Stage, IInv, ServingInv
<1>5. ChannelServesOwner'
  <2>1. ASSUME NEW c \in Channels, channels[c].rel # None PROVE channels[c].rel \in Releases \ {r}
    BY <1>3, <2>1 DEF IInv, TypeOK, ChannelRow, ChannelServesOwner
  <2> QED
    BY <1>1, <1>3, <2>1 DEF Stage, IInv, ChannelServesOwner
<1> QED
  BY <1>2, <1>4, <1>5 DEF Stage, IInv, PrepInv

-----------------------------------------------------------------------------
(* Publication.                                                            *)

\* Publishing moves one channel from its owner to a release nobody served before.
LEMMA PublishInv == ASSUME IInv, NEW r \in Releases, Publish(r) PROVE IInv'
<1> DEFINE c == ChannelOf[r]
           a == Len(activations[r])
<1>1. /\ control \in Nat
      /\ releases \in [Releases -> Release]
      /\ channels \in [Channels -> ChannelRow]
      /\ serving \in [Releases -> ServingRow]
      /\ activations \in [Releases -> Seq(Content)]
      /\ preps \in [Preparations -> Preparation]
      /\ c \in Channels
      /\ a \in Nat
  BY ServingAssumption DEF IInv, TypeOK
<1>2. /\ releases[r].state = "ready"
      /\ a > 0
      /\ serving' = [serving EXCEPT ![r] = [act |-> a, seq |-> 1]]
      /\ control' = control + 1
      /\ UNCHANGED <<inventory, versions, certs, activations, headSets, pointer, preps>>
  BY DEF Publish
<1>3. channels' = [channels EXCEPT ![c] = [rel |-> r, act |-> a, seq |-> channels[c].seq + 1]]
  BY DEF Publish
<1>4. releases' = [q \in Releases |->
          IF q = r THEN [releases[q] EXCEPT !.state = "published"]
          ELSE IF q = channels[c].rel THEN [releases[q] EXCEPT !.state = "superseded"]
          ELSE releases[q]]
  BY DEF Publish
<1>5. serving' \in [Releases -> ServingRow]
  BY <1>1, <1>2 DEF ServingRow
<1>6. channels' \in [Channels -> ChannelRow]
  <2>1. channels[c].seq + 1 \in Nat
    BY <1>1 DEF ChannelRow
  <2> QED
    BY <1>1, <1>3, <2>1 DEF ChannelRow
<1>7. releases' \in [Releases -> Release]
  <2>1. ASSUME NEW row \in Release, NEW s \in {"published", "superseded"}
        PROVE  [row EXCEPT !.state = s] \in Release
    BY DEF Release
  <2> QED
    BY <1>1, <1>4, <2>1
<1>8. TypeOK'
  BY <1>1, <1>2, <1>5, <1>6, <1>7 DEF IInv, TypeOK
<1>9. ASSUME NEW p \in Preparations PROVE PrepInv(p)'
  <2>1. preps[p].ctl \in Nat /\ PrepInv(p)
    BY <1>1 DEF Preparation, IInv
  <2>2. preps'[p].ctl < control'
    BY <1>1, <1>2, <2>1 DEF PrepInv
  <2> QED
    BY <1>2, <2>1, <2>2, <1>1 DEF PrepInv
<1>10. \A q \in Releases :
         releases'[q].state = IF q = r THEN "published"
                              ELSE IF q = channels[c].rel THEN "superseded"
                              ELSE releases[q].state
  BY <1>1, <1>4 DEF Release
<1>11. ASSUME NEW q \in Releases PROVE ServingInv(q)'
  <2>1. ServingInv(q)
    BY DEF IInv
  <2>2. CASE q = r
    <3>1. serving'[q].act = a /\ activations'[q] = activations[r]
      BY <1>1, <1>2, <2>2
    <3>2. a \in 0..Len(activations'[q]) /\ releases'[q].state = "published"
      BY <1>1, <1>10, <2>2, <3>1
    <3> QED
      BY <2>1, <2>2, <3>1, <3>2 DEF ServingInv
  <2>3. CASE q # r
    <3>1. serving'[q] = serving[q] /\ activations'[q] = activations[q]
      BY <1>1, <1>2, <2>3
    <3> QED
      BY <1>10, <2>1, <2>3, <3>1 DEF ServingInv
  <2> QED
    BY <2>2, <2>3
<1>12. ChannelServesOwner'
  <2>1. ASSUME NEW d \in Channels, channels'[d].rel # None
        PROVE  LET q == channels'[d].rel
               IN /\ releases'[q].state = "published"
                  /\ ChannelOf[q] = d
                  /\ serving'[q].act = channels'[d].act
                  /\ serving'[q].act \in 1..Len(activations'[q])
    <3>1. CASE d = c
      BY <1>1, <1>2, <1>3, <1>10, <3>1
    <3>2. CASE d # c
      <4>1. channels'[d] = channels[d] /\ channels[d].rel \in Releases
        BY <1>1, <1>3, <2>1, <3>2 DEF ChannelRow
      <4>2. /\ releases[channels[d].rel].state = "published"
            /\ ChannelOf[channels[d].rel] = d
            /\ serving[channels[d].rel].act = channels[d].act
            /\ serving[channels[d].rel].act \in 1..Len(activations[channels[d].rel])
        BY <2>1, <4>1 DEF IInv, ChannelServesOwner
      <4>3. channels[d].rel # r /\ channels[d].rel # channels[c].rel
        <5>1. channels[c].rel # None => ChannelOf[channels[c].rel] = c
          BY <1>1 DEF IInv, ChannelServesOwner
        <5>2. channels[d].rel # None
          BY <2>1, <4>1
        <5> QED
          BY <1>2, <3>2, <4>2, <5>1, <5>2
      <4> QED
        BY <1>1, <1>2, <1>10, <4>1, <4>2, <4>3
    <3> QED
      BY <3>1, <3>2
  <2>2. ASSUME NEW q \in Releases, releases'[q].state = "published"
        PROVE  channels'[ChannelOf[q]].rel = q
    BY <1>1, <1>3, <1>10, <2>2, ServingAssumption DEF IInv, ChannelServesOwner
  <2> QED
    BY <2>1, <2>2 DEF ChannelServesOwner
<1> QED
  BY <1>8, <1>9, <1>11, <1>12 DEF IInv

\* Retiring removes the serving head of a release that owns no channel.
LEMMA RetireInv == ASSUME IInv, NEW r \in Releases, Retire(r) PROVE IInv'
<1>1. /\ control \in Nat
      /\ channels \in [Channels -> ChannelRow]
      /\ serving \in [Releases -> ServingRow]
      /\ activations \in [Releases -> Seq(Content)]
      /\ preps \in [Preparations -> Preparation]
  BY DEF IInv, TypeOK
<1>2. /\ \A c \in Channels : channels[c].rel # r
      /\ serving' = [serving EXCEPT ![r] = NotServed]
      /\ control' = control + 1
      /\ UNCHANGED <<inventory, versions, certs, releases, channels, activations, headSets,
                     pointer, preps>>
  BY DEF Retire
<1>3. TypeOK'
  BY <1>1, <1>2, EmptyRows DEF IInv, TypeOK
<1>4. ASSUME NEW p \in Preparations PROVE PrepInv(p)'
  <2>1. preps[p].ctl \in Nat /\ PrepInv(p)
    BY <1>1 DEF Preparation, IInv
  <2>2. preps'[p].ctl < control'
    BY <1>1, <1>2, <2>1 DEF PrepInv
  <2> QED
    BY <1>2, <2>1, <2>2, <1>1 DEF PrepInv
<1>5. ASSUME NEW q \in Releases PROVE ServingInv(q)'
  BY <1>1, <1>2 DEF IInv, ServingInv, NotServed
<1>6. ChannelServesOwner'
  <2>1. ASSUME NEW c \in Channels, channels[c].rel # None
        PROVE  channels[c].rel \in Releases /\ serving'[channels[c].rel] = serving[channels[c].rel]
    BY <1>1, <1>2, <2>1 DEF ChannelRow
  <2> QED
    BY <1>1, <1>2, <2>1 DEF IInv, ChannelServesOwner
<1> QED
  BY <1>3, <1>4, <1>5, <1>6 DEF IInv

-----------------------------------------------------------------------------
(* Preparing a cutover.                                                    *)

\* Every preparation but one stays as it was and no table it knows changes.
LEMMA OnePreparation ==
  ASSUME IInv, NEW p \in Preparations, NEW row \in Preparation,
         preps' = [preps EXCEPT ![p] = row],
         headSets' \in Seq(HeadSet), Len(headSets) <= Len(headSets'),
         UNCHANGED <<control, inventory, versions, certs, releases, channels, activations,
                     serving, pointer>>,
         PrepInv(p)'
  PROVE  IInv'
<1>1. Len(headSets) \in Nat /\ Len(headSets') \in Nat /\ pointer \in 0..Len(headSets)
      /\ preps \in [Preparations -> Preparation]
  BY DEF IInv, TypeOK
<1>2. TypeOK'
  BY <1>1 DEF IInv, TypeOK
<1>3. ASSUME NEW q \in Preparations, q # p PROVE PrepInv(q)'
  <2>1. preps'[q] = preps[q] /\ PrepInv(q)
    BY <1>1, <1>3 DEF IInv
  <2> QED
    BY <1>1, <2>1 DEF PrepInv
<1> QED
  BY <1>2, <1>3 DEF IInv, ServingInv, ChannelServesOwner

\* Beginning, continuing and giving up a preparation.
LEMMA PrepareReadsInv ==
  ASSUME IInv, NEW p \in Preparations,
         \/ \E g \in Groups, v \in Versions : PrepareRevisions(p, g, v)
         \/ PreparePointer(p)
         \/ PrepareAborts(p)
  PROVE  IInv'
<1>0. UNCHANGED <<control, inventory, versions, certs, releases, channels, activations,
                  serving, headSets, pointer>>
  BY DEF PrepareRevisions, PreparePointer, PrepareAborts
<1>1. /\ preps \in [Preparations -> Preparation]
      /\ headSets \in Seq(HeadSet) /\ Len(headSets) \in Nat
      /\ control \in Nat /\ inventory \in Inventory /\ pointer \in Nat
  BY DEF IInv, TypeOK
<1>2. ASSUME NEW row \in Preparation, preps' = [preps EXCEPT ![p] = row],
             row.ctl <= control, row.phase \in {"none", "revisions", "pointer"},
             row.phase # "none" => row.ver \in Versions
      PROVE  IInv'
  <2>1. preps'[p] = row
    BY <1>1, <1>2
  <2>2. PrepInv(p)'
    BY <1>0, <1>1, <1>2, <2>1 DEF PrepInv
  <2>3. headSets' \in Seq(HeadSet) /\ Len(headSets) <= Len(headSets')
    BY <1>0, <1>1
  <2> QED
    BY <1>0, <1>2, <2>2, <2>3, OnePreparation
<1>3. ASSUME NEW g \in Groups, NEW v \in Versions, PrepareRevisions(p, g, v) PROVE IInv'
  <2> DEFINE row == [NoPreparation EXCEPT !.phase = "revisions", !.grp = g, !.ver = v,
                       !.ctl = control, !.st = inventory.st, !.rev = inventory.rev]
  <2>1. v \in Nat /\ inventory.st \in Nat /\ inventory.rev \in Nat
    BY <1>1, ServingAssumption DEF Versions, Inventory
  <2>2. row \in Preparation
    BY <1>1, <2>1, EmptyRows DEF Preparation
  <2>3. row.ctl = control /\ row.phase = "revisions" /\ row.ver = v
    BY EmptyRows DEF Preparation
  <2>4. preps' = [preps EXCEPT ![p] = row]
    BY <1>3 DEF PrepareRevisions
  <2>5. row.ctl <= control /\ row.phase \in {"none", "revisions", "pointer"}
        /\ row.ver \in Versions
    BY <1>1, <2>3
  <2> HIDE DEF row
  <2> QED
    BY <1>2, <2>2, <2>4, <2>5
<1>4. ASSUME PreparePointer(p) PROVE IInv'
  <2> DEFINE row == [preps[p] EXCEPT !.phase = "pointer", !.head = pointer]
  <2>1. preps[p] \in Preparation /\ preps[p].phase = "revisions" /\ PrepInv(p)
    BY <1>1, <1>4 DEF PreparePointer, IInv
  <2>2. row \in Preparation
    BY <1>1, <2>1 DEF Preparation
  <2>3. row.ctl = preps[p].ctl /\ row.phase = "pointer" /\ row.ver = preps[p].ver
    BY <2>1 DEF Preparation
  <2>4. preps' = [preps EXCEPT ![p] = row]
    BY <1>1, <1>4 DEF PreparePointer
  <2> QED
    BY <1>2, <2>1, <2>2, <2>3, <2>4 DEF PrepInv
<1>5. ASSUME PrepareAborts(p) PROVE IInv'
  <2>1. NoPreparation.ctl = 0 /\ NoPreparation.phase = "none"
    BY DEF NoPreparation
  <2>2. NoPreparation.ctl <= control
    BY <1>1, <2>1
  <2> QED
    BY <1>2, <1>5, <2>1, <2>2, EmptyRows DEF PrepareAborts
<1> QED
  BY <1>3, <1>4, <1>5

\* The target head set is a head set's rows.
LEMMA TargetHeadsType ==
  ASSUME IInv, NEW g \in Groups, NEW v \in Versions
  PROVE  TargetHeads(g, v) \in [Groups -> HeadRow]
<1>1. Heads \in [Groups -> HeadRow]
  <2>1. headSets \in Seq(HeadSet) /\ pointer \in 0..Len(headSets) /\ Len(headSets) \in Nat
    BY DEF IInv, TypeOK
  <2>2. ASSUME pointer # 0 PROVE headSets[pointer] \in HeadSet
    <3>1. pointer \in 1..Len(headSets)
      BY <2>1, <2>2
    <3> QED
      BY <2>1, <3>1
  <2> QED
    BY <2>2, EmptyRows DEF Heads, HeadSet
<1>2. Heads[g].hv \in Nat /\ Heads[g].hv + 1 \in Nat /\ v \in Nat
  BY <1>1, ServingAssumption DEF HeadRow, Versions
<1> QED
  BY <1>1, <1>2 DEF TargetHeads, HeadRow

\* The members selected for a release are members.
LEMMA ContentsType ==
  ASSUME IInv, NEW r \in Releases, NEW g \in Groups, NEW v \in Versions,
         NEW k \in Contents(r, g, v)
  PROVE  k \in Content
<1>1. k \in [Groups -> {NoMember} \cup [ver : Versions, rev : {inventory.rev}]]
  BY DEF Contents
<1>2. [ver : Versions, rev : {inventory.rev}] \subseteq Member
  BY ServingAssumption DEF Versions, Member, IInv, TypeOK, Inventory
<1> QED
  BY <1>1, <1>2, EmptyRows DEF Content

\* Building the candidates and the head set records the project as it is.
LEMMA PrepareBuildInv ==
  ASSUME IInv, NEW p \in Preparations, PrepareBuild(p)
  PROVE  IInv'
<1> DEFINE g == preps[p].grp
           v == preps[p].ver
           rels == {r \in Releases : Eligible(r, g, v)}
           rows == TargetHeads(g, v)
<1>1. /\ preps \in [Preparations -> Preparation] /\ preps[p] \in Preparation
      /\ headSets \in Seq(HeadSet) /\ Len(headSets) \in Nat
      /\ serving \in [Releases -> ServingRow] /\ channels \in [Channels -> ChannelRow]
      /\ PrepInv(p) /\ preps[p].phase = "pointer"
  BY DEF PrepareBuild, IInv, TypeOK
<1>2. g \in Groups /\ v \in Versions /\ rows \in [Groups -> HeadRow]
  <2>1. g \in Groups
    BY <1>1 DEF Preparation
  <2>2. v \in Versions
    BY <1>1 DEF PrepInv
  <2> QED
    BY <2>1, <2>2, TargetHeadsType
<1>3. headSets' = IF \E i \in 1..Len(headSets) : headSets[i].rows = rows THEN headSets
                  ELSE Append(headSets, [rows |-> rows, state |-> "prepared"])
  BY DEF PrepareBuild
<1>4. headSets' \in Seq(HeadSet) /\ Len(headSets) <= Len(headSets')
      /\ Candidate(rows) \in 1..Len(headSets')
  <2>1. CASE \E i \in 1..Len(headSets) : headSets[i].rows = rows
    <3>1. Candidate(rows) \in {i \in 1..Len(headSets) : headSets[i].rows = rows}
      BY <2>1 DEF Candidate
    <3> QED
      BY <1>1, <1>3, <2>1, <3>1
  <2>2. CASE ~ \E i \in 1..Len(headSets) : headSets[i].rows = rows
    <3>1. {i \in 1..Len(headSets) : headSets[i].rows = rows} = {}
      BY <2>2
    <3>2. Candidate(rows) = Len(headSets) + 1
      BY <3>1 DEF Candidate
    <3>3. [rows |-> rows, state |-> "prepared"] \in HeadSet
      BY <1>2 DEF HeadSet
    <3> QED
      BY <1>1, <1>3, <2>2, <3>2, <3>3
  <2> QED
    BY <2>1, <2>2
<1>5. PICK k \in [Releases -> {NoContent} \cup UNION {Contents(r, g, v) : r \in rels}] :
        /\ \A r \in Releases : IF r \in rels THEN IsContent(r, g, v, k[r]) ELSE k[r] = NoContent
        /\ preps' = [preps EXCEPT ![p] =
             [preps[p] EXCEPT !.phase = "prepared", !.rels = rels, !.serv = serving,
                !.chan = channels, !.content = k, !.cand = Candidate(rows)]]
  BY DEF PrepareBuild
<1> DEFINE row == [preps[p] EXCEPT !.phase = "prepared", !.rels = rels, !.serv = serving,
                     !.chan = channels, !.content = k, !.cand = Candidate(rows)]
<1>6. k \in [Releases -> Content]
  <2>1. ASSUME NEW r \in Releases PROVE k[r] \in Content
    BY <1>2, <1>5, ContentsType, EmptyRows
  <2> QED
    BY <1>5, <2>1
<1>7. row \in Preparation
  <2>1. Candidate(rows) \in Nat
    BY <1>1, <1>4
  <2>2. rels \in SUBSET Releases
    OBVIOUS
  <2> QED
    BY <1>1, <1>6, <2>1, <2>2 DEF Preparation
<1>8. /\ row.phase = "prepared" /\ row.rels = rels /\ row.serv = serving
      /\ row.chan = channels /\ row.content = k /\ row.cand = Candidate(rows)
      /\ row.ctl = preps[p].ctl /\ row.grp = g /\ row.ver = v
  BY <1>1 DEF Preparation
<1>9. UNCHANGED <<control, inventory, versions, certs, releases, channels, activations,
                  serving, pointer>>
  BY DEF PrepareBuild
<1>10. preps' = [preps EXCEPT ![p] = row] /\ preps'[p] = row
  BY <1>1, <1>5
<1>11. ASSUME NEW r \in rels
       PROVE  /\ k[r][g].ver = v
              /\ serving[r].act # 0 =>
                   \A h \in PlanGroups[r] \ {g} : k[r][h] = activations[r][serving[r].act][h]
  <2>1. IsContent(r, g, v, k[r]) /\ PlanGroups[r] \subseteq Groups
    BY <1>5, ServingAssumption
  <2> QED
    BY <2>1 DEF IsContent
<1>12. PrepInv(p)'
  <2> HIDE DEF row, rels, rows, g, v
  <2>1. preps[p].ctl <= control
    BY <1>1 DEF PrepInv
  <2> QED
    BY <1>2, <1>4, <1>8, <1>9, <1>10, <1>11, <2>1 DEF PrepInv
<1> QED
  BY <1>4, <1>7, <1>9, <1>10, <1>12, OnePreparation

-----------------------------------------------------------------------------
(* Committing a cutover.                                                   *)

\* What a commit rests on: the pointers its preparation recorded are the project's.
LEMMA CommitFresh ==
  ASSUME IInv, NEW p \in Preparations, Commit(p)
  PROVE  /\ preps[p] \in Preparation
         /\ preps[p].phase = "prepared"
         /\ preps[p].grp \in Groups
         /\ preps[p].ver \in Versions
         /\ preps[p].cand \in 1..Len(headSets)
         /\ preps[p].serv = serving
         /\ preps[p].chan = channels
         /\ \A r \in preps[p].rels :
              /\ preps[p].content[r][preps[p].grp].ver = preps[p].ver
              /\ serving[r].act # 0 =>
                   \A h \in PlanGroups[r] \ {preps[p].grp} :
                     preps[p].content[r][h] = activations[r][serving[r].act][h]
<1>1. preps[p] \in Preparation /\ PrepInv(p)
  BY DEF IInv, TypeOK
<1>2. preps[p].phase = "prepared" /\ preps[p].ctl = control
  BY DEF Commit, CommitChecks, Fresh
<1>3. preps[p].grp \in Groups
  BY <1>1 DEF Preparation
<1> QED
  BY <1>1, <1>2, <1>3 DEF PrepInv

\* Activations are only ever added, and the resolved one holds the prepared content.
LEMMA CommitActivations ==
  ASSUME IInv, NEW p \in Preparations, Commit(p), NEW r \in Releases
  PROVE  /\ activations'[r] \in Seq(Content)
         /\ Len(activations[r]) \in Nat
         /\ Len(activations[r]) <= Len(activations'[r])
         /\ \A i \in 1..Len(activations[r]) : activations'[r][i] = activations[r][i]
         /\ Resolved(p, r) \in Nat \ {0}
         /\ r \in preps[p].rels =>
              /\ Resolved(p, r) \in 1..Len(activations'[r])
              /\ activations'[r][Resolved(p, r)] = preps[p].content[r]
<1> DEFINE old == activations[r]
           new == preps[p].content[r]
           same == {i \in 1..Len(old) : old[i] = new}
<1>1. old \in Seq(Content) /\ Len(old) \in Nat /\ new \in Content
  BY CommitFresh, SMTT(30) DEF IInv, TypeOK, Preparation
<1>2. activations'[r] = IF NewActivation(p, r) THEN Append(old, new) ELSE old
  BY DEF Commit
<1>3. Resolved(p, r) = IF same # {} THEN CHOOSE i \in same : TRUE ELSE Len(old) + 1
  BY DEF Resolved
<1>4. CASE same # {}
  <2>1. Resolved(p, r) \in same
    BY <1>3, <1>4
  <2>2. Resolved(p, r) \in 1..Len(old) /\ old[Resolved(p, r)] = new
    BY <2>1
  <2>3. ~NewActivation(p, r)
    BY <1>1, <2>2 DEF NewActivation
  <2> QED
    BY <1>1, <1>2, <2>2, <2>3
<1>5. CASE same = {}
  <2>1. Resolved(p, r) = Len(old) + 1
    BY <1>3, <1>5
  <2>2. NewActivation(p, r) <=> r \in preps[p].rels
    BY <1>1, <2>1 DEF NewActivation
  <2> HIDE DEF old, new, same
  <2>3. Append(old, new) \in Seq(Content) /\ Len(Append(old, new)) = Len(old) + 1
        /\ Append(old, new)[Len(old) + 1] = new
        /\ \A i \in 1..Len(old) : Append(old, new)[i] = old[i]
    BY <1>1
  <2>4. activations'[r] = IF r \in preps[p].rels THEN Append(old, new) ELSE old
    BY <1>2, <2>2
  <2>5. activations[r] = old /\ preps[p].content[r] = new
    BY DEF old, new
  <2> QED
    BY <1>1, <2>1, <2>3, <2>4, <2>5
<1> QED
  BY <1>4, <1>5

\* A commit moves the serving heads it may move and leaves the others.
LEMMA CommitServing ==
  ASSUME IInv, NEW p \in Preparations, Commit(p), NEW r \in Releases
  PROVE  /\ serving'[r] \in ServingRow
         /\ MovesServing(p, r) <=> /\ r \in preps[p].rels
                                   /\ serving[r].act # 0
                                   /\ Resolved(p, r) # serving[r].act
         /\ serving'[r].act = IF MovesServing(p, r) THEN Resolved(p, r) ELSE serving[r].act
         /\ ~MovesServing(p, r) => serving'[r] = serving[r]
<1>1. serving[r] \in ServingRow /\ serving[r].seq + 1 \in Nat
  BY DEF IInv, TypeOK, ServingRow
<1>2. serving'[r] = IF MovesServing(p, r) THEN [act |-> Resolved(p, r), seq |-> serving[r].seq + 1]
                    ELSE serving[r]
  BY DEF Commit
<1>3. Resolved(p, r) \in Nat
  BY CommitActivations
<1>4. serving'[r] \in ServingRow
  BY <1>1, <1>2, <1>3 DEF ServingRow
<1>5. MovesServing(p, r) <=> /\ r \in preps[p].rels
                             /\ serving[r].act # 0
                             /\ Resolved(p, r) # serving[r].act
  BY CommitFresh DEF MovesServing
<1> QED
  BY <1>2, <1>4, <1>5

\* The publication sequence counts every commit that moves a pointer.
LEMMA CommitControl ==
  ASSUME IInv, NEW p \in Preparations, Commit(p)
  PROVE  /\ control' \in Nat
         /\ control <= control'
         /\ control' = control => serving' = serving /\ channels' = channels
<1>1. control \in Nat
  BY DEF IInv, TypeOK
<1>2. control' = IF serving' # serving \/ channels' # channels THEN control + 1 ELSE control
  BY DEF Commit
<1> QED
  BY <1>1, <1>2

\* A commit moves the channel of a served owner together with its serving head.
LEMMA CommitChannels ==
  ASSUME IInv, NEW p \in Preparations, Commit(p), NEW c \in Channels
  PROVE  /\ channels'[c] \in ChannelRow
         /\ channels'[c].rel = channels[c].rel
         /\ channels[c].rel # None => channels'[c].act = serving'[channels[c].rel].act
<1>1. channels[c] \in ChannelRow /\ channels[c].seq + 1 \in Nat
  BY DEF IInv, TypeOK, ChannelRow
<1>2. channels'[c] =
        IF channels[c].rel # None /\ ChannelOf[channels[c].rel] = c /\ MovesChannel(p, channels[c].rel)
        THEN [channels[c] EXCEPT !.act = Resolved(p, channels[c].rel), !.seq = channels[c].seq + 1]
        ELSE channels[c]
  BY DEF Commit
<1>3. CASE channels[c].rel = None
  BY <1>1, <1>2, <1>3
<1>4. CASE channels[c].rel # None
  <2>1. PICK r \in Releases : r = channels[c].rel
    BY <1>1, <1>4 DEF ChannelRow
  <2>2. /\ ChannelOf[r] = c
        /\ serving[r].act = channels[c].act
        /\ serving[r].act # 0
    BY <1>4, <2>1 DEF IInv, ChannelServesOwner
  <2>3. MovesChannel(p, r) <=> MovesServing(p, r)
    BY <2>1, <2>2, CommitFresh, CommitServing DEF MovesChannel, OwnsChannel
  <2>4. CASE MovesChannel(p, r)
    <3>1. Resolved(p, r) \in Nat
      BY CommitActivations
    <3>2. channels'[c] = [channels[c] EXCEPT !.act = Resolved(p, r), !.seq = channels[c].seq + 1]
      BY <1>2, <1>4, <2>1, <2>2, <2>4
    <3>3. channels'[c] \in ChannelRow /\ channels'[c].rel = channels[c].rel
          /\ channels'[c].act = Resolved(p, r)
      BY <1>1, <3>1, <3>2 DEF ChannelRow
    <3> QED
      BY <2>1, <2>3, <2>4, <3>3, CommitServing
  <2>5. CASE ~MovesChannel(p, r)
    <3>1. channels'[c] = channels[c]
      BY <1>2, <2>1, <2>5
    <3> QED
      BY <1>1, <2>1, <2>2, <2>3, <2>5, <3>1, CommitServing
  <2> QED
    BY <2>4, <2>5
<1> QED
  BY <1>3, <1>4

\* The tables keep their types through a commit.
LEMMA CommitType ==
  ASSUME IInv, NEW p \in Preparations, Commit(p)
  PROVE  TypeOK' /\ Len(headSets') = Len(headSets)
<1>1. /\ inventory \in Inventory
      /\ versions \in [Groups -> [Versions -> Version]]
      /\ headSets \in Seq(HeadSet) /\ Len(headSets) \in Nat
      /\ preps \in [Preparations -> Preparation]
  BY DEF IInv, TypeOK
<1>2. inventory' \in Inventory
  <2>1. inventory' \in {inventory, [inventory EXCEPT !.st = inventory.st + 1]}
    BY DEF Commit
  <2> QED
    BY <1>1, <2>1, InventoryRow
<1>3. versions' \in [Groups -> [Versions -> Version]]
  <2> DEFINE g == preps[p].grp
             v == preps[p].ver
             reached == {activations'[r][serving'[r].act][g].ver :
                           r \in {q \in Releases : serving'[q].act # 0}}
             rows == [u \in Versions |->
                        IF u = v THEN [versions[g][u] EXCEPT !.state = "active"]
                        ELSE IF versions[g][u].state = "active" /\ u \notin reached
                        THEN [versions[g][u] EXCEPT !.state = "retired"]
                        ELSE versions[g][u]]
  <2>1. versions' = [versions EXCEPT ![g] = rows]
    BY DEF Commit, AfterCutover
  <2>2. ASSUME NEW row \in Version, NEW st \in {"active", "retired"}
        PROVE  [row EXCEPT !.state = st] \in Version
    BY DEF Version
  <2>3. g \in Groups
    BY CommitFresh
  <2>4. ASSUME NEW u \in Versions PROVE rows[u] \in Version
    <3>1. versions[g][u] \in Version
      BY <1>1, <2>3
    <3> HIDE DEF reached, g, v
    <3> QED
      BY <2>2, <3>1
  <2>5. rows \in [Versions -> Version]
    BY <2>4
  <2> HIDE DEF rows, reached, g, v
  <2> QED
    BY <1>1, <2>1, <2>3, <2>5
<1>4. headSets' \in Seq(HeadSet) /\ Len(headSets') = Len(headSets)
  <2>1. headSets' = SwitchHeads(p)
    BY DEF Commit
  <2>2. ASSUME NEW row \in HeadSet, NEW st \in {"active", "retired"}
        PROVE  [row EXCEPT !.state = st] \in HeadSet
    BY DEF HeadSet
  <2>3. CASE preps[p].cand = preps[p].head
    BY <1>1, <2>1, <2>3 DEF SwitchHeads
  <2>4. CASE preps[p].cand # preps[p].head
    <3>1. headSets' = [i \in 1..Len(headSets) |->
             IF i = preps[p].cand THEN [headSets[i] EXCEPT !.state = "active"]
             ELSE IF i = preps[p].head THEN [headSets[i] EXCEPT !.state = "retired"]
             ELSE headSets[i]]
      BY <2>1, <2>4 DEF SwitchHeads
    <3>2. ASSUME NEW i \in 1..Len(headSets) PROVE headSets'[i] \in HeadSet
      <4>1. headSets[i] \in HeadSet
        BY <1>1
      <4> QED
        BY <2>2, <3>1, <4>1
    <3>3. headSets' \in [1..Len(headSets) -> HeadSet]
      BY <3>1, <3>2
    <3> QED
      BY <1>1, <3>3
  <2> QED
    BY <2>3, <2>4
<1>5. pointer' \in 0..Len(headSets')
  <2>1. pointer' = preps[p].cand
    BY DEF Commit
  <2> QED
    BY <1>1, <1>4, <2>1, CommitFresh
<1>6. activations' \in [Releases -> Seq(Content)]
  <2>1. activations' = [r \in Releases |-> activations'[r]]
    BY DEF Commit
  <2> QED
    BY <2>1, CommitActivations
<1>7. serving' \in [Releases -> ServingRow]
  <2>1. serving' = [r \in Releases |-> serving'[r]]
    BY DEF Commit
  <2> QED
    BY <2>1, CommitServing
<1>8. channels' \in [Channels -> ChannelRow]
  <2>1. channels' = [c \in Channels |-> channels'[c]]
    BY DEF Commit
  <2> QED
    BY <2>1, CommitChannels
<1>9. preps' \in [Preparations -> Preparation]
  <2>1. [NoPreparation EXCEPT !.phase = "committed"] \in Preparation
    BY EmptyRows DEF Preparation
  <2> QED
    BY <1>1, <2>1 DEF Commit
<1>10. UNCHANGED <<certs, releases>>
  BY DEF Commit
<1> QED
  BY <1>2, <1>3, <1>4, <1>5, <1>6, <1>7, <1>8, <1>9, <1>10, CommitControl DEF IInv, TypeOK

\* A commit keeps the invariant.
LEMMA CommitInv ==
  ASSUME IInv, NEW p \in Preparations, Commit(p)
  PROVE  IInv'
<1>0. preps' = [preps EXCEPT ![p] = [NoPreparation EXCEPT !.phase = "committed"]]
      /\ UNCHANGED releases
  BY DEF Commit
<1>1. /\ preps \in [Preparations -> Preparation]
      /\ control \in Nat /\ Len(headSets) \in Nat
      /\ preps' = [preps EXCEPT ![p] = [NoPreparation EXCEPT !.phase = "committed"]]
      /\ UNCHANGED releases
  BY <1>0 DEF IInv, TypeOK
<1>2. ASSUME NEW r \in Releases
      PROVE  serving[r].act # 0 => activations'[r][serving[r].act] = activations[r][serving[r].act]
  <2>1. serving[r].act \in 0..Len(activations[r]) /\ serving[r].act \in Nat
    BY DEF IInv, TypeOK, ServingInv, ServingRow
  <2> QED
    BY <2>1, CommitActivations
<1>3. ASSUME NEW q \in Preparations PROVE PrepInv(q)'
  <2>1. CASE q = p
    <3>1. preps'[p].ctl = 0 /\ preps'[p].phase = "committed"
      BY <1>1 DEF NoPreparation
    <3> QED
      BY <2>1, <3>1, CommitControl DEF PrepInv
  <2>2. CASE q # p
    <3>1. preps'[q] = preps[q] /\ PrepInv(q) /\ preps[q].ctl \in Nat
          /\ preps[q].rels \subseteq Releases
      BY <1>1, <2>2 DEF IInv, Preparation
    <3>2. preps[q].ctl <= control'
      BY <1>1, <3>1, CommitControl DEF PrepInv
    <3>3. preps[q].ctl = control' =>
            preps[q].ctl = control /\ serving' = serving /\ channels' = channels
      BY <1>1, <3>1, CommitControl DEF PrepInv
    <3> QED
      BY <1>2, <3>1, <3>2, <3>3, CommitType DEF PrepInv
  <2> QED
    BY <2>1, <2>2
<1>4. ASSUME NEW r \in Releases PROVE ServingInv(r)'
  <2>1. ServingInv(r) /\ serving[r].act \in Nat
    BY DEF IInv, TypeOK, ServingRow
  <2>4. \A i \in 1..Len(activations'[r]), g \in PlanGroups[r] :
          activations'[r][i][g].ver \in Versions
    <3>1. activations'[r] = IF NewActivation(p, r) THEN Append(activations[r], preps[p].content[r])
                            ELSE activations[r]
      BY DEF Commit
    <3>2. NewActivation(p, r) => \A g \in PlanGroups[r] : preps[p].content[r][g].ver \in Versions
      BY DEF NewActivation, Commit, CommitChecks, CurrentAt
    <3>3. activations[r] \in Seq(Content) /\ preps[p].content[r] \in Content
      BY CommitFresh DEF IInv, TypeOK, Preparation
    <3> QED
      BY <2>1, <3>1, <3>2, <3>3 DEF ServingInv
  <2>2. CASE MovesServing(p, r)
    BY <1>1, <2>1, <2>2, <2>4, CommitServing, CommitActivations DEF ServingInv
  <2>3. CASE ~MovesServing(p, r)
    <3>1. serving'[r] = serving[r]
      BY <2>3, CommitServing
    <3> QED
      BY <1>1, <2>1, <2>4, <3>1, CommitActivations, CommitType DEF ServingInv, TypeOK
  <2> QED
    BY <2>2, <2>3
<1>5. ChannelServesOwner'
  <2>1. ASSUME NEW c \in Channels, channels'[c].rel # None
        PROVE  LET r == channels'[c].rel
               IN /\ releases'[r].state = "published"
                  /\ ChannelOf[r] = c
                  /\ serving'[r].act = channels'[c].act
                  /\ serving'[r].act \in 1..Len(activations'[r])
    <3>1. PICK r \in Releases : r = channels[c].rel /\ r = channels'[c].rel
      BY <2>1, CommitChannels DEF IInv, TypeOK, ChannelRow
    <3>2. channels[c].rel # None
      BY <2>1, CommitChannels
    <3>3. releases[r].state = "published" /\ ChannelOf[r] = c
          /\ serving[r].act \in 1..Len(activations[r])
      BY <3>1, <3>2 DEF IInv, ChannelServesOwner
    <3>4. serving'[r].act = channels'[c].act
      BY <3>1, <3>2, CommitChannels
    <3>5. serving'[r].act # 0
      BY <3>3, CommitServing, CommitActivations
    <3>6. serving'[r].act \in 1..Len(activations'[r])
      BY <1>4, <3>5, CommitActivations DEF ServingInv
    <3> QED
      BY <1>1, <3>1, <3>3, <3>4, <3>6
  <2>2. ASSUME NEW r \in Releases, releases'[r].state = "published"
        PROVE  channels'[ChannelOf[r]].rel = r
    BY <1>1, <2>2, CommitChannels, ServingAssumption DEF IInv, ChannelServesOwner
  <2> QED
    BY <2>1, <2>2 DEF ChannelServesOwner
<1> QED
  BY <1>3, <1>4, <1>5, CommitType DEF IInv

-----------------------------------------------------------------------------
(* The invariant, and what follows from it.                                *)

\* Every step keeps the invariant.
LEMMA NextInv == IInv /\ [Next]_vars => IInv'
<1> SUFFICES ASSUME IInv, [Next]_vars PROVE IInv'
  OBVIOUS
<1>1. CASE UNCHANGED vars
  <2>1. UNCHANGED <<control, inventory, versions, certs, releases, channels, activations,
                    serving, headSets, pointer, preps>>
    BY <1>1 DEF vars
  <2>2. TypeOK'
    BY <2>1 DEF IInv, TypeOK
  <2>3. ASSUME NEW p \in Preparations PROVE PrepInv(p)'
    BY <2>1 DEF IInv, PrepInv
  <2>4. ASSUME NEW r \in Releases PROVE ServingInv(r)'
    BY <2>1 DEF IInv, ServingInv
  <2>5. ChannelServesOwner'
    BY <2>1 DEF IInv, ChannelServesOwner
  <2> QED
    BY <2>2, <2>3, <2>4, <2>5 DEF IInv
<1>2. CASE BuildStep
  BY <1>2, BuildInv
<1>3. CASE ReleaseStep
  BY <1>3, CertifyInv, StageInv, PublishInv, RetireInv DEF ReleaseStep
<1>4. CASE CutoverStep
  BY <1>4, PrepareReadsInv, PrepareBuildInv, CommitInv DEF CutoverStep
<1> QED
  BY <1>1, <1>2, <1>3, <1>4 DEF Next

\* The inductive invariant of builds, publication and cutovers holds in every
\* reachable state; the theorems below are read off it.
THEOREM Invariance == Spec => []IInv
  BY InitInv, NextInv, PTL DEF Spec

\* The tables of the serving path keep their types.
THEOREM TypeCorrect == Spec => []TypeOK
<1>1. IInv => TypeOK
  BY DEF IInv
<1> QED
  BY <1>1, Invariance, PTL

\* Whatever interleaves with the unlocked reads of prepare, a commit that finds the
\* revisions unchanged finds the serving heads and channels that were recorded.
THEOREM PreparationsSafe == Spec => []PreparationsGuarded
<1>1. IInv => PreparationsGuarded
  <2> SUFFICES ASSUME IInv, NEW p \in Preparations, preps[p].phase = "prepared", Fresh(p)
               PROVE  preps[p].serv = serving /\ preps[p].chan = channels
    BY DEF PreparationsGuarded
  <2> QED
    BY DEF IInv, PrepInv, Fresh
<1> QED
  BY <1>1, Invariance, PTL

\* Publications and cutovers keep every channel at the activation its one published
\* release serves.
THEOREM ChannelsSafe == Spec => []ChannelServesOwner
<1>1. IInv => ChannelServesOwner
  BY DEF IInv
<1> QED
  BY <1>1, Invariance, PTL

-----------------------------------------------------------------------------
(* What is served stays served.                                            *)

\* The data of a release stays queryable as long as its activation stays the one
\* served and none of the versions of that activation leaves the state active.
LEMMA ServableKept ==
  ASSUME IInv, NEW r \in Releases, Servable(r),
         serving'[r].act = serving[r].act,
         activations'[r][serving[r].act] = activations[r][serving[r].act],
         \A g \in PlanGroups[r] :
           LET u == activations[r][serving[r].act][g].ver
           IN versions[g][u].state = "active" => versions'[g][u].state = "active"
  PROVE  Servable(r)'
  BY DEF Servable

\* A build never touches a version that is active.
LEMMA BuildKeepsActive ==
  ASSUME IInv, BuildStep, NEW g \in Groups, NEW u, versions[g][u].state = "active"
  PROVE  versions'[g][u].state = "active"
<1>1. versions \in [Groups -> [Versions -> Version]]
  BY DEF IInv, TypeOK
<1>2. ASSUME NEW h \in Groups, NEW v \in Versions, versions[h][v].state # "active",
             NEW row, versions' = [versions EXCEPT ![h][v] = row]
      PROVE  versions'[g][u].state = "active"
  BY <1>1, <1>2
<1>3. ASSUME NEW h \in Groups, NEW v \in Versions, ScanBuild(h, v)
      PROVE  versions'[g][u].state = "active"
  BY <1>1, <1>2, <1>3 DEF ScanBuild
<1>4. ASSUME NEW h \in Groups, NEW v \in Versions, MeasureBuild(h, v)
      PROVE  versions'[g][u].state = "active"
  BY <1>1, <1>2, <1>4 DEF MeasureBuild
<1>5. ASSUME NEW h \in Groups, NEW v \in Versions, AdmitBuild(h, v)
      PROVE  versions'[g][u].state = "active"
  BY <1>1, <1>2, <1>5 DEF AdmitBuild
<1>6. ASSUME NEW h \in Groups, NEW v \in Versions, NEW x \in Values \cup {None},
             FinishBuild(h, v, x)
      PROVE  versions'[g][u].state = "active"
  <2>1. versions' = [versions EXCEPT ![h][v] =
                       [versions[h][v] EXCEPT !.state = "ready", !.value = x]]
    BY <1>1, <1>6 DEF FinishBuild
  <2>2. versions[h][v].state # "active"
    BY <1>6 DEF FinishBuild
  <2> QED
    BY <1>2, <2>1, <2>2
<1>7. ASSUME DropIndex \/ RecordGcBatch PROVE versions'[g][u].state = "active"
  BY <1>7 DEF DropIndex, RecordGcBatch
<1> QED
  BY <1>3, <1>4, <1>5, <1>6, <1>7 DEF BuildStep

\* What a commit does to the versions of its group, and to no other.
LEMMA CommitVersions ==
  ASSUME IInv, NEW p \in Preparations, Commit(p), NEW g \in Groups, NEW u \in Versions,
         \/ g = preps[p].grp /\ u = preps[p].ver
         \/ /\ versions[g][u].state = "active"
            /\ \/ g # preps[p].grp
               \/ \E r \in Releases : /\ serving'[r].act # 0
                                      /\ u = activations'[r][serving'[r].act][g].ver
  PROVE  versions'[g][u].state = "active"
<1> DEFINE h == preps[p].grp
           v == preps[p].ver
           reached == {activations'[r][serving'[r].act][h].ver :
                         r \in {q \in Releases : serving'[q].act # 0}}
           rows == [w \in Versions |->
                      IF w = v THEN [versions[h][w] EXCEPT !.state = "active"]
                      ELSE IF versions[h][w].state = "active" /\ w \notin reached
                      THEN [versions[h][w] EXCEPT !.state = "retired"]
                      ELSE versions[h][w]]
<1>1. versions' = [versions EXCEPT ![h] = rows]
  BY DEF Commit, AfterCutover
<1>2. versions \in [Groups -> [Versions -> Version]] /\ h \in Groups
  BY CommitFresh DEF IInv, TypeOK
<1>3. CASE g # h
  <2> HIDE DEF rows
  <2> QED
    BY <1>1, <1>2, <1>3
<1>4. CASE g = h
  <2>1. versions'[g][u] = rows[u]
    <3> HIDE DEF rows
    <3> QED
      BY <1>1, <1>2, <1>4
  <2>2. versions[h][u] \in Version
    BY <1>2
  <2>3. CASE u = v
    <3>1. rows[u] = [versions[h][u] EXCEPT !.state = "active"]
      BY <2>3
    <3> QED
      BY <2>1, <2>2, <3>1 DEF Version
  <2>4. CASE u # v
    <3>1. versions[h][u].state = "active" /\ u \in reached
      BY <1>4, <2>4
    <3>2. rows[u] = versions[h][u]
      BY <2>4, <3>1
    <3> QED
      BY <2>1, <3>1, <3>2
  <2> QED
    BY <2>3, <2>4
<1> QED
  BY <1>3, <1>4

\* A commit keeps the data of every release it does not retire: the versions a moved
\* release takes over are its old ones or the new one, and the old version of a
\* release left behind is still reached.
LEMMA CommitKeepsServable ==
  ASSUME IInv, NEW p \in Preparations, Commit(p), NEW r \in Releases, Servable(r)
  PROVE  Servable(r)'
<1> DEFINE a == serving[r].act
           b == serving'[r].act
<1>1. /\ a # 0
      /\ activations'[r][a] = activations[r][a]
      /\ PlanGroups[r] \subseteq Groups
      /\ \A g \in PlanGroups[r] : versions[g][activations[r][a][g].ver].state = "active"
  <2>1. a # 0 /\ a \in Nat /\ a \in 0..Len(activations[r])
    BY DEF Servable, IInv, TypeOK, ServingInv, ServingRow
  <2>2. a \in 1..Len(activations[r])
    BY <2>1, CommitActivations
  <2>3. activations'[r][a] = activations[r][a]
    BY <2>2, CommitActivations
  <2>4. PlanGroups[r] \subseteq Groups
    BY ServingAssumption
  <2>5. \A g \in PlanGroups[r] : versions[g][activations[r][a][g].ver].state = "active"
    BY DEF Servable
  <2> QED
    BY <2>1, <2>3, <2>4, <2>5
<1>2. b # 0
  <2>1. b = IF MovesServing(p, r) THEN Resolved(p, r) ELSE a
    BY CommitServing
  <2>2. Resolved(p, r) # 0
    BY CommitActivations
  <2> QED
    BY <1>1, <2>1, <2>2
<1>3. ASSUME NEW g \in PlanGroups[r]
      PROVE  versions'[g][activations'[r][b][g].ver].state = "active"
  <2> DEFINE u == activations'[r][b][g].ver
  <2>1. g \in Groups
    BY <1>1
  <2>2. CASE MovesServing(p, r)
    <3>1. r \in preps[p].rels /\ activations'[r][b] = preps[p].content[r]
      BY <2>2, CommitServing, CommitActivations
    <3>2. CASE g = preps[p].grp
      <4>1. u = preps[p].ver /\ u \in Versions
        BY <3>1, <3>2, CommitFresh
      <4> HIDE DEF u
      <4> QED
        BY <2>1, <3>2, <4>1, CommitVersions DEF u
    <3>3. CASE g # preps[p].grp
      <4>1. u = activations[r][a][g].ver
        <5>1. g \in PlanGroups[r] \ {preps[p].grp}
          BY <3>3
        <5>2. preps[p].content[r][g] = activations[r][a][g]
          BY <1>1, <3>1, <5>1, CommitFresh
        <5> QED
          BY <3>1, <5>2
      <4>2. versions[g][u].state = "active"
        BY <1>1, <4>1
      <4>3. versions'[g] = versions[g]
        <5>1. versions' = AfterCutover(p) /\ versions \in [Groups -> [Versions -> Version]]
          BY DEF Commit, IInv, TypeOK
        <5> QED
          BY <2>1, <3>3, <5>1 DEF AfterCutover
      <4> QED
        BY <4>2, <4>3
    <3> QED
      BY <3>2, <3>3
  <2>3. CASE ~MovesServing(p, r)
    <3>1. b = a /\ activations'[r][b] = activations[r][a]
      BY <1>1, <2>3, CommitServing
    <3>2. versions[g][u].state = "active"
      BY <1>1, <3>1
    <3>3. u \in Versions
      <4>1. ServingInv(r) /\ a \in 0..Len(activations[r]) /\ Len(activations[r]) \in Nat
        BY CommitActivations DEF IInv, ServingInv
      <4>2. a \in 1..Len(activations[r])
        BY <4>1 DEF Servable
      <4> QED
        BY <3>1, <4>1, <4>2 DEF ServingInv
    <3> HIDE DEF u
    <3>4. serving'[r].act # 0 /\ u = activations'[r][serving'[r].act][g].ver
      BY <1>2 DEF u
    <3>5. versions'[g][u].state = "active"
      BY <2>1, <3>2, <3>3, <3>4, CommitVersions
    <3> QED
      BY <3>5 DEF u
  <2> QED
    BY <2>2, <2>3
<1> QED
  BY <1>2, <1>3 DEF Servable

\* A release whose data can be queried stays so through every build, collection,
\* publication and cutover, its own or another release's, until it is retired.
THEOREM ServedSafe == Spec => ServedStaysServed
<1>1. ASSUME IInv, [Next]_vars
      PROVE  [\A r \in Releases : (Servable(r) /\ serving'[r].act # 0) => Servable(r)']_vars
  <2> SUFFICES ASSUME NEW r \in Releases, Servable(r), serving'[r].act # 0, Next
               PROVE  Servable(r)'
    BY <1>1
  <2>1. serving \in [Releases -> ServingRow] /\ serving[r].act # 0
        /\ PlanGroups[r] \subseteq Groups
    BY <1>1, ServingAssumption DEF IInv, TypeOK, Servable
  <2>2. CASE BuildStep
    <3>1. UNCHANGED <<serving, activations>>
      BY <2>2, ZenonT(40) DEF BuildStep, ScanBuild, MeasureBuild, AdmitBuild, FinishBuild, DropIndex,
                  RecordGcBatch
    <3> QED
      BY <1>1, <2>1, <2>2, <3>1, BuildKeepsActive, ServableKept
  <2>3. CASE ReleaseStep
    <3>1. ASSUME NEW q \in Releases, NEW g \in Groups, NEW v \in Versions, Certify(q, g, v)
          PROVE  Servable(r)'
      BY <3>1 DEF Certify, Servable
    <3>2. ASSUME NEW q \in Releases, Stage(q) PROVE Servable(r)'
      BY <3>2 DEF Stage, Servable
    <3>3. ASSUME NEW q \in Releases, Publish(q) PROVE Servable(r)'
      <4>1. q # r
        BY <1>1, <2>1, <3>3 DEF Publish, IInv, ServingInv
      <4>2. serving'[r] = serving[r] /\ UNCHANGED <<activations, versions>>
        BY <2>1, <3>3, <4>1 DEF Publish
      <4> QED
        BY <4>2 DEF Servable
    <3>4. ASSUME NEW q \in Releases, Retire(q) PROVE Servable(r)'
      <4>1. q # r
        BY <2>1, <3>4 DEF Retire, NotServed
      <4>2. serving'[r] = serving[r] /\ UNCHANGED <<activations, versions>>
        BY <2>1, <3>4, <4>1 DEF Retire
      <4> QED
        BY <4>2 DEF Servable
    <3> QED
      BY <2>3, <3>1, <3>2, <3>3, <3>4 DEF ReleaseStep
  <2>4. CASE CutoverStep
    <3>1. ASSUME NEW p \in Preparations, Commit(p) PROVE Servable(r)'
      BY <1>1, <3>1, CommitKeepsServable
    <3>2. ASSUME NEW p \in Preparations,
                 \/ \E g \in Groups, v \in Versions : PrepareRevisions(p, g, v)
                 \/ PreparePointer(p) \/ PrepareBuild(p) \/ PrepareAborts(p)
          PROVE  UNCHANGED <<serving, activations, versions>>
      BY <3>2 DEF PrepareRevisions, PreparePointer, PrepareBuild, PrepareAborts
    <3>3. (UNCHANGED <<serving, activations, versions>>) => Servable(r)'
      BY DEF Servable
    <3> QED
      BY <2>4, <3>1, <3>2, <3>3 DEF CutoverStep
  <2> QED
    BY <2>2, <2>3, <2>4 DEF Next
<1> QED
  BY <1>1, Invariance, PTL DEF Spec, ServedStaysServed

-----------------------------------------------------------------------------
(* The object heads.                                                       *)

Built == {"ready", "active", "retired"}
CutOver == {"active", "retired"}

\* A built version keeps its value, and one that was cut over to stays so.
VersionsKept ==
  \A g \in Groups, v \in Versions :
    /\ versions[g][v].state \in Built =>
         versions'[g][v].state \in Built /\ versions'[g][v].value = versions[g][v].value
    /\ versions[g][v].state \in CutOver => versions'[g][v].state \in CutOver

\* Prepare reads the pointer and builds the target heads in separate statements:
\* while the state revision it read first has not moved, its candidate head set is
\* still the one that the project's heads and values ask for.
PrepHeads(p) ==
  /\ preps[p].st <= inventory.st
  /\ preps[p].phase \in {"pointer", "prepared"} =>
       versions[preps[p].grp][preps[p].ver].state \in Built
  /\ preps[p].phase = "prepared" /\ preps[p].st = inventory.st =>
       headSets[preps[p].cand].rows = TargetHeads(preps[p].grp, preps[p].ver)

OneActive == \A i \in 1..Len(headSets) : headSets[i].state = "active" <=> i = pointer

HeadOk(g) ==
  IF Heads[g].ver = 0 THEN Heads[g] = NoHead
  ELSE Heads[g].ver \in Versions /\ versions[g][Heads[g].ver].state \in CutOver

HeadsInv ==
  /\ OneActive
  /\ \A g \in Groups : HeadOk(g)
  /\ \A p \in Preparations : PrepHeads(p)

\* Nothing is a head before the first cutover.
LEMMA InitHeads == Init => HeadsInv
<1> SUFFICES ASSUME Init PROVE HeadsInv
  OBVIOUS
<1>1. OneActive
  BY DEF Init, OneActive
<1>2. \A g \in Groups : HeadOk(g)
  BY DEF Init, HeadOk, Heads, NoHead
<1>3. \A p \in Preparations : PrepHeads(p)
  BY DEF Init, PrepHeads, NoPreparation
<1> QED
  BY <1>1, <1>2, <1>3 DEF HeadsInv

\* Builds keep what is built.
LEMMA BuildKeepsVersions ==
  ASSUME IInv, BuildStep
  PROVE  VersionsKept
<1>1. versions \in [Groups -> [Versions -> Version]]
  BY DEF IInv, TypeOK
<1>2. ASSUME NEW h \in Groups, NEW v \in Versions, versions[h][v].state \notin Built,
             NEW row, versions' = [versions EXCEPT ![h][v] = row]
      PROVE  VersionsKept
  BY <1>1, <1>2 DEF VersionsKept, Built, CutOver
<1>3. ASSUME NEW h \in Groups, NEW v \in Versions, ScanBuild(h, v) PROVE VersionsKept
  BY <1>2, <1>3 DEF ScanBuild, Built
<1>4. ASSUME NEW h \in Groups, NEW v \in Versions, MeasureBuild(h, v) PROVE VersionsKept
  BY <1>2, <1>4 DEF MeasureBuild, Built
<1>5. ASSUME NEW h \in Groups, NEW v \in Versions, AdmitBuild(h, v) PROVE VersionsKept
  BY <1>2, <1>5 DEF AdmitBuild, Built
<1>6. ASSUME NEW h \in Groups, NEW v \in Versions, NEW x \in Values \cup {None},
             FinishBuild(h, v, x)
      PROVE  VersionsKept
  <2>1. versions' = [versions EXCEPT ![h][v] =
                       [versions[h][v] EXCEPT !.state = "ready", !.value = x]]
    BY <1>1, <1>6 DEF FinishBuild
  <2>2. versions[h][v].state \notin Built
    BY <1>6 DEF FinishBuild, Built
  <2> QED
    BY <1>2, <2>1, <2>2
<1>7. ASSUME DropIndex \/ RecordGcBatch PROVE VersionsKept
  BY <1>7 DEF DropIndex, RecordGcBatch, VersionsKept
<1> QED
  BY <1>3, <1>4, <1>5, <1>6, <1>7 DEF BuildStep

\* A commit changes no value, and activates its own version.
LEMMA CommitKeepsVersions ==
  ASSUME IInv, NEW p \in Preparations, Commit(p)
  PROVE  /\ VersionsKept
         /\ \A g \in Groups, u \in Versions : versions'[g][u].value = versions[g][u].value
<1> DEFINE h == preps[p].grp
           v == preps[p].ver
           reached == {activations'[r][serving'[r].act][h].ver :
                         r \in {q \in Releases : serving'[q].act # 0}}
           rows == [w \in Versions |->
                      IF w = v THEN [versions[h][w] EXCEPT !.state = "active"]
                      ELSE IF versions[h][w].state = "active" /\ w \notin reached
                      THEN [versions[h][w] EXCEPT !.state = "retired"]
                      ELSE versions[h][w]]
<1>1. versions' = [versions EXCEPT ![h] = rows]
  BY DEF Commit, AfterCutover
<1>2. versions \in [Groups -> [Versions -> Version]] /\ h \in Groups
  BY CommitFresh DEF IInv, TypeOK
<1>3. ASSUME NEW u \in Versions
      PROVE  /\ rows[u].value = versions[h][u].value
             /\ rows[u].state = versions[h][u].state \/ rows[u].state \in CutOver
  <2>1. versions[h][u] \in Version
    BY <1>2
  <2>2. rows[u] \in {versions[h][u], [versions[h][u] EXCEPT !.state = "active"],
                     [versions[h][u] EXCEPT !.state = "retired"]}
    OBVIOUS
  <2> HIDE DEF rows, h, v, reached
  <2> QED
    BY <2>1, <2>2 DEF Version, CutOver
<1>4. ASSUME NEW g \in Groups, NEW u \in Versions
      PROVE  /\ versions'[g][u].value = versions[g][u].value
             /\ versions'[g][u].state = versions[g][u].state \/ versions'[g][u].state \in CutOver
  <2> HIDE DEF rows, v, reached
  <2>1. CASE g = h
    BY <1>1, <1>2, <1>3, <2>1
  <2>2. CASE g # h
    BY <1>1, <1>2, <2>2
  <2> QED
    BY <2>1, <2>2
<1> HIDE DEF rows, h, v, reached
<1> QED
  BY <1>4 DEF VersionsKept, Built, CutOver

\* The heads are well typed, and the head set pointed at is one of those there are.
LEMMA HeadsType ==
  ASSUME IInv
  PROVE  /\ Heads \in [Groups -> HeadRow]
         /\ headSets \in Seq(HeadSet) /\ Len(headSets) \in Nat
         /\ pointer # 0 => pointer \in 1..Len(headSets)
<1>1. headSets \in Seq(HeadSet) /\ pointer \in 0..Len(headSets) /\ Len(headSets) \in Nat
  BY DEF IInv, TypeOK
<1>2. pointer # 0 => pointer \in 1..Len(headSets)
  BY <1>1
<1>3. pointer # 0 => headSets[pointer] \in HeadSet
  BY <1>1, <1>2
<1> QED
  BY <1>1, <1>2, <1>3, EmptyRows DEF Heads, HeadSet

\* The target heads stay the same while the heads and the built values do.
LEMMA TargetKept ==
  ASSUME IInv, HeadsInv, VersionsKept, Heads' = Heads,
         NEW g \in Groups, NEW v \in Versions, versions[g][v].state \in Built
  PROVE  TargetHeads(g, v)' = TargetHeads(g, v)
<1>1. versions'[g][v].value = versions[g][v].value
  BY DEF VersionsKept
<1>2. Heads[g].ver # 0 => versions'[g][Heads[g].ver].value = versions[g][Heads[g].ver].value
  BY DEF VersionsKept, HeadsInv, HeadOk, CutOver, Built
<1>3. Heads \in [Groups -> HeadRow]
  BY HeadsType
<1> QED
  BY <1>1, <1>2, <1>3 DEF TargetHeads

\* A step that moves neither the pointer nor the rows it names keeps the heads, and
\* all preparations but those it writes.
LEMMA HeadsStep ==
  ASSUME IInv, IInv', HeadsInv, VersionsKept, OneActive', pointer' = pointer,
         inventory.st <= inventory'.st,
         Len(headSets) <= Len(headSets'),
         \A i \in 1..Len(headSets) : headSets'[i].rows = headSets[i].rows,
         \A p \in Preparations : preps'[p] = preps[p] \/ PrepHeads(p)'
  PROVE  HeadsInv' /\ Heads' = Heads
<1>1. Heads' = Heads
  BY HeadsType DEF Heads
<1>2. ASSUME NEW g \in Groups PROVE HeadOk(g)'
  BY <1>1 DEF HeadsInv, HeadOk, VersionsKept
<1>3. ASSUME NEW p \in Preparations, preps'[p] = preps[p] PROVE PrepHeads(p)'
  <2>1. /\ PrepHeads(p) /\ PrepInv(p)
        /\ preps[p] \in Preparation /\ inventory \in Inventory /\ inventory' \in Inventory
    BY DEF HeadsInv, IInv, TypeOK
  <2>2. preps[p].st \in Nat /\ inventory.st \in Nat /\ inventory'.st \in Nat
        /\ preps[p].grp \in Groups
    BY <2>1 DEF Preparation, Inventory
  <2>3. PICK g, v : g = preps[p].grp /\ v = preps[p].ver
    OBVIOUS
  <2>4. preps[p].phase \in {"pointer", "prepared"} =>
          /\ versions[g][v].state \in Built
          /\ versions'[g][v].state \in Built
          /\ TargetHeads(g, v)' = TargetHeads(g, v)
    <3>1. preps[p].phase \in {"pointer", "prepared"} =>
            g \in Groups /\ v \in Versions /\ versions[g][v].state \in Built
      BY <2>1, <2>2, <2>3 DEF PrepHeads, PrepInv
    <3> QED
      BY <1>1, <3>1, TargetKept DEF VersionsKept
  <2>5. preps[p].phase = "prepared" => preps[p].cand \in 1..Len(headSets)
    BY <2>1 DEF PrepInv
  <2>6. preps[p].st <= inventory.st /\ preps[p].st <= inventory'.st
    BY <2>1, <2>2 DEF PrepHeads
  <2>7. preps[p].phase = "prepared" /\ preps[p].st = inventory'.st =>
          headSets'[preps[p].cand].rows = TargetHeads(g, v)'
    <3>1. preps[p].st = inventory'.st => preps[p].st = inventory.st
      BY <2>2, <2>6
    <3> QED
      BY <2>1, <2>3, <2>4, <2>5, <3>1 DEF PrepHeads
  <2>8. g = preps'[p].grp /\ v = preps'[p].ver
    BY <1>3, <2>3
  <2> QED
    BY <1>3, <2>4, <2>6, <2>7, <2>8 DEF PrepHeads
<1> QED
  BY <1>1, <1>2, <1>3 DEF HeadsInv

\* Builds and the steps of a release leave heads and preparations alone.
LEMMA QuietHeads ==
  ASSUME IInv, IInv', HeadsInv, BuildStep \/ ReleaseStep
  PROVE  HeadsInv' /\ Heads' = Heads /\ VersionsKept
<1>1. UNCHANGED <<headSets, pointer, preps>>
  BY ZenonT(40) DEF BuildStep, ReleaseStep, ScanBuild, MeasureBuild, AdmitBuild, FinishBuild, DropIndex,
         RecordGcBatch, Certify, Stage, Publish, Retire
<1>2. VersionsKept
  <2>1. ReleaseStep => UNCHANGED versions
    BY DEF ReleaseStep, Certify, Stage, Publish, Retire
  <2> QED
    BY <2>1, BuildKeepsVersions DEF VersionsKept
<1>3. inventory.st <= inventory'.st
  <2>1. inventory \in Inventory /\ inventory.st \in Nat
    BY DEF IInv, TypeOK, Inventory
  <2>2. ReleaseStep => UNCHANGED inventory
    BY DEF ReleaseStep, Certify, Stage, Publish, Retire
  <2>3. BuildStep => inventory'.st = inventory.st \/ inventory'.st = inventory.st + 1
    BY <2>1, ZenonT(40) DEF BuildStep, ScanBuild, MeasureBuild, AdmitBuild, FinishBuild, DropIndex,
                RecordGcBatch, Measured, Inventory
  <2> QED
    BY <2>1, <2>2, <2>3
<1>4. OneActive'
  BY <1>1 DEF HeadsInv, OneActive
<1>5. Len(headSets) <= Len(headSets')
  BY <1>1, HeadsType
<1> QED
  BY <1>1, <1>2, <1>3, <1>4, <1>5, HeadsStep

\* The reads of a preparation, and one that gives up.
LEMMA PrepareReadsHeads ==
  ASSUME IInv, IInv', HeadsInv, NEW p \in Preparations,
         \/ \E g \in Groups, v \in Versions : PrepareRevisions(p, g, v)
         \/ PreparePointer(p) \/ PrepareAborts(p)
  PROVE  HeadsInv' /\ Heads' = Heads /\ VersionsKept
<1>1. UNCHANGED <<headSets, pointer, versions, inventory>>
  BY DEF PrepareRevisions, PreparePointer, PrepareAborts
<1>2. VersionsKept
  BY <1>1 DEF VersionsKept
<1>3. /\ preps \in [Preparations -> Preparation] /\ preps[p] \in Preparation
      /\ inventory.st \in Nat /\ PrepHeads(p)
  BY DEF IInv, TypeOK, Inventory, HeadsInv
<1>4. PrepHeads(p)'
  <2>1. ASSUME NEW g \in Groups, NEW v \in Versions, PrepareRevisions(p, g, v)
        PROVE  PrepHeads(p)'
    <3>1. preps'[p] = [NoPreparation EXCEPT !.phase = "revisions", !.grp = g, !.ver = v,
                         !.ctl = control, !.st = inventory.st, !.rev = inventory.rev]
      BY <1>3, <2>1 DEF PrepareRevisions
    <3>2. preps'[p].phase = "revisions" /\ preps'[p].st = inventory.st
      BY <3>1 DEF NoPreparation
    <3> QED
      BY <1>1, <1>3, <3>2 DEF PrepHeads
  <2>2. CASE PreparePointer(p)
    <3>1. preps'[p] = [preps[p] EXCEPT !.phase = "pointer", !.head = pointer]
          /\ Usable(preps[p].grp, preps[p].ver)
      BY <1>3, <2>2 DEF PreparePointer
    <3>2. preps'[p].phase = "pointer" /\ preps'[p].st = preps[p].st
          /\ preps'[p].grp = preps[p].grp /\ preps'[p].ver = preps[p].ver
      BY <1>3, <3>1 DEF Preparation
    <3> QED
      BY <1>1, <1>3, <3>1, <3>2 DEF PrepHeads, Usable, Built
  <2>3. CASE PrepareAborts(p)
    <3>1. preps'[p] = NoPreparation
      BY <1>3, <2>3 DEF PrepareAborts
    <3>2. preps'[p].phase = "none" /\ preps'[p].st = 0
      BY <3>1 DEF NoPreparation
    <3> QED
      BY <1>1, <1>3, <3>2 DEF PrepHeads
  <2> QED
    BY <2>1, <2>2, <2>3
<1>5. \A q \in Preparations : preps'[q] = preps[q] \/ q = p
  BY <1>3 DEF PrepareRevisions, PreparePointer, PrepareAborts
<1>6. OneActive' /\ inventory.st <= inventory'.st /\ Len(headSets) <= Len(headSets')
  BY <1>1, <1>3, HeadsType DEF HeadsInv, OneActive
<1> QED
  BY <1>1, <1>2, <1>4, <1>5, <1>6, HeadsStep

\* Building the head set finds its rows or adds them, prepared.
LEMMA PrepareBuildHeads ==
  ASSUME IInv, IInv', HeadsInv, NEW p \in Preparations, PrepareBuild(p)
  PROVE  HeadsInv' /\ Heads' = Heads /\ VersionsKept
<1>1. UNCHANGED <<pointer, versions, inventory>> /\ preps[p].phase = "pointer"
  BY DEF PrepareBuild
<1>2. VersionsKept
  BY <1>1 DEF VersionsKept
<1>3. /\ preps \in [Preparations -> Preparation] /\ preps[p] \in Preparation
      /\ inventory.st \in Nat /\ PrepHeads(p) /\ PrepInv(p)
      /\ headSets \in Seq(HeadSet) /\ Len(headSets) \in Nat
  BY HeadsType DEF IInv, TypeOK, Inventory, HeadsInv
<1>4. PICK g \in Groups, v \in Versions : g = preps[p].grp /\ v = preps[p].ver
  BY <1>1, <1>3 DEF PrepInv, Preparation
<1> DEFINE rows == TargetHeads(g, v)
           new == [rows |-> rows, state |-> "prepared"]
<1>5. headSets' = IF \E i \in 1..Len(headSets) : headSets[i].rows = rows THEN headSets
                  ELSE Append(headSets, new)
  BY <1>4 DEF PrepareBuild
<1>6. new \in HeadSet
  BY TargetHeadsType DEF HeadSet
<1>7. /\ Len(headSets) <= Len(headSets')
      /\ \A i \in 1..Len(headSets) : headSets'[i] = headSets[i]
      /\ \A i \in 1..Len(headSets') : 
           i \in 1..Len(headSets) \/ (headSets'[i] = new /\ i = Len(headSets) + 1)
      /\ Candidate(rows) \in 1..Len(headSets')
      /\ headSets'[Candidate(rows)].rows = rows
  <2> HIDE DEF rows
  <2>1. CASE \E i \in 1..Len(headSets) : headSets[i].rows = rows
    <3>1. Candidate(rows) \in {i \in 1..Len(headSets) : headSets[i].rows = rows}
      BY <2>1 DEF Candidate
    <3>2. headSets' = headSets
      BY <1>5, <2>1
    <3> HIDE DEF new
    <3> QED
      BY <1>3, <3>1, <3>2
  <2>2. CASE ~ \E i \in 1..Len(headSets) : headSets[i].rows = rows
    <3>1. {i \in 1..Len(headSets) : headSets[i].rows = rows} = {}
      BY <2>2
    <3>2. Candidate(rows) = Len(headSets) + 1
      BY <3>1 DEF Candidate
    <3>3. headSets' = Append(headSets, new)
      BY <1>5, <2>2
    <3> HIDE DEF new
    <3>4. /\ Len(headSets') = Len(headSets) + 1
          /\ \A i \in 1..Len(headSets) : headSets'[i] = headSets[i]
          /\ headSets'[Len(headSets) + 1] = new
      BY <1>3, <1>6, <3>3
    <3>5. \A i \in 1..Len(headSets') : i \in 1..Len(headSets) \/ i = Len(headSets) + 1
      BY <1>3, <3>4
    <3>6. new.rows = rows
      BY DEF new
    <3>7. Len(headSets) + 1 \in 1..Len(headSets') /\ Len(headSets) <= Len(headSets')
      BY <1>3, <3>4
    <3>8. headSets'[Candidate(rows)].rows = rows /\ Candidate(rows) \in 1..Len(headSets')
      BY <3>2, <3>4, <3>6, <3>7
    <3> QED
      BY <3>4, <3>5, <3>7, <3>8
  <2> QED
    BY <2>1, <2>2
<1>8. OneActive'
  <2>1. pointer # Len(headSets) + 1
    BY <1>3, HeadsType
  <2>2. new.state # "active"
    OBVIOUS
  <2> HIDE DEF new
  <2> QED
    BY <1>1, <1>7, <2>1, <2>2 DEF HeadsInv, OneActive
<1>9. Heads' = Heads
  BY <1>1, <1>7, HeadsType DEF Heads
<1>10. PICK k : preps' = [preps EXCEPT ![p] =
         [preps[p] EXCEPT !.phase = "prepared", !.rels = {r \in Releases : Eligible(r, g, v)},
            !.serv = serving, !.chan = channels, !.content = k, !.cand = Candidate(rows)]]
  BY <1>4 DEF PrepareBuild
<1>11. /\ preps'[p].st = preps[p].st /\ preps'[p].grp = g /\ preps'[p].ver = v
       /\ preps'[p].cand = Candidate(rows)
  <2> HIDE DEF rows
  <2> QED
    BY <1>3, <1>4, <1>10 DEF Preparation
<1>12. PrepHeads(p)'
  <2>1. versions[g][v].state \in Built
    BY <1>1, <1>3, <1>4 DEF PrepHeads
  <2>2. TargetHeads(g, v)' = rows
    BY <1>2, <1>9, <2>1, TargetKept
  <2> HIDE DEF rows
  <2> QED
    BY <1>1, <1>3, <1>4, <1>7, <1>11, <2>1, <2>2 DEF PrepHeads
<1>13. \A q \in Preparations : preps'[q] = preps[q] \/ q = p
  BY <1>3 DEF PrepareBuild
<1>14. \A i \in 1..Len(headSets) : headSets'[i].rows = headSets[i].rows
  BY <1>7
<1>15. inventory.st <= inventory'.st
  BY <1>1, <1>3
<1> QED
  BY <1>1, <1>2, <1>7, <1>8, <1>12, <1>13, <1>14, <1>15, HeadsStep

\* A commit makes the target heads, as they are when it runs, the project's heads.
LEMMA CommitHeads ==
  ASSUME IInv, IInv', HeadsInv, NEW p \in Preparations, Commit(p)
  PROVE  /\ HeadsInv'
         /\ Heads' = TargetHeads(preps[p].grp, preps[p].ver)
<1> DEFINE c == preps[p].cand
<1>1. /\ preps \in [Preparations -> Preparation] /\ preps[p] \in Preparation
      /\ inventory \in Inventory /\ inventory.st \in Nat /\ inventory'.st \in Nat
      /\ headSets \in Seq(HeadSet) /\ Len(headSets) \in Nat
      /\ PrepHeads(p) /\ c \in 1..Len(headSets) /\ preps[p].phase = "prepared"
      /\ versions' \in [Groups -> [Versions -> Version]]
      /\ versions \in [Groups -> [Versions -> Version]]
  BY HeadsType, CommitFresh DEF IInv, TypeOK, Inventory, HeadsInv
<1>2. PICK g \in Groups, v \in Versions : g = preps[p].grp /\ v = preps[p].ver
  BY CommitFresh
<1>3. pointer' = c /\ headSets' = SwitchHeads(p) /\ preps[p].head = pointer
      /\ preps[p].st = inventory.st
  BY DEF Commit, CommitChecks, Fresh
<1>4. headSets[c].rows = TargetHeads(g, v)
  BY <1>1, <1>2, <1>3 DEF PrepHeads
<1>5. /\ Len(headSets') = Len(headSets)
      /\ \A i \in 1..Len(headSets) :
           /\ headSets'[i].rows = headSets[i].rows
           /\ headSets'[i].state = "active" <=> i = c
  <2>1. Len(headSets') = Len(headSets)
    BY CommitType
  <2>2. CASE c = pointer
    <3>1. headSets' = headSets
      BY <1>3, <2>2 DEF SwitchHeads
    <3> QED
      BY <2>1, <2>2, <3>1 DEF HeadsInv, OneActive
  <2>3. CASE c # pointer
    <3>1. headSets' = [i \in 1..Len(headSets) |->
             IF i = c THEN [headSets[i] EXCEPT !.state = "active"]
             ELSE IF i = pointer THEN [headSets[i] EXCEPT !.state = "retired"]
             ELSE headSets[i]]
      BY <1>3, <2>3 DEF SwitchHeads
    <3>2. ASSUME NEW i \in 1..Len(headSets)
          PROVE  /\ headSets'[i].rows = headSets[i].rows
                 /\ headSets'[i].state = "active" <=> i = c
      <4>1. headSets[i] \in HeadSet /\ (headSets[i].state = "active" <=> i = pointer)
        BY <1>1 DEF HeadsInv, OneActive
      <4>2. headSets'[i] = IF i = c THEN [headSets[i] EXCEPT !.state = "active"]
                           ELSE IF i = pointer THEN [headSets[i] EXCEPT !.state = "retired"]
                           ELSE headSets[i]
        BY <3>1
      <4> HIDE DEF c
      <4> QED
        BY <4>1, <4>2 DEF HeadSet
    <3> QED
      BY <2>1, <3>2
  <2> QED
    BY <2>2, <2>3
<1>6. Heads' = TargetHeads(g, v)
  <2>1. pointer' # 0 /\ headSets'[pointer'].rows = headSets[c].rows
    BY <1>1, <1>3, <1>5
  <2> QED
    BY <1>4, <2>1 DEF Heads
<1>7. OneActive'
  BY <1>3, <1>5 DEF OneActive
<1>8. /\ VersionsKept
      /\ \A h \in Groups, u \in Versions : versions'[h][u].value = versions[h][u].value
      /\ versions'[g][v].state = "active"
  BY <1>2, CommitKeepsVersions, CommitVersions
<1>9. ASSUME NEW h \in Groups PROVE HeadOk(h)'
  <2>1. HeadOk(h) /\ Heads \in [Groups -> HeadRow]
    BY HeadsType DEF HeadsInv
  <2>2. Heads'[h] = Heads[h] \/ (h = g /\ Heads'[h].ver = v)
    BY <1>6, <2>1 DEF TargetHeads
  <2>3. CASE Heads'[h] = Heads[h]
    BY <1>8, <2>1, <2>3 DEF HeadOk, VersionsKept
  <2>4. CASE h = g /\ Heads'[h].ver = v
    <3>1. v # 0
      BY ServingAssumption DEF Versions
    <3> QED
      BY <1>8, <2>4, <3>1 DEF HeadOk, CutOver
  <2> QED
    BY <2>2, <2>3, <2>4
<1>10. ASSUME NEW q \in Preparations PROVE PrepHeads(q)'
  <2>1. CASE q = p
    <3>1. preps'[q] = [NoPreparation EXCEPT !.phase = "committed"]
      BY <1>1, <2>1 DEF Commit
    <3>2. preps'[q].phase = "committed" /\ preps'[q].st = 0
      BY <3>1 DEF NoPreparation
    <3> QED
      BY <1>1, <3>2 DEF PrepHeads
  <2>2. CASE q # p
    <3>1. preps'[q] = preps[q] /\ PrepHeads(q) /\ PrepInv(q) /\ preps[q] \in Preparation
      BY <1>1, <2>2 DEF Commit, HeadsInv, IInv
    <3>2. PICK h, u : h = preps[q].grp /\ u = preps[q].ver
      OBVIOUS
    <3>3. preps[q].phase \in {"pointer", "prepared"} =>
            /\ h \in Groups /\ u \in Versions
            /\ versions[h][u].state \in Built /\ versions'[h][u].state \in Built
      BY <1>8, <3>1, <3>2 DEF PrepHeads, PrepInv, Preparation, VersionsKept
    <3>4. preps[q].st \in Nat /\ preps[q].st <= inventory.st
      BY <3>1 DEF PrepHeads, Preparation
    <3>5. inventory' = IF \/ activations' # activations \/ pointer' # pointer
                          \/ serving' # serving \/ channels' # channels \/ versions' # versions
                       THEN [inventory EXCEPT !.st = inventory.st + 1] ELSE inventory
      BY DEF Commit
    <3>6. inventory'.st = inventory.st \/ inventory'.st = inventory.st + 1
      BY <1>1, <3>5 DEF Inventory
    <3>7. ASSUME preps[q].phase = "prepared", preps[q].st = inventory'.st
          PROVE  headSets'[preps[q].cand].rows = TargetHeads(h, u)'
      <4>1. inventory'.st = inventory.st
        BY <1>1, <3>4, <3>6, <3>7
      <4>2. pointer' = pointer
        BY <1>1, <3>5, <4>1 DEF Inventory
      <4>3. Heads' = Heads
        BY <1>1, <1>3, <1>5, <4>2 DEF Heads
      <4>4. TargetHeads(h, u)' = TargetHeads(h, u)
        BY <1>8, <3>3, <3>7, <4>3, TargetKept
      <4>5. headSets[preps[q].cand].rows = TargetHeads(h, u)
            /\ preps[q].cand \in 1..Len(headSets)
        BY <3>1, <3>2, <3>7, <4>1 DEF PrepHeads, PrepInv
      <4> QED
        BY <1>5, <4>4, <4>5
    <3>8. h = preps'[q].grp /\ u = preps'[q].ver
      BY <3>1, <3>2
    <3>9. preps[q].st <= inventory'.st
      BY <1>1, <3>4, <3>6
    <3> QED
      BY <3>1, <3>3, <3>7, <3>8, <3>9 DEF PrepHeads
  <2> QED
    BY <2>1, <2>2
<1> QED
  BY <1>2, <1>6, <1>7, <1>9, <1>10 DEF HeadsInv

\* Every step keeps the heads and what is known of them, or is a commit.
LEMMA HeadsNext ==
  ASSUME IInv, IInv', HeadsInv, [Next]_vars
  PROVE  /\ HeadsInv'
         /\ \/ Heads' = Heads /\ VersionsKept
            \/ \E p \in Preparations : Commit(p)
<1>1. CASE UNCHANGED vars
  <2>1. UNCHANGED <<control, inventory, versions, headSets, pointer, preps>>
    BY <1>1 DEF vars
  <2>2. OneActive' /\ VersionsKept
    BY <2>1 DEF HeadsInv, OneActive, VersionsKept
  <2>3. inventory.st <= inventory'.st /\ Len(headSets) <= Len(headSets')
    BY <2>1, HeadsType DEF IInv, TypeOK, Inventory
  <2> QED
    BY <2>1, <2>2, <2>3, HeadsStep
<1>2. CASE BuildStep \/ ReleaseStep
  BY <1>2, QuietHeads
<1>3. CASE CutoverStep
  BY <1>3, PrepareReadsHeads, PrepareBuildHeads, CommitHeads DEF CutoverStep
<1> QED
  BY <1>1, <1>2, <1>3 DEF Next

\* What is known of the heads holds in every reachable state.
THEOREM HeadsInvariance == Spec => [](IInv /\ HeadsInv)
<1>1. Init => IInv /\ HeadsInv
  BY InitInv, InitHeads
<1>2. (IInv /\ HeadsInv) /\ [Next]_vars => (IInv /\ HeadsInv)'
  BY NextInv, HeadsNext
<1> QED
  BY <1>1, <1>2, PTL DEF Spec

\* The project points at its one active head set, and at no generation that was not
\* cut over to, however prepares and commits of several cutovers interleave.
THEOREM HeadsSafe == Spec => []HeadsCutOver
<1>1. IInv /\ HeadsInv => HeadsCutOver
  BY DEF HeadsInv, OneActive, HeadOk, HeadsCutOver, CutOver
<1> QED
  BY <1>1, HeadsInvariance, PTL

\* A head version counts the changes of its object's value: a commit updates it from
\* the heads and values current when it runs, not from those its prepare read.
THEOREM HeadVersionsSafe == Spec => HeadVersionsCountChanges
<1> DEFINE Counted(g) ==
      IF Heads[g].ver = 0 THEN Heads'[g] = NoHead \/ Heads'[g].hv = 1
      ELSE /\ Heads'[g].ver # 0
           /\ Heads'[g].hv =
                IF versions[g][Heads[g].ver].value = versions'[g][Heads'[g].ver].value
                THEN Heads[g].hv ELSE Heads[g].hv + 1
<1>1. ASSUME IInv /\ HeadsInv, Next, NEW g \in Groups
      PROVE  Counted(g)
  <2>1. /\ IInv' /\ HeadsInv' /\ HeadOk(g) /\ Heads \in [Groups -> HeadRow]
        /\ \/ Heads' = Heads /\ VersionsKept
           \/ \E p \in Preparations : Commit(p)
    BY <1>1, NextInv, HeadsNext, HeadsType DEF HeadsInv
  <2>2. CASE Heads' = Heads /\ VersionsKept
    BY <2>1, <2>2 DEF HeadOk, VersionsKept, CutOver, Built
  <2>3. ASSUME NEW p \in Preparations, Commit(p) PROVE Counted(g)
    <3>1. PICK h \in Groups, v \in Versions : h = preps[p].grp /\ v = preps[p].ver
      BY <1>1, <2>3, CommitFresh
    <3>2. Heads' = TargetHeads(h, v)
      BY <1>1, <2>1, <2>3, <3>1, CommitHeads
    <3>3. \A k \in Groups, u \in Versions : versions'[k][u].value = versions[k][u].value
      BY <1>1, <2>3, CommitKeepsVersions
    <3>4. CASE Heads'[g] = Heads[g]
      BY <2>1, <3>3, <3>4 DEF HeadOk
    <3>5. CASE /\ g = h /\ Heads'[g].ver = v
               /\ Heads'[g].hv = IF /\ Heads[g].ver # 0
                                    /\ versions[g][Heads[g].ver].value = versions[g][v].value
                                 THEN Heads[g].hv ELSE Heads[g].hv + 1
      <4>1. v # 0
        BY ServingAssumption DEF Versions
      <4> QED
        BY <2>1, <3>3, <3>5, <4>1 DEF HeadOk, NoHead
    <3> QED
      BY <2>1, <3>2, <3>4, <3>5 DEF TargetHeads
  <2> QED
    BY <2>1, <2>2, <2>3
<1>2. (IInv /\ HeadsInv) /\ [Next]_vars =>
        [\A g \in Groups :
           LET old == Heads[g]
               new == Heads'[g]
           IN IF old.ver = 0 THEN new = NoHead \/ new.hv = 1
              ELSE /\ new.ver # 0
                   /\ new.hv = IF versions[g][old.ver].value = versions'[g][new.ver].value
                               THEN old.hv ELSE old.hv + 1]_vars
  BY <1>1
<1> QED
  BY <1>2, HeadsInvariance, PTL DEF Spec, HeadVersionsCountChanges

=============================================================================
