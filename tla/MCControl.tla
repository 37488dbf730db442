------------------------------ MODULE MCControl ------------------------------
(***************************************************************************)
(* Who publishes what, side by side: revisions, releases and packages of   *)
(* the metadata control plane, compatibility, cutover and administration   *)
(* requests, the prototypes of the control plane and of activation, and    *)
(* what delivers, leases and locks: jobs of several projects, outbox,      *)
(* durable jobs, handler hosts and the locks of control transactions.      *)
(* Each behaviour runs one component; they share the run and none of their *)
(* steps.                                                                  *)
(***************************************************************************)
EXTENDS Integers, Sequences, FiniteSets, TLC

CONSTANT None

\* The variables are those of the component that runs, in the order of its
\* module; it leaves the rest at None.
VARIABLES component, x1, x2, x3, x4, x5, x6, x7, x8, x9, x10, x11, x12, x13, x14

vars == <<component, x1, x2, x3, x4, x5, x6, x7, x8, x9, x10, x11, x12, x13, x14>>

-----------------------------------------------------------------------------
\* An object type with two revisions, a link type that refers to the first,
\* and a mapping.  Package P holds the object type; Q the mapping; R claims the
\* object type, too, and P3 lists two revisions of it.
MrRevisions == {"o1", "o2", "l1", "m1"}
MrResourceOf == [o1 |-> "obj", o2 |-> "obj", l1 |-> "link", m1 |-> "map"]
MrDependsOn == [v \in MrRevisions |-> IF v = "l1" THEN {"o1"} ELSE {}]
MrPackageOf == [P1 |-> "P", P2 |-> "P", P3 |-> "P", Q1 |-> "Q", R1 |-> "R"]
MrEntries == [P1 |-> {"o1"}, P2 |-> {"o2"}, P3 |-> {"o1", "o2"}, Q1 |-> {"m1"}, R1 |-> {"o1", "m1"}]

\* Plain releases and rollbacks on two channels while resources are retired.

Mr == INSTANCE MetadataRelease WITH
  Resources <- {"obj", "link", "map"}, Revisions <- MrRevisions, ResourceOf <- MrResourceOf,
  DependsOn <- MrDependsOn, Compatible <- {<<"o1", "o2">>}, DataBearing <- {"m1"},
  Packages <- {}, PackageRevs <- {}, PackageOf <- MrPackageOf, Entries <- MrEntries,
  Channels <- {"main", "next"}, Keys <- {},
  Selections <- {{"o1"}, {"o1", "l1"}, {"o2", "m1"}}, Existing <- MrRevisions,
  Editable <- {"obj"}, MaxReleases <- 2, NULL <- None, resState <- x1, revState <- x2,
  latest <- x3, release <- x4, channel <- x5, pubSeq <- x6, inst <- x7, changes <- x8,
  answer <- x9

-----------------------------------------------------------------------------
\* Three packages on one channel: installed, upgraded, rolled back, with
\* requests repeated.

Mp == INSTANCE MetadataRelease WITH
  Resources <- {"obj", "link", "map"}, Revisions <- MrRevisions, ResourceOf <- MrResourceOf,
  DependsOn <- MrDependsOn, Compatible <- {<<"o1", "o2">>, <<"o2", "o1">>},
  DataBearing <- {"m1"}, Packages <- {"P", "Q", "R"}, PackageRevs <- DOMAIN MrPackageOf,
  PackageOf <- MrPackageOf, Entries <- MrEntries, Channels <- {"main"},
  Keys <- {"k1", "k2"}, Selections <- {}, Existing <- {}, Editable <- {}, MaxReleases <- 3,
  NULL <- None, resState <- x1, revState <- x2, latest <- x3, release <- x4, channel <- x5,
  pubSeq <- x6, inst <- x7, changes <- x8, answer <- x9

-----------------------------------------------------------------------------
\* Revisions of an object type, a link type and a policy, validated and
\* retired in any order.
RrFamilyOf == [obj |-> "object", link |-> "link", pol |-> "policy"]

Rr == INSTANCE ResourceRevision WITH
  Principals <- {"alice"}, Owner <- "alice", Resources <- {"obj", "link"},
  FamilyOf <- RrFamilyOf, Tags <- {"t1", "bad"}, BadTags <- {"bad"},
  Ops <- {"create", "child", "validate", "retire", "retireResource"}, Roles <- {"editor"},
  MaxRevisions <- 3, MaxEtag <- 2, MaxEpoch <- 2, NULL <- None, project <- x1, epoch <- x2,
  role <- x3, resState <- x4, rev <- x5, seen <- x6, call <- x7

-----------------------------------------------------------------------------
\* Two authors read, patch and validate the same drafts.

Rd == INSTANCE ResourceRevision WITH
  Principals <- {"alice", "bob"}, Owner <- "alice", Resources <- {"obj"},
  FamilyOf <- RrFamilyOf, Tags <- {"t1", "t2"}, BadTags <- {"bad"},
  Ops <- {"create", "patch", "validate", "role"}, Roles <- {"editor"}, MaxRevisions <- 1,
  MaxEtag <- 3, MaxEpoch <- 2, NULL <- None, project <- x1, epoch <- x2, role <- x3,
  resState <- x4, rev <- x5, seen <- x6, call <- x7

-----------------------------------------------------------------------------
\* Two owners change each other's roles and archive the project.

Ro == INSTANCE ResourceRevision WITH
  Principals <- {"alice", "bob"}, Owner <- "alice", Resources <- {"obj"},
  FamilyOf <- RrFamilyOf, Tags <- {"t1"}, BadTags <- {"bad"},
  Ops <- {"create", "validate", "role", "archiveProject"},
  Roles <- {"owner", "editor", "viewer"}, MaxRevisions <- 1, MaxEtag <- 2, MaxEpoch <- 4,
  NULL <- None, project <- x1, epoch <- x2, role <- x3, resState <- x4, rev <- x5,
  seen <- x6, call <- x7

-----------------------------------------------------------------------------
\* Object types with a key and one more property, and packages of an object
\* type with three revisions, a link type and a mapping.
TcProperty(type, nullable, caps) ==
  [type |-> type, nullable |-> nullable, caps |-> caps, text |-> "t", writeMode |-> "source_only",
   caseSensitive |-> TRUE, classification |-> "internal", values |-> {}, precision |-> 0, scale |-> 0,
   paths |-> {}]
TcDecimal(p, s, nullable, caps) == [TcProperty("decimal", nullable, caps) EXCEPT !.precision = p, !.scale = s]
TcEnum(values, nullable) == [TcProperty("enum", nullable, {}) EXCEPT !.values = values]

TcKeyProperties ==
  {TcProperty("string", FALSE, {"unique"}), TcDecimal(2, 1, FALSE, {"unique"}), TcDecimal(3, 2, FALSE, {"unique"})}

TcOthers ==
  {TcDecimal(p, s, n, {}) : p \in {2, 3}, s \in {1, 2}, n \in BOOLEAN}
    \cup {TcDecimal(2, 1, TRUE, {"filterable"}), TcProperty("string", TRUE, {"searchable"}),
          TcProperty("string", TRUE, {}), TcProperty("json", TRUE, {"filterable"}),
          [TcProperty("json", TRUE, {"filterable"}) EXCEPT !.paths = {"x"}],
          [TcProperty("json", TRUE, {"filterable"}) EXCEPT !.paths = {"x", "y"}],
          [TcProperty("string", TRUE, {}) EXCEPT !.caseSensitive = FALSE],
          [TcProperty("string", TRUE, {}) EXCEPT !.writeMode = "overlay_only"],
          [TcProperty("string", TRUE, {}) EXCEPT !.classification = "restricted"],
          [TcProperty("string", TRUE, {}) EXCEPT !.text = "u"]}
    \cup {TcEnum(v, n) : v \in {{"a"}, {"a", "b"}}, n \in BOOLEAN}

TcObject(properties, key, title) ==
  [apiName |-> "o", text |-> "t", key |-> key, title |-> title, defaults |-> "d", properties |-> properties]

TcObjectTypes ==
  {TcObject([id |-> k], "id", "id") : k \in TcKeyProperties}
    \cup {TcObject([id |-> k, p |-> o], "id", "p") : k \in TcKeyProperties, o \in TcOthers}
    \cup {TcObject([id |-> TcProperty("string", FALSE, {"unique"}), p |-> TcDecimal(2, 1, FALSE, {"unique"})], "p", "id"),
          TcObject([id |-> TcProperty("string", FALSE, {})], "id", "id")}

TcSmall(o) == TcObject([id |-> TcProperty("string", FALSE, {"unique"}), p |-> o], "id", "id")
TcEnd(type) == [type |-> type, apiName |-> "e", text |-> "t"]
TcLinkType(source, cardinality) ==
  [apiName |-> "l", text |-> "t", source |-> TcEnd(source), target |-> TcEnd(source),
   cardinality |-> cardinality, behaviour |-> "detach"]
TcLink(definition) == [resource |-> "l", family |-> "link_type", definition |-> definition]
TcRule(scope, effect) == [scope |-> scope, effect |-> effect, shown |-> "s"]
TcPolicy(rules) == [resource |-> "p", family |-> "policy", definition |-> [object |-> "o1", rules |-> rules]]
TcRevisions ==
  [o1 |-> [resource |-> "o", family |-> "object_type", definition |-> TcSmall(TcEnum({"a"}, FALSE))],
   o2 |-> [resource |-> "o", family |-> "object_type", definition |-> TcSmall(TcEnum({"a", "b"}, FALSE))],
   o3 |-> [resource |-> "o", family |-> "object_type", definition |-> TcSmall(TcEnum({"b"}, TRUE))],
   x1 |-> [resource |-> "x", family |-> "object_type", definition |-> TcSmall(TcEnum({"a"}, FALSE))],
   l1 |-> TcLink(TcLinkType("o1", "one_to_many")),
   l2 |-> TcLink(TcLinkType("o2", "one_to_many")),
   l3 |-> TcLink(TcLinkType("x1", "one_to_many")),
   l4 |-> TcLink(TcLinkType("o2", "many_to_many")),
   l5 |-> TcLink([TcLinkType("o2", "one_to_many") EXCEPT !.source.text = "u"]),
   l6 |-> TcLink([TcLinkType("o2", "one_to_many") EXCEPT !.source.apiName = "f"]),
   l7 |-> TcLink([TcLinkType("o2", "one_to_many") EXCEPT !.apiName = "k"]),
   p1 |-> TcPolicy([a |-> TcRule("s", "allow"), b |-> TcRule("t", "allow"), d |-> TcRule("t", "deny")]),
   p2 |-> TcPolicy([a |-> TcRule("s", "allow"), d |-> TcRule("t", "deny")]),
   p3 |-> TcPolicy([a |-> TcRule("s", "mask"), d |-> TcRule("t", "deny")]),
   p4 |-> TcPolicy([d |-> TcRule("t", "deny")]),
   p5 |-> TcPolicy([a |-> TcRule("t", "deny"), d |-> TcRule("t", "deny")]),
   p6 |-> TcPolicy([a |-> TcRule("s", "allow"), b |-> TcRule("t", "allow")]),
   p7 |-> TcPolicy([a |-> TcRule("t", "allow"), d |-> TcRule("t", "deny")]),
   s1 |-> [resource |-> "s", family |-> "snapshot_schema", definition |-> [body |-> 1]],
   s2 |-> [resource |-> "s", family |-> "snapshot_schema", definition |-> [body |-> 2]],
   f1 |-> [resource |-> "f", family |-> "function", definition |-> [body |-> 1]],
   m1 |-> [resource |-> "m", family |-> "mapping", definition |-> [body |-> 1]],
   m2 |-> [resource |-> "m", family |-> "mapping", definition |-> [body |-> 2]]]

\* Up to three of the first revisions, or an object type with one other.
TcPinSets ==
  {s \in SUBSET {"o1", "o2", "o3", "x1", "l1", "l2", "l3", "l4", "f1", "m1", "m2"} :
     /\ Cardinality(s) \in 1..3
     /\ Cardinality({TcRevisions[r].resource : r \in s}) = Cardinality(s)}
    \cup {{"o2", r} : r \in {"l5", "l6", "l7", "s1", "s2"}}
    \cup {{"o1", r} : r \in {"p1", "p2", "p3", "p4", "p5", "p6", "p7"}}
TcInputs == UNION {[d -> BOOLEAN] : d \in SUBSET {"i", "j"}}

TcManifest(pins, inputs) ==
  [apiName |-> "p", namespace |-> "n", kernel |-> 1, inputs |-> inputs, artifacts |-> 1, pins |-> pins, entries |-> pins]
TcPackages ==
  {TcManifest(s, <<>>) : s \in TcPinSets} \cup {TcManifest({"o1"}, i) : i \in TcInputs}
    \cup {[TcManifest({"o1"}, <<>>) EXCEPT !.entries = {"o2"}], [TcManifest({"o1"}, <<>>) EXCEPT !.artifacts = 2],
          [TcManifest({"o1"}, <<>>) EXCEPT !.namespace = "q"], [TcManifest({"o1"}, <<>>) EXCEPT !.kernel = 2]}

Tc == INSTANCE TypeCompatibility WITH
  Objects <- TcObjectTypes, Content <- TcRevisions, Manifests <- TcPackages,
  Numbers <- {10, 100, 110, 111, 990, 999, 1000, 1010, 9990}, kind <- x1, origin <- x2,
  current <- x3

-----------------------------------------------------------------------------
\* Two releases of one project and one of another, an activation that fits
\* each, one with members and one of a stale digest, and an installation with
\* two changes.
CpRelease == [r1 |-> [project |-> "p1", digest |-> 1], r2 |-> [project |-> "p1", digest |-> 2],
              r4 |-> [project |-> "p2", digest |-> 4]]
CpActivation == [a1 |-> [release |-> "r1", digest |-> 1, members |-> {}],
                 a2 |-> [release |-> "r2", digest |-> 2, members |-> {}],
                 a4 |-> [release |-> "r4", digest |-> 4, members |-> {}],
                 a5 |-> [release |-> "r1", digest |-> 1, members |-> {"m"}],
                 a6 |-> [release |-> "r2", digest |-> 1, members |-> {}]]
CpChange == [c1 |-> [installation |-> "i1", package |-> "v1", release |-> "r1"],
             c2 |-> [installation |-> "i1", package |-> "v2", release |-> "r2"]]
CpInstallation == [i1 |-> [project |-> "p1"]]
CpNoBinding == [b \in {} |-> None]

Cp == INSTANCE ControlPlaneModel WITH
  Projects <- {"p1", "p2"}, Channels <- {"stable", "beta"}, Release <- CpRelease,
  Activation <- CpActivation, Change <- CpChange, Installation <- CpInstallation,
  Binding <- CpNoBinding, state <- x1, torn <- x2, last <- x3

-----------------------------------------------------------------------------
\* One release and bindings that give a principal two project roles, a role on
\* a resource, and a second row with the key of the first.
CpOneRelease == [r1 |-> [project |-> "p1", digest |-> 1]]
CpOneActivation == [a1 |-> [release |-> "r1", digest |-> 1, members |-> {}]]
CpNoChange == [c \in {} |-> None]
CpBinding ==
  [b1 |-> [project |-> "p1", principal |-> "u", resource |-> None, role |-> "VIEWER"],
   b2 |-> [project |-> "p1", principal |-> "u", resource |-> None, role |-> "OWNER"],
   b3 |-> [project |-> "p1", principal |-> "u", resource |-> "x", role |-> "EDITOR"],
   b4 |-> [project |-> "p1", principal |-> "u", resource |-> None, role |-> "VIEWER"],
   b5 |-> [project |-> "p2", principal |-> "u", resource |-> None, role |-> "OWNER"]]

Cb == INSTANCE ControlPlaneModel WITH
  Projects <- {"p1", "p2"}, Channels <- {"stable"}, Release <- CpOneRelease,
  Activation <- CpOneActivation, Change <- CpNoChange, Installation <- CpNoChange,
  Binding <- CpBinding, state <- x1, torn <- x2, last <- x3

-----------------------------------------------------------------------------
\* Two callers, two keys, one group with a newer version.

Cr == INSTANCE CutoverRequests WITH
  Callers <- {"c1", "c2"}, Keys <- {"k1", "k2"}, Groups <- {"g1"}, NVersions <- 1,
  MaxSends <- 3, MaxRevision <- 1, control <- x1, state <- x2, inventory <- x3,
  active <- x4, published <- x5, preps <- x6, lock <- x7, caller <- x8, sends <- x9,
  answers <- x10, effects <- x11

-----------------------------------------------------------------------------
\* Releases, two versions of one snapshot group, generations of them and
\* activations of which some mix them.
RaReleases == {"r1", "r2", "r3"}
RaSnapshots == {"s1", "s2"}
RaGenerations == {"g1", "g2", "g3", "g4", "h1", "h2"}
RaActivations == {"a1", "a2", "b1", "b2", "c1"}
\* One member m, generations of two versions, a release of its own pin.
RaPinsOne == [r \in RaReleases |-> ("m" :> [group |-> "k", print |-> IF r = "r1" THEN "p1" ELSE "p2"])]
RaSnapshotsTwo == [s \in RaSnapshots |-> [group |-> "k", version |-> IF s = "s1" THEN 1 ELSE 2]]
RaGenOne(s, b, c, cert, o) ==
  [member |-> "m", snapshot |-> s, build |-> b, compatible |-> c, certified |-> cert, order |-> o]
RaGenerationsOne ==
  [g \in RaGenerations |-> CASE g = "g1" -> RaGenOne("s1", "r1", {}, {}, 1)
                           [] g = "g2" -> RaGenOne("s2", "r1", {"r2"}, {"r2"}, 2)
                           [] OTHER -> RaGenOne("s2", "r2", {}, {}, 3)]
RaActOne(r, g, s) == [release |-> r, members |-> ("m" :> [generation |-> g, snapshot |-> s])]
RaActivationsOne ==
  [a \in RaActivations |-> CASE a = "a1" -> RaActOne("r1", "g1", "s1")
                           [] a = "a2" -> RaActOne("r1", "g2", "s2")
                           [] a = "b1" -> RaActOne("r2", "g2", "s2")
                           [] OTHER -> RaActOne("r2", "g1", "s1")]
\* The same generations where the first release is alone.
RaGenerationsLeases ==
  [g \in RaGenerations |-> IF g = "g1" THEN RaGenOne("s1", "r1", {}, {}, 1)
                         ELSE RaGenOne("s2", "r1", {}, {}, 2)]
\* Three releases, each with a generation of its own, and one more of r2.
RaGenerationsThree ==
  [g \in RaGenerations |-> CASE g = "g1" -> RaGenOne("s1", "r1", {}, {}, 1)
                           [] g = "g2" -> RaGenOne("s1", "r2", {}, {}, 2)
                           [] g = "g3" -> RaGenOne("s1", "r3", {}, {}, 3)
                           [] OTHER -> RaGenOne("s1", "r2", {}, {}, 4)]
RaActivationsThree ==
  [a \in RaActivations |-> CASE a = "a1" -> RaActOne("r1", "g1", "s1")
                           [] a = "b1" -> RaActOne("r2", "g2", "s1")
                           [] OTHER -> RaActOne("r3", "g3", "s1")]
RaNoRollback == [r \in RaReleases |-> None]
RaRollbackSecond == [r \in RaReleases |-> IF r = "r2" THEN "r1" ELSE None]

\* Two members of one group: g1 and h1 at version 1, h2 at version 2; b1
\* binds a generation that is not certified for its release.
RaPinsTwo ==
  [r \in RaReleases |-> ("m" :> [group |-> "k", print |-> IF r = "r1" THEN "p1" ELSE "p2"])
                   @@ ("n" :> [group |-> "k", print |-> "q"])]
RaGenTwo(m, s, o) == [member |-> m, snapshot |-> s, build |-> "r1", compatible |-> {},
                    certified |-> {}, order |-> o]
RaGenerationsTwo ==
  [g \in RaGenerations |-> CASE g = "g1" -> RaGenTwo("m", "s1", 1)
                           [] g = "h1" -> RaGenTwo("n", "s1", 2)
                           [] OTHER -> RaGenTwo("n", "s2", 3)]
RaActTwo(r, g, s, h, t) ==
  [release |-> r, members |-> ("m" :> [generation |-> g, snapshot |-> s])
                           @@ ("n" :> [generation |-> h, snapshot |-> t])]
RaActivationsTwo ==
  [a \in RaActivations |-> CASE a = "a1" -> RaActTwo("r1", "g1", "s1", "h1", "s1")
                           [] a = "a2" -> RaActTwo("r1", "g1", "s1", "h2", "s2")
                           [] OTHER -> RaActTwo("r2", "g1", "s1", "h1", "s1")]
RaNoIds == [releases |-> {}, activations |-> {}, generations |-> {}, snapshots |-> {}]
RaReferences ==
  {[RaNoIds EXCEPT !.generations = {"g1"}], [RaNoIds EXCEPT !.snapshots = {"s1"}],
   [RaNoIds EXCEPT !.activations = {"a1"}]}

\* Two releases, the second a rollback of the first, published and retired.

Ra == INSTANCE RuntimeActivation WITH
  Releases <- {"r1", "r2"}, Snapshots <- {"s1"}, Generations <- {"g1", "g2", "g4"},
  Activations <- {"a1", "b1"}, Channels <- {"c"}, Queries <- {}, Tokens <- {},
  Pinners <- {}, Approvals <- {}, Pins <- RaPinsOne, RollbackOf <- RaRollbackSecond,
  SnapshotOf <- RaSnapshotsTwo, GenerationOf <- RaGenerationsThree,
  ActivationOf <- RaActivationsThree, Holdable <- {}, NormalReleases <- 2,
  HardReleases <- 3, NormalGenerations <- 2, HardGenerations <- 3, Support <- 1,
  Retention <- 1, RetainCount <- 1, MaxLease <- 2, MaxApproval <- 2, MaxTime <- 2,
  now <- x1, releases <- x2, snapshots <- x3, generations <- x4, activations <- x5,
  heads <- x6, channels <- x7, queries <- x8, tokens <- x9, pinners <- x10,
  approvals <- x11, seen <- x12, plan <- x13, served <- x14

-----------------------------------------------------------------------------
\* A query while heads move and generations are collected.

Rl == INSTANCE RuntimeActivation WITH
  Releases <- {"r1"}, Snapshots <- {"s1", "s2"}, Generations <- {"g1", "g2"},
  Activations <- {"a1", "a2"}, Channels <- {"c"}, Queries <- {"q"}, Tokens <- {},
  Pinners <- {}, Approvals <- {}, Pins <- RaPinsOne, RollbackOf <- RaNoRollback,
  SnapshotOf <- RaSnapshotsTwo, GenerationOf <- RaGenerationsLeases,
  ActivationOf <- RaActivationsOne, Holdable <- {}, NormalReleases <- 2, HardReleases <- 3,
  NormalGenerations <- 2, HardGenerations <- 3, Support <- 1, Retention <- 1,
  RetainCount <- 1, MaxLease <- 2, MaxApproval <- 2, MaxTime <- 2, now <- x1,
  releases <- x2, snapshots <- x3, generations <- x4, activations <- x5, heads <- x6,
  channels <- x7, queries <- x8, tokens <- x9, pinners <- x10, approvals <- x11,
  seen <- x12, plan <- x13, served <- x14

-----------------------------------------------------------------------------
\* A preflight token while heads move.

Rt == INSTANCE RuntimeActivation WITH
  Releases <- {"r1"}, Snapshots <- {"s1", "s2"}, Generations <- {"g1", "g2"},
  Activations <- {"a1", "a2"}, Channels <- {"c"}, Queries <- {}, Tokens <- {"t"},
  Pinners <- {}, Approvals <- {}, Pins <- RaPinsOne, RollbackOf <- RaNoRollback,
  SnapshotOf <- RaSnapshotsTwo, GenerationOf <- RaGenerationsLeases,
  ActivationOf <- RaActivationsOne, Holdable <- {}, NormalReleases <- 2, HardReleases <- 3,
  NormalGenerations <- 1, HardGenerations <- 2, Support <- 1, Retention <- 3,
  RetainCount <- 1, MaxLease <- 2, MaxApproval <- 2, MaxTime <- 1, now <- x1,
  releases <- x2, snapshots <- x3, generations <- x4, activations <- x5, heads <- x6,
  channels <- x7, queries <- x8, tokens <- x9, pinners <- x10, approvals <- x11,
  seen <- x12, plan <- x13, served <- x14

-----------------------------------------------------------------------------
\* Two holds on what is served.

Rh == INSTANCE RuntimeActivation WITH
  Releases <- {"r1"}, Snapshots <- {"s1"}, Generations <- {"g1"}, Activations <- {"a1"},
  Channels <- {"c"}, Queries <- {}, Tokens <- {}, Pinners <- {"p1", "p2"}, Approvals <- {},
  Pins <- RaPinsOne, RollbackOf <- RaNoRollback, SnapshotOf <- RaSnapshotsTwo,
  GenerationOf <- RaGenerationsOne, ActivationOf <- RaActivationsOne,
  Holdable <- RaReferences, NormalReleases <- 2, HardReleases <- 3, NormalGenerations <- 2,
  HardGenerations <- 3, Support <- 1, Retention <- 1, RetainCount <- 1, MaxLease <- 2,
  MaxApproval <- 2, MaxTime <- 2, now <- x1, releases <- x2, snapshots <- x3,
  generations <- x4, activations <- x5, heads <- x6, channels <- x7, queries <- x8,
  tokens <- x9, pinners <- x10, approvals <- x11, seen <- x12, plan <- x13, served <- x14

-----------------------------------------------------------------------------
\* Three releases of which one is served normally and two at most.

Rc == INSTANCE RuntimeActivation WITH
  Releases <- {"r1", "r2", "r3"}, Snapshots <- {"s1"}, Generations <- {"g1", "g2", "g3"},
  Activations <- {"a1", "b1", "c1"}, Channels <- {"c"}, Queries <- {}, Tokens <- {},
  Pinners <- {}, Approvals <- {"x"}, Pins <- RaPinsOne, RollbackOf <- RaNoRollback,
  SnapshotOf <- RaSnapshotsTwo, GenerationOf <- RaGenerationsThree,
  ActivationOf <- RaActivationsThree, Holdable <- {}, NormalReleases <- 1,
  HardReleases <- 2, NormalGenerations <- 1, HardGenerations <- 2, Support <- 1,
  Retention <- 3, RetainCount <- 1, MaxLease <- 2, MaxApproval <- 2, MaxTime <- 1,
  now <- x1, releases <- x2, snapshots <- x3, generations <- x4, activations <- x5,
  heads <- x6, channels <- x7, queries <- x8, tokens <- x9, pinners <- x10,
  approvals <- x11, seen <- x12, plan <- x13, served <- x14

-----------------------------------------------------------------------------
\* Two members of one snapshot group at two versions.

Rg == INSTANCE RuntimeActivation WITH
  Releases <- {"r1", "r2"}, Snapshots <- {"s1", "s2"}, Generations <- {"g1", "h1", "h2"},
  Activations <- {"a1", "a2", "b1"}, Channels <- {"c"}, Queries <- {}, Tokens <- {},
  Pinners <- {}, Approvals <- {}, Pins <- RaPinsTwo, RollbackOf <- RaNoRollback,
  SnapshotOf <- RaSnapshotsTwo, GenerationOf <- RaGenerationsTwo,
  ActivationOf <- RaActivationsTwo, Holdable <- {}, NormalReleases <- 2, HardReleases <- 3,
  NormalGenerations <- 2, HardGenerations <- 3, Support <- 1, Retention <- 1,
  RetainCount <- 1, MaxLease <- 2, MaxApproval <- 2, MaxTime <- 1, now <- x1,
  releases <- x2, snapshots <- x3, generations <- x4, activations <- x5, heads <- x6,
  channels <- x7, queries <- x8, tokens <- x9, pinners <- x10, approvals <- x11,
  seen <- x12, plan <- x13, served <- x14

-----------------------------------------------------------------------------
\* Two requests that start, read and cancel jobs.

Aj == INSTANCE AdminRequests WITH
  Slots <- {"s1", "s2"}, Operations <- {"startJob", "getJob", "cancelJob"}, Keys <- {"k1"},
  Groups <- {"g1", "g2"}, Limits <- {1}, MaxSends <- 3, MaxVersion <- 2, MaxRevision <- 1,
  MaxBatches <- 1, jobs <- x1, inventory <- x2, approvals <- x3, plans <- x4, role <- x5,
  req <- x6, view <- x7, sends <- x8, done <- x9

-----------------------------------------------------------------------------
\* Two requests that approve capacity and collect.

Ac == INSTANCE AdminRequests WITH
  Slots <- {"s1", "s2"},
  Operations <- {"getCapacityStatus", "approveCapacity", "dryRun", "commit"},
  Keys <- {"k1"}, Groups <- {"g1", "g2"}, Limits <- {1}, MaxSends <- 3, MaxVersion <- 1,
  MaxRevision <- 2, MaxBatches <- 1, jobs <- x1, inventory <- x2, approvals <- x3,
  plans <- x4, role <- x5, req <- x6, view <- x7, sends <- x8, done <- x9

-----------------------------------------------------------------------------
\* Two events of one transaction in order on one stream, or of two that may
\* arrive in either order.
ObEntry(t, q, o) == [tx |-> t, stream |-> "s", sequence |-> q, ordinal |-> o, action |-> t]
ObBatch == [e1 |-> ObEntry("t1", 1, 0), e2 |-> ObEntry("t1", 1, 1)]
ObApart == [e1 |-> ObEntry("t1", 1, 0), e2 |-> ObEntry("t2", 2, 0)]

Ob == INSTANCE Outbox WITH
  Events <- {"e1", "e2"}, Workers <- {"w1", "w2"}, Transactions <- {"t1"},
  EventOf <- ObBatch, Digests <- {"d1"}, MaximumAttempts <- 2, InitialBackoff <- 1,
  MaximumBackoff <- 1, LeaseDuration <- 1, MaxReplays <- 0, events <- x1, attempts <- x2,
  transactions <- x3, holding <- x4, sent <- x5, acked <- x6, applied <- x7

-----------------------------------------------------------------------------
Or == INSTANCE Outbox WITH
  Events <- {"e1", "e2"}, Workers <- {"w1"}, Transactions <- {"t1", "t2"},
  EventOf <- ObApart, Digests <- {"d1", "d2"}, MaximumAttempts <- 1, InitialBackoff <- 1,
  MaximumBackoff <- 1, LeaseDuration <- 1, MaxReplays <- 1, events <- x1, attempts <- x2,
  transactions <- x3, holding <- x4, sent <- x5, acked <- x6, applied <- x7

-----------------------------------------------------------------------------
\* One job that is retried and replayed; two jobs of one key; two priorities.

Dj == INSTANCE DurableJob WITH
  Jobs <- {"j1"}, Workers <- {"w1", "w2"}, Priority <- [j1 |-> 1], KeyOf <- [j1 |-> "k"],
  Inputs <- {"i1"}, MaximumAttempts <- 2, Backoff <- 1, LeaseDuration <- 1, MaxReplays <- 1,
  MaxSequence <- 2, jobs <- x1, attempts <- x2, checkpoints <- x3, index <- x4,
  holding <- x5, results <- x6

-----------------------------------------------------------------------------
Dk == INSTANCE DurableJob WITH
  Jobs <- {"j1", "j2"}, Workers <- {"w1"}, Priority <- [j1 |-> 1, j2 |-> 2],
  KeyOf <- [j1 |-> "k", j2 |-> "k"], Inputs <- {"i1", "i2"}, MaximumAttempts <- 1,
  Backoff <- 1, LeaseDuration <- 1, MaxReplays <- 0, MaxSequence <- 1, jobs <- x1,
  attempts <- x2, checkpoints <- x3, index <- x4, holding <- x5, results <- x6

-----------------------------------------------------------------------------
Dp == INSTANCE DurableJob WITH
  Jobs <- {"j1", "j2"}, Workers <- {"w1"}, Priority <- [j1 |-> 1, j2 |-> 2],
  KeyOf <- [j1 |-> "k", j2 |-> "l"], Inputs <- {"i1"}, MaximumAttempts <- 1, Backoff <- 1,
  LeaseDuration <- 1, MaxReplays <- 0, MaxSequence <- 1, jobs <- x1, attempts <- x2,
  checkpoints <- x3, index <- x4, holding <- x5, results <- x6

-----------------------------------------------------------------------------
\* A pool of one, with room for the killed host of a failed start.

Hh == INSTANCE HandlerHost WITH
  Slots <- {"h1", "h2"}, Size <- 1, Requests <- {"r1", "r2"}, Garbage <- "garbage",
  pool <- x1, launching <- x2, fatal <- x3, queue <- x4, hosts <- x5, req <- x6

-----------------------------------------------------------------------------
\* Materialization jobs of two projects, two workers, one attempt each; the
\* activating stage alone.
MjJobs == {"j1", "j2", "j3"}

Mj == INSTANCE MaterializationJob WITH
  Jobs <- MjJobs, Workers <- {"w1", "w2"}, Projects <- {"p1", "p2"},
  ProjectOf <- [j \in MjJobs |-> IF j = "j3" THEN "p2" ELSE "p1"],
  Outputs <- {"o1"}, NStages <- 1, MaxAttempts <- 1, LeaseTicks <- 1, MaxReplays <- 0,
  jobs <- x1, attempts <- x2, checkpoints <- x3, dataBearing <- x4, workers <- x5

-----------------------------------------------------------------------------
\* The control transactions that keep to one order of locks.

Lk == INSTANCE ControlLocks WITH
  Transactions <- {"publish", "stage", "package", "role", "draft", "cutover"}, MaxRuns <- 1,
  NULL <- None, held <- x1, pc <- x2, sawOwner <- x3, isOwner <- x4, runs <- x5

-----------------------------------------------------------------------------
\* The same beside those that begin with the epoch or the advisory lock.

Lg == INSTANCE ControlLocks WITH
  Transactions <- {"publish", "role", "cutover", "archive", "collect", "lease", "retire"},
  MaxRuns <- 1,
  NULL <- None, held <- x1, pc <- x2, sawOwner <- x3, isOwner <- x4, runs <- x5

-----------------------------------------------------------------------------
\* Edits of two resources beside all that locks both.

Ld == INSTANCE ControlLocks WITH
  Transactions <- {"publish", "create", "package", "validate", "draft", "target"}, MaxRuns <- 1,
  NULL <- None, held <- x1, pc <- x2, sawOwner <- x3, isOwner <- x4, runs <- x5

-----------------------------------------------------------------------------
\* What a component of so many variables leaves alone.
after3 == <<x4, x5, x6, x7, x8, x9, x10, x11, x12, x13, x14>>
after5 == <<x6, x7, x8, x9, x10, x11, x12, x13, x14>>
after6 == <<x7, x8, x9, x10, x11, x12, x13, x14>>
after7 == <<x8, x9, x10, x11, x12, x13, x14>>
after9 == <<x10, x11, x12, x13, x14>>
after11 == <<x12, x13, x14>>

NoneAfter11 == x12 = None /\ x13 = None /\ x14 = None
NoneAfter9 == x10 = None /\ x11 = None /\ NoneAfter11
NoneAfter7 == x8 = None /\ x9 = None /\ NoneAfter9
NoneAfter6 == x7 = None /\ NoneAfter7
NoneAfter5 == x6 = None /\ NoneAfter6
NoneAfter3 == x4 = None /\ x5 = None /\ NoneAfter5

Init ==
  \/ component = "release"      /\ Mr!Init /\ NoneAfter9
  \/ component = "package"      /\ Mp!Init /\ NoneAfter9
  \/ component = "revision"     /\ Rr!Init /\ NoneAfter7
  \/ component = "drafts"       /\ Rd!Init /\ NoneAfter7
  \/ component = "roles"        /\ Ro!Init /\ NoneAfter7
  \/ component = "types"        /\ Tc!Init /\ NoneAfter3
  \/ component = "plane"        /\ Cp!Init /\ NoneAfter3
  \/ component = "bindings"     /\ Cb!Init /\ NoneAfter3
  \/ component = "cutover"      /\ Cr!Init /\ NoneAfter11
  \/ component = "activation"   /\ Ra!Init
  \/ component = "leases"       /\ Rl!Init
  \/ component = "tokens"       /\ Rt!Init
  \/ component = "holds"        /\ Rh!Init
  \/ component = "capacity"     /\ Rc!Init
  \/ component = "groups"       /\ Rg!Init
  \/ component = "admin"        /\ Aj!Init /\ NoneAfter9
  \/ component = "admincontrol" /\ Ac!Init /\ NoneAfter9
  \/ component = "outbox"       /\ Ob!Init /\ NoneAfter7
  \/ component = "replay"       /\ Or!Init /\ NoneAfter7
  \/ component = "durable"      /\ Dj!Init /\ NoneAfter6
  \/ component = "keys"         /\ Dk!Init /\ NoneAfter6
  \/ component = "priority"     /\ Dp!Init /\ NoneAfter6
  \/ component = "host"         /\ Hh!Init /\ NoneAfter6
  \/ component = "jobs"         /\ Mj!Init /\ NoneAfter5
  \/ component = "locks"        /\ Lk!Init /\ NoneAfter5
  \/ component = "rootlocks"    /\ Lg!Init /\ NoneAfter5
  \/ component = "draftlocks"   /\ Ld!Init /\ NoneAfter5

Next ==
  \/ component = "release"      /\ Mr!Next /\ UNCHANGED <<component, after9>>
  \/ component = "package"      /\ Mp!Next /\ UNCHANGED <<component, after9>>
  \/ component = "revision"     /\ Rr!Next /\ UNCHANGED <<component, after7>>
  \/ component = "drafts"       /\ Rd!Next /\ UNCHANGED <<component, after7>>
  \/ component = "roles"        /\ Ro!Next /\ UNCHANGED <<component, after7>>
  \/ component = "types"        /\ Tc!Next /\ UNCHANGED <<component, after3>>
  \/ component = "plane"        /\ Cp!Next /\ UNCHANGED <<component, after3>>
  \/ component = "bindings"     /\ Cb!Next /\ UNCHANGED <<component, after3>>
  \/ component = "cutover"      /\ Cr!Next /\ UNCHANGED <<component, after11>>
  \/ component = "activation"   /\ Ra!Next /\ UNCHANGED component
  \/ component = "leases"       /\ Rl!Next /\ UNCHANGED component
  \/ component = "tokens"       /\ Rt!Next /\ UNCHANGED component
  \/ component = "holds"        /\ Rh!Next /\ UNCHANGED component
  \/ component = "capacity"     /\ Rc!Next /\ UNCHANGED component
  \/ component = "groups"       /\ Rg!Next /\ UNCHANGED component
  \/ component = "admin"        /\ Aj!Next /\ UNCHANGED <<component, after9>>
  \/ component = "admincontrol" /\ Ac!Next /\ UNCHANGED <<component, after9>>
  \/ component = "outbox"       /\ Ob!Next /\ UNCHANGED <<component, after7>>
  \/ component = "replay"       /\ Or!Next /\ UNCHANGED <<component, after7>>
  \/ component = "durable"      /\ Dj!Next /\ UNCHANGED <<component, after6>>
  \/ component = "keys"         /\ Dk!Next /\ UNCHANGED <<component, after6>>
  \/ component = "priority"     /\ Dp!Next /\ UNCHANGED <<component, after6>>
  \/ component = "host"         /\ Hh!Next /\ UNCHANGED <<component, after6>>
  \/ component = "jobs"         /\ Mj!Next /\ UNCHANGED <<component, after5>>
  \/ component = "locks"        /\ Lk!Next /\ UNCHANGED <<component, after5>>
  \/ component = "rootlocks"    /\ Lg!Next /\ UNCHANGED <<component, after5>>
  \/ component = "draftlocks"   /\ Ld!Next /\ UNCHANGED <<component, after5>>

Spec == Init /\ [][Next]_vars

-----------------------------------------------------------------------------
(* Properties.                                                             *)

\* What the policies and the proofs demand of the parameters.
ASSUME ControlAssumption ==
  /\ Ra!ActivationAssumption /\ Rl!ActivationAssumption /\ Rt!ActivationAssumption
  /\ Rh!ActivationAssumption /\ Rc!ActivationAssumption /\ Rg!ActivationAssumption
  /\ Ob!RetryPolicyAssumption /\ Dj!JobPolicyAssumption /\ Hh!HostAssumption
  /\ Cr!CutoverAssumption /\ Aj!AdminAssumption
  /\ Rr!ResourceAssumption /\ Rd!ResourceAssumption /\ Ro!ResourceAssumption
  /\ Mr!CatalogueAssumption /\ Mp!CatalogueAssumption
  /\ Lk!LockAssumption /\ Lg!LockAssumption /\ Ld!LockAssumption
  /\ Mj!ConstantsAssumption

\* Every component keeps to its types and lifecycles.
ControlTyped ==
  /\ component = "release" => Mr!TypeOK
  /\ component = "package" => Mp!TypeOK
  /\ component = "revision" => Rr!TypeOK
  /\ component = "types" => Tc!TypeOK
  /\ component = "plane" => Cp!TypeOK
  /\ component = "cutover" => Cr!TypeOK
  /\ component = "activation" => Ra!TypeOK
  /\ component = "admin" => Aj!TypeOK

\* What is served was published whole and stays until nothing needs it.  A
\* channel points to its one published release, of each head one release at
\* most is published and loses no pin; a package is active with all entries
\* of its revision and shares no resource; a failed transaction leaves no
\* trace.  Activations served are certified and of one version per group,
\* leased, referenced and recently served content is not collected, and
\* serving grows past its limits only with an approval, never past the hard
\* ones.
PublicationWhole ==
  /\ [](/\ component = "release" => Mr!ChannelServesPublished /\ Mr!OneFromEachHead
        /\ component = "package" => Mp!InstallationWhole /\ Mp!OwnershipDisjoint
        /\ component = "plane" => /\ Cp!NeverTorn /\ Cp!PublishedIsServed
                                  /\ Cp!InstalledWithItsRelease
        /\ component = "activation" => Ra!ReadyActivationsAreWhole /\ Ra!HeadsAndChannelsAgree
        /\ component = "leases" => Rl!LeasedContentIsReadable
        /\ component = "holds" => Rh!ReferencedContentIsReady
        /\ component = "capacity" => Rc!HardLimitsHold
        /\ component = "groups" => Rg!ServedIsCertified)
  /\ [][/\ component = "release" => Mr!NoPinLost
        /\ component = "plane" => Cp!WholeTransactions
        /\ component = "activation" => /\ Ra!SupportIsKept /\ Ra!NoLostControlUpdate
                                       /\ Ra!RecentlyServedIsKept
        /\ component = "tokens" => Rt!TokenUsedForCurrent
        /\ component = "capacity" => Rc!OverageIsApproved]_vars

\* Drafts, validation and roles.  A validated revision depends on settled
\* revisions only and never changes again; a patch is of the draft its author
\* read; nothing is validated once the project is archived, and every change
\* is made by a principal permitted at the epoch it saw.  A revision accepted
\* as compatible leaves earlier values valid, asks for nothing new and keeps
\* the queries, through a chain of revisions and packages, and a policy allows
\* no more; roles that were revoked stay so and a role on a resource widens no
\* other.
RevisionsSound ==
  /\ [](/\ component = "revision" => Rr!ClosureSettled
        /\ component = "types" => /\ Tc!EarlierValuesValid /\ Tc!NothingNewRequired
                                  /\ Tc!QueriesKept /\ Tc!ChainIsCompatible
                                  /\ Tc!PinsStayClosed /\ Tc!InstallationsKept
                              /\ Tc!PoliciesAllowNoMore
        /\ component = "bindings" => Cb!ResourceNarrows)
  /\ [][/\ component = "drafts" => Rd!NoLostUpdate /\ Rd!ImmutableOnceValidated
        /\ component = "roles" => Ro!NothingValidatedAfterArchive /\ Ro!ChangedByPermitted
        /\ component = "bindings" => Cb!RevokedForGood]_vars

\* A request repeated, raced or answered late takes effect once: a cutover is
\* committed once, has one result, is never undone by another and is the one
\* asked for; a job is started once, a cancellation is of the job that was
\* seen, an approval serves one decision and a collection commits the plan
\* that was seen; a refused request changes and tells nothing.
RequestsTakeEffectOnce ==
  /\ [](/\ component = "cutover" => Cr!AppliedOnce /\ Cr!OneResult
        /\ component = "admin" => Aj!CancelSeen /\ Aj!StartedOnce /\ Aj!ForbiddenLearnsNothing
        /\ component = "admincontrol" => Ac!OneApprovalPerDecision /\ Ac!CommitsTheSeenPlan)
  /\ [][/\ component = "cutover" => Cr!NoLostCutover /\ Cr!AskedFor
        /\ component = "admin" => Aj!ErrorsChangeNothing]_vars

\* Jobs that share two workers keep the ledger, whichever are enqueued,
\* cancelled, claimed, lost and reaped in between: the job a worker moves is
\* the one it claimed, and one project at most ever holds data.
JobsInterleave ==
  /\ component = "jobs" => Mj!Ledger!LedgerInit
  /\ [](component = "jobs" => Mj!OneDataBearingProject)
  /\ [][component = "jobs" => UNCHANGED Mj!Ledger!ledger \/ Mj!Ledger!LedgerNext]_vars

\* Whoever lost a lease, a host or a lock changes nothing any more.  The
\* outbox delivers a stream in order and its consumer applies it so; a job
\* has one open attempt; a call is in one place and is answered once; no
\* publication commits for a principal that is no owner any more.  Transactions
\* that keep to one order of locks never wait for each other in a circle; where
\* a circle arises, a transaction that takes its locks in another order is in it.
DeliveriesFenced ==
  /\ [](/\ component = "outbox" => /\ Ob!TypeOK /\ Ob!OneOpenAttempt /\ Ob!StreamInOrder
                                   /\ Ob!AppliedInOrder /\ Ob!DeliveredWasApplied
        /\ component = "replay" => Or!AppliedInOrder
        /\ component = "durable" => /\ Dj!TypeOK /\ Dj!OneOpenAttempt /\ Dj!AttemptsAreBounded
                                    /\ Dj!CheckpointsInOrder
        /\ component = "keys" => Dk!OneJobPerKey
        /\ component = "host" => Hh!TypeOK /\ Hh!PendingIsSomewhere
        /\ component = "locks" => Lk!NoDeadlock
        /\ component = "rootlocks" => Lg!CyclesNeedOutOfOrder
        /\ component = "draftlocks" => Ld!CyclesNeedOutOfOrder)
  /\ [][/\ component = "outbox" => Ob!StaleWorkersAreFenced
        /\ component = "replay" => Or!CommittedOnce
        /\ component = "durable" => Dj!ExpiredLeaseChangesNothing
        /\ component = "priority" => Dp!HigherPriorityFirst
        /\ component = "host" => Hh!SettledOnce /\ Hh!FailClosed
        /\ component = "locks" => Lk!PublishedByOwner
        /\ component = "rootlocks" => Lg!PublishedByOwner]_vars
=============================================================================
