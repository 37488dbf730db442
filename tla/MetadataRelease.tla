------------------------- MODULE MetadataRelease -------------------------
(***************************************************************************)
(* The metadata control plane of one project: releases that pin one        *)
(* revision of each resource, the channels that point to the published     *)
(* release, and packages, which are installed, upgraded and rolled back by *)
(* the publication of a release.                                           *)
(*                                                                         *)
(* Source: packages/metadata-postgres/src/release.ts and package.ts, the   *)
(* services of packages/metadata-application that call them, the release   *)
(* gate of packages/metadata-domain and the triggers of migrations 0003,   *)
(* 0005 and 0006.                                                          *)
(*                                                                         *)
(* Every repository method is one transaction that starts by locking the   *)
(* project row, so it is one action here.  Abstractions: a revision is an  *)
(* immutable model value; which revision may follow which without a        *)
(* blocking finding is the constant relation Compatible; a digest is the   *)
(* record of the facts it digests; a validation report is a function of    *)
(* that record and is not stored; an activation is identified with its     *)
(* release.  Whether a data-bearing release has its certificates is        *)
(* decided by RuntimeServing and is a free choice here.                    *)
(***************************************************************************)
EXTENDS Naturals, Sequences, FiniteSets

CONSTANTS
  Resources, Revisions, \* what a release pins
  ResourceOf,           \* the resource of a revision
  DependsOn,            \* the revisions a revision's content refers to
  Compatible,           \* <<old, new>>: no blocking compatibility finding
  DataBearing,          \* revisions that give a release runtime members
  Packages, PackageRevs,
  PackageOf, Entries,   \* package and manifest of a package revision
  Channels,
  Keys,                 \* idempotency keys of package requests
  Selections,           \* sets of revisions a caller may ask a release for
  Existing,             \* revisions that are validated from the start
  Editable,             \* resources whose state or revisions may be retired
  MaxReleases,          \* bound: releases ever drafted
  NULL

VARIABLES
  resState,  \* state of each resource
  revState,  \* state of each revision, "absent" before it is stored
  latest,    \* newest stored revision of each resource
  release,   \* the releases, in order of their number
  channel,   \* published release and control sequence of each channel
  pubSeq,    \* publication sequence of the project
  inst,      \* active package revision and release of each installation
  changes,   \* the package changes, in order of creation
  answer     \* the change the last package request was answered with

vars == <<resState, revState, latest, release, channel, pubSeq, inst, changes,
          answer>>

Reusable == {"validated", "published", "deprecated"}
NoChannel == [rel |-> NULL, seq |-> 0]
NoInstallation == [rev |-> NULL, rel |-> NULL]

Init ==
  /\ resState = [x \in Resources |-> "active"]
  /\ revState = [v \in Revisions |->
                   IF v \in Existing THEN "validated" ELSE "absent"]
  /\ latest \in {f \in [Resources -> Revisions \cup {NULL}] :
                   \A x \in Resources :
                     LET stored == {v \in Existing : ResourceOf[v] = x}
                     IN  IF stored = {} THEN f[x] = NULL ELSE f[x] \in stored}
  /\ release = <<>>
  /\ channel = [c \in Channels |-> NoChannel]
  /\ pubSeq = 0
  /\ inst = [p \in Packages |-> NoInstallation]
  /\ changes = <<>>
  /\ answer = NULL

Pins(r) == IF r = NULL THEN {} ELSE release[r].pins

OnePerResource(vs) ==
  \A v, w \in vs : ResourceOf[v] = ResourceOf[w] => v = w

-----------------------------------------------------------------------------
(* The release gate.                                                       *)

\* A dependency target that validation accepts.
Available(v) == revState[v] \in Reusable /\ resState[ResourceOf[v]] # "archived"

\* Candidate pins keep every baseline resource, at the same revision or at
\* one without a blocking finding, and are closed under dependencies.
PinsCompatible(baseline, pins) ==
  /\ \A b \in baseline : \E v \in pins :
       /\ ResourceOf[v] = ResourceOf[b]
       /\ v = b \/ <<b, v>> \in Compatible
  /\ \A v \in pins : DependsOn[v] \subseteq pins

Gate(r) ==
  /\ release[r].pins # {}
  /\ \A v \in release[r].pins : Available(v)
  /\ PinsCompatible(Pins(channel[release[r].channel].rel), release[r].pins)

\* The package changes whose target is this release: at most one.
ChangesOf(r) == {i \in 1 .. Len(changes) : changes[i].rel = r}

\* A release that belongs to a package change goes on only while the change
\* is pending and the installation is where it was when the change was made.
PackageReady(r) ==
  \A i \in ChangesOf(r) :
    /\ changes[i].state = "pending"
    /\ inst[changes[i].pkg] = [rev |-> changes[i].prev, rel |-> changes[i].prevRel]

\* What the validation context digest covers.
Context(r) ==
  [pub   |-> pubSeq,
   chan  |-> channel[release[r].channel],
   facts |-> [v \in release[r].pins |-> <<revState[v], resState[ResourceOf[v]]>>],
   pkg   |-> {<<i, changes[i].state, inst[changes[i].pkg]>> : i \in ChangesOf(r)}]

-----------------------------------------------------------------------------
(* Releases.                                                               *)

NewDraft(c, vs) ==
  [state |-> "draft", channel |-> c, pins |-> vs, staged |-> NULL]

\* A selection the service accepts: at least one revision, one per resource.
Selected(vs) == vs # {} /\ OnePerResource(vs)

CreateRelease(c, vs) ==
  /\ Len(release) < MaxReleases
  /\ Selected(vs)
  /\ \A v \in vs : revState[v] \in Reusable
  /\ release' = Append(release, NewDraft(c, vs))
  /\ answer' = NULL
  /\ UNCHANGED <<resState, revState, latest, channel, pubSeq, inst, changes>>

\* The first of the three transactions of rollbackRelease; the other two are
\* Stage and Publish of the new draft.
CreateRollback(r) ==
  /\ release[r].state \in {"published", "superseded"}
  /\ CreateRelease(release[r].channel, release[r].pins)

\* The report of a passed evaluation is stored with the context it is about.
Sealed(r) == [release[r] EXCEPT !.staged = Context(r)]

\* Stage seals the context of a draft that passes the gate.  A release with
\* runtime members stays staging until its certificates are complete, and
\* staging it again needs the context it was sealed with.
Stage(r) ==
  \E ready \in IF release[r].pins \cap DataBearing = {} THEN {TRUE} ELSE BOOLEAN :
    /\ release[r].state \in {"draft", "staging"}
    /\ PackageReady(r)
    /\ Gate(r)
    /\ release[r].state = "staging" => release[r].staged = Context(r)
    /\ release' = [release EXCEPT ![r] =
                     [Sealed(r) EXCEPT !.state = IF ready THEN "ready" ELSE "staging"]]
    /\ answer' = NULL
    /\ UNCHANGED <<resState, revState, latest, channel, pubSeq, inst, changes>>

\* Mutant of Current: the publication trusts what staging found.
CurrentTrusted(r) == TRUE

\* A ready release is published only if nothing its context covers has moved.
Current(r) ==
  /\ channel[release[r].channel] = release[r].staged.chan
  /\ Context(r) = release[r].staged

\* A trigger refuses to publish a validated revision of a retired resource.
Publishable(r) ==
  \A v \in release[r].pins :
    revState[v] = "validated" => resState[ResourceOf[v]] = "active"

\* The pending change becomes active, the one active before superseded.
Activate(i) ==
  [k \in DOMAIN changes |->
     IF k = i THEN [changes[k] EXCEPT !.state = "active"]
     ELSE IF /\ changes[k].pkg = changes[i].pkg
             /\ changes[k].state = "active"
             /\ changes[k].target = changes[i].prev
             /\ changes[k].rel = changes[i].prevRel
          THEN [changes[k] EXCEPT !.state = "superseded"]
          ELSE changes[k]]

Supersede(r) ==
  [k \in DOMAIN release |->
     IF k = r THEN [release[k] EXCEPT !.state = "published"]
     ELSE IF k = channel[release[r].channel].rel
          THEN [release[k] EXCEPT !.state = "superseded"]
          ELSE release[k]]

Publish(r) ==
  LET c == release[r].channel IN
  /\ release[r].state = "ready"
  /\ PackageReady(r)
  /\ Current(r)
  /\ Gate(r)
  /\ Publishable(r)
  /\ release' = Supersede(r)
  /\ revState' = [v \in Revisions |->
                    IF v \in release[r].pins /\ revState[v] = "validated"
                    THEN "published" ELSE revState[v]]
  /\ channel' = [channel EXCEPT ![c] = [rel |-> r, seq |-> @.seq + 1]]
  /\ IF ChangesOf(r) = {} THEN UNCHANGED <<inst, changes>>
     ELSE LET i == CHOOSE i \in ChangesOf(r) : TRUE IN
          /\ inst' = [inst EXCEPT ![changes[i].pkg] =
                        [rev |-> changes[i].target, rel |-> r]]
          /\ changes' = Activate(i)
  /\ pubSeq' = pubSeq + 1
  /\ answer' = NULL
  /\ UNCHANGED <<resState, latest>>

-----------------------------------------------------------------------------
(* Retiring resources and revisions: neither looks at the releases.        *)

SetResource(x, s) ==
  /\ <<resState[x], s>> \in {<<"active", "deprecated">>, <<"active", "archived">>,
                             <<"deprecated", "archived">>}
  /\ resState' = [resState EXCEPT ![x] = s]
  /\ answer' = NULL
  /\ UNCHANGED <<revState, latest, release, channel, pubSeq, inst, changes>>

SetRevision(v, s) ==
  /\ <<revState[v], s>> \in {<<"published", "deprecated">>, <<"deprecated", "archived">>}
  /\ revState' = [revState EXCEPT ![v] = s]
  /\ answer' = NULL
  /\ UNCHANGED <<resState, latest, release, channel, pubSeq, inst, changes>>

-----------------------------------------------------------------------------
(* Packages.                                                               *)

PendingOf(p) == {i \in 1 .. Len(changes) :
                   changes[i].pkg = p /\ changes[i].state = "pending"}

\* Revisions that the other packages' active and pending revisions hold.
Owned(p) ==
  (UNION {Entries[inst[q].rev] : q \in {q \in Packages \ {p} : inst[q].rev # NULL}})
    \cup (UNION {Entries[changes[i].target] :
                   i \in UNION {PendingOf(q) : q \in Packages \ {p}}})

Collides(p, t) ==
  \E v \in Entries[t], w \in Owned(p) : ResourceOf[v] = ResourceOf[w]

\* Revisions a manifest lists that are not stored yet, which the transaction
\* stores as validated.
Missing(t) == {v \in Entries[t] : revState[v] = "absent"}

\* A new revision follows the newest one of its resource, which is reusable.
Follows(v) ==
  latest[ResourceOf[v]] # NULL => revState[latest[ResourceOf[v]]] \in Reusable

\* Storing the revisions of a manifest: the resource is active, dependencies
\* are available or come with the manifest (object types are stored before
\* the link types and policies that refer to them), and a revision that is
\* there already must be reusable.
Storable(t) ==
  \A v \in Entries[t] :
    /\ resState[ResourceOf[v]] = "active"
    /\ \A d \in DependsOn[v] : Available(d) \/ d \in Entries[t]
    /\ revState[v] \in Reusable \/ (v \in Missing(t) /\ Follows(v))

Matching(p, op, t, c, k) ==
  {i \in 1 .. Len(changes) :
     /\ changes[i].pkg = p
     /\ \/ changes[i].key = k
        \/ /\ changes[i].op = op /\ changes[i].target = t
           /\ release[changes[i].rel].channel = c}

SameRequest(i, op, t, c) ==
  changes[i].op = op /\ changes[i].target = t /\ release[changes[i].rel].channel = c

\* A request that matches one earlier change by content is answered with that
\* change, whatever has become of it; a key reused for other content is
\* refused.
Repeat(p, op, t, c, k) ==
  \E i \in Matching(p, op, t, c, k) :
    /\ Matching(p, op, t, c, k) = {i}
    /\ SameRequest(i, op, t, c)
    /\ answer' = [key |-> k, change |-> i]
    /\ UNCHANGED <<resState, revState, latest, release, channel, pubSeq, inst,
                   changes>>

\* The pins of the draft: what the channel serves now, less what the active
\* revision of the package brought, plus the entries of the target.
DraftPins(p, t, c) ==
  LET old  == IF inst[p].rev = NULL THEN {} ELSE Entries[inst[p].rev]
      gone == {ResourceOf[v] : v \in old \cup Entries[t]}
  IN  {v \in Pins(channel[c].rel) : ResourceOf[v] \notin gone} \cup Entries[t]

\* A rollback goes to another revision that was active before.
RollbackTarget(p, t) ==
  /\ inst[p].rev \notin {NULL, t}
  /\ \E i \in 1 .. Len(changes) :
       /\ changes[i].pkg = p /\ changes[i].target = t
       /\ changes[i].state \in {"active", "superseded"}

\* At most one pending change is a unique index of the table.
MayPrepare(p, op, t) ==
  /\ PendingOf(p) = {}
  /\ IF op = "install" THEN inst[p].rev = NULL ELSE inst[p].rev \notin {NULL, t}

\* The manifest itself is compared with the active one, without the channel.
PackageCompatible(p, t) ==
  inst[p].rev # NULL => PinsCompatible(Entries[inst[p].rev], Entries[t])

\* One transaction: the candidate's revisions, the installation, the draft
\* release and the pending change are stored together or not at all.
Prepare(op, t, c, k) ==
  LET p    == PackageOf[t]
      pins == DraftPins(p, t, c)
      new  == Missing(t)
  IN
  /\ Len(release) < MaxReleases
  /\ Matching(p, op, t, c, k) = {}
  /\ MayPrepare(p, op, t)
  /\ ~Collides(p, t)
  /\ PackageCompatible(p, t)
  /\ op # "rollback" => Storable(t)
  /\ \A v \in pins \ new : Available(v)
  /\ revState' = [v \in Revisions |-> IF v \in new THEN "validated" ELSE revState[v]]
  /\ latest' = [x \in Resources |->
                  IF \E v \in new : ResourceOf[v] = x
                  THEN CHOOSE v \in new : ResourceOf[v] = x ELSE latest[x]]
  /\ release' = Append(release, NewDraft(c, pins))
  /\ changes' = Append(changes,
       [pkg |-> p, op |-> op, target |-> t, rel |-> Len(release) + 1, key |-> k,
        prev |-> inst[p].rev, prevRel |-> inst[p].rel, state |-> "pending"])
  /\ answer' = [key |-> k, change |-> Len(changes) + 1]
  /\ UNCHANGED <<resState, channel, pubSeq, inst>>

\* The service refuses a manifest with two revisions of a resource before any
\* transaction.
WellFormed(t) == Entries[t] # {} /\ OnePerResource(Entries[t])

PackageRequest(op, t, c, k) ==
  /\ WellFormed(t)
  /\ op = "rollback" => RollbackTarget(PackageOf[t], t)
  /\ \/ Prepare(op, t, c, k)
     \/ Repeat(PackageOf[t], op, t, c, k)

-----------------------------------------------------------------------------
Next ==
  \/ \E c \in Channels, vs \in Selections : CreateRelease(c, vs)
  \/ \E r \in 1 .. Len(release) : CreateRollback(r)
  \/ \E r \in 1 .. Len(release) : Stage(r)
  \/ \E r \in 1 .. Len(release) : Publish(r)
  \/ \E x \in Editable, s \in {"deprecated", "archived"} : SetResource(x, s)
  \/ \E v \in {v \in Revisions : ResourceOf[v] \in Editable},
        s \in {"deprecated", "archived"} : SetRevision(v, s)
  \/ \E op \in {"install", "upgrade", "rollback"}, t \in PackageRevs,
        c \in Channels, k \in Keys : PackageRequest(op, t, c, k)

Spec == Init /\ [][Next]_vars

-----------------------------------------------------------------------------
(* Properties.                                                             *)

ReleaseStates == {"draft", "staging", "ready", "published", "superseded"}

TypeOK ==
  /\ resState \in [Resources -> {"active", "deprecated", "archived"}]
  /\ revState \in [Revisions -> Reusable \cup {"absent", "archived"}]
  /\ latest \in [Resources -> Revisions \cup {NULL}]
  /\ \A r \in DOMAIN release :
       /\ release[r].state \in ReleaseStates
       /\ release[r].channel \in Channels
       /\ release[r].pins \in (SUBSET Revisions) \ {{}}
       /\ release[r].staged = NULL <=> release[r].state = "draft"
  /\ channel \in [Channels -> [rel : DOMAIN release \cup {NULL}, seq : Nat]]
  /\ \A p \in Packages : inst[p].rev = NULL <=> inst[p].rel = NULL
  /\ \A i \in DOMAIN changes :
       changes[i].state \in {"pending", "active", "superseded"}

\* A release is published exactly while its channel points to it, so a
\* release that was superseded never serves again (publishRelease moves the
\* old release, the new one and the channel in one transaction).
ChannelServesPublished ==
  \A r \in DOMAIN release :
    release[r].state = "published" <=> channel[release[r].channel].rel = r

\* Of the releases staged from the same head of a channel at most one is ever
\* published: the others are refused when the channel has moved
\* (publishRelease compares sequence, release and context).
OneFromEachHead ==
  \A r, s \in DOMAIN release :
    /\ r # s
    /\ release[r].channel = release[s].channel
    /\ release[r].state \in {"published", "superseded"}
    /\ release[s].state \in {"published", "superseded"}
    => release[r].staged.chan # release[s].staged.chan

\* A publication never takes a resource out of a channel nor replaces a
\* revision by an incompatible one, also when the draft was made long before
\* (evaluateReleaseGate against the channel's pins at publication).
NoPinLost ==
  \A c \in Channels : channel'[c].rel # channel[c].rel =>
    PinsCompatible(Pins(channel[c].rel), release'[channel'[c].rel].pins)

\* The active pointer of an installation is the target of its only active
\* change, whose release was published with all entries of the revision;
\* and at most one change is pending.
InstallationWhole ==
  \A p \in Packages :
    LET active == {i \in DOMAIN changes :
                     changes[i].pkg = p /\ changes[i].state = "active"}
    IN  /\ Cardinality(PendingOf(p)) <= 1
        /\ inst[p].rev = NULL => active = {}
        /\ inst[p].rev # NULL =>
             /\ active # {}
             /\ \A i \in active :
                  /\ inst[p] = [rev |-> changes[i].target, rel |-> changes[i].rel]
                  /\ release[inst[p].rel].state \in {"published", "superseded"}
                  /\ Entries[inst[p].rev] \subseteq release[inst[p].rel].pins

\* No resource belongs to two packages that are active or about to be
\* (assertNoPackageResourceOwnershipCollision).
OwnershipDisjoint ==
  \A p, q \in Packages :
    p # q =>
      LET hold(x) == (IF inst[x].rev = NULL THEN {} ELSE Entries[inst[x].rev])
                       \cup UNION {Entries[changes[i].target] : i \in PendingOf(x)}
      IN  \A v \in hold(p), w \in hold(q) : ResourceOf[v] # ResourceOf[w]

-----------------------------------------------------------------------------
\* The shapes of the catalogue, which the proofs rest on; NULL is nothing else.
CatalogueAssumption ==
  /\ \A v \in Revisions : ResourceOf[v] \in Resources
  /\ \A q \in PackageRevs : PackageOf[q] \in Packages /\ Entries[q] \subseteq Revisions
  /\ Selections \subseteq SUBSET Revisions
  /\ NULL \notin Nat /\ NULL \notin PackageRevs
=============================================================================
