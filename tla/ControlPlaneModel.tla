-------------------------- MODULE ControlPlaneModel --------------------------
(***************************************************************************)
(* The reference model of the metadata control plane kept under tools: a   *)
(* state and transactions on it, publishing a release on a channel with    *)
(* the package change that rides on it, and replacing the role bindings of *)
(* a project.  Operators send them with the versions they last saw; a      *)
(* transaction fails at any of its points and then leaves the state it     *)
(* found.                                                                  *)
(*                                                                         *)
(* Source: tools/metadata-control-plane/model.ts (the releases, packages,  *)
(* management roles and transactions; not its revisions).                  *)
(*                                                                         *)
(* Abstractions: ids are the records themselves, so a release carries its  *)
(* project and digest in the constants; a request that is refused changes  *)
(* nothing and is no step.  The state is one record, as in the code.       *)
(***************************************************************************)
EXTENDS Integers, Sequences, FiniteSets

CONSTANTS
  Projects, Channels,
  Release,      \* per release: [project, digest]
  Activation,   \* per activation: [release, digest, members]
  Change,       \* per package change: [installation, package, release]
  Installation, \* per installation: [project]
  Binding,      \* per role binding id: [project, principal, resource, role]
  None

Releases == DOMAIN Release
Changes == DOMAIN Change
Bindings == DOMAIN Binding

LOCK_ORDER == <<"PROJECT_CONTROL", "RELEASE_CHANNEL", "RELEASE", "RELEASE_PINS",
  "SNAPSHOT_GROUP", "OBJECT_TYPE_CUTOVER", "GENERATION_INVENTORY", "SERVING_HEADS">>
PUBLISH_LOCK_PLAN == <<"PROJECT_CONTROL", "RELEASE_CHANNEL", "RELEASE",
  "RELEASE_PINS", "SERVING_HEADS">>
SNAPSHOT_CUTOVER_LOCK_PLAN == <<"PROJECT_CONTROL", "RELEASE_CHANNEL",
  "SNAPSHOT_GROUP", "OBJECT_TYPE_CUTOVER", "GENERATION_INVENTORY", "SERVING_HEADS">>

RankOf(lock) == CHOOSE n \in DOMAIN LOCK_ORDER : LOCK_ORDER[n] = lock
AssertLockPlan(plan) == \A i \in 1 .. Len(plan) - 1 : RankOf(plan[i]) < RankOf(plan[i + 1])
PlansInOrder == AssertLockPlan(PUBLISH_LOCK_PLAN) /\ AssertLockPlan(SNAPSHOT_CUTOVER_LOCK_PLAN)

VARIABLES
  state,  \* MetadataControlPlaneState
  torn,   \* whether a transaction's final assertion has failed
  last    \* how the last transaction ended

vars == <<state, torn, last>>

CreateMetadataControlPlaneState ==
  [control  |-> 0,
   releases |-> [r \in Releases |-> "DRAFT"],
   channels |-> [k \in Projects \X Channels |-> None],
   heads    |-> [r \in Releases |-> None],
   installs |-> [i \in DOMAIN Installation |-> None],
   changes  |-> [c \in Changes |-> "PENDING"],
   bindings |-> [b \in Bindings |-> "UNUSED"],
   epochs   |-> [p \in Projects |-> 0]]

Init == state = CreateMetadataControlPlaneState /\ torn = FALSE /\ last = "NONE"

-----------------------------------------------------------------------------
(* Lifecycles.                                                              *)

LegalRelease == [DRAFT |-> {"STAGING", "FAILED"}, STAGING |-> {"READY", "FAILED"},
  READY |-> {"PUBLISHED"}, FAILED |-> {}, PUBLISHED |-> {"SUPERSEDED"}, SUPERSEDED |-> {}]

TransitionRelease(s, r, target) == [s EXCEPT !.releases[r] = target]

LegalChange == [PENDING |-> {"ACTIVE", "FAILED"}, ACTIVE |-> {"SUPERSEDED"},
  SUPERSEDED |-> {}, FAILED |-> {}]

\* A release is prepared, or fails, outside the publish transaction.
PrepareRelease(r, target) ==
  /\ target \in LegalRelease[state.releases[r]] \ {"PUBLISHED", "SUPERSEDED"}
  /\ state' = TransitionRelease(state, r, target)
  /\ UNCHANGED <<torn, last>>

FailChange(c) ==
  /\ "FAILED" \in LegalChange[state.changes[c]]
  /\ state' = [state EXCEPT !.changes[c] = "FAILED"]
  /\ UNCHANGED <<torn, last>>

-----------------------------------------------------------------------------
(* publishReleaseTransaction.                                               *)

Inputs == [project : Projects, release : Releases, activation : DOMAIN Activation,
           channel : Channels, change : Changes \cup {None}]

Key(i) == <<i.project, i.channel>>
ChannelPointer(i) == [release |-> i.release, activation |-> i.activation]

Activated(s, c) ==
  /\ s.changes[c] = "ACTIVE"
  /\ s.installs[Change[c].installation] =
       [package |-> Change[c].package, release |-> Change[c].release]

PackagePublishAlreadyApplied(s, i) == i.change # None => Activated(s, i.change)

Applied(s, i) ==
  /\ s.releases[i.release] = "PUBLISHED"
  /\ s.channels[Key(i)] = ChannelPointer(i)
  /\ s.heads[i.release] = i.activation
  /\ PackagePublishAlreadyApplied(s, i)

ChangeMatches(s, i) ==
  i.change # None =>
    /\ Installation[Change[i.change].installation].project = i.project
    /\ Change[i.change].release = i.release
    /\ s.changes[i.change] = "PENDING"

Publishable(s, i) ==
  /\ s.releases[i.release] = "READY"
  /\ Release[i.release].project = i.project
  /\ Activation[i.activation].release = i.release
  /\ Activation[i.activation].digest = Release[i.release].digest
  /\ Activation[i.activation].members = {}
  /\ ChangeMatches(s, i)

\* The transaction's writes, one operator per failure point.
Released(s, i) == TransitionRelease(s, i.release, "PUBLISHED")
Headed(s, i) == [Released(s, i) EXCEPT !.heads[i.release] = i.activation]

Supersede(s, i) ==
  LET old == s.channels[Key(i)] IN
    IF old # None /\ old.release # i.release /\ s.releases[old.release] = "PUBLISHED"
      THEN TransitionRelease(s, old.release, "SUPERSEDED") ELSE s

Channelled(s, i) ==
  [Supersede(Headed(s, i), i) EXCEPT !.channels[Key(i)] = ChannelPointer(i)]

ActivatePackageChange(s, c) ==
  LET place == Change[c].installation
  IN [s EXCEPT
        !.changes = [d \in Changes |->
          IF d = c THEN "ACTIVE"
          ELSE IF Change[d].installation = place /\ @[d] = "ACTIVE" THEN "SUPERSEDED" ELSE @[d]],
        !.installs[place] = [package |-> Change[c].package, release |-> Change[c].release]]

Installed(s, i) ==
  IF i.change = None THEN Channelled(s, i) ELSE ActivatePackageChange(Channelled(s, i), i.change)

Epoched(s, i) == [Installed(s, i) EXCEPT !.epochs[i.project] = @ + 1]

\* assertMetadataControlPlaneInvariants
Consistent(s) ==
  /\ PlansInOrder
  /\ \A k \in DOMAIN s.channels : s.channels[k] # None =>
       LET r == s.channels[k].release
           a == s.channels[k].activation
       IN s.releases[r] = "PUBLISHED" /\ Activation[a].release = r /\ s.heads[r] = a
  /\ \A p \in DOMAIN Installation : s.installs[p] # None =>
       LET active == {c \in Changes : Change[c].installation = p /\ s.changes[c] = "ACTIVE"}
       IN /\ Cardinality(active) = 1
          /\ \A c \in active : s.installs[p] = [package |-> Change[c].package,
                                                release |-> Change[c].release]

\* A retry of what is already there answers from the state, whatever control
\* revision it carries.
ReplayPublish(i) ==
  /\ Applied(state, i) /\ PlansInOrder
  /\ last' = "REPLAYED"
  /\ UNCHANGED <<state, torn>>

PublishRelease(i, expected) ==
  /\ expected = state.control /\ Publishable(state, i) /\ ~Applied(state, i)
  /\ PlansInOrder
  /\ LET next == [Epoched(state, i) EXCEPT !.control = @ + 1]
     IN IF Consistent(next) THEN state' = next /\ last' = "COMMITTED" /\ UNCHANGED torn
        ELSE torn' = TRUE /\ last' = "ABORTED" /\ UNCHANGED state

\* failAt: whatever was written by then was written to a clone
AbortPublish(i, expected) ==
  /\ expected = state.control /\ Publishable(state, i) /\ ~Applied(state, i)
  /\ last' = "ABORTED"
  /\ UNCHANGED <<state, torn>>

-----------------------------------------------------------------------------
(* replaceRoleBindingsTransaction and authorizeManagementRequest.           *)

Active(s, p) == {b \in Bindings : Binding[b].project = p /\ s.bindings[b] = "ACTIVE"}
Canonical(bs) == {Binding[b] : b \in bs}

Fresh(s, desired) == \A b \in desired : s.bindings[b] = "UNUSED"

Replaceable(s, p, desired) ==
  /\ s.epochs[p] # 0
  /\ \A b \in desired : Binding[b].project = p
  /\ Cardinality(Canonical(desired)) = Cardinality(desired)

ReplaceRoleBindings(p, desired, expected) ==
  /\ expected = state.epochs[p] /\ Replaceable(state, p, desired)
  /\ Canonical(Active(state, p)) # Canonical(desired)
  /\ Fresh(state, desired)
  /\ state' = [state EXCEPT
       !.bindings = [b \in Bindings |-> IF b \in desired THEN "ACTIVE"
                                        ELSE IF b \in Active(state, p) THEN "REVOKED" ELSE @[b]],
       !.epochs[p] = @ + 1,
       !.control = @ + 1]
  /\ last' = "COMMITTED"
  /\ UNCHANGED torn

KeepRoleBindings(p, desired, expected) ==
  /\ expected = state.epochs[p] /\ Replaceable(state, p, desired)
  /\ Canonical(Active(state, p)) = Canonical(desired)
  /\ last' = "REPLAYED"
  /\ UNCHANGED <<state, torn>>

RolePermissions == [OWNER |-> {"read", "edit", "publish", "package", "role"},
  EDITOR |-> {"read", "edit"}, VIEWER |-> {"read"}, EXECUTOR |-> {}, AUDITOR |-> {}]

PermissionsFor(bs) == UNION {RolePermissions[Binding[b].role] : b \in bs}

AuthorizeManagementRequest(s, p, who, resource, permission) ==
  LET mine == {b \in Active(s, p) : Binding[b].principal = who}
      here == {b \in mine : Binding[b].resource = resource}
  IN /\ permission \in PermissionsFor({b \in mine : Binding[b].resource = None})
     /\ resource # None /\ here # {} => permission \in PermissionsFor(here)

-----------------------------------------------------------------------------
\* Operators send the versions they saw, which the state may have left behind.
Next ==
  \/ \E r \in Releases, t \in {"STAGING", "READY", "FAILED"} : PrepareRelease(r, t)
  \/ \E c \in Changes : FailChange(c)
  \/ \E i \in Inputs :
       \/ ReplayPublish(i)
       \/ \E seen \in 0 .. state.control : PublishRelease(i, seen) \/ AbortPublish(i, seen)
  \/ \E p \in Projects, desired \in SUBSET Bindings : \E seen \in 0 .. state.epochs[p] :
       ReplaceRoleBindings(p, desired, seen) \/ KeepRoleBindings(p, desired, seen)

Spec == Init /\ [][Next]_vars

-----------------------------------------------------------------------------
(* Properties.                                                              *)

\* Type invariant; an installation's pointer names a package and a release, or
\* neither.
TypeOK ==
  /\ state.control \in Nat
  /\ state.releases \in [Releases -> DOMAIN LegalRelease]
  /\ state.channels \in [Projects \X Channels ->
       {None} \cup [release : Releases, activation : DOMAIN Activation]]
  /\ state.heads \in [Releases -> {None} \cup DOMAIN Activation]
  /\ state.installs \in [DOMAIN Installation ->
       {None} \cup [package : {Change[c].package : c \in Changes}, release : Releases]]
  /\ state.changes \in [Changes -> DOMAIN LegalChange]
  /\ state.bindings \in [Bindings -> {"UNUSED", "ACTIVE", "REVOKED"}]
  /\ state.epochs \in [Projects -> Nat]
  /\ torn \in BOOLEAN /\ last \in {"NONE", "COMMITTED", "REPLAYED", "ABORTED"}

\* The assertion that ends the publish transaction never fails: what the
\* guards let in already keeps channels, heads and installations together.
NeverTorn == ~torn

\* A release is published exactly while a channel of its project serves it,
\* so publishing on one channel never retires what another serves.
PublishedIsServed ==
  \A r \in Releases : state.releases[r] = "PUBLISHED" <=>
    \E c \in Channels : LET held == state.channels[<<Release[r].project, c>>]
                        IN held # None /\ held.release = r

\* A package change takes effect only with the release it was made for.
InstalledWithItsRelease ==
  \A c \in Changes : state.changes[c] \in {"ACTIVE", "SUPERSEDED"} =>
    state.releases[Change[c].release] \in {"PUBLISHED", "SUPERSEDED"}

\* Who may manage a resource may manage its project: bindings on a resource
\* only narrow, whichever bindings operators put in place.
ResourceNarrows ==
  \A b \in Bindings, permission \in RolePermissions.OWNER :
    LET p == Binding[b].project
        who == Binding[b].principal
    IN AuthorizeManagementRequest(state, p, who, Binding[b].resource, permission)
         => AuthorizeManagementRequest(state, p, who, None, permission)

Serving(s) == <<s.channels, s.heads, s.installs>>

\* What is served or who is bound changes together with the control revision
\* and some project's epoch, or not at all: an operator who sends versions
\* that still hold has seen the state the transaction changes.
WholeTransactions ==
  Serving(state') # Serving(state) \/ state'.bindings # state.bindings =>
    /\ state'.control = state.control + 1
    /\ \E p \in Projects : state'.epochs = [state.epochs EXCEPT ![p] = @ + 1]

\* A revoked role binding is never active again.
RevokedForGood ==
  \A b \in Bindings : state.bindings[b] = "REVOKED" => state'.bindings[b] = "REVOKED"
=============================================================================
