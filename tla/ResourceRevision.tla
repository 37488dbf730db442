------------------------- MODULE ResourceRevision -------------------------
(***************************************************************************)
(* The authoring side of the metadata control plane: principals with roles *)
(* edit the draft revisions of a project's resources, validate them, and   *)
(* retire revisions, resources and the project itself.                     *)
(*                                                                         *)
(* Source: packages/metadata-postgres/src/index.ts (the repository),       *)
(* packages/metadata-application/src/index.ts (the services) and           *)
(* packages/metadata-domain/src/index.ts (validation and permissions),     *)
(* with the triggers of migrations 0002 to 0004.                           *)
(*                                                                         *)
(* A request takes two steps, as in the services: the permission is read   *)
(* in a query of its own (Authorize), and the repository transaction runs  *)
(* later (Execute).  Abstractions: the content of a revision is a tag and  *)
(* the set of revisions it refers to; a tag in BadTags fails the contract  *)
(* of its family; canonical digests are the contents themselves; the       *)
(* resource-scoped role, which can only narrow the project role, is left   *)
(* out; a revision is published by a release (MetadataRelease).            *)
(***************************************************************************)
EXTENDS Naturals, Sequences, FiniteSets

CONSTANTS
  Principals,
  Owner,          \* the principal that created the project
  Resources,
  FamilyOf,       \* family of a resource: "object", "link" or "policy"
  Tags, BadTags,
  Ops,            \* operations that are requested
  Roles,          \* roles that are granted
  MaxRevisions,   \* bound: revisions ever created
  MaxEtag,        \* bound: the etag a patch may reach
  MaxEpoch,       \* bound: the authorization epoch a change may reach
  NULL

\* The bounds admit a first revision and a first epoch.
ResourceAssumption == MaxEtag \in Nat \ {0} /\ MaxEpoch \in Nat \ {0}

VARIABLES
  project,   \* "active" or "archived"
  epoch,     \* the authorization epoch
  role,      \* the active project role of each principal
  resState,  \* state of each resource, "absent" before it is created
  rev,       \* the revisions, in order of creation
  seen,      \* what each principal has read: an epoch and a revision
  call       \* the authorized request of each principal

vars == <<project, epoch, role, resState, rev, seen, call>>

Reusable == {"validated", "published", "deprecated"}
Ids == 1 .. Len(rev)
Unseen == [epoch |-> NULL, id |-> NULL, etag |-> 0, content |-> NULL]

Init ==
  /\ project = "active"
  /\ epoch = 1
  /\ role = [p \in Principals |-> IF p = Owner THEN "owner" ELSE NULL]
  /\ resState = [x \in Resources |-> "absent"]
  /\ rev = <<>>
  /\ seen = [p \in Principals |-> Unseen]
  /\ call = [p \in Principals |-> NULL]

-----------------------------------------------------------------------------
(* Permissions.                                                            *)

Grants(r) ==
  CASE r = "owner"  -> {"metadata.read", "metadata.edit", "role.manage"}
    [] r = "editor" -> {"metadata.read", "metadata.edit"}
    [] r = "viewer" -> {"metadata.read"}
    [] OTHER        -> {}

\* An archived project grants nothing.
Allowed(p, permission) == project = "active" /\ permission \in Grants(role[p])

\* getProject and listRoleBindings show the epoch, getRevision the etag.
ReadEpoch(p) ==
  /\ Ops \cap {"role", "archiveProject"} # {}
  /\ Allowed(p, "metadata.read")
  /\ seen' = [seen EXCEPT ![p].epoch = epoch]
  /\ UNCHANGED <<project, epoch, role, resState, rev, call>>

ReadRevision(p, i) ==
  /\ "patch" \in Ops
  /\ Allowed(p, "metadata.read")
  /\ seen' = [seen EXCEPT ![p].id = i, ![p].etag = rev[i].etag,
                          ![p].content = rev[i].content]
  /\ UNCHANGED <<project, epoch, role, resState, rev, call>>

-----------------------------------------------------------------------------
(* Requests.  A caller sends back the epoch or the etag it has read.       *)

Contents(x) ==
  IF FamilyOf[x] = "object" THEN [tag : Tags, refs : {{}}]
  ELSE [tag : Tags, refs : {{i} : i \in Ids}]

\* The commands the services parse before they ask for the permission.
CreateCommands ==
  [op : {"create"}, res : {x \in Resources : resState[x] = "absent"},
   content : UNION {Contents(x) : x \in Resources}]

PatchCommands(p) ==
  [op : {"patch"}, id : {seen[p].id}, etag : {seen[p].etag}, base : {seen[p].content},
   content : IF seen[p].id = NULL THEN {} ELSE Contents(rev[seen[p].id].res)]

ChildCommands == UNION {[op : {"child"}, id : {i}, content : Contents(rev[i].res)] : i \in Ids}

StateCommands ==
  [op : {"validate"}, id : Ids] \cup [op : {"retire"}, id : Ids, to : {"deprecated", "archived"}]

RevisionCommands(p) == CreateCommands \cup PatchCommands(p) \cup ChildCommands \cup StateCommands

ProjectCommands(p) ==
  {[op |-> "role", who |-> q, role |-> r, epoch |-> seen[p].epoch] :
     q \in Principals, r \in Roles \cup {NULL}}
  \cup {[op |-> "archiveProject", epoch |-> seen[p].epoch]}
  \cup {[op |-> "retireResource", res |-> x, to |-> s] :
          x \in Resources, s \in {"deprecated", "archived"}}

Needed(op) == IF op = "role" THEN "role.manage" ELSE "metadata.edit"

Authorize(p, c) ==
  /\ call[p] = NULL
  /\ c.op \in Ops
  /\ c.op \in {"role", "archiveProject"} => c.epoch # NULL
  /\ c.op = "create" => c.content \in Contents(c.res)
  /\ Allowed(p, Needed(c.op))
  /\ call' = [call EXCEPT ![p] = c]
  /\ UNCHANGED <<project, epoch, role, resState, rev, seen>>

-----------------------------------------------------------------------------
(* The repository transactions; c is the request.                          *)

NewDraft(x, parent, content) ==
  [res |-> x, parent |-> parent, state |-> "draft", etag |-> 1, content |-> content,
   edges |-> {}]

\* A resource never has two revisions with the same content.
Fresh(x, content) == \A i \in Ids : rev[i].res = x => rev[i].content # content

Create(c) ==
  /\ resState[c.res] = "absent"
  /\ Len(rev) < MaxRevisions
  /\ resState' = [resState EXCEPT ![c.res] = "active"]
  /\ rev' = Append(rev, NewDraft(c.res, NULL, c.content))
  /\ UNCHANGED <<project, epoch, role>>

\* Mutant of EtagMatches: the last writer wins.
EtagMatchesAny(c) == TRUE

EtagMatches(c) == rev[c.id].etag = c.etag

Editable(i) == rev[i].state = "draft" /\ resState[rev[i].res] = "active"

Patch(c) ==
  /\ Editable(c.id)
  /\ EtagMatches(c)
  /\ rev[c.id].etag < MaxEtag
  /\ rev[c.id].content # c.content => Fresh(rev[c.id].res, c.content)
  /\ rev' = IF rev[c.id].content = c.content THEN rev
            ELSE [rev EXCEPT ![c.id].content = c.content, ![c.id].etag = @ + 1]
  /\ UNCHANGED <<project, epoch, role, resState>>

Child(c) ==
  /\ resState[rev[c.id].res] = "active"
  /\ rev[c.id].state \in Reusable
  /\ Fresh(rev[c.id].res, c.content)
  /\ Len(rev) < MaxRevisions
  /\ rev' = Append(rev, NewDraft(rev[c.id].res, c.id, c.content))
  /\ UNCHANGED <<project, epoch, role, resState>>

\* What a set of revisions reaches through stored edges: the smallest set
\* that contains it and is closed under them.
Closure(ids) ==
  {i \in Ids : \A S \in SUBSET Ids :
     ids \subseteq S /\ (\A k \in S : rev[k].edges \subseteq S) => i \in S}

TargetAvailable(i) ==
  rev[i].state \in Reusable /\ resState[rev[i].res] # "archived"

\* A link refers to object types, a policy to object and link types.
TargetFamily(x, i) ==
  FamilyOf[rev[i].res] \in
    CASE FamilyOf[x] = "link"   -> {"object"}
      [] FamilyOf[x] = "policy" -> {"object", "link"}
      [] OTHER                  -> {}

DefinitionValid(i) == rev[i].content.tag \notin BadTags

Valid(i) ==
  /\ DefinitionValid(i)
  /\ \A t \in rev[i].content.refs : TargetFamily(rev[i].res, t)
  /\ \A t \in Closure(rev[i].content.refs) : TargetAvailable(t)
  /\ i \notin Closure(rev[i].content.refs)

MayValidate(i) == project = "active" /\ resState[rev[i].res] = "active"

\* A draft that fails keeps its state and gets a report; a revision that is
\* past draft is answered with the report it has.
Validate(c) ==
  /\ MayValidate(c.id)
  /\ rev[c.id].state # "archived"
  /\ rev' = IF rev[c.id].state = "draft" /\ Valid(c.id)
            THEN [rev EXCEPT ![c.id].state = "validated",
                             ![c.id].edges = rev[c.id].content.refs]
            ELSE rev
  /\ UNCHANGED <<project, epoch, role, resState>>

Retire(c) ==
  /\ <<rev[c.id].state, c.to>> \in {<<"published", "deprecated">>,
                                    <<"deprecated", "archived">>}
  /\ rev' = [rev EXCEPT ![c.id].state = c.to]
  /\ UNCHANGED <<project, epoch, role, resState>>

RetireResource(c) ==
  /\ <<resState[c.res], c.to>> \in {<<"active", "deprecated">>, <<"active", "archived">>,
                                    <<"deprecated", "archived">>}
  /\ resState' = [resState EXCEPT ![c.res] = c.to]
  /\ UNCHANGED <<project, epoch, role, rev>>

EpochExpected(c) == c.epoch = epoch

\* The old binding is revoked, the new one inserted and the epoch advanced in
\* one transaction; a binding that is there already changes nothing.
ReplaceRole(c) ==
  /\ EpochExpected(c)
  /\ epoch < MaxEpoch
  /\ role' = [role EXCEPT ![c.who] = c.role]
  /\ epoch' = IF role[c.who] = c.role THEN epoch ELSE epoch + 1
  /\ UNCHANGED <<project, resState, rev>>

ArchiveProject(c) ==
  /\ EpochExpected(c)
  /\ epoch < MaxEpoch
  /\ project' = "archived"
  /\ epoch' = IF project = "archived" THEN epoch ELSE epoch + 1
  /\ UNCHANGED <<role, resState, rev>>

Transaction(c) ==
  \/ c.op = "create" /\ Create(c)
  \/ c.op = "patch" /\ Patch(c)
  \/ c.op = "child" /\ Child(c)
  \/ c.op = "validate" /\ Validate(c)
  \/ c.op = "retire" /\ Retire(c)
  \/ c.op = "retireResource" /\ RetireResource(c)
  \/ c.op = "role" /\ ReplaceRole(c)
  \/ c.op = "archiveProject" /\ ArchiveProject(c)

Execute(p) ==
  /\ call[p] # NULL
  /\ Transaction(call[p])
  /\ call' = [call EXCEPT ![p] = NULL]
  /\ UNCHANGED seen

\* A transaction that is refused, or whose connection is lost, changes nothing.
Fail(p) ==
  /\ call[p] # NULL
  /\ call' = [call EXCEPT ![p] = NULL]
  /\ UNCHANGED <<project, epoch, role, resState, rev, seen>>

\* The publication of a release, by MetadataRelease.
Publish(i) ==
  /\ "retire" \in Ops
  /\ project = "active"
  /\ rev[i].state = "validated" /\ resState[rev[i].res] = "active"
  /\ rev' = [rev EXCEPT ![i].state = "published"]
  /\ UNCHANGED <<project, epoch, role, resState, seen, call>>

Next ==
  \/ \E p \in Principals : ReadEpoch(p)
  \/ \E p \in Principals, i \in Ids : ReadRevision(p, i)
  \/ \E p \in Principals : \E c \in RevisionCommands(p) \cup ProjectCommands(p) : Authorize(p, c)
  \/ \E p \in Principals : Execute(p)
  \/ \E p \in Principals : Fail(p)
  \/ \E i \in Ids : Publish(i)

Spec == Init /\ [][Next]_vars

-----------------------------------------------------------------------------
(* Properties.                                                             *)

TypeOK ==
  /\ project \in {"active", "archived"}
  /\ epoch \in 1 .. MaxEpoch
  /\ role \in [Principals -> Roles \cup {"owner", NULL}]
  /\ resState \in [Resources -> {"absent", "active", "deprecated", "archived"}]
  /\ \A i \in Ids :
       /\ resState[rev[i].res] # "absent"
       /\ rev[i].state \in Reusable \cup {"draft", "archived"}
       /\ rev[i].etag \in 1 .. MaxEtag
       /\ rev[i].state = "draft" => rev[i].edges = {}

\* A patch replaces exactly the content its author has read, however the
\* requests of two authors interleave (patchDraftRevision and the etag).
NoLostUpdate ==
  \A i \in Ids : rev'[i].content # rev[i].content =>
    \E p \in Principals :
      /\ call[p] # NULL /\ call'[p] = NULL
      /\ call[p].op = "patch" /\ call[p].id = i
      /\ call[p].base = rev[i].content

\* Once a revision has been validated its content, etag and edges are final
\* and it is never a draft again, whatever patch was authorized before.
ImmutableOnceValidated ==
  \A i \in Ids : rev[i].state # "draft" =>
    /\ rev'[i].state # "draft"
    /\ rev'[i].content = rev[i].content
    /\ rev'[i].etag = rev[i].etag
    /\ rev'[i].edges = rev[i].edges

\* What a revision past draft reaches through the stored edges is past draft,
\* too, and never the revision itself: releases can pin the whole closure.
ClosureSettled ==
  \A i \in Ids : rev[i].state # "draft" =>
    /\ rev[i].edges = rev[i].content.refs
    /\ i \notin Closure(rev[i].edges)
    /\ \A t \in Closure(rev[i].edges) : rev[t].state # "draft"

\* Nothing is validated in an archived project, also when the permission was
\* read before it was archived (validateDraftRevision locks the project).
NothingValidatedAfterArchive ==
  project = "archived" =>
    \A i \in Ids : rev[i].state = "draft" => rev'[i].state = "draft"

\* Roles change and the project is archived only by a principal whose role
\* still permits it when the change commits, although the permission was read
\* in an earlier query: a change of roles moves the epoch (replaceRoleBinding,
\* archiveProject, assertExpectedEpoch).
ChangedByPermitted ==
  (role' # role \/ project' # project) =>
    \E p \in Principals :
      /\ call[p] # NULL /\ call'[p] = NULL
      /\ Needed(call[p].op) \in Grants(role[p])
=============================================================================
