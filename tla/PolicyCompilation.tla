-------------------------- MODULE PolicyCompilation --------------------------
(***************************************************************************)
(* Compiling a release's policy: read a snapshot, put the artifact and the *)
(* test report into the object store, record the compilation.  Compilers   *)
(* run side by side and fail between any two steps, claim mappings change  *)
(* the types of actor attributes meanwhile, stored bytes are lost or       *)
(* replaced, the release moves on what was recorded, and the gateway loads *)
(* the artifact to decide.                                                 *)
(*                                                                         *)
(* Source: packages/policy-application/src/index.ts,                       *)
(* packages/policy-postgres/src/index.ts, S3PolicyArtifactStore of         *)
(* packages/object-store-s3/src/index.ts, #loadExactArtifact,              *)
(* #createContext and selectTrustedActorAttributes of                      *)
(* packages/policy-application/src/gateway.ts, and                         *)
(* record_policy_compilation and the release gate of migrations 0022, 0024 *)
(* and 0026.                                                               *)
(*                                                                         *)
(* Abstractions: one release, one policy revision and one actor attribute. *)
(* The definition and the pins do not change, so an artifact, and with it  *)
(* its digest, is told by the attribute's type in the schema it carries    *)
(* ("absent" when no mapping yields the attribute); of the predicate we    *)
(* keep the types it accepts.  Of the object store only the latest version *)
(* of a key is ever read.                                                  *)
(***************************************************************************)
EXTENDS Integers, FiniteSets

CONSTANTS
  Compilers,
  MaxRuns,     \* bound: runs of each compiler
  MaxChanges,  \* bound: changes of the claim mappings
  MaxFaults,   \* bound: losses and replacements of stored bytes
  None

Types == {"string", "string_array", "absent"}
Kinds == {"ir", "test"}

\* Types a predicate accepts: one that does not read the attribute, one that
\* compares it with a string, and one that only asks whether it is null.
Predicates == {Types, {"string"}, {"string", "string_array"}}

VARIABLES
  accepts,  \* the attribute types the policy's predicate is valid for
  passes,   \* whether the definition's test vectors pass
  release,  \* state of the release
  schema,   \* the attribute's type, or "conflict" between two mappings
  store,    \* the latest version of each kind and digest
  row,      \* None or the compilation recorded: [artifact, status, by]
  comp,     \* per compiler: [pc, artifact, runs, told]
  gateway,  \* the request in progress: [pc, artifact, held, bytes]
  changes, faults

vars == <<accepts, passes, release, schema, store, row, comp, gateway, changes, faults>>
policy == <<accepts, passes>>
bounds == <<changes, faults>>

NoRequest == [pc |-> "idle", artifact |-> None, held |-> None, bytes |-> None]

Init ==
  /\ accepts \in Predicates /\ passes \in BOOLEAN
  /\ release = "draft"
  /\ schema \in Types
  /\ store = [k \in Kinds |-> [t \in Types |-> "missing"]]
  /\ row = None
  /\ comp = [c \in Compilers |-> [pc |-> "idle", artifact |-> None, runs |-> 0, told |-> None]]
  /\ gateway = NoRequest
  /\ changes = 0 /\ faults = 0

Unpublished == release \in {"draft", "staging"}
Goto(c, pc) == comp' = [comp EXCEPT ![c].pc = pc]
Tell(c, what) == comp' = [comp EXCEPT ![c].pc = "idle", ![c].told = what]

-----------------------------------------------------------------------------
(* compileReleasePolicy, one step per await.                                *)

\* A predicate that reads the attribute needs it in the schema, of a type its
\* operator accepts; conflicting mappings make no schema.
ValidatePredicate(t) == t \in accepts

\* loadCompilationInput reads release, pins and schema in one repeatable-read
\* transaction; compilePolicy refuses a predicate its schema does not type.
LoadCompilationInput(c) ==
  /\ comp[c].pc = "idle" /\ comp[c].runs < MaxRuns
  /\ comp' = [comp EXCEPT ![c] =
       IF Unpublished /\ ValidatePredicate(schema)
         THEN [pc |-> "head_ir", artifact |-> schema, runs |-> @.runs + 1, told |-> None]
         ELSE [pc |-> "idle", artifact |-> None, runs |-> @.runs + 1, told |-> "failed"]]
  /\ UNCHANGED <<policy, release, schema, store, row, gateway, bounds>>

Kind(pc) == IF pc \in {"head_ir", "put_ir"} THEN "ir" ELSE "test"
After(k) == IF k = "ir" THEN "head_test" ELSE "record"

\* putArtifact: an object already there must have the digest's bytes
HeadArtifact(c) ==
  /\ comp[c].pc \in {"head_ir", "head_test"}
  /\ LET k == Kind(comp[c].pc)
         found == store[k][comp[c].artifact]
     IN \/ found = "missing" /\ Goto(c, IF k = "ir" THEN "put_ir" ELSE "put_test")
        \/ found = "intact" /\ Goto(c, After(k))
        \/ found = "replaced" /\ Tell(c, "failed")
  /\ UNCHANGED <<policy, release, schema, store, row, gateway, bounds>>

PutArtifact(c) ==
  /\ comp[c].pc \in {"put_ir", "put_test"}
  /\ LET k == Kind(comp[c].pc)
     IN /\ store' = [store EXCEPT ![k][comp[c].artifact] = "intact"]
        /\ Goto(c, After(k))
  /\ UNCHANGED <<policy, release, schema, row, gateway, bounds>>

Compilation(c) == [artifact |-> comp[c].artifact, by |-> <<c, comp[c].runs>>,
                   status |-> IF passes THEN "passed" ELSE "failed"]

\* record_policy_compilation: the insert guard and the unique input
RecordCompilation(c) ==
  /\ comp[c].pc = "record"
  /\ IF row = None /\ Unpublished
       THEN row' = Compilation(c) /\ Tell(c, "ok")
       ELSE row' = row /\ Tell(c, "failed")
  /\ UNCHANGED <<policy, release, schema, store, gateway, bounds>>

\* A store or a database that fails, or a crash: before the call took effect,
\* or after it with the answer lost.
Fail(c) ==
  /\ comp[c].pc # "idle"
  /\ Tell(c, "failed")
  /\ UNCHANGED <<policy, release, schema, store, row, gateway, bounds>>

RecordedAnswerLost(c) ==
  /\ comp[c].pc = "record" /\ row = None /\ Unpublished
  /\ row' = Compilation(c)
  /\ Tell(c, "failed")
  /\ UNCHANGED <<policy, release, schema, store, gateway, bounds>>

-----------------------------------------------------------------------------
(* The release, the claim mappings and the object store.                    *)

Following == [draft |-> "staging", staging |-> "ready", ready |-> "published"]

ValidPolicyCompilation == row # None /\ row.status = "passed"

AdvanceRelease ==
  /\ release # "published" /\ ValidPolicyCompilation
  /\ release' = Following[release]
  /\ UNCHANGED <<policy, schema, store, row, comp, gateway, bounds>>

ChangeMapping(t) ==
  /\ changes < MaxChanges /\ t # schema
  /\ schema' = t /\ changes' = changes + 1
  /\ UNCHANGED <<policy, release, store, row, comp, gateway, faults>>

StoreFault(k, t, bytes) ==
  /\ faults < MaxFaults /\ store[k][t] = "intact"
  /\ store' = [store EXCEPT ![k][t] = bytes]
  /\ faults' = faults + 1
  /\ UNCHANGED <<policy, release, schema, row, comp, gateway, changes>>

-----------------------------------------------------------------------------
(* The gateway: the actor's attribute is mapped, the snapshot names the      *)
(* compilation, the artifact is loaded, the attribute is selected.           *)

\* What an actor may hold: a claim may be missing, and when mappings conflict
\* it depends on the issuer.
Held == IF schema = "conflict" THEN Types ELSE {schema, "absent"}

Snapshot(held) ==
  /\ gateway.pc \in {"idle", "refused", "decided"}
  /\ release = "published" /\ row.status = "passed"
  /\ gateway' = [pc |-> "load", artifact |-> row.artifact, held |-> held, bytes |-> None]
  /\ UNCHANGED <<policy, release, schema, store, row, comp, bounds>>

LoadExactArtifact ==
  /\ gateway.pc = "load"
  /\ LET found == store["ir"][gateway.artifact]
     IN gateway' = IF found = "intact" THEN [gateway EXCEPT !.pc = "select", !.bytes = found]
                   ELSE [gateway EXCEPT !.pc = "refused"]
  /\ UNCHANGED <<policy, release, schema, store, row, comp, bounds>>

Selectable(held, type) == type = "absent" \/ held \in {type, "absent"}

\* selectTrustedActorAttributes: an attribute the schema lacks is not selected
SelectTrustedActorAttributes ==
  /\ gateway.pc = "select"
  /\ gateway' = IF ~Selectable(gateway.held, gateway.artifact)
                  THEN [gateway EXCEPT !.pc = "refused"]
                  ELSE [gateway EXCEPT !.pc = "decided",
                        !.held = IF gateway.artifact = "absent" THEN "absent" ELSE @]
  /\ UNCHANGED <<policy, release, schema, store, row, comp, bounds>>

Next ==
  \/ \E c \in Compilers :
       \/ LoadCompilationInput(c) \/ HeadArtifact(c) \/ PutArtifact(c)
       \/ RecordCompilation(c) \/ Fail(c) \/ RecordedAnswerLost(c)
  \/ AdvanceRelease
  \/ \E t \in Types \cup {"conflict"} : ChangeMapping(t)
  \/ \E k \in Kinds, t \in Types, b \in {"missing", "replaced"} : StoreFault(k, t, b)
  \/ \E h \in Held : Snapshot(h)
  \/ LoadExactArtifact
  \/ SelectTrustedActorAttributes

Spec == Init /\ [][Next]_vars

-----------------------------------------------------------------------------
(* Properties.                                                              *)

\* Type invariant; the release only takes the states the gate lets it reach.
TypeOK ==
  /\ accepts \in Predicates /\ passes \in BOOLEAN
  /\ release \in {"draft", "staging", "ready", "published"}
  /\ schema \in Types \cup {"conflict"}
  /\ store \in [Kinds -> [Types -> {"missing", "intact", "replaced"}]]
  /\ row = None \/ row \in [artifact : Types, status : {"passed", "failed"},
                            by : Compilers \X (1 .. MaxRuns)]
  /\ comp \in [Compilers ->
       [pc : {"idle", "head_ir", "put_ir", "head_test", "put_test", "record"},
        artifact : Types \cup {None}, runs : 0 .. MaxRuns, told : {None, "ok", "failed"}]]
  /\ gateway \in [pc : {"idle", "load", "select", "refused", "decided"},
                  artifact : Types \cup {None}, held : Types \cup {None},
                  bytes : {None, "intact"}]
  /\ changes \in 0 .. MaxChanges /\ faults \in 0 .. MaxFaults

\* A compilation on record has its artifact and its report in the store,
\* however its compiler and the others failed, until the store itself loses
\* or replaces them: compileReleasePolicy puts before it records.
RecordedIsStored ==
  row # None /\ faults = 0 => \A k \in Kinds : store[k][row.artifact] = "intact"

\* A compiler is told its compilation succeeded only if the one on record is
\* its own, of the schema it compiled for: recordCompilation's unique input.
OkIsRecorded ==
  \A c \in Compilers : comp[c].told = "ok" =>
    row # None /\ row.artifact = comp[c].artifact /\ row.by = <<c, comp[c].runs>>

\* A release leaves its draft only on a compilation whose vectors all passed,
\* and a compilation that failed holds it there for good, however often and
\* under whatever mappings the policy is compiled again: the gate reads the
\* one row the unique input allows.
LeavesDraftTested == release # "draft" => passes /\ row # None

\* What a request is decided on was compiled, passed its test vectors and is
\* byte for byte what the compiler stored: the release gate and
\* #loadExactArtifact between them.
DecidesOnTestedBytes ==
  gateway.pc = "decided" => passes /\ gateway.bytes = "intact"

\* The predicate is never evaluated on an attribute of a type it was not
\* validated for, whatever the claim mappings became since the compilation:
\* validatePredicate, the schema in the artifact, selectTrustedActorAttributes.
EvaluatesTyped ==
  gateway.pc = "decided" => gateway.held \in accepts \cup {"absent"}
=============================================================================
