--------------------------- MODULE QualityReport ---------------------------
(***************************************************************************)
(* Quality of promoted generations.  A build reads its scope, prepares the *)
(* current rows, decides, uploads the rejected rows and finalizes a report *)
(* that is bound to the generation; a row count that changed too much      *)
(* waits for the confirmation of a project owner.  Builds of successive    *)
(* snapshot versions overlap, and the baseline of one is the report of the *)
(* last version that passed.                                               *)
(*                                                                         *)
(* Source: packages/materialization-application/src/quality.ts and         *)
(* overlay.ts, packages/materialization-postgres/src/quality.ts, functions *)
(* of migrations/db-00/0012.                                               *)
(*                                                                         *)
(* Abstractions: a file is its numbers of accepted, optionally invalid and *)
(* fatally invalid rows; digests are what they bind; samples, provenance   *)
(* and head candidates follow the current rows and are left out.           *)
(***************************************************************************)
EXTENDS Naturals, Integers, FiniteSets, FiniteSetsExt

CONSTANTS MaxVersion,           \* bound: versions of the snapshot group
          Kinds,                \* member kinds of the group
          Files,                \* possible files: good, optional, fatal rows
          OptionalBasisPoints,  \* optionalPropertyFailureMaximumBasisPoints
          ChangeBasisPoints,    \* rowCountChangeConfirmationBasisPoints
          MaxCrashes,           \* bound: builds cut short
          MaxPublications       \* bound: publications of the project

QualityAssumption ==
  /\ MaxVersion \in Nat /\ MaxCrashes \in Nat /\ MaxPublications \in Nat
  /\ "object" \in Kinds /\ Kinds \subseteq {"object", "link"}
  /\ OptionalBasisPoints \in 0..10000 /\ ChangeBasisPoints \in 0..10000
  /\ \A f \in Files : f \in [good : Nat, optional : Nat, fatal : Nat]

Cells == (1..MaxVersion) \X Kinds
NoBaseline == -1

VARIABLES file,         \* per generation: the rows of its snapshot
          generation,   \* per generation: state, observations, preparation, binding
          build,        \* per generation: the build in flight
          confirm,      \* per generation: the confirmation in flight
          uploads,      \* rejected-row artifacts in the object store
          sequence,     \* meta.projects.publication_sequence
          crashes       \* bound: builds cut short so far

vars == <<file, generation, build, confirm, uploads, sequence, crashes>>

Clean == [optional |-> 0, fatal |-> 0]
Fresh == [state |-> "building", observed |-> Clean, prepared |-> FALSE, binding |-> "none",
          accepted |-> 0, total |-> 0, baseline |-> NoBaseline, artifact |-> 0]
NoBuild == [at |-> "idle", baseline |-> NoBaseline, outcome |-> "none", artifact |-> 0]
NoConfirm == [at |-> "idle", sequence |-> 0, baseline |-> NoBaseline]
Total(c) == file[c].good + file[c].optional + file[c].fatal
Rejected(o) == o.optional + o.fatal
Outcomes == {"none", "passed", "awaiting_confirmation", "failed"}

TypeOK ==
  /\ file \in [Cells -> Files]
  /\ \A c \in Cells :
       /\ generation[c].state \in {"building", "failed"}
       /\ generation[c].observed \in [optional : Nat, fatal : Nat]
       /\ generation[c].binding \in Outcomes \union {"confirmed"}
       /\ generation[c].baseline \in {NoBaseline} \union Nat
       /\ build[c].at \in {"idle", "scope", "decide", "upload", "finalize"}
       /\ build[c].outcome \in Outcomes
       /\ confirm[c].at \in {"idle", "read"}
  /\ uploads \subseteq [id : Nat, cell : Cells, rows : [optional : Nat, fatal : Nat]]
  /\ sequence \in 0..MaxPublications /\ crashes \in 0..MaxCrashes

Init ==
  /\ file \in [Cells -> Files]
  /\ generation = [c \in Cells |-> Fresh]
  /\ build = [c \in Cells |-> NoBuild]
  /\ confirm = [c \in Cells |-> NoConfirm]
  /\ uploads = {} /\ sequence = 0 /\ crashes = 0

-----------------------------------------------------------------------------
(* Decisions *)

\* exceedsBasisPoints: a share of nothing is exceeded by anything.
ExceedsBasisPoints(count, total, points) ==
  IF total = 0 THEN count > 0 ELSE count * 10000 > total * points

Distance(m, n) == IF m > n THEN m - n ELSE n - m

\* rowCountChangeExceeds: no baseline asks for nothing, an empty one for all.
RowCountChangeExceeds(rows, baseline) ==
  CASE baseline = NoBaseline -> FALSE
    [] baseline = 0 -> rows # 0
    [] baseline > 0 -> Distance(rows, baseline) * 10000 > baseline * ChangeBasisPoints

\* decideQuality, and the same decision of the database.
Decide(observed, accepted, total, baseline) ==
  CASE observed.fatal > 0 \/ ExceedsBasisPoints(observed.optional, total, OptionalBasisPoints)
         -> "failed"
    [] OTHER -> IF RowCountChangeExceeds(accepted, baseline)
                THEN "awaiting_confirmation" ELSE "passed"

Qualified(c) == generation[c].binding \in {"passed", "confirmed"}

\* The accepted rows of the last earlier version of the member that passed.
Baseline(c) ==
  LET earlier == {v \in 1..(c[1] - 1) : Qualified(<<v, c[2]>>)} IN
  IF earlier = {} THEN NoBaseline ELSE generation[<<Max(earlier), c[2]>>].accepted

-----------------------------------------------------------------------------
(* Observations *)

\* One page of observations of a promoted generation, stored once however
\* often it is sent; refused behind a preparation or a binding.
StageObservations(c) ==
  /\ generation[c].state = "building"
  /\ ~generation[c].prepared /\ generation[c].binding = "none"
  /\ generation' = [generation EXCEPT ![c].observed.optional = file[c].optional,
                                      ![c].observed.fatal = file[c].fatal]
  /\ generation' # generation
  /\ UNCHANGED <<file, build, confirm, uploads, sequence, crashes>>

-----------------------------------------------------------------------------
(* A build *)

\* getGenerationQualityScope, and the overlay provider that certifies zero.
ReadScope(c) ==
  /\ build[c].at = "idle"
  /\ generation[c].state = "building" /\ generation[c].binding = "none"
  /\ build' = [build EXCEPT ![c] = [NoBuild EXCEPT !.at = "scope", !.baseline = Baseline(c)]]
  /\ UNCHANGED <<file, generation, confirm, uploads, sequence, crashes>>

\* Whether every endpoint of a link generation is a qualified object.
EndpointsQualified(c) == c[2] = "link" => Qualified(<<c[1], "object">>)

\* prepareStagingCurrent: the rows of the base without an observation become
\* current; with the rejected ones they are the whole snapshot, or the build
\* fails.  A repeated preparation finds its own rows.
PrepareCurrent(c) ==
  /\ build[c].at = "scope"
  /\ IF /\ EndpointsQualified(c)
        /\ file[c].good + Rejected(generation[c].observed) = Total(c)
     THEN /\ generation' = [generation EXCEPT ![c].prepared = TRUE, ![c].total = Total(c),
                                              ![c].accepted = file[c].good]
          /\ build' = [build EXCEPT ![c].at = "decide"]
     ELSE /\ build' = [build EXCEPT ![c] = NoBuild]
          /\ UNCHANGED generation
  /\ UNCHANGED <<file, confirm, uploads, sequence, crashes>>

\* decideQuality with the baseline read before.
DecideQuality(c) ==
  /\ build[c].at = "decide"
  /\ build' = [build EXCEPT
       ![c].at = IF Rejected(generation[c].observed) = 0 THEN "finalize" ELSE "upload",
       ![c].outcome = Decide(generation[c].observed, generation[c].accepted,
                             generation[c].total, build[c].baseline)]
  /\ UNCHANGED <<file, generation, confirm, uploads, sequence, crashes>>

\* #uploadRejectedArtifact measures the rows, then streams them again.
UploadRejected(c) ==
  LET id == Cardinality(uploads) + 1 IN
  /\ build[c].at = "upload"
  /\ uploads' = uploads \union {[id |-> id, cell |-> c, rows |-> generation[c].observed]}
  /\ build' = [build EXCEPT ![c].at = "finalize", ![c].artifact = id]
  /\ UNCHANGED <<file, generation, confirm, sequence, crashes>>

\* finalize_materialization_quality decides again, with the baseline of now,
\* and refuses another outcome; a bound generation keeps its report.
Accepts(c) ==
  /\ generation[c].binding = "none" /\ generation[c].prepared
  /\ build[c].outcome = Decide(generation[c].observed, generation[c].accepted,
                               generation[c].total, Baseline(c))
  /\ Rejected(generation[c].observed) # 0 =>
       \E u \in uploads : u.id = build[c].artifact /\ u.rows = generation[c].observed

\* finalizeGenerationQuality: report, artifact and binding in one transaction.
Finalize(c) ==
  /\ build[c].at = "finalize"
  /\ build' = [build EXCEPT ![c] = NoBuild]
  /\ generation' = IF ~Accepts(c) THEN generation
       ELSE [generation EXCEPT
              ![c].binding = build[c].outcome, ![c].baseline = Baseline(c),
              ![c].artifact = build[c].artifact,
              ![c].state = IF build[c].outcome = "failed" THEN "failed" ELSE @]
  /\ UNCHANGED <<file, confirm, uploads, sequence, crashes>>

\* The attempt ends between two calls; a later attempt builds again.
Crash(c) ==
  /\ build[c].at # "idle" /\ crashes < MaxCrashes
  /\ build' = [build EXCEPT ![c] = NoBuild]
  /\ crashes' = crashes + 1
  /\ UNCHANGED <<file, generation, confirm, uploads, sequence>>

-----------------------------------------------------------------------------
(* Confirmation of a changed row count *)

\* A release or a cutover advances the sequence of the project.
Publish ==
  /\ sequence < MaxPublications
  /\ sequence' = sequence + 1
  /\ UNCHANGED <<file, generation, build, confirm, uploads, crashes>>

\* confirm: the owner is authorized, and the scope read is the expected one.
ReadConfirmation(c) ==
  /\ confirm[c].at = "idle"
  /\ generation[c].state = "building" /\ generation[c].binding = "awaiting_confirmation"
  /\ confirm' = [confirm EXCEPT ![c] = [at |-> "read", sequence |-> sequence,
                                     baseline |-> Baseline(c)]]
  /\ UNCHANGED <<file, generation, build, uploads, sequence, crashes>>

\* confirm_materialization_row_count reads the scope again under the lock of
\* the project row that publications take.
ConfirmationCurrent(c) ==
  /\ generation[c].state = "building" /\ generation[c].binding = "awaiting_confirmation"
  /\ confirm[c].baseline = Baseline(c)
  /\ confirm[c].sequence = sequence

RecordConfirmation(c, decision) ==
  /\ confirm[c].at = "read"
  /\ confirm' = [confirm EXCEPT ![c] = NoConfirm]
  /\ generation' = CASE ~ConfirmationCurrent(c) -> generation
       [] ConfirmationCurrent(c) /\ decision = "accepted" ->
            [generation EXCEPT ![c].binding = "confirmed"]
       [] ConfirmationCurrent(c) /\ decision = "rejected" ->
            [generation EXCEPT ![c].binding = "failed", ![c].state = "failed"]
  /\ UNCHANGED <<file, build, uploads, sequence, crashes>>

Next ==
  \/ Publish
  \/ \E c \in Cells :
       \/ StageObservations(c) \/ ReadScope(c) \/ PrepareCurrent(c) \/ DecideQuality(c)
       \/ UploadRejected(c) \/ Finalize(c) \/ Crash(c) \/ ReadConfirmation(c)
       \/ \E decision \in {"accepted", "rejected"} : RecordConfirmation(c, decision)

Spec == Init /\ [][Next]_vars

-----------------------------------------------------------------------------
(* Properties *)

\* A generation that passed without an owner has no fatal row, its optional
\* failures stay within the rule, and its row count within the allowed change
\* from the version that had passed before it, whatever was decided or
\* confirmed for that version while the build ran.
PassedWithinRules ==
  \A c \in Cells : generation[c].binding = "passed" =>
    /\ file[c].fatal = 0
    /\ file[c].optional * 10000 <= Total(c) * OptionalBasisPoints
    /\ generation[c].baseline > 0 =>
         Distance(file[c].good, generation[c].baseline) * 10000
           <= generation[c].baseline * ChangeBasisPoints
    /\ generation[c].baseline = 0 => file[c].good = 0

\* An owner confirms what is true when the confirmation is recorded: the
\* publication sequence and the row count to compare with are still those the
\* owner was shown, and the generation was waiting.
ConfirmationIsTimely ==
  \A c \in Cells :
    generation'[c].binding = "confirmed" /\ generation[c].binding # "confirmed" =>
      /\ generation[c].binding = "awaiting_confirmation"
      /\ confirm[c].sequence = sequence
      /\ confirm[c].baseline = Baseline(c)

\* A report with rejected rows names an artifact that holds exactly the rows
\* it counts, also when an earlier build uploaded rows and was cut short.
ReportedRowsAreStored ==
  \A c \in Cells :
    generation[c].binding # "none" =>
      /\ generation[c].accepted + Rejected(generation[c].observed) = generation[c].total
      /\ Rejected(generation[c].observed) # 0 =>
           \E u \in uploads : /\ u.id = generation[c].artifact /\ u.cell = c
                              /\ u.rows = generation[c].observed

\* Links qualify only behind the objects they join.
LinksFollowObjects ==
  "link" \in Kinds => \A v \in 1..MaxVersion : generation[<<v, "link">>].prepared => Qualified(<<v, "object">>)
============================================================================
