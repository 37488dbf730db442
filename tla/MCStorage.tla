------------------------------ MODULE MCStorage ------------------------------
(***************************************************************************)
(* What is stored, for how long and in how much space, side by side:       *)
(* uploads, generations and indexes, the plans that say which there are,   *)
(* their admission and their collection.  Each behaviour runs one          *)
(* component; they share the run and none of their steps.                  *)
(***************************************************************************)
EXTENDS Integers, Sequences, FiniteSets, TLC

CONSTANT None

\* The variables are those of the component that runs, in the order of its
\* module; it leaves the rest at None.
VARIABLES component, x1, x2, x3, x4, x5, x6, x7, x8, x9, x10

vars == <<component, x1, x2, x3, x4, x5, x6, x7, x8, x9, x10>>

-----------------------------------------------------------------------------
\* Two jobs of one project, a lost lease and a physical change.

Pl == INSTANCE ProductionPipeline WITH
  Jobs <- {"a", "b"}, Members <- {"m"}, Rejections <- {}, Rescans <- TRUE, MaxRevision <- 3,
  MaxChanges <- 1, MaxLosses <- 1, inventory <- x1, member <- x2, job <- x3, work <- x4,
  late <- x5, indexed <- x6, budget <- x7

-----------------------------------------------------------------------------
\* One job with two members and bad input.

Pa == INSTANCE ProductionPipeline WITH
  Jobs <- {"a"}, Members <- {"m", "n"},
  Rejections <- {"source", "mapping", "quality", "capacity"}, Rescans <- TRUE,
  MaxRevision <- 6, MaxChanges <- 0, MaxLosses <- 1, inventory <- x1, member <- x2,
  job <- x3, work <- x4, late <- x5, indexed <- x6, budget <- x7

-----------------------------------------------------------------------------
\* Two batches of objects and of links, of which one dangles or not.

Bs == INSTANCE BaseStaging WITH
  Keys <- {"k1", "k2", "k3"}, Elsewhere <- {"k1", "k3"}, ObjectFile <- <<{"k1"}, {"k2"}>>,
  LinkFile <- <<{<<"k1", "k2">>}, {<<"k2", "k3">>}>>, RejectedRows <- {}, MaxAttempts <- 2,
  identity <- x1, job <- x2, staged <- x3, base <- x4, observed <- x5, work <- x6

-----------------------------------------------------------------------------
\* A file of which the only row is rejected.

Bo == INSTANCE BaseStaging WITH
  Keys <- {"k1", "k2", "k3"}, Elsewhere <- {"k1", "k2", "k3"}, ObjectFile <- <<>>,
  LinkFile <- <<>>, RejectedRows <- {"r3"}, MaxAttempts <- 4, identity <- x1, job <- x2,
  staged <- x3, base <- x4, observed <- x5, work <- x6

-----------------------------------------------------------------------------
\* Clean files and one with a fatal row, builds cut short.
QrFile(good, optional, fatal) == [good |-> good, optional |-> optional, fatal |-> fatal]
QrFatal == {QrFile(2, 0, 0), QrFile(2, 0, 1)}

Qr == INSTANCE QualityReport WITH
  MaxVersion <- 2, Kinds <- {"object", "link"}, Files <- QrFatal,
  OptionalBasisPoints <- 2500, ChangeBasisPoints <- 2500, MaxCrashes <- 1,
  MaxPublications <- 0, file <- x1, generation <- x2, build <- x3, confirm <- x4,
  uploads <- x5, sequence <- x6, crashes <- x7

-----------------------------------------------------------------------------
\* Three versions: optional failures at the limit and above it, an empty file.
QrFiles == {QrFile(3, 1, 0), QrFile(2, 2, 0), QrFile(0, 0, 0)}

Qv == INSTANCE QualityReport WITH
  MaxVersion <- 3, Kinds <- {"object"}, Files <- QrFiles, OptionalBasisPoints <- 2500,
  ChangeBasisPoints <- 2500, MaxCrashes <- 0, MaxPublications <- 1, file <- x1,
  generation <- x2, build <- x3, confirm <- x4, uploads <- x5, sequence <- x6, crashes <- x7

-----------------------------------------------------------------------------
\* Schemas of two columns and every short expression for keys and properties;
\* then a few mappings for files of two rows.
MxCol(c) == [op |-> "column", col |-> c]
MxConstant == [op |-> "constant", literal |-> "k"]
MxTo(type, e) == [op |-> "cast", type |-> type, input |-> e]
MxConcat(e, f) == [op |-> "concat", inputs |-> <<e, f>>]

MxD(type, scale) == [type |-> type, scale |-> scale, caseSensitive |-> TRUE]
MxAnyCase == [type |-> "string", scale |-> 0, caseSensitive |-> FALSE]
MxColumn(type, scale, required) == [type |-> type, scale |-> scale, required |-> required]
MxKey(e, d) == [expression |-> e, descriptor |-> d]
MxProperty(e, d, nullable, class, mode) ==
  [expression |-> e, descriptor |-> d, nullable |-> nullable, required |-> ~nullable,
   nullPolicy |-> IF nullable THEN "allow" ELSE "reject_row", classification |-> class,
   writeMode |-> mode]
MxObject(k, ps) ==
  [kind |-> "object", bound |-> TRUE, keys |-> <<k>>, properties |-> ps, unmappedRequired |-> FALSE]
MxLink(k, l) ==
  [kind |-> "link", bound |-> TRUE, keys |-> <<k, l>>, properties |-> <<>>, unmappedRequired |-> FALSE]

MxExpressions ==
  {MxCol(1), MxCol(2), MxConstant, MxTo("string", MxCol(1)), MxTo("decimal", MxCol(1)), MxTo("boolean", MxCol(2)),
   MxConcat(MxCol(1), MxCol(2)), MxConcat(MxCol(1), MxTo("string", MxCol(2))), MxTo("boolean", MxConcat(MxCol(1), MxConstant)),
   MxTo("decimal", MxTo("string", MxCol(1))), MxTo("string", MxTo("decimal", MxCol(1))), MxTo("decimal", MxConcat(MxCol(1), MxCol(2)))}

MxValueSchemas ==
  {<<c, d>> : c \in {MxColumn("string", 0, TRUE), MxColumn("decimal", 1, FALSE), MxColumn("decimal", 2, TRUE)},
              d \in {MxColumn("string", 0, FALSE), MxColumn("boolean", 0, FALSE)}}
MxValueMappings ==
  {MxObject(MxKey(k, MxAnyCase), <<MxProperty(e, d, n, c, "source_only")>>) :
     k \in {MxCol(1), MxTo("string", MxCol(1))}, e \in MxExpressions,
     d \in {MxD("string", 0), MxD("boolean", 0), MxD("decimal", 1), MxD("decimal", 2)},
     n \in BOOLEAN, c \in {"internal", "restricted"}}
  \cup {MxObject(MxKey(MxConstant, MxD("string", 0)),
               <<MxProperty(e, MxD("string", 0), TRUE, "internal", "source_only"),
                 MxProperty(MxCol(2), MxD("string", 0), TRUE, "confidential", "source_only")>>) : e \in MxExpressions}
  \cup {MxLink(MxKey(e, MxAnyCase), MxKey(f, MxD("decimal", 2))) : e \in MxExpressions, f \in MxExpressions}

MxStreamSchemas == {<<MxColumn("string", 0, TRUE), MxColumn("decimal", 1, FALSE)>>}
MxStreamMappings ==
  {MxObject(MxKey(MxCol(1), MxAnyCase), <<MxProperty(MxCol(2), MxD("decimal", 1), FALSE, "internal", "source_only")>>),
   MxObject(MxKey(MxCol(1), MxAnyCase),
          <<MxProperty(MxTo("decimal", MxCol(2)), MxD("decimal", 2), TRUE, "internal", "source_only"),
            MxProperty(MxTo("boolean", MxCol(1)), MxD("boolean", 0), TRUE, "internal", "source_only")>>),
   MxObject(MxKey(MxCol(1), MxAnyCase), <<MxProperty(MxCol(2), MxD("decimal", 1), FALSE, "internal", "overlay_only")>>),
   [MxObject(MxKey(MxCol(1), MxAnyCase), <<>>) EXCEPT !.bound = FALSE],
   [MxObject(MxKey(MxCol(1), MxAnyCase), <<>>) EXCEPT !.unmappedRequired = TRUE],
   [MxObject(MxKey(MxCol(1), MxAnyCase), <<MxProperty(MxCol(2), MxD("decimal", 1), FALSE, "internal", "source_only")>>)
      EXCEPT !.properties[1].nullPolicy = "allow"],
   MxObject(MxKey(MxConcat(MxConcat(MxCol(1), MxConstant), MxConcat(MxCol(1), MxConstant)), MxAnyCase), <<>>),
   MxObject(MxKey(MxTo("string", MxTo("string", MxTo("string", MxCol(1)))), MxAnyCase), <<>>),
   [MxLink(MxKey(MxCol(1), MxAnyCase), MxKey(MxCol(1), MxAnyCase)) EXCEPT
      !.properties = <<MxProperty(MxCol(2), MxD("decimal", 1), TRUE, "internal", "source_only")>>],
   MxLink(MxKey(MxCol(1), MxAnyCase), MxKey(MxConcat(MxCol(1), MxTo("string", MxCol(2))), MxAnyCase))}

Mv == INSTANCE MappingExecution WITH
  Schemas <- MxValueSchemas, Mappings <- MxValueMappings, MaxNodes <- 64, MaxDepth <- 8,
  Texts <- {"", "true", "1.25", "a"}, MaxRows <- 1, schema <- x1, mapping <- x2,
  status <- x3, rows <- x4, written <- x5, counts <- x6, aggregates <- x7, digest <- x8,
  summary <- x9

-----------------------------------------------------------------------------
Ms == INSTANCE MappingExecution WITH
  Schemas <- MxStreamSchemas, Mappings <- MxStreamMappings, MaxNodes <- 6, MaxDepth <- 2,
  Texts <- {"1.0", "A", "a"}, MaxRows <- 2, schema <- x1, mapping <- x2, status <- x3,
  rows <- x4, written <- x5, counts <- x6, aggregates <- x7, digest <- x8, summary <- x9

-----------------------------------------------------------------------------
\* Every short tail after a header of one or two columns, and every way to
\* write small tables whose texts hold separators, quotes and line ends.
CvStrings(alphabet, n) == UNION {[1..k -> alphabet] : k \in 0..n}

CvOneHeader == <<<<"a">>>>
CvOneArbitrary ==
  {<<"a", "n">> \o t : t \in CvStrings({"a", ",", "q", "r", "n"}, 4)}
    \cup CvStrings({"a", "q", "n", "g", "z", "0", "B1", "B2", "B3"}, 3)
CvOneTables == {<<>>, <<<<<<>>>>>>, <<<<<<"b">>>>, <<<<"q">>>>>>, <<<<<<"b", "n">>>>, <<<<"b">>>>>>}

CvNoTables == {}
CvLongArbitrary == {<<"a", "n">> \o t : t \in CvStrings({"a", "q", "n"}, 5)}

CvTwoHeader == <<<<"a">>, <<"b">>>>
CvTwoArbitrary ==
  {<<"a", ",", "b", "n">> \o t : t \in CvStrings({"a", ",", "q", "r", "n"}, 3)}
    \cup CvStrings({"a", "b", ",", "n"}, 4)
CvTwoTables == {<<<<<<"a">>, <<",">>>>>>, <<<<<<>>, <<>>>>>>, <<<<<<"r", "n">>, <<"q">>>>>>}

Cs == INSTANCE CsvScanner WITH
  Header <- CvOneHeader, Arbitrary <- CvOneArbitrary, Tables <- CvOneTables,
  MaxFieldBytes <- 6, MaxHeaderBytes <- 1, MaxRecordBytes <- 12, MaxRows <- 2, MaxColumns <- 2,
  MaxFileBytes <- 30, file <- x1, intended <- x2, read <- x3, prefix <- x4, decided <- x5,
  scan <- x6, emitted <- x7, outcome <- x8

-----------------------------------------------------------------------------
Ct == INSTANCE CsvScanner WITH
  Header <- CvTwoHeader, Arbitrary <- CvTwoArbitrary, Tables <- CvTwoTables,
  MaxFieldBytes <- 6, MaxHeaderBytes <- 1, MaxRecordBytes <- 12, MaxRows <- 2, MaxColumns <- 2,
  MaxFileBytes <- 30, file <- x1, intended <- x2, read <- x3, prefix <- x4, decided <- x5,
  scan <- x6, emitted <- x7, outcome <- x8

-----------------------------------------------------------------------------
Cl == INSTANCE CsvScanner WITH
  Header <- CvOneHeader, Arbitrary <- CvLongArbitrary, Tables <- CvNoTables,
  MaxFieldBytes <- 2, MaxHeaderBytes <- 1, MaxRecordBytes <- 5, MaxRows <- 2, MaxColumns <- 1, MaxFileBytes <- 7,
  file <- x1, intended <- x2, read <- x3, prefix <- x4, decided <- x5, scan <- x6,
  emitted <- x7, outcome <- x8

-----------------------------------------------------------------------------
\* Digits at both ends, dates at the ends of months, years and the range, the
\* widest offsets, key characters that look like the encoding's own.
VcDigits == {0, 9}
VcFormats == {<<2, 1>>, <<3, 2>>, <<2, 0>>, <<1, 2>>}
VcDates == {<<1, 1, 1>>, <<1900, 2, 28>>, <<1900, 2, 29>>, 
            <<2000, 2, 29>>, <<2000, 3, 1>>, <<9999, 12, 31>>}
VcClocks == {<<0, 0>>, <<23, 59>>}
VcOffsets == {-840, 0, 330, 840}
VcKeyTexts == {<<>>, <<"s">>, <<"S">>, <<"#">>, <<"s", "#", "s">>, <<"s", "s", "#">>,
               <<"S", "#", "s">>, <<"#", "1", "#">>}
VcFold(c) == IF c = "s" THEN "S" ELSE c

Vc == INSTANCE ValueCodec WITH
  Digits <- VcDigits, Formats <- VcFormats, Dates <- VcDates, Clocks <- VcClocks,
  Offsets <- VcOffsets, KeyTexts <- VcKeyTexts, Fold <- VcFold, KeyWidth <- 2, kind <- x1,
  inputs <- x2, schema <- x3, outputs <- x4

-----------------------------------------------------------------------------
\* Two concurrent uploads per session and a finalize request; all may die.

Us == INSTANCE UploadSession WITH
  Members <- {"a"}, Doubled <- {}, Ages <- {"fresh", "expired", "cleanable"}, MaxPuts <- 2,
  Uploaders <- {"u1", "u2"}, Finalizers <- {"f1"}, Crashes <- TRUE,
  session <- x1, registered <- x2, store <- x3, puts <- x4, up <- x5, fin <- x6, clean <- x7

-----------------------------------------------------------------------------
\* Two sessions for one member: finalize requests claim overlapping groups.

Uf == INSTANCE UploadSession WITH
  Members <- {"a", "b"}, Doubled <- {"a"}, Ages <- {"fresh"}, MaxPuts <- 1,
  Uploaders <- {"u1"}, Finalizers <- {"f1", "f2"}, Crashes <- FALSE,
  session <- x1, registered <- x2, store <- x3, puts <- x4, up <- x5, fin <- x6, clean <- x7

-----------------------------------------------------------------------------
\* Three generations of one member of which one is kept, two indexes, one of
\* them shared.

Gg == INSTANCE GenerationGC WITH
  NGenerations <- 3, Uploads <- {}, Indexes <- {{1}, {2, 3}}, Keep <- 1, Grace <- 1,
  OrphanGrace <- 1, MaxTime <- 1, MaxRevision <- 3, MaxRoot <- 5, MaxPlans <- 1, now <- x1,
  inventory <- x2, root <- x3, gens <- x4, indexes <- x5, uploads <- x6, scan <- x7,
  plans <- x8, call <- x9

-----------------------------------------------------------------------------
\* Two uploads and two plans, which changes and batches make stale.

Go == INSTANCE GenerationGC WITH
  NGenerations <- 0, Uploads <- {"u1", "u2"}, Indexes <- {}, Keep <- 1, Grace <- 1,
  OrphanGrace <- 1, MaxTime <- 1, MaxRevision <- 3, MaxRoot <- 5, MaxPlans <- 2, now <- x1,
  inventory <- x2, root <- x3, gens <- x4, indexes <- x5, uploads <- x6, scan <- x7,
  plans <- x8, call <- x9

-----------------------------------------------------------------------------
\* Two executors that may be killed, one index that a build needs.

Pd == INSTANCE ProjectionDdl WITH
  Indexes <- {"i1"}, Builds <- {{"i1"}}, Executors <- {"e1", "e2"}, MaxRevision <- 2,
  catalog <- x1, inv <- x2, inventory <- x3, requests <- x4, plan <- x5, builds <- x6,
  exec <- x7, lock <- x8

-----------------------------------------------------------------------------
\* Two generations against limits that hold one with its margin, or two with
\* an approval.

Pc == INSTANCE ProjectionCapacity WITH
  Generations <- {"g1", "g2"}, Releases <- {"r1"}, Links <- {}, MaxBytes <- 2, Slack <- 1,
  NormalRelease <- 3, HardRelease <- 3, NormalSteady <- 3, NormalPeak <- 3, HardPeak <- 5,
  Approved <- {5, 7}, Grace <- 1, MaxTime <- 0, MaxRevision <- 2, gen <- x1, inv <- x2,
  head <- x3, lease <- x4, caller <- x5, admissions <- x6, plan <- x7, now <- x8

-----------------------------------------------------------------------------
\* The same two, collected after a grace.

Pg == INSTANCE ProjectionCapacity WITH
  Generations <- {"g1"}, Releases <- {"r1"}, Links <- {}, MaxBytes <- 1, Slack <- 0,
  NormalRelease <- 9, HardRelease <- 9, NormalSteady <- 9, NormalPeak <- 9, HardPeak <- 9,
  Approved <- {}, Grace <- 1, MaxTime <- 1, MaxRevision <- 2, gen <- x1, inv <- x2,
  head <- x3, lease <- x4, caller <- x5, admissions <- x6, plan <- x7, now <- x8

-----------------------------------------------------------------------------
\* Indexes of cost 2, 2 and 1; the plans of two releases exceed the hard limit
\* together with the third.
IaPlan(S) == [indexes |-> S, evidence |-> "e1"]
IaCost == [i1 |-> 2, i2 |-> 2, i3 |-> 1]
IaPlans == [r1 |-> {IaPlan({"i1"}), IaPlan({"i1", "i3"})}, r2 |-> {IaPlan({"i2"}), IaPlan({"i1"})}]

Ia == INSTANCE IndexAdmission WITH
  Procs <- {"p1"}, Releases <- {"r1", "r2"}, Indexes <- {"i1", "i2", "i3"}, Cost <- IaCost,
  Plans <- IaPlans, Approvals <- {}, NormalUnits <- 3, HardUnits <- 4, NormalCount <- 2,
  HardCount <- 3, MaxRevision <- 2, inv <- x1, phys <- x2, admissions <- x3, serving <- x4,
  proc <- x5, refused <- x6

-----------------------------------------------------------------------------
\* Two callers that submit the same plans.
IrPlans == [r1 |-> {IaPlan({"i1"}), IaPlan({"i1", "i3"})}, r2 |-> {IaPlan({"i2"})}]

Ir == INSTANCE IndexAdmission WITH
  Procs <- {"p1", "p2"}, Releases <- {"r1", "r2"}, Indexes <- {"i1", "i2", "i3"},
  Cost <- IaCost, Plans <- IrPlans, Approvals <- {}, NormalUnits <- 3, HardUnits <- 4,
  NormalCount <- 2, HardCount <- 3, MaxRevision <- 1, inv <- x1, phys <- x2,
  admissions <- x3, serving <- x4, proc <- x5, refused <- x6

-----------------------------------------------------------------------------
\* Up to two declarations for a property and another.

Ip == INSTANCE IndexPlan WITH
  MaxDeclarations <- 2, Budget <- 7, meta <- x1, decls <- x2, compiled <- x3, outcome <- x4

-----------------------------------------------------------------------------
\* Four releases and a group version of two members, taken for the first
\* release.  The second can reuse it, the second member does not fit the third,
\* and the plan of the fourth has other members.  The first member can be built
\* again once.
RfPlanMembers == <<{1, 2}, {1, 2}, {1, 2}, {1}>>
RfMemberOf == <<1, 2, 1>>
RfPlanOf == <<1, 1>>
RfFits == {<<1, 1>>, <<2, 1>>, <<1, 2>>, <<2, 2>>, <<1, 3>>, <<1, 4>>}

Rf == INSTANCE RuntimeRefresh WITH
  NReleases <- 4, Members <- {1, 2}, PlanMembers <- RfPlanMembers, Generations <- {1, 2, 3},
  MemberOf <- RfMemberOf, PlanOf <- RfPlanOf, Fits <- RfFits, MaxCalls <- 2,
  MaxInventory <- 2, job <- x1, version <- x2, gen <- x3, inventory <- x4, admitted <- x5,
  certs <- x6, call <- x7, answer <- x8, calls <- x9, ids <- x10

-----------------------------------------------------------------------------
\* Two releases over an object mapping and a link mapping; the second pins
\* only the first.
DvTarget == [m1 |-> "object", m2 |-> "link"]
DvPinnedMappings == [r1 |-> {"m1", "m2"}, r2 |-> {"m1"}]
DvPinnedTargets == [r1 |-> {"object", "link"}, r2 |-> {"object"}]

Dv == INSTANCE PlanDerivation WITH
  Releases <- {"r1", "r2"}, Mappings <- {"m1", "m2"}, Target <- DvTarget,
  LinkTargets <- {"link"}, PinnedMappings <- DvPinnedMappings,
  PinnedTargets <- DvPinnedTargets, Groups <- {"g1", "g2"}, Digests <- {"d1", "d2"},
  MaxInventory <- 2, MaxAdmissions <- 2, LinkDigest <- "link", defs <- x1, admissions <- x2,
  inventory <- x3, approval <- x4, plans <- x5, state <- x6, certified <- x7

-----------------------------------------------------------------------------
\* What a component of so many variables leaves alone.
after4 == <<x5, x6, x7, x8, x9, x10>>
after6 == <<x7, x8, x9, x10>>
after7 == <<x8, x9, x10>>
after8 == <<x9, x10>>
after9 == <<x10>>

NoneAfter9 == x10 = None
NoneAfter8 == x9 = None /\ NoneAfter9
NoneAfter7 == x8 = None /\ NoneAfter8
NoneAfter6 == x7 = None /\ NoneAfter7
NoneAfter4 == x5 = None /\ x6 = None /\ NoneAfter6

Init ==
  \/ component = "pipeline"   /\ Pl!Init /\ NoneAfter7
  \/ component = "alone"      /\ Pa!Init /\ NoneAfter7
  \/ component = "staging"    /\ Bs!Init /\ NoneAfter6
  \/ component = "observing"  /\ Bo!Init /\ NoneAfter6
  \/ component = "quality"    /\ Qr!Init /\ NoneAfter7
  \/ component = "versions"   /\ Qv!Init /\ NoneAfter7
  \/ component = "values"     /\ Mv!Init /\ NoneAfter9
  \/ component = "stream"     /\ Ms!Init /\ NoneAfter9
  \/ component = "csv"        /\ Cs!Init /\ NoneAfter8
  \/ component = "csvtwo"     /\ Ct!Init /\ NoneAfter8
  \/ component = "csvlimits"  /\ Cl!Init /\ NoneAfter8
  \/ component = "codec"      /\ Vc!Init /\ NoneAfter4
  \/ component = "upload"     /\ Us!Init /\ NoneAfter7
  \/ component = "finalize"   /\ Uf!Init /\ NoneAfter7
  \/ component = "collection" /\ Gg!Init /\ NoneAfter9
  \/ component = "orphans"    /\ Go!Init /\ NoneAfter9
  \/ component = "ddl"        /\ Pd!Init /\ NoneAfter8
  \/ component = "capacity"   /\ Pc!Init /\ NoneAfter8
  \/ component = "collected"  /\ Pg!Init /\ NoneAfter8
  \/ component = "index"      /\ Ia!Init /\ NoneAfter6
  \/ component = "race"       /\ Ir!Init /\ NoneAfter6
  \/ component = "plan"       /\ Ip!Init /\ NoneAfter4
  \/ component = "refresh"    /\ Rf!Init
  \/ component = "derivation" /\ Dv!Init /\ NoneAfter7

Next ==
  \/ component = "pipeline"   /\ Pl!Next /\ UNCHANGED <<component, after7>>
  \/ component = "alone"      /\ Pa!Next /\ UNCHANGED <<component, after7>>
  \/ component = "staging"    /\ Bs!Next /\ UNCHANGED <<component, after6>>
  \/ component = "observing"  /\ Bo!Next /\ UNCHANGED <<component, after6>>
  \/ component = "quality"    /\ Qr!Next /\ UNCHANGED <<component, after7>>
  \/ component = "versions"   /\ Qv!Next /\ UNCHANGED <<component, after7>>
  \/ component = "values"     /\ Mv!Next /\ UNCHANGED <<component, after9>>
  \/ component = "stream"     /\ Ms!Next /\ UNCHANGED <<component, after9>>
  \/ component = "csv"        /\ Cs!Next /\ UNCHANGED <<component, after8>>
  \/ component = "csvtwo"     /\ Ct!Next /\ UNCHANGED <<component, after8>>
  \/ component = "csvlimits"  /\ Cl!Next /\ UNCHANGED <<component, after8>>
  \/ component = "codec"      /\ Vc!Next /\ UNCHANGED <<component, after4>>
  \/ component = "upload"     /\ Us!Next /\ UNCHANGED <<component, after7>>
  \/ component = "finalize"   /\ Uf!Next /\ UNCHANGED <<component, after7>>
  \/ component = "collection" /\ Gg!Next /\ UNCHANGED <<component, after9>>
  \/ component = "orphans"    /\ Go!Next /\ UNCHANGED <<component, after9>>
  \/ component = "ddl"        /\ Pd!Next /\ UNCHANGED <<component, after8>>
  \/ component = "capacity"   /\ Pc!Next /\ UNCHANGED <<component, after8>>
  \/ component = "collected"  /\ Pg!Next /\ UNCHANGED <<component, after8>>
  \/ component = "index"      /\ Ia!Next /\ UNCHANGED <<component, after6>>
  \/ component = "race"       /\ Ir!Next /\ UNCHANGED <<component, after6>>
  \/ component = "plan"       /\ Ip!Next /\ UNCHANGED <<component, after4>>
  \/ component = "refresh"    /\ Rf!Next /\ UNCHANGED component
  \/ component = "derivation" /\ Dv!Next /\ UNCHANGED <<component, after7>>

Spec == Init /\ [][Next]_vars

\* Two callers of the admission alone, each for a release.
RaceSpec == Init /\ component = "race" /\ [][Next]_vars

\* Two uploads of a session and a finalize request alone.
UploadSpec == component = "upload" /\ Init /\ [][Next]_vars

-----------------------------------------------------------------------------
(* Properties.                                                             *)

\* What the components demand of their bounds and limits.
ASSUME StorageAssumption ==
  /\ Pl!PipelineAssumption /\ Bs!BaseAssumption /\ Qr!QualityAssumption
  /\ Us!UploadAssumption /\ Gg!GcAssumption /\ Pd!DdlAssumption
  /\ Pc!LimitsOK /\ Ia!ConstantsOK /\ Ip!BudgetOK

\* Every component keeps to its types and lifecycles; who holds a claim or a
\* lock is where it says it is.
StorageTyped ==
  /\ component = "upload" => Us!TypeOK
  /\ component = "collection" => Gg!TypeOK
  /\ component = "ddl" => Pd!TypeOK
  /\ component = "index" => Ia!TypeOK
  /\ component = "refresh" => Rf!TypeOK
  /\ component = "derivation" => Dv!TypeOK
  /\ component = "pipeline" => Pl!TypeOK
  /\ component = "staging" => Bs!TypeOK
  /\ component = "quality" => Qr!TypeOK
  /\ component = "values" => Mv!TypeOK
  /\ component = "csvlimits" => Cl!TypeOK

\* Nothing is deleted that is needed: the object version a snapshot names or
\* may yet name leaves the store only by the compensation of its own upload,
\* and a group is registered whole, although uploads and claims race, lapse
\* and die; a generation that lost rows is never served and
\* the latest success keeps them; a finished generation keeps its indexes, and
\* a build rests on valid ones, although plans go stale and executors are
\* killed; an index of another definition is never touched; and a collection
\* takes nothing that was rooted again since its dry run.
NothingNeededIsCollected ==
  /\ [](/\ component = "finalize" => Uf!GroupWhole
        /\ component = "collection" => /\ Gg!RootedIsWhole /\ Gg!IndexesOfWholeGenerationsKept
                                       /\ Gg!RecentIsWhole
        /\ component = "orphans" => Go!RegisteredObjectsKept /\ Go!CleanedIsDeleted
        /\ component = "ddl" => Pd!BuiltOnValidIndexes)
  /\ [][/\ component = "upload" => Us!NeededObjectKept
        /\ component = "ddl" => Pd!ForeignIndexKept
        /\ component = "collected" => Pg!CollectsUnrooted]_vars

\* However snapshots of the inventory and decisions overlap, what is admitted
\* or finished fits under the hard limits, an admission reserves what is on
\* disk, plans that one caller at a time had admitted without an approval fit
\* under the normal limits together, and there is one admission for one plan
\* at one revision.
WithinCapacity ==
  /\ component = "capacity" => /\ Pc!AdmittedWithinHard /\ Pc!FinishedWithinHard
                               /\ Pc!AdmissionCoversDisk
  /\ component = "index" => Ia!UnionWithinNormal
  /\ component = "race" => Ir!OneAdmission

\* Expected to fail.  The exact version a registered snapshot names stays in
\* the store (uploadSessionContent's catch block deletes it when the answer to
\* recordUploadedVersion is lost and the session is finalized meanwhile).
RegisteredStays == component = "upload" => Us!RegisteredObjectKept

\* The plans a project retains fit under the hard limits together, which no
\* approval raises (ADR-008 5.3).  What is admitted does not: persisting an
\* admission compares the revision, which the other admission did not move.
AdmissionsWithinHard == component = "race" => Ir!UnionWithinHard

\* What is derived twice is the same: a compiled index is accepted when it is
\* read back, the repository agrees with the compiler, and a plan answers the
\* queries its properties promise; a stored runtime plan is derived again
\* unchanged, never replaced, and was stored on current admissions; a release
\* keeps the indexes of its plan; releases are refreshed on certificates of
\* their own, each issued once, and fail alone.
PlansReproduce ==
  /\ [](/\ component = "index" => Ia!ReleaseKeepsIndexes
        /\ component = "plan" => /\ Ip!CompiledRecompiles /\ Ip!PublisherAgrees
                                 /\ Ip!AnswersQueries /\ Ip!NeededPublishes
        /\ component = "refresh" => /\ Rf!ReadyIsCertified /\ Rf!CertifiedOnce
                                    /\ Rf!NoVainPending /\ Rf!FailAlone
        /\ component = "derivation" => Dv!StaysDerivable)
  /\ [][component = "derivation" => Dv!PlanNeverChanges /\ Dv!PlannedOnAdmitted]_vars
\* However attempts lose their lease, are retried or race: what becomes ready
\* was measured with its own rows on disk and is the only generation of its
\* member; a job is dead-lettered for its input only; identities are
\* permanent, a base is the whole file of one attempt, frozen, its links
\* joined; a report counts rows that are stored, is passed within the rules
\* or confirmed for what holds at that moment, links after objects.
StagesFaithful ==
  /\ [](/\ component = "pipeline" => Pl!ReadyWasMeasured /\ Pl!OneGeneration
        /\ component = "alone" => Pa!DeadLetterHasCause
        /\ component = "staging" => Bs!BaseIsWholeFile /\ Bs!EndpointsHaveIdentity
        /\ component = "observing" => Bo!ObservedIsPromoted
        /\ component = "quality" => Qr!ReportedRowsAreStored /\ Qr!LinksFollowObjects
        /\ component = "versions" => Qv!PassedWithinRules)
  /\ [][/\ component = "staging" => Bs!IdentityIsPermanent /\ Bs!BaseIsFrozen
        /\ component = "versions" => Qv!ConfirmationIsTimely]_vars

\* From the bytes of a file to stored values: a table is read back however it
\* was quoted and cut, nothing else is accepted, and nothing over the limits;
\* mapped values conform to their types, keys of objects and links agree,
\* errors name nothing secret and no file makes an execution throw; canonical
\* texts of decimals, timestamps and keys are equal exactly when their values
\* are.
RowsFaithful ==
  /\ component = "csv" => Cs!ReadsBack /\ Cs!AcceptsOnlyTables
  /\ component = "csvtwo" => Ct!ReadsBack /\ Ct!AcceptsOnlyTables
  /\ component = "csvlimits" => Cl!WithinLimits
  /\ component = "values" => /\ Mv!ValuesConform /\ Mv!NamesNothingSecret /\ Mv!NeverThrows
                             /\ Mv!MissingStaysMissing /\ Mv!DirectNeverRefused
  /\ component = "stream" => Ms!LinkFindsObject /\ Ms!SummaryMatchesSink
  /\ component = "codec" => /\ Vc!DecimalsByValue /\ Vc!DecimalsFitNumeric
                            /\ Vc!TimestampsByInstant /\ Vc!TimestampsStable
                            /\ Vc!KeysByComponents
=============================================================================
