-------------------------- MODULE MappingExecution --------------------------
(***************************************************************************)
(* A mapping turns the rows of a managed file into objects or links. It is  *)
(* compiled once against the schema of the file and the target type; the    *)
(* execution then turns each row into one event, hands it to a sink, counts *)
(* it and chains it into the digest of the stream.                          *)
(*                                                                          *)
(* Source: packages/materialization-domain/src/mapping.ts, index.ts         *)
(* (executeManagedCsvMapping); packages/contracts/src/materialization.ts    *)
(* (parseMappingDefinition and its parts).                                  *)
(*                                                                          *)
(* Abstractions: the value types are string, boolean and decimals of two    *)
(* scales; a text is a sequence of tokens, so that concat can be followed.  *)
(* A value keeps its JavaScript type: decimals are strings, booleans are    *)
(* not. A digest is what it digests. The bindings by identifier and digest  *)
(* are one flag of the request.                                             *)
(***************************************************************************)
EXTENDS Integers, Sequences, SequencesExt, FiniteSets

CONSTANTS
  Schemas,     \* sequences of columns [type, scale, required]
  Mappings,    \* mapping definitions with their target types
  MaxNodes,    \* the budget of nodes all expressions of a mapping share
  MaxDepth,    \* the depth of an expression
  Texts,       \* the cells of a row; "" is an empty cell
  MaxRows      \* bound: rows of a file

VARIABLES
  schema, mapping,   \* the request
  status,            \* "requested", "running", "finished", "sink_failed" or a refusal
  rows,              \* the rows consumed
  written,           \* the events the sink stored
  counts,            \* [accepted, rejected] as the execution counts them
  aggregates,        \* how often each error was seen
  digest,            \* the chain of the events, as the sequence of them
  summary            \* what finish returned

vars == <<schema, mapping, status, rows, written, counts, aggregates, digest, summary>>

(* ----- the codec --------------------------------------------------------- *)

Null == [js |-> "null", v |-> <<>>]
Text(v) == [js |-> "string", v |-> v]
Bool(b) == [js |-> "boolean", v |-> <<b>>]
Ok(value) == [ok |-> TRUE, value |-> value, code |-> ""]
Fail(code) == [ok |-> FALSE, value |-> Null, code |-> code]

(* Decimal texts by their number of fraction digits, and the same number     *)
(* written with one and with two of them.                                    *)
Fraction == [t \in {"1", "1.0", "1.00", "1.25"} |->
               CASE t = "1" -> 0 [] t = "1.0" -> 1 [] OTHER -> 2]
Rescaled(t, scale) == IF t = "1.25" THEN t ELSE IF scale = 1 THEN "1.0" ELSE "1.00"

(* canonicalizePropertyValue. *)
Canonical(value, d) ==
  CASE d.type = "string" ->
         IF value.js = "string" THEN Ok(value) ELSE Fail("VALUE_TYPE_MISMATCH")
    [] d.type = "boolean" ->
         IF value.js = "boolean" THEN Ok(value) ELSE Fail("VALUE_TYPE_MISMATCH")
    [] d.type = "decimal" ->
         IF /\ value.js = "string" /\ Len(value.v) = 1 /\ value.v[1] \in DOMAIN Fraction
            /\ Fraction[value.v[1]] <= d.scale
         THEN Ok(Text(<<Rescaled(value.v[1], d.scale)>>))
         ELSE Fail("DECIMAL_INVALID")

(* textCandidate: what a text stands for under a descriptor. *)
TextCandidate(v, d) ==
  IF d.type # "boolean" THEN Ok(Text(v))
  ELSE IF v \in {<<"true">>, <<"false">>} THEN Ok(Bool(v[1]))
  ELSE Fail("VALUE_TYPE_MISMATCH")

FromText(v, d) == LET c == TextCandidate(v, d) IN IF c.ok THEN Canonical(c.value, d) ELSE c

(* parseSourceCell. *)
Cell(text, column) == IF text = "" THEN Ok(Null) ELSE FromText(<<text>>, column)

Fold(v) == [i \in DOMAIN v |-> IF v[i] = "A" THEN "a" ELSE v[i]]

(* canonicalizePrimaryKey of one component under keyDescriptorFromProperty. *)
KeyOf(value, d) ==
  LET c == Canonical(value, d)
  IN  IF ~c.ok THEN c
      ELSE IF d.type = "string" /\ ~d.caseSensitive THEN Ok(Text(Fold(c.value.v)))
      ELSE c

(* ----- compilation ------------------------------------------------------ *)

NoDescriptor == [type |-> "none"]
Generic(type) == [type |-> type, scale |-> 0]

TypeOf(e, s) ==
  CASE e.op = "column" -> s[e.col].type
    [] e.op = "cast" -> e.type
    [] OTHER -> "string"

RECURSIVE ColumnsOf(_)
ColumnsOf(e) ==
  CASE e.op = "column" -> {e.col}
    [] e.op = "constant" -> {}
    [] e.op = "cast" -> ColumnsOf(e.input)
    [] e.op = "concat" -> UNION {ColumnsOf(e.inputs[i]) : i \in DOMAIN e.inputs}

RECURSIVE Nodes(_)
Nodes(e) ==
  1 + CASE e.op = "cast" -> Nodes(e.input)
        [] e.op = "concat" -> FoldLeft(LAMBDA n, i : n + Nodes(i), 0, e.inputs)
        [] OTHER -> 0

RECURSIVE Depth(_)
Depth(e) ==
  CASE e.op = "cast" -> 1 + Depth(e.input)
    [] e.op = "concat" -> 1 + FoldLeft(LAMBDA n, i : IF Depth(i) > n THEN Depth(i) ELSE n, 0, e.inputs)
    [] OTHER -> 0

ExpressionsOf(m) == [i \in DOMAIN m.keys |-> m.keys[i].expression]
                      \o [i \in DOMAIN m.properties |-> m.properties[i].expression]

(* parseMappingDefinition: an object has one key expression, a link has two; *)
(* the expressions share one budget; a required property rejects nulls.      *)
WellFormed(m) ==
  LET all == ExpressionsOf(m)
  IN  /\ Len(m.keys) = IF m.kind = "object" THEN 1 ELSE 2
      /\ FoldLeft(LAMBDA n, e : n + Nodes(e), 0, all) <= MaxNodes
      /\ \A i \in DOMAIN all : Depth(all[i]) <= MaxDepth
      /\ \A i \in DOMAIN m.properties :
           m.properties[i].required => m.properties[i].nullPolicy = "reject_row"

(* castAllowed over the scalar types. *)
CastAllowed(source, target) == source = target \/ source = "string" \/ target = "string"

(* descriptorForCast. *)
CastDescriptor(type, expected) == IF expected.type = type THEN expected ELSE Generic(type)

(* Mutant of Compiles: the inputs of concat may have any type. *)
RECURSIVE CompilesAnyConcat(_, _, _)
CompilesAnyConcat(e, expected, s) ==
  CASE e.op = "column" -> e.col \in DOMAIN s
    [] e.op = "constant" -> TRUE
    [] e.op = "concat" ->
         \A i \in DOMAIN e.inputs : CompilesAnyConcat(e.inputs[i], NoDescriptor, s)
    [] e.op = "cast" ->
         /\ e.type = "decimal" => expected.type = "decimal"
         /\ CompilesAnyConcat(e.input, NoDescriptor, s)
         /\ CastAllowed(TypeOf(e.input, s), e.type)

(* compileExpression. *)
RECURSIVE Compiles(_, _, _)
Compiles(e, expected, s) ==
  CASE e.op = "column" -> e.col \in DOMAIN s
    [] e.op = "constant" -> TRUE
    [] e.op = "concat" ->
         \A i \in DOMAIN e.inputs :
           Compiles(e.inputs[i], NoDescriptor, s) /\ TypeOf(e.inputs[i], s) = "string"
    [] e.op = "cast" ->
         /\ e.type = "decimal" => expected.type = "decimal"
         /\ Compiles(e.input, NoDescriptor, s)
         /\ CastAllowed(TypeOf(e.input, s), e.type)

(* compileExpressionForTarget with descriptorsCompatible. *)
CompilesFor(e, d, s) ==
  /\ Compiles(e, d, s)
  /\ TypeOf(e, s) = d.type
  /\ e.op = "column" /\ d.type = "decimal" => s[e.col].scale = d.scale

(* One property in compileObjectPlan. *)
PropertyRefusal(p, s) ==
  CASE p.writeMode # "source_only" -> "MAPPING_PROPERTY_NOT_SOURCE_WRITABLE"
    [] p.required # ~p.nullable -> "MAPPING_PROPERTY_REQUIRED_MISMATCH"
    [] ~CompilesFor(p.expression, p.descriptor, s) -> "MAPPING_EXPRESSION_TYPE_INVALID"
    [] OTHER -> "none"

Refusal(m, s) ==
  IF ~WellFormed(m) THEN "MAPPING_CONTRACT_INVALID"
  ELSE IF ~m.bound THEN "MAPPING_BINDING_MISMATCH"
  ELSE IF m.kind = "link" /\ m.properties # <<>> THEN "MAPPING_PROPERTY_NOT_SOURCE_WRITABLE"
  ELSE IF \E i \in DOMAIN m.keys : ~CompilesFor(m.keys[i].expression, m.keys[i].descriptor, s)
    THEN "MAPPING_EXPRESSION_TYPE_INVALID"
  ELSE IF \E i \in DOMAIN m.properties : PropertyRefusal(m.properties[i], s) # "none"
    THEN PropertyRefusal(
           m.properties[CHOOSE i \in DOMAIN m.properties : PropertyRefusal(m.properties[i], s) # "none"], s)
  ELSE IF m.kind = "object" /\ m.unmappedRequired THEN "MAPPING_PROPERTY_REQUIRED_MISSING"
  ELSE "none"

(* markUsage: keys are sensitive, and so are properties of the two upper     *)
(* classes.                                                                  *)
KeyColumns(m) == UNION {ColumnsOf(m.keys[i].expression) : i \in DOMAIN m.keys}
PropertyColumns(m, sensitive) ==
  UNION {ColumnsOf(m.properties[i].expression) :
           i \in {j \in DOMAIN m.properties :
                    (m.properties[j].classification \in {"confidential", "restricted"}) = sensitive}}

(* diagnosticNameAllowed: used, and by nothing sensitive. *)
NameAllowed(m) == PropertyColumns(m, FALSE) \ (KeyColumns(m) \cup PropertyColumns(m, TRUE))

(* diagnosticColumn: 0 when the error names no column. *)
DiagnosticColumn(m, columns) ==
  IF Cardinality(columns) = 1 /\ columns \subseteq NameAllowed(m)
  THEN CHOOSE c \in columns : TRUE ELSE 0

(* ----- evaluation --------------------------------------------------------- *)

(* castValue. *)
Cast(value, source, d) ==
  IF d.type = "string" THEN Canonical(Text(value.v), d)
  ELSE IF source = "string"
    THEN IF value.js = "string" THEN FromText(value.v, d) ELSE Fail("VALUE_TYPE_MISMATCH")
  ELSE IF source = d.type THEN Canonical(value, d)
  ELSE Fail("VALUE_TYPE_MISMATCH")

(* Mutant of Eval: an empty input of concat is an empty text. *)
RECURSIVE EvalEmptyText(_, _, _, _)
EvalEmptyText(e, expected, cells, s) ==
  CASE e.op = "column" -> cells[e.col]
    [] e.op = "constant" -> Ok(Text(<<e.literal>>))
    [] e.op = "concat" ->
         LET parts == [i \in DOMAIN e.inputs |-> EvalEmptyText(e.inputs[i], NoDescriptor, cells, s)]
         IN  Ok(Text(FlattenSeq([i \in DOMAIN parts |-> parts[i].value.v])))
    [] e.op = "cast" ->
         LET input == EvalEmptyText(e.input, NoDescriptor, cells, s)
         IN  IF ~input.ok \/ input.value = Null THEN input
             ELSE Cast(input.value, TypeOf(e.input, s), CastDescriptor(e.type, expected))

(* evaluateExpression: concat stops at the first input without a value, and  *)
(* throws on a value that is not a string.                                   *)
RECURSIVE Eval(_, _, _, _)
Eval(e, expected, cells, s) ==
  CASE e.op = "column" -> cells[e.col]
    [] e.op = "constant" -> Ok(Text(<<e.literal>>))
    [] e.op = "concat" ->
         LET parts == [i \in DOMAIN e.inputs |-> Eval(e.inputs[i], NoDescriptor, cells, s)]
             stops == {i \in DOMAIN parts : parts[i].value.js # "string"}
             first == CHOOSE i \in stops : \A j \in stops : i <= j
         IN  IF stops = {} THEN Ok(Text(FlattenSeq([i \in DOMAIN parts |-> parts[i].value.v])))
             ELSE IF parts[first].value = Null THEN parts[first]
             ELSE Fail("thrown")
    [] e.op = "cast" ->
         LET input == Eval(e.input, NoDescriptor, cells, s)
         IN  IF ~input.ok \/ input.value = Null THEN input
             ELSE Cast(input.value, TypeOf(e.input, s), CastDescriptor(e.type, expected))

Error(reason, code, codec, column) ==
  [reason |-> reason, code |-> code, codec |-> codec, column |-> column]

(* evaluateMappingRow: every cell is read, used or not. *)
SourceErrors(m, s, cells) ==
  LET name(c) == IF c \in NameAllowed(m) THEN c ELSE 0
      of(c) ==
        IF ~cells[c].ok
        THEN <<Error(IF s[c].required THEN "REQUIRED_PROPERTY_INVALID" ELSE "OPTIONAL_PROPERTY_INVALID",
                     "MAPPING_SOURCE_VALUE_INVALID", cells[c].code, name(c))>>
        ELSE IF cells[c].value = Null /\ s[c].required /\ c \notin KeyColumns(m)
        THEN <<Error("REQUIRED_PROPERTY_INVALID", "MAPPING_SOURCE_REQUIRED_NULL", "", name(c))>>
        ELSE <<>>
  IN  FlattenSeq([c \in DOMAIN s |-> of(c)])

(* Mutant of KeyValue: the case of a text is folded for objects only. *)
KeyValueLinkAsWritten(m, k, cells, s) ==
  LET e == Eval(k.expression, k.descriptor, cells, s)
  IN  IF ~e.ok \/ e.value = Null THEN e
      ELSE IF m.kind = "object" THEN KeyOf(e.value, k.descriptor)
      ELSE Canonical(e.value, k.descriptor)

(* The primary key of an object, or one end of a link (evaluateIdentityLookup). *)
KeyValue(m, k, cells, s) ==
  LET e == Eval(k.expression, k.descriptor, cells, s)
  IN  IF ~e.ok \/ e.value = Null THEN e
      ELSE IF m.kind = "object"
        THEN LET p == Canonical(e.value, k.descriptor)
             IN  IF p.ok THEN KeyOf(p.value, k.descriptor) ELSE p
      ELSE KeyOf(e.value, k.descriptor)

KeyErrors(m, v) ==
  IF ~v.ok THEN <<Error("REQUIRED_PROPERTY_INVALID", "MAPPING_KEY_INVALID", v.code, 0)>>
  ELSE IF v.value = Null THEN <<Error(IF m.kind = "object" THEN "PRIMARY_KEY_NULL"
                                      ELSE "REQUIRED_PROPERTY_INVALID", "MAPPING_KEY_NULL", "", 0)>>
  ELSE <<>>

(* One mapped property (evaluateObjectRow). *)
PropertyValue(p, cells, s) ==
  LET e == Eval(p.expression, p.descriptor, cells, s)
  IN  IF ~e.ok \/ e.value = Null THEN e ELSE Canonical(e.value, p.descriptor)

PropertyErrors(m, p, v) ==
  LET reason == IF p.required THEN "REQUIRED_PROPERTY_INVALID" ELSE "OPTIONAL_PROPERTY_INVALID"
      column == DiagnosticColumn(m, ColumnsOf(p.expression))
  IN  IF ~v.ok THEN <<Error(reason, "MAPPING_PROPERTY_INVALID", v.code, column)>>
      ELSE IF v.value = Null /\ (p.required \/ p.nullPolicy = "reject_row")
        THEN <<Error(reason, "MAPPING_PROPERTY_NULL", "", column)>>
      ELSE <<>>

(* The event of a row: rejected with its errors, or the keys and properties. *)
Event(m, s, row) ==
  LET cells == [c \in DOMAIN s |-> Cell(row[c], s[c])]
      keys == [i \in DOMAIN m.keys |-> KeyValue(m, m.keys[i], cells, s)]
      properties == [i \in DOMAIN m.properties |-> PropertyValue(m.properties[i], cells, s)]
      source == SourceErrors(m, s, cells)
      mapped == FlattenSeq([i \in DOMAIN keys |-> KeyErrors(m, keys[i])])
                  \o FlattenSeq([i \in DOMAIN properties |->
                                   PropertyErrors(m, m.properties[i], properties[i])])
      errors == IF source # <<>> THEN source ELSE mapped
  IN  IF errors # <<>> THEN [kind |-> "rejected", errors |-> errors, keys |-> <<>>, properties |-> <<>>]
      ELSE [kind |-> m.kind, errors |-> <<>>,
            keys |-> [i \in DOMAIN keys |-> keys[i].value.v],
            properties |-> [i \in DOMAIN properties |-> properties[i].value]]

Thrown(event) == \E i \in DOMAIN event.errors : event.errors[i].codec = "thrown"

(* ----- actions -------------------------------------------------------------- *)

NoSummary == [rows |-> -1, accepted |-> 0, rejected |-> 0, aggregates |-> <<>>, digest |-> <<>>]

Init ==
  /\ schema \in Schemas /\ mapping \in Mappings
  /\ status = "requested"
  /\ rows = <<>> /\ written = <<>> /\ digest = <<>>
  /\ counts = [accepted |-> 0, rejected |-> 0]
  /\ aggregates = <<>> /\ summary = NoSummary

(* compileMapping, then createMappingExecution. *)
Compile ==
  /\ status = "requested"
  /\ status' = IF Refusal(mapping, schema) = "none" THEN "running" ELSE Refusal(mapping, schema)
  /\ UNCHANGED <<schema, mapping, rows, written, counts, aggregates, digest, summary>>

AggregateKey(e) == <<e.reason, e.code, e.codec>>

(* #recordError for each error of a rejected row. *)
Recorded(known, errors) ==
  LET record(a, e) ==
        LET k == AggregateKey(e)
        IN  IF k \in DOMAIN a THEN [a EXCEPT ![k] = @ + 1]
            ELSE [x \in DOMAIN a \cup {k} |-> IF x = k THEN 1 ELSE a[x]]
  IN  FoldLeft(record, known, errors)

(* One row (consumeRow): counted and digested before the sink stores it; a   *)
(* failing sink ends the execution.                                          *)
ConsumeRow(row, sinkFails) ==
  LET event == Event(mapping, schema, row)
  IN  /\ status = "running" /\ Len(rows) < MaxRows
      /\ rows' = Append(rows, row)
      /\ IF Thrown(event)
         THEN /\ status' = "thrown"
              /\ UNCHANGED <<written, counts, aggregates, digest>>
         ELSE /\ counts' = IF event.kind = "rejected" THEN [counts EXCEPT !.rejected = @ + 1]
                           ELSE [counts EXCEPT !.accepted = @ + 1]
              /\ aggregates' = IF event.kind = "rejected" THEN Recorded(aggregates, event.errors)
                               ELSE aggregates
              /\ digest' = Append(digest, event)
              /\ written' = IF sinkFails THEN written ELSE Append(written, event)
              /\ status' = IF sinkFails THEN "sink_failed" ELSE "running"
      /\ UNCHANGED <<schema, mapping, summary>>

(* The end of the file (finish). *)
Finish ==
  /\ status = "running"
  /\ status' = "finished"
  /\ summary' = [rows |-> Len(rows), accepted |-> counts.accepted, rejected |-> counts.rejected,
                 aggregates |-> aggregates, digest |-> digest]
  /\ UNCHANGED <<schema, mapping, rows, written, counts, aggregates, digest>>

Next ==
  \/ Compile \/ Finish
  \/ \E row \in [DOMAIN schema -> Texts], sinkFails \in BOOLEAN : ConsumeRow(row, sinkFails)

Spec == Init /\ [][Next]_vars

(* ----- properties ------------------------------------------------------------ *)

TypeOK ==
  /\ status \in {"requested", "running", "finished", "sink_failed", "MAPPING_CONTRACT_INVALID",
                 "MAPPING_BINDING_MISMATCH", "MAPPING_EXPRESSION_TYPE_INVALID",
                 "MAPPING_PROPERTY_NOT_SOURCE_WRITABLE", "MAPPING_PROPERTY_REQUIRED_MISMATCH",
                 "MAPPING_PROPERTY_REQUIRED_MISSING"}
  /\ Len(rows) <= MaxRows
  /\ counts.accepted + counts.rejected = Len(digest)
  /\ summary.rows \in -1..MaxRows

(* Every value that reaches the sink is in the canonical form of the type it *)
(* is stored under, and a required property or a key always has one.         *)
ValuesConform ==
  \A i \in DOMAIN written : written[i].kind # "rejected" =>
    /\ \A k \in DOMAIN mapping.keys : written[i].keys[k] # <<>>
    /\ \A p \in DOMAIN mapping.properties :
         LET d == mapping.properties[p].descriptor
             value == written[i].properties[p]
         IN  /\ value.js = "null" =>
                  mapping.properties[p].nullable /\ mapping.properties[p].nullPolicy = "allow"
             /\ d.type = "boolean" => value.js \in {"null", "boolean"}
             /\ d.type = "string" => value.js \in {"null", "string"}
             /\ d.type = "decimal" /\ value.js # "null" =>
                  Len(value.v) = 1 /\ Fraction[value.v[1]] = d.scale

(* An error names a column only if no key and no confidential or restricted  *)
(* property reads it, whatever else reads it.                                *)
NamesNothingSecret ==
  \A i \in DOMAIN written : \A e \in DOMAIN written[i].errors :
    LET c == written[i].errors[e].column
    IN  c # 0 =>
          /\ \A k \in DOMAIN mapping.keys : c \notin ColumnsOf(mapping.keys[k].expression)
          /\ \A p \in DOMAIN mapping.properties :
               c \in ColumnsOf(mapping.properties[p].expression) =>
                 mapping.properties[p].classification \notin {"confidential", "restricted"}

(* The evaluation of a compiled mapping never meets a value of a type it     *)
(* does not expect: no file makes it throw.                                  *)
NeverThrows == status # "thrown"

(* A value is never put together from a part that is missing: when a column  *)
(* a property reads is empty, the property has no value.                     *)
MissingStaysMissing ==
  \A i \in DOMAIN written : written[i].kind # "rejected" =>
    \A p \in DOMAIN mapping.properties :
      (\E c \in ColumnsOf(mapping.properties[p].expression) : rows[i][c] = "") =>
        written[i].properties[p].js = "null"

(* A direct column needs no conversion: once the cell itself is valid, its   *)
(* property or key cannot be refused by the codec.                           *)
DirectNeverRefused ==
  \A i \in DOMAIN written :
    (\A p \in DOMAIN mapping.properties : mapping.properties[p].expression.op = "column") =>
      \A e \in DOMAIN written[i].errors : written[i].errors[e].code # "MAPPING_PROPERTY_INVALID"

(* A link finds the object: the key an object is stored under and the key a  *)
(* link looks up are equal when they are made from the same cells.           *)
LinkFindsObject ==
  \A i \in DOMAIN written : written[i].kind # "rejected" =>
    \A k \in DOMAIN mapping.keys :
      LET cells == [c \in DOMAIN schema |-> Cell(rows[i][c], schema[c])]
      IN  KeyValue([mapping EXCEPT !.kind = "object"], mapping.keys[k], cells, schema)
            = KeyValue([mapping EXCEPT !.kind = "link"], mapping.keys[k], cells, schema)

(* What finish reports is what the sink holds: one event per row, the counts *)
(* by kind, every error of the rejected rows once, and the digest of exactly *)
(* these events.                                                             *)
SummaryMatchesSink ==
  status = "finished" =>
    /\ summary.rows = Len(written) /\ summary.digest = written
    /\ summary.accepted = Cardinality({i \in DOMAIN written : written[i].kind # "rejected"})
    /\ summary.rejected = Len(written) - summary.accepted
    /\ \A k \in DOMAIN summary.aggregates :
         summary.aggregates[k] =
           Cardinality({<<i, e>> \in (DOMAIN written) \X (1..4) :
                          e \in DOMAIN written[i].errors /\ AggregateKey(written[i].errors[e]) = k})
    /\ \A i \in DOMAIN written : written[i].kind = "rejected" <=> written[i].errors # <<>>
=============================================================================
