--------------------------- MODULE PolicyDocument ---------------------------
(***************************************************************************)
(* A policy definition on its way to a release: the contract parser        *)
(* accepts it as a draft, its dependencies are extracted when the draft is *)
(* validated, and the compiler checks it against the pins of a release and *)
(* the actor attributes of the moment, and runs its test vectors.          *)
(*                                                                         *)
(* Source: packages/contracts/src/policy.ts, compilePolicy and its helpers *)
(* of packages/policy-domain/src/index.ts, and the database's own          *)
(* extraction of the dependencies in migration 0026.                       *)
(*                                                                         *)
(* Abstractions: a reference is a revision, and its resource id and API    *)
(* names are those of that revision; a constant operand is its type; a     *)
(* fact of a test vector is its state; what the rules decide for a vector  *)
(* (module QueryPolicy) is any decision its target can have.               *)
(***************************************************************************)
EXTENDS Integers, Sequences, FiniteSets

CONSTANTS
  Family,     \* per revision: its family
  Reusable,   \* the revisions that are validated
  Properties, \* per object type revision: property -> [type, filterable]
  LinkEnds,   \* per link type revision: [source, target]
  Documents,  \* set of [rules, vectors], both sequences
  PinSets,    \* sets of revisions a release may pin
  Schemas,    \* functions from actor attributes to types
  MaxNodes, MaxDepth, \* bound: nodes and nesting of a predicate
  None

VARIABLES doc, phase, deps, release, schema, report

vars == <<doc, phase, deps, release, schema, report>>

Init == /\ doc = None /\ phase = "none" /\ deps = {}
        /\ release = {} /\ schema = None /\ report = <<>>

-----------------------------------------------------------------------------
(* The contract parser. *)

Refused == 0

\* what the operator asks of its right operand
OperandsAllowed(p) ==
  /\ p.op \in {"in", "containsAny"} =>
       p.right.source = "constant" /\ p.right.name \in {"string_array", "scalar_array"}
  /\ p.op \in {"contains", "prefix"} => p.right.source = "constant" /\ p.right.name = "string"

RECURSIVE ParsePolicyPredicateNode(_, _, _, _), ParseNodes(_, _, _, _)

\* the nodes of a list share the budget of nodes
ParseNodes(s, count, depth, linkAllowed) ==
  IF s = <<>> \/ count = Refused THEN count
  ELSE ParseNodes(Tail(s), ParsePolicyPredicateNode(Head(s), count, depth, linkAllowed),
                  depth, linkAllowed)

\* the nodes counted so far, or Refused
ParsePolicyPredicateNode(p, count, depth, linkAllowed) ==
  IF depth > MaxDepth \/ count + 1 > MaxNodes THEN Refused
  ELSE CASE p.kind \in {"constant", "is_null"} -> count + 1
         [] p.kind = "compare" -> IF OperandsAllowed(p) THEN count + 1 ELSE Refused
         [] p.kind \in {"all", "any"} -> ParseNodes(p.predicates, count + 1, depth + 1, linkAllowed)
         [] p.kind = "not" -> ParsePolicyPredicateNode(p.predicate, count + 1, depth + 1, linkAllowed)
         [] p.kind = "link_exists" ->
              IF linkAllowed THEN ParsePolicyPredicateNode(p.predicate, count + 1, depth + 1, FALSE)
              ELSE Refused

RECURSIVE PredicateContainsLink(_)
PredicateContainsLink(p) ==
  \/ p.kind = "link_exists"
  \/ p.kind \in {"all", "any"} /\ \E i \in DOMAIN p.predicates : PredicateContainsLink(p.predicates[i])
  \/ p.kind = "not" /\ PredicateContainsLink(p.predicate)

ParsePolicyRule(r) ==
  /\ r.effect = "mask" => r.target.kind = "property"
  /\ ParsePolicyPredicateNode(r.predicate, 0, 0, TRUE) # Refused

ParsePolicyTestVector(v) == v.target.kind = "property" <=> v.disposition # None

AssertTestCoverage(rules, vectors) ==
  /\ \A d \in {"allow", "deny"} : \E i \in DOMAIN vectors : vectors[i].decision = d
  /\ \A f \in {"null", "missing"} : \E i \in DOMAIN vectors : f \in vectors[i].states
  /\ (\E i \in DOMAIN rules : rules[i].target.kind = "link" \/ PredicateContainsLink(rules[i].predicate))
       => \E j \in DOMAIN vectors : vectors[j].target.kind = "link" /\ vectors[j].decision = "deny"
  /\ \A e \in {"mask", "deny"} :
       (\E i \in DOMAIN rules : rules[i].target.kind = "property" /\ rules[i].effect = e) =>
         \E j \in DOMAIN vectors : vectors[j].disposition = e

\* parsePolicyResourceDefinition
Parses(d) ==
  /\ \A i \in DOMAIN d.rules : ParsePolicyRule(d.rules[i]) /\ d.rules[i].target.kind # "resource"
  /\ \A i \in DOMAIN d.vectors :
       ParsePolicyTestVector(d.vectors[i]) /\ d.vectors[i].target.kind # "resource"
  /\ AssertTestCoverage(d.rules, d.vectors)

CreateDraft ==
  /\ phase = "none"
  /\ doc' \in Documents
  /\ phase' = IF Parses(doc') THEN "draft" ELSE "refused"
  /\ UNCHANGED <<deps, release, schema, report>>

-----------------------------------------------------------------------------
(* Dependencies: where the definition names which revision, as what. *)

Digit(i) == <<"0", "1", "2", "3">>[i]
Dependency(type, rev, path, name) == [type |-> type, rev |-> rev, path |-> path, name |-> name]

ExpectedFamily(type) == CASE type \in {"object", "property"} -> "object_type"
                          [] type = "link" -> "link_type"
                          [] type = "action" -> "action_type"

CollectTargetDependencies(t, path) ==
  CASE t.kind \in {"object", "link"} -> {Dependency(t.kind, t.rev, Append(path, "revision"), None)}
    [] t.kind = "property" -> {Dependency("property", t.rev, Append(path, "revision"), t.name)}
    [] t.kind = "action_target" -> {Dependency("action", t.rev, Append(path, "revision"), None),
                                    Dependency("object", t.of, Append(path, "of"), None)}

RECURSIVE CollectPredicateDependencies(_, _)

CollectPredicateDependencies(p, path) ==
  CASE p.kind = "link_exists" ->
         {Dependency("link", p.link, Append(path, "link"), None),
          Dependency("object", p.target, Append(path, "target"), None)}
         \cup CollectPredicateDependencies(p.predicate, Append(path, "predicate"))
    [] p.kind \in {"all", "any"} ->
         UNION {CollectPredicateDependencies(p.predicates[i], path \o <<"predicates", Digit(i)>>) :
                  i \in DOMAIN p.predicates}
    [] p.kind = "not" -> CollectPredicateDependencies(p.predicate, Append(path, "predicate"))
    [] OTHER -> {}

ExtractPolicyResourceDependencies(d) ==
  UNION {CollectTargetDependencies(d.rules[i].target, <<"rules", Digit(i), "target">>)
         \cup CollectPredicateDependencies(d.rules[i].predicate, <<"rules", Digit(i), "predicate">>) :
           i \in DOMAIN d.rules}
  \cup UNION {CollectTargetDependencies(d.vectors[i].target, <<"testVectors", Digit(i), "target">>) :
                i \in DOMAIN d.vectors}

\* requiredPolicyBinding: extraction throws on a link that names no revisions
RECURSIVE Bound(_)
Bound(p) ==
  /\ p.kind = "link_exists" => p.bound /\ Bound(p.predicate)
  /\ p.kind \in {"all", "any"} => \A i \in DOMAIN p.predicates : Bound(p.predicates[i])
  /\ p.kind = "not" => Bound(p.predicate)

\* the same dependencies, extracted by the database when a draft is validated
RECURSIVE SqlPredicateDependencies(_, _)
SqlPredicateDependencies(p, path) ==
  CASE p.kind = "link_exists" ->
         {<<"link", p.link, Append(path, "link")>>, <<"object", p.target, Append(path, "target")>>}
         \cup SqlPredicateDependencies(p.predicate, Append(path, "predicate"))
    [] p.kind \in {"all", "any"} ->
         UNION {SqlPredicateDependencies(p.predicates[i], path \o <<"predicates", Digit(i)>>) :
                  i \in DOMAIN p.predicates}
    [] p.kind = "not" -> SqlPredicateDependencies(p.predicate, Append(path, "predicate"))
    [] OTHER -> {}

SqlTarget(t, path) ==
  IF t.kind = "action_target"
    THEN {<<"action", t.rev, Append(path, "revision")>>, <<"object", t.of, Append(path, "of")>>}
    ELSE {<<t.kind, t.rev, Append(path, "revision")>>}

SqlExpectedDependencies(d) ==
  UNION {SqlTarget(d.rules[i].target, <<"rules", Digit(i), "target">>)
         \cup SqlPredicateDependencies(d.rules[i].predicate, <<"rules", Digit(i), "predicate">>) :
           i \in DOMAIN d.rules}
  \cup UNION {SqlTarget(d.vectors[i].target, <<"testVectors", Digit(i), "target">>) :
                i \in DOMAIN d.vectors}

\* the family, and that an object type has the property
AssertDependencyIdentity(d) ==
  /\ Family[d.rev] = ExpectedFamily(d.type)
  /\ d.name # None => d.name \in DOMAIN Properties[d.rev]

Validate ==
  /\ phase = "draft"
  /\ \/ /\ \E i \in DOMAIN doc.rules : ~Bound(doc.rules[i].predicate)
        /\ phase' = "crashed" /\ deps' = {}
     \/ /\ \A i \in DOMAIN doc.rules : Bound(doc.rules[i].predicate)
        /\ LET extracted == ExtractPolicyResourceDependencies(doc)
           IN IF \A d \in extracted : d.rev \in Reusable /\ AssertDependencyIdentity(d)
                THEN /\ phase' = IF {<<d.type, d.rev, d.path>> : d \in extracted}
                                      = SqlExpectedDependencies(doc)
                                   THEN "validated" ELSE "rejected by the database"
                     /\ deps' = extracted
                ELSE phase' = "invalid" /\ deps' = {}
  /\ UNCHANGED <<doc, release, schema, report>>

-----------------------------------------------------------------------------
(* compilePolicy. *)

ObjectDefinitionForTarget(t) == CASE t.kind \in {"object", "property"} -> t.rev
                                  [] t.kind = "action_target" -> t.of
                                  [] OTHER -> None

\* the type of an operand on an object of type obj; None when there is none
OperandType(o, obj, attributes) ==
  CASE o.source = "request_time" -> "string"
    [] o.source = "constant" -> o.name
    [] o.source = "actor_attribute" -> IF o.name \in DOMAIN attributes THEN attributes[o.name] ELSE None
    [] o.source = "object_property" ->
         IF obj # None /\ o.name \in DOMAIN Properties[obj]
            /\ Properties[obj][o.name].filterable /\ Properties[obj][o.name].type # "json"
         THEN Properties[obj][o.name].type ELSE None

OperatorAccepts(op, left, right) ==
  CASE op \in {"contains", "prefix"} -> left = "string" /\ right = "string"
    [] op = "in" -> \/ right = "string_array" /\ left = "string"
                    \/ right = "scalar_array" /\ left \in {"number", "boolean"}
    [] op = "containsAny" -> left = "string_array" /\ right = "string_array"
    [] op \in {"eq", "ne"} -> left = right
    [] OTHER -> left = right /\ left \in {"number", "string"}

RECURSIVE ValidatePredicate(_, _, _)

ValidateLink(p, obj, attributes) ==
  /\ obj # None
  /\ LinkEnds[p.link].source = obj /\ LinkEnds[p.link].target = p.target
  /\ ValidatePredicate(p.predicate, p.target, attributes)

ValidatePredicate(p, obj, attributes) ==
  CASE p.kind = "compare" ->
         LET l == OperandType(p.left, obj, attributes)
             r == OperandType(p.right, obj, attributes)
         IN l # None /\ r # None /\ OperatorAccepts(p.op, l, r)
    [] p.kind = "is_null" -> OperandType(p.operand, obj, attributes) # None
    [] p.kind \in {"all", "any"} ->
         \A i \in DOMAIN p.predicates : ValidatePredicate(p.predicates[i], obj, attributes)
    [] p.kind = "not" -> ValidatePredicate(p.predicate, obj, attributes)
    [] p.kind = "link_exists" -> ValidateLink(p, obj, attributes)
    [] OTHER -> TRUE

TargetPinned(d, pins) == d.rev \in pins /\ AssertDependencyIdentity(d)

Compiles(d, pins, attributes) ==
  /\ \A e \in deps : TargetPinned(e, pins)
  /\ \A i \in DOMAIN d.rules :
       ValidatePredicate(d.rules[i].predicate, ObjectDefinitionForTarget(d.rules[i].target), attributes)

\* what the rules may decide for a vector: [decision, disposition]
Decisions(v) ==
  IF v.target.kind = "property"
    THEN {[decision |-> "allow", disposition |-> "allow"], [decision |-> "allow", disposition |-> "mask"],
          [decision |-> "deny", disposition |-> "deny"]}
    ELSE {[decision |-> "allow", disposition |-> None], [decision |-> "deny", disposition |-> None]}

TestVectorResult(v, actual) ==
  [passed |-> actual.decision = v.decision /\ actual.disposition = v.disposition, actual |-> actual]

TestReport(results) == results

CompilePolicy(pins, attributes) ==
  /\ phase = "validated"
  /\ release' = pins /\ schema' = attributes
  /\ IF Compiles(doc, pins, attributes)
       THEN \E actual \in [DOMAIN doc.vectors -> UNION {Decisions(doc.vectors[i]) : i \in DOMAIN doc.vectors}] :
              /\ \A i \in DOMAIN actual : actual[i] \in Decisions(doc.vectors[i])
              /\ report' = TestReport([i \in DOMAIN actual |-> TestVectorResult(doc.vectors[i], actual[i])])
              /\ phase' = "compiled"
       ELSE phase' = "not compilable" /\ report' = <<>>
  /\ UNCHANGED <<doc, deps>>

Next == \/ CreateDraft \/ Validate
        \/ \E p \in PinSets, a \in Schemas : CompilePolicy(p, a)

Spec == Init /\ [][Next]_vars

-----------------------------------------------------------------------------
(* What a predicate consists of, to state what is accepted. *)

RECURSIVE Size(_), Depth(_), Hops(_), Comparisons(_, _), Named(_)

Children(p) == CASE p.kind \in {"all", "any"} -> p.predicates
                 [] p.kind \in {"not", "link_exists"} -> <<p.predicate>>
                 [] OTHER -> <<>>
Sum(f) == LET s[i \in 0..Len(f)] == IF i = 0 THEN 0 ELSE s[i - 1] + f[i] IN s[Len(f)]
Most(S) == IF S = {} THEN 0 ELSE CHOOSE x \in S : \A y \in S : y <= x

Size(p) == 1 + Sum([i \in DOMAIN Children(p) |-> Size(Children(p)[i])])
Depth(p) == IF Children(p) = <<>> THEN 0
            ELSE 1 + Most({Depth(Children(p)[i]) : i \in DOMAIN Children(p)})
Hops(p) == (IF p.kind = "link_exists" THEN 1 ELSE 0)
           + Most({Hops(Children(p)[i]) : i \in DOMAIN Children(p)})
\* each comparison with the object type it is evaluated on
Comparisons(p, obj) ==
  (IF p.kind = "compare" THEN {<<p, obj>>} ELSE {}) \cup
  UNION {Comparisons(Children(p)[i], IF p.kind = "link_exists" THEN p.target ELSE obj) :
           i \in DOMAIN Children(p)}
\* the revisions a predicate names
Named(p) == (IF p.kind = "link_exists" THEN {<<p.link, "link_type">>, <<p.target, "object_type">>} ELSE {})
            \cup UNION {Named(Children(p)[i]) : i \in DOMAIN Children(p)}

RuleSet == {doc.rules[i] : i \in DOMAIN doc.rules}
Results == {report[i] : i \in DOMAIN report}
Passed == phase = "compiled" /\ \A x \in Results : x.passed

\* what compareValues finds at run time
Held(o, obj) == CASE o.source = "object_property" -> Properties[obj][o.name].type
                  [] o.source = "actor_attribute" -> schema[o.name]
                  [] o.source = "request_time" -> "string"
                  [] OTHER -> o.name
ElementOf(t) == CASE t = "string_array" -> {"string"}
                  [] t = "scalar_array" -> {"number", "boolean"}
                  [] OTHER -> {}

\* The type invariant.
TypeOK == /\ phase \in {"none", "refused", "draft", "invalid", "crashed", "validated",
                        "rejected by the database", "compiled", "not compilable"}
          /\ phase = "compiled" => Len(report) = Len(doc.vectors)
          /\ phase \in {"validated", "compiled", "not compilable"} => deps # {}

\* What the parser accepts is bounded however it branches: nodes, nesting and
\* links on any path (parsePolicyPredicateNode).
Bounded ==
  phase \notin {"none", "refused"} =>
    \A r \in RuleSet : /\ Size(r.predicate) <= MaxNodes /\ Depth(r.predicate) <= MaxDepth
                       /\ Hops(r.predicate) <= 1

\* The extraction in TypeScript and the one in SQL find the same dependencies,
\* or no such draft could ever be validated (extractPolicyResourceDependencies
\* and g20305_policy_expected_dependencies).
BackstopAgrees == phase # "rejected by the database"

\* A compiled policy names, at any depth of its predicates and in its vectors,
\* only revisions the release pins, each of the family it is used as
\* (compilePolicy).
ReleaseClosed ==
  phase = "compiled" =>
    /\ \A r \in RuleSet : \A n \in Named(r.predicate) : n[1] \in release /\ Family[n[1]] = n[2]
    /\ \A r \in RuleSet : r.target.rev \in release
    /\ \A i \in DOMAIN doc.vectors : doc.vectors[i].target.rev \in release

\* At run time every comparison of a compiled policy, evaluated on the object
\* it is about, finds values its operator is defined on: a comparison across a
\* link too (validatePredicate, operandType).
ComparesAlike ==
  phase = "compiled" =>
    \A r \in RuleSet : \A c \in Comparisons(r.predicate, ObjectDefinitionForTarget(r.target)) :
      LET p == c[1]
          l == Held(p.left, c[2])
          q == Held(p.right, c[2])
      IN CASE p.op = "in" -> l \in ElementOf(q)
           [] p.op = "containsAny" -> ElementOf(l) # {} /\ ElementOf(l) = ElementOf(q)
           [] OTHER -> l = q

\* A policy that passes its tests was seen to allow and to deny, to mask or
\* deny a property when a rule does, and to deny at a link when it uses one
\* (assertTestCoverage with testVectorResult).
PassedIsSeen ==
  Passed =>
    /\ \E x \in Results : x.actual.decision = "allow"
    /\ \E x \in Results : x.actual.decision = "deny"
    /\ \A e \in {"mask", "deny"} :
         (\E r \in RuleSet : r.target.kind = "property" /\ r.effect = e) =>
           \E x \in Results : x.actual.disposition = e
    /\ (\E r \in RuleSet : r.target.kind = "link" \/ Hops(r.predicate) > 0) =>
         \E i \in DOMAIN doc.vectors : doc.vectors[i].target.kind = "link"
                                       /\ report[i].actual.decision = "deny"
=============================================================================
