-------------------------- MODULE TypeCompatibility --------------------------
(***************************************************************************)
(* Revisions of object types and link types, releases that pin them and      *)
(* packages that carry them replace each other only when a comparison finds  *)
(* nothing worse than "compatible". The model publishes any sequence of      *)
(* compatible replacements and asks whether the first one's consumers, data  *)
(* and installations are still served by the last.                           *)
(*                                                                           *)
(* Source: packages/metadata-domain/src/compatibility.ts,                    *)
(* packages/contracts/src/metadata.ts (parseObjectTypeDefinition and parts), *)
(* packages/policy-domain/src/index.ts (comparePolicyDefinitions).           *)
(*                                                                           *)
(* Abstractions: a finding is its kind and code; paths, texts and sorting    *)
(* are left out. Display texts are one field. The default search, the        *)
(* default sort and the default classification are one field, "defaults",    *)
(* the delete and action rules of a link one, "behaviour". A policy's rule   *)
(* has a scope (its target and predicate), an effect and a shown value. What *)
(* mappings and snapshot schemas point at is left out.                       *)
(***************************************************************************)
EXTENDS Integers, Sequences, FiniteSets

CONSTANTS
  Objects,      \* candidate object type definitions
  Content,      \* revision -> [resource, family, definition]
  Manifests,    \* candidate package manifests with their pins
  Numbers       \* decimals in hundredths, stored under the first revision

VARIABLES
  kind,     \* "object" or "package"
  origin,   \* the first published definition
  current   \* the latest

vars == <<kind, origin, current>>

(* ----- well-formed definitions ------------------------------------------- *)

(* assertPropertySemantics. A property that has not a type's options has the *)
(* neutral ones.                                                             *)
WellFormedProperty(p) ==
  /\ p.type = "enum" <=> p.values # {}
  /\ p.type = "decimal" => p.scale <= p.precision
  /\ p.type # "decimal" => p.precision = 0 /\ p.scale = 0
  /\ p.type = "json" => p.caps \subseteq {"filterable"} /\ ("filterable" \in p.caps <=> p.paths # {})
  /\ p.type # "json" => p.paths = {}
  /\ "searchable" \in p.caps => p.type = "string"
  /\ p.type # "string" => p.caseSensitive

(* parseObjectTypeDefinition. *)
WellFormed(o) ==
  /\ \A n \in DOMAIN o.properties : WellFormedProperty(o.properties[n])
  /\ o.key \in DOMAIN o.properties
  /\ ~o.properties[o.key].nullable
  /\ "unique" \in o.properties[o.key].caps
  /\ o.properties[o.key].type # "json"

(* ----- comparisons ------------------------------------------------------- *)

F(k, code) == [kind |-> k, code |-> code]
When(condition, f) == IF condition THEN {f} ELSE {}

(* compareBooleanCapability for each of the four. *)
CapabilityFindings(a, b) ==
  When(b.caps \ a.caps # {}, F("conditional", "PROPERTY_INDEX_REQUIRED"))
    \cup When(a.caps \ b.caps # {}, F("breaking", "PROPERTY_QUERY_CAPABILITY_REMOVED"))

EnumFindings(a, b) ==
  IF a.values \ b.values # {} THEN {F("breaking", "ENUM_NARROWED")}
  ELSE When(b.values \ a.values # {}, F("compatible", "ENUM_WIDENED"))

(* compareDecimalBounds: digits before and behind the point are both kept. *)
DecimalFindings(a, b) ==
  IF a.precision = b.precision /\ a.scale = b.scale THEN {}
  ELSE IF b.precision - b.scale >= a.precision - a.scale /\ b.scale >= a.scale
    THEN {F("compatible", "DECIMAL_RANGE_WIDENED")}
  ELSE {F("breaking", "DECIMAL_RANGE_NARROWED")}

PathFindings(a, b) ==
  IF a.paths \ b.paths # {} THEN {F("breaking", "JSON_FILTER_PATH_REMOVED")}
  ELSE When(b.paths \ a.paths # {}, F("conditional", "INDEX_PLAN_REQUIRED"))

(* compareProperty: a change of type ends the comparison. *)
PropertyFindings(a, b) ==
  IF a.type # b.type THEN {F("breaking", "PROPERTY_TYPE_CHANGED")}
  ELSE When(a.text # b.text, F("compatible", "DISPLAY_TEXT_CHANGED"))
    \cup When(~a.nullable /\ b.nullable, F("compatible", "PROPERTY_NULLABILITY_WIDENED"))
    \cup When(a.nullable /\ ~b.nullable, F("breaking", "PROPERTY_NULLABILITY_NARROWED"))
    \cup When(a.writeMode # b.writeMode, F("breaking", "PROPERTY_WRITE_MODE_CHANGED"))
    \cup When(a.caseSensitive # b.caseSensitive, F("breaking", "PROPERTY_CASE_SENSITIVITY_CHANGED"))
    \cup When(a.classification # b.classification, F("conditional", "POLICY_SEMANTICS_REVIEW_REQUIRED"))
    \cup CapabilityFindings(a, b) \cup EnumFindings(a, b)
    \cup DecimalFindings(a, b) \cup PathFindings(a, b)

(* A property the baseline does not have. *)
AddedFindings(p) ==
  IF ~p.nullable THEN {F("breaking", "REQUIRED_PROPERTY_ADDED")}
  ELSE IF p.caps # {} THEN {F("conditional", "NULLABLE_PROPERTY_INDEX_REQUIRED")}
  ELSE {F("compatible", "NULLABLE_PROPERTY_ADDED")}

(* compareDefinitionIdentityAndText. *)
IdentityFindings(a, b) ==
  When(a.apiName # b.apiName, F("forbidden", "RESOURCE_API_NAME_CHANGED"))
    \cup When(a.text # b.text, F("compatible", "DISPLAY_TEXT_CHANGED"))

(* compareObjectTypes. *)
ObjectFindings(a, b) ==
  LET before == DOMAIN a.properties
      after == DOMAIN b.properties
  IN  IdentityFindings(a, b)
        \cup When(a.key # b.key, F("forbidden", "PRIMARY_KEY_CHANGED"))
        \cup When(a.title # b.title, F("compatible", "TITLE_PROPERTY_CHANGED"))
        \cup When(a.defaults # b.defaults, F("conditional", "INDEX_PLAN_REQUIRED"))
        \cup When(before \ after # {}, F("breaking", "PROPERTY_REMOVED"))
        \cup UNION {PropertyFindings(a.properties[n], b.properties[n]) : n \in before \cap after}
        \cup UNION {AddedFindings(b.properties[n]) : n \in after \ before}

(* sameEndpointResource over the object types pinned on either side. *)
SameEndpoint(a, b, pinned) ==
  a = b \/ ({a, b} \subseteq pinned /\ Content[a].resource = Content[b].resource)

EndpointFindings(a, b, pinned) ==
  IF SameEndpoint(a.type, b.type, pinned) /\ a.apiName = b.apiName
  THEN When(a.text # b.text, F("compatible", "DISPLAY_TEXT_CHANGED"))
  ELSE {F("breaking", "LINK_TYPE_ENDPOINT_CHANGED")}

(* compareLinkTypes. *)
LinkFindings(a, b, pinned) ==
  IdentityFindings(a, b)
    \cup EndpointFindings(a.source, b.source, pinned) \cup EndpointFindings(a.target, b.target, pinned)
    \cup When(a.cardinality # b.cardinality, F("breaking", "LINK_TYPE_CARDINALITY_CHANGED"))
    \cup When(a.behaviour # b.behaviour, F("breaking", "LINK_TYPE_BEHAVIOUR_CHANGED"))

(* policyRestrictionRank. *)
Restriction == [allow |-> 0, mask |-> 1, deny |-> 2]

(* comparePolicyDefinitions: rules by their id. *)
PolicyFindings(a, b) ==
  LET changed == {n \in DOMAIN a \cap DOMAIN b : a[n] # b[n]}
      removed == DOMAIN a \ DOMAIN b
      added == DOMAIN b \ DOMAIN a
      rank(rule) == Restriction[rule.effect]
      ambiguous == \E n \in changed : a[n].scope # b[n].scope \/ rank(a[n]) = rank(b[n])
      widening == \/ \E n \in changed : rank(b[n]) < rank(a[n])
                  \/ \E n \in added : b[n].effect = "allow"
                  \/ \E n \in removed : a[n].effect # "allow"
      tightening == \/ \E n \in changed : rank(b[n]) > rank(a[n])
                    \/ \E n \in removed : a[n].effect = "allow"
                    \/ \E n \in added : b[n].effect # "allow"
  IN  CASE a = b -> {}
        [] a # b /\ (ambiguous \/ (widening /\ tightening)) -> {F("breaking", "POLICY_SEMANTICS_CHANGED")}
        [] a # b /\ ~ambiguous /\ widening /\ ~tightening -> {F("breaking", "POLICY_PERMISSION_WIDENED")}
        [] OTHER -> {F("compatible", "POLICY_PERMISSION_TIGHTENED")}

(* compareResourceCompatibility of two revisions. *)
RevisionFindings(a, b, pinned) ==
  LET from == Content[a]
      to == Content[b]
  IN  CASE from.family # to.family -> {F("forbidden", "RESOURCE_FAMILY_CHANGED")}
        [] from.family = to.family /\ from.family = "object_type" ->
             ObjectFindings(from.definition, to.definition)
        [] from.family = to.family /\ from.family = "link_type" ->
             LinkFindings(from.definition, to.definition, pinned)
        [] from.family = to.family /\ from.family = "mapping" ->
             When(from.definition # to.definition, F("conditional", "MAPPING_REMATERIALIZATION_REQUIRED"))
        [] from.family = to.family /\ from.family = "snapshot_schema" ->
             When(from.definition # to.definition, F("conditional", "SNAPSHOT_SCHEMA_REMATERIALIZATION_REQUIRED"))
        [] from.family = to.family /\ from.family = "policy" ->
             PolicyFindings(from.definition.rules, to.definition.rules)
        [] OTHER -> {F("conditional", "RESOURCE_FAMILY_COMPATIBILITY_DEFERRED")}

Resources(pins) == {Content[r].resource : r \in pins}
PinOf(pins, resource) == CHOOSE r \in pins : Content[r].resource = resource

(* What a revision's definition points at. *)
TargetsOf(r) ==
  CASE Content[r].family = "link_type" -> {Content[r].definition.source.type, Content[r].definition.target.type}
    [] Content[r].family = "policy" -> {Content[r].definition.object}
    [] OTHER -> {}

(* comparePinnedCompatibility. *)
PinFindings(a, b) ==
  LET objects == {r \in a \cup b : Content[r].family = "object_type"}
      both == Resources(a) \cap Resources(b)
  IN  When(\E r \in b : Content[r].family = "function",
           F("conditional", "RESOURCE_FAMILY_COMPATIBILITY_DEFERRED"))
        \cup When(Resources(a) \ Resources(b) # {}, F("breaking", "RESOURCE_REMOVED"))
        \cup UNION {IF PinOf(a, x) = PinOf(b, x) THEN {}
                    ELSE RevisionFindings(PinOf(a, x), PinOf(b, x), objects) : x \in both}
        \cup When(Resources(b) \ Resources(a) # {}, F("compatible", "RESOURCE_ADDED"))
        \cup When(\E r \in b : TargetsOf(r) \ b # {}, F("breaking", "DOWNSTREAM_PIN_REQUIRES_REPIN"))

(* compareInstallInputs: inputs and whether they are required. *)
InputFindings(a, b) ==
  LET both == DOMAIN a \cap DOMAIN b
      added == DOMAIN b \ DOMAIN a
  IN  When(DOMAIN a \ DOMAIN b # {}, F("compatible", "PACKAGE_INSTALL_INPUT_REMOVED"))
        \cup When(\E n \in both : ~a[n] /\ b[n], F("breaking", "PACKAGE_INSTALL_INPUT_REQUIRED"))
        \cup When(\E n \in both : a[n] /\ ~b[n], F("compatible", "PACKAGE_INSTALL_INPUT_OPTIONAL"))
        \cup When(\E n \in added : b[n], F("breaking", "PACKAGE_REQUIRED_INSTALL_INPUT_ADDED"))
        \cup When(\E n \in added : ~b[n], F("compatible", "PACKAGE_OPTIONAL_INSTALL_INPUT_ADDED"))

(* comparePackageCompatibility: the manifest's entries are the server's pins. *)
PackageFindings(a, b) ==
  When(a.apiName # b.apiName, F("forbidden", "PACKAGE_IDENTITY_CHANGED"))
    \cup When(a.namespace # b.namespace, F("forbidden", "NAMESPACE_CHANGED"))
    \cup When(a.kernel # b.kernel, F("forbidden", "KERNEL_CONTRACT_CHANGED"))
    \cup InputFindings(a.inputs, b.inputs)
    \cup When(a.artifacts # b.artifacts, F("conditional", "PACKAGE_ARTIFACT_COMPATIBILITY_DEFERRED"))
    \cup When(a.entries # a.pins \/ b.entries # b.pins, F("forbidden", "PACKAGE_RESOURCE_EXPANSION_MISMATCH"))
    \cup PinFindings(a.pins, b.pins)

Rank == [compatible |-> 0, conditional |-> 1, breaking |-> 2, forbidden |-> 3]

(* evaluation: the outcome is the worst kind among the findings. *)
Outcome(findings) ==
  LET kinds == {f.kind : f \in findings} \cup {"compatible"}
  IN  CHOOSE k \in kinds : \A other \in kinds : Rank[other] <= Rank[k]

(* ----- actions ------------------------------------------------------------- *)

Init ==
  \/ kind = "object" /\ origin \in Objects /\ WellFormed(origin) /\ current = origin
  \/ /\ kind = "package" /\ origin \in Manifests /\ current = origin
     /\ origin.entries = origin.pins
     /\ Outcome(PinFindings({}, origin.pins)) = "compatible"

(* A new revision of the object type is published: no blocking finding. *)
PublishObject(candidate) ==
  /\ kind = "object"
  /\ WellFormed(candidate)
  /\ Outcome(ObjectFindings(current, candidate)) = "compatible"
  /\ current' = candidate
  /\ UNCHANGED <<kind, origin>>

(* A package is upgraded. *)
Upgrade(candidate) ==
  /\ kind = "package"
  /\ Outcome(PackageFindings(current, candidate)) = "compatible"
  /\ current' = candidate
  /\ UNCHANGED <<kind, origin>>

Next ==
  \/ \E candidate \in Objects : PublishObject(candidate)
  \/ \E candidate \in Manifests : Upgrade(candidate)

Spec == Init /\ [][Next]_vars

(* ----- properties ----------------------------------------------------------- *)

(* The range of a decimal in hundredths: digits before the point, and the    *)
(* granularity behind it.                                                    *)
Fits(n, p) ==
  /\ n < 100 * (10 ^ (p.precision - p.scale))
  /\ n % (CASE p.scale = 0 -> 100 [] p.scale = 1 -> 10 [] p.scale = 2 -> 1) = 0

Holds(p, value) ==
  CASE value = "null" -> p.nullable
    [] OTHER -> p.type = "enum" /\ value \in p.values

TypeOK ==
  /\ kind \in {"object", "package"}
  /\ kind = "object" =>
       \A o \in {origin, current} :
         /\ o.key \in DOMAIN o.properties
         /\ ~o.properties[o.key].nullable /\ "unique" \in o.properties[o.key].caps

(* Every value the first revision accepts is accepted by the latest: nulls,  *)
(* enum values, decimals with all their digits; and a property the first     *)
(* revision required is not missing from the objects stored under it.        *)
EarlierValuesValid ==
  kind = "object" =>
    \A n \in DOMAIN origin.properties :
      /\ n \in DOMAIN current.properties
      /\ \A v \in {"null"} \cup origin.properties[n].values :
           Holds(origin.properties[n], v) => Holds(current.properties[n], v)
      /\ origin.properties[n].type = "decimal" =>
           /\ current.properties[n].type = "decimal"
           /\ \A x \in Numbers : Fits(x, origin.properties[n]) => Fits(x, current.properties[n])

(* Every object stored under the first revision has what the latest requires. *)
NothingNewRequired ==
  kind = "object" =>
    \A n \in DOMAIN current.properties \ DOMAIN origin.properties : current.properties[n].nullable

(* Whatever a consumer of the first revision could query still can be, and   *)
(* no query is open that no index was planned for.                           *)
QueriesKept ==
  kind = "object" =>
    /\ \A n \in DOMAIN origin.properties :
         /\ n \in DOMAIN current.properties
         /\ current.properties[n].caps = origin.properties[n].caps
         /\ current.properties[n].paths = origin.properties[n].paths
    /\ \A n \in DOMAIN current.properties \ DOMAIN origin.properties :
         current.properties[n].caps = {}

(* Small steps are no way around the comparison: what several compatible     *)
(* replacements reach would be found compatible in one. Except of policies:  *)
(* a rule that was removed may come back with another scope, which compared  *)
(* at once is a change of semantics.                                         *)
ChainIsCompatible ==
  Outcome((IF kind = "object" THEN ObjectFindings(origin, current)
           ELSE PackageFindings(origin, current))
          \ {F("breaking", "POLICY_SEMANTICS_CHANGED")}) = "compatible"

(* Deny before mask before allow. *)
Allowed(rules, scope) ==
  LET effects == {rules[n].effect : n \in {m \in DOMAIN rules : rules[m].scope = scope}}
  IN  effects = {"allow"}

(* However its rules are removed, added and tightened one upgrade after the  *)
(* other, a policy never allows what its first revision did not              *)
(* (POLICY_PERMISSION_WIDENED).                                              *)
PoliciesAllowNoMore ==
  kind = "package" =>
    \A a \in origin.pins, b \in current.pins :
      (Content[a].family = "policy" /\ Content[a].resource = Content[b].resource) =>
        LET before == Content[a].definition.rules
            after == Content[b].definition.rules
        IN  \A n \in DOMAIN after : Allowed(after, after[n].scope) => Allowed(before, after[n].scope)

(* After every upgrade the pins are closed: no pinned link points at a       *)
(* revision that is not pinned, and no resource was lost.                    *)
PinsStayClosed ==
  kind = "package" =>
    /\ \A r \in current.pins : TargetsOf(r) \subseteq current.pins
    /\ Resources(origin.pins) \subseteq Resources(current.pins)

(* An installation that gave only the inputs the first version required      *)
(* gives all that the latest one requires.                                   *)
InstallationsKept ==
  kind = "package" =>
    \A n \in DOMAIN current.inputs : current.inputs[n] => n \in DOMAIN origin.inputs /\ origin.inputs[n]
=============================================================================
