------------------------------- MODULE MCAccess -------------------------------
(***************************************************************************)
(* Who may read what, side by side: the policy gateway and its epochs, the *)
(* compilation of policies, the query under a policy and the identity it   *)
(* is asked with.  Each behaviour runs one component; they share the run   *)
(* and none of their steps.                                                *)
(***************************************************************************)
EXTENDS Integers, Sequences, FiniteSets

CONSTANTS None, o1, o2

\* The variables are those of the component that runs, in the order of its
\* module; it leaves the rest at None.
VARIABLES component, x1, x2, x3, x4, x5, x6, x7, x8, x9, x10, x11

vars == <<component, x1, x2, x3, x4, x5, x6, x7, x8, x9, x10, x11>>

-----------------------------------------------------------------------------
\* Two callers of one delegation, a clock that may fail, a restart.

Gw == INSTANCE PolicyGateway WITH
  Principals <- {"p1", "p2"}, Keys <- {{"p1", "p2"}}, Callers <- {"c1", "c2"}, Ttl <- 1,
  MaximumCacheEntries <- 1, MaxEpoch <- 2, MaxClock <- 1, MaxRestarts <- 1, log <- x1,
  notices <- x2, clock <- x3, clockFault <- x4, cache <- x5, floor <- x6, unsafe <- x7,
  calls <- x8, answer <- x9, answered <- x10, restarts <- x11

-----------------------------------------------------------------------------
\* Two cache entries for three requests.

Ge == INSTANCE PolicyGateway WITH
  Principals <- {"p1", "p2"}, Keys <- {{"p1"}, {"p2"}, {"p1", "p2"}}, Callers <- {"c1"},
  Ttl <- 1, MaximumCacheEntries <- 2, MaxEpoch <- 2, MaxClock <- 1, MaxRestarts <- 0,
  log <- x1, notices <- x2, clock <- x3, clockFault <- x4, cache <- x5, floor <- x6,
  unsafe <- x7, calls <- x8, answer <- x9, answered <- x10, restarts <- x11

-----------------------------------------------------------------------------
\* One decision process, an actor with and without a delegator.

Ep == INSTANCE PolicyEpoch WITH
  Principals <- {"a", "d"}, Actor <- {"a"}, Requests <- {{"d"}, {}}, Processes <- {"p"},
  Ttl <- 1, MaxEpoch <- 3, MaxTime <- 1, commits <- x1, dbClock <- x2, now <- x3,
  published <- x4, down <- x5, delivery <- x6, cache <- x7, floor <- x8, heard <- x9,
  unsafe <- x10, answer <- x11

-----------------------------------------------------------------------------
\* Two object types joined by a link, one request, revocations and a cutover.

Rq == INSTANCE RuntimeQuery WITH
  Objects <- {o1, o2}, Links <- {{o1, o2}}, Requests <- {"q"}, LeaseTtl <- 1, MaxEpoch <- 2,
  MaxActivation <- 2, MaxTime <- 1, log <- x1, activation <- x2, retired <- x3, now <- x4,
  requests <- x5, leases <- x6

-----------------------------------------------------------------------------
\* Two compilers of one release, a change of the schema, a fault of the store.

Pc == INSTANCE PolicyCompilation WITH
  Compilers <- {"c1", "c2"}, MaxRuns <- 1, MaxChanges <- 1, MaxFaults <- 1, accepts <- x1,
  passes <- x2, release <- x3, schema <- x4, store <- x5, row <- x6, comp <- x7,
  gateway <- x8, changes <- x9, faults <- x10

-----------------------------------------------------------------------------
\* Two object types that have a property of the same name and another type, a
\* link type from the first to the second, and an action type that is not
\* validated; comparisons of every kind of operand, negated, joined and linked.
DocFamily == [ot |-> "object_type", ot2 |-> "object_type", lt |-> "link_type", at |-> "action_type"]
DocReusable == {"ot", "ot2", "lt"}
DocProperty(t, f) == [type |-> t, filterable |-> f]
DocProperties ==
  [ot |-> [code |-> DocProperty("string", TRUE), qty |-> DocProperty("number", TRUE),
           doc |-> DocProperty("json", TRUE), note |-> DocProperty("string", FALSE)],
   ot2 |-> [code |-> DocProperty("number", TRUE), city |-> DocProperty("string", TRUE)]]
DocLinkEnds == [lt |-> [source |-> "ot", target |-> "ot2"]]
DocPinSets == {DocReusable, DocReusable \ {"ot2"}, DocReusable \ {"lt"}}
DocSchemas == {[region |-> "string"], [region |-> "string_array"]}

DocOperand(s, n) == [source |-> s, name |-> n]
DocLefts == {DocOperand("object_property", n) : n \in {"code", "qty", "doc", "note", "city"}}
         \cup {DocOperand("actor_attribute", "region"), DocOperand("actor_attribute", "other"),
               DocOperand("request_time", "-")}
DocRights == {DocOperand("constant", t) : t \in {"string", "number", "string_array", "scalar_array"}}
          \cup {DocOperand("actor_attribute", "region")}
DocCompare(l, op, r) == [kind |-> "compare", left |-> l, op |-> op, right |-> r]
DocCompares == {DocCompare(l, op, r) : l \in DocLefts, op \in {"ne", "lt", "in", "containsAny", "prefix"}, r \in DocRights}
DocIsNulls == {[kind |-> "is_null", operand |-> l] : l \in DocLefts}
DocSome == {DocCompare(DocOperand("object_property", n), "ne", DocOperand("constant", t)) :
           n \in {"code", "city"}, t \in {"string", "number"}}
DocAlways == [kind |-> "constant", value |-> TRUE]
DocNotP(p) == [kind |-> "not", predicate |-> p]
DocAllP(s) == [kind |-> "all", predicates |-> s]
DocLink(p, b) == [kind |-> "link_exists", link |-> "lt", target |-> "ot2", bound |-> b, predicate |-> p]

DocSimple == DocCompares \cup DocIsNulls \cup {DocAlways}
DocLinked == {DocLink(p, b) : p \in DocSome, b \in BOOLEAN}
DocTrees == DocSimple \cup DocLinked \cup {DocNotP(p) : p \in DocLinked}
         \cup {DocAllP(<<p, q>>) : p \in DocSome, q \in DocSome \cup DocLinked \cup {DocAllP(<<DocAlways, DocAlways>>)}}
         \cup {DocLink(DocNotP(DocLink(p, TRUE)), TRUE) : p \in DocSome}
         \cup {DocNotP(DocNotP(DocNotP(p))) : p \in DocSome}

DocTarget(k, r, n) == [kind |-> k, rev |-> r, name |-> n, of |-> "ot"]
DocTObject == DocTarget("object", "ot", None)
DocTProperty == DocTarget("property", "ot", "code")
DocTLink == DocTarget("link", "lt", None)
DocTargets == {DocTObject, DocTProperty, DocTarget("property", "ot2", "qty"), DocTLink,
            DocTarget("action_target", "at", None), DocTarget("resource", "ot", None), DocTarget("link", "ot", None)}

DocVector(t, d, p, s) == [target |-> t, decision |-> d, disposition |-> p, states |-> s]
DocVAllow == DocVector(DocTObject, "allow", None, {"null"})
DocVDeny == DocVector(DocTObject, "deny", None, {"missing"})
DocVMask == DocVector(DocTProperty, "allow", "mask", {"null"})
DocVHide == DocVector(DocTProperty, "deny", "deny", {"missing"})
DocVLink == DocVector(DocTLink, "deny", None, {"missing"})
DocVectors == {<<DocVAllow, DocVDeny>>, <<DocVAllow, DocVDeny, DocVLink>>, <<DocVMask, DocVHide>>, <<DocVMask, DocVHide, DocVLink>>,
            <<DocVAllow, DocVMask>>, <<DocVAllow, DocVAllow>>}

DocOf(t, e, p, v) == [rules |-> <<[target |-> t, effect |-> e, predicate |-> p]>>, vectors |-> v]
\* every simple predicate at an object, every tree at every target
DocDocuments ==
  {DocOf(DocTObject, "allow", p, <<DocVAllow, DocVDeny>>) : p \in DocSimple}
  \cup {DocOf(t, e, p, v) : t \in DocTargets, e \in {"allow", "mask", "deny"},
                          p \in (DocTrees \ DocSimple) \cup {DocAlways}, v \in DocVectors}

Pd == INSTANCE PolicyDocument WITH
  Family <- DocFamily, Reusable <- DocReusable, Properties <- DocProperties,
  LinkEnds <- DocLinkEnds, Documents <- DocDocuments, PinSets <- DocPinSets,
  Schemas <- DocSchemas, MaxNodes <- 4, MaxDepth <- 3, doc <- x1, phase <- x2, deps <- x3,
  release <- x4, schema <- x5, report <- x6

-----------------------------------------------------------------------------
\* Policies of one or two literals over the object, the actor and the link.
Literal(atom, negated) == [atom |-> atom, negated |-> negated]
Predicate(op, literals) == [op |-> op, literals |-> literals]
Yes == [kind |-> "constant", value |-> TRUE]
IsOne == [kind |-> "property_is", value |-> "one"]
IsActor == [kind |-> "property_is_actor"]
IsNull == [kind |-> "is_null"]
Linked == [kind |-> "link_exists", value |-> "one"]
Held == {"zero", "one", "null", "missing"}

Single(atom, negated) == Predicate("all", {Literal(atom, negated)})
Rule(target, effect, predicate) == [target |-> target, effect |-> effect, predicate |-> predicate]

AlwaysRow == Rule("row", "allow", Single(Yes, FALSE))

\* Every predicate of one or two literals over the object and the actor.
Literals == {Literal(a, n) : a \in {IsOne, IsActor, IsNull}, n \in BOOLEAN}
ObjectPredicates ==
    {Predicate("all", {l}) : l \in Literals}
      \cup {Predicate(op, {l, m}) : op \in {"all", "any"}, l, m \in Literals}

\* One row rule and one property rule of any effect, beside a plain grant.
AgreementRules ==
    {{AlwaysRow, Rule("row", e, p), Rule("property", "allow", Single(Yes, FALSE)),
      Rule("property", f, p)} : e \in {"allow", "deny"}, f \in {"allow", "mask", "deny"},
      p \in ObjectPredicates \cup {Single(Linked, FALSE)}}
   \cup {{Rule("row", "allow", p), Rule("property", f, p)} :
            f \in {"allow", "mask"}, p \in ObjectPredicates}

OneObject == [{1} -> [p : {"one", "null"}, q : Held, t : Held \cup {"nolink"}]]

GetOnly == {[operation |-> "search", filter |-> "none", text |-> "none", order |-> "key", limit |-> 1]}

\* Grants, denials and masks that read the object or the actor.
SearchRules ==
    {{AlwaysRow, Rule("property", "allow", p), Rule("property", e, q)} :
        p \in {Single(Yes, FALSE), Single(IsOne, FALSE)},
        q \in {Single(IsActor, FALSE), Single(IsActor, TRUE), Single(IsNull, FALSE)},
        e \in {"deny", "mask"}}
   \cup {{AlwaysRow}, {AlwaysRow, Rule("property", "mask", Single(Yes, FALSE))}}

TwoObjects == [{1, 2} -> [p : {"one", "null", "missing"}, q : {"one", "missing"}, t : {"nolink"}]]

AllRequests ==
    [operation : {"search", "count"}, filter : {"none", "is", "is_not", "null"},
     text : {"none", "one"}, order : {"key", "property"}, limit : {1}]

Qp == INSTANCE QueryPolicy WITH
  RuleSets <- SearchRules, Stores <- TwoObjects, Attributes <- {"one", "missing"},
  Requests <- AllRequests, rules <- x1, store <- x2, attr <- x3, request <- x4, plan <- x5,
  answer <- x6

-----------------------------------------------------------------------------
\* Every predicate of two literals against one object.

Qa == INSTANCE QueryPolicy WITH
  RuleSets <- AgreementRules, Stores <- OneObject, Attributes <- {"one", "missing"},
  Requests <- GetOnly, rules <- x1, store <- x2, attr <- x3, request <- x4, plan <- x5,
  answer <- x6

-----------------------------------------------------------------------------
\* A human, two services in a chain, an unknown subject; delegated tokens of
\* one and two actors, a cyclic one and direct ones.
Token(id, sub, actors, caps, azp, exp, cnf) ==
  [id |-> id, sub |-> sub, actors |-> actors, caps |-> caps, azp |-> azp,
   iat |-> 0, exp |-> exp, cnf |-> cnf]

IdTokens ==
  { Token("chain", "ann", <<"bot", "hub">>, {"read"}, "botclient", 2, "k1"),
    Token("wide", "ann", <<"bot", "hub">>, {"read", "write"}, "botclient", 2, "k1"),
    Token("cycle", "ann", <<"bot", "bot">>, {"read"}, "botclient", 2, "k1"),
    Token("long", "ann", <<"bot">>, {"read"}, "botclient", 3, "k1"),
    Token("human", "ann", <<>>, {}, "web", 2, None),
    Token("foreign", "ann", <<>>, {}, "botclient", 2, None),
    Token("unknown", "eve", <<>>, {}, "web", 2, None),
    Token("service", "bot", <<>>, {"read"}, "botclient", 1, None) }

\* the tokens of the concurrent runs: two that could share a proof
IdRaceTokens ==
  { Token("chain", "ann", <<"bot">>, {"read"}, "botclient", 2, "k1"),
    Token("other", "ann", <<"bot">>, {"read"}, "botclient", 2, "k1") }

Proof(id, token) == [id |-> id, key |-> "k1", token |-> token, op |-> "get", iat |-> 1]

IdProofs == {Proof("p1", "chain"), Proof("p2", "wide"), Proof("p3", "cycle"), Proof("p4", "long")}
IdRaceProofs == {Proof("p1", "chain"), Proof("p2", "other")}

IdClientOf == [p \in {"bot", "hub"} |-> IF p = "bot" THEN "botclient" ELSE "hubclient"]
IdCapabilitiesOf == [p \in {"bot", "hub"} |-> IF p = "bot" THEN {"read", "write"} ELSE {"read"}]
IdGrantsOf == [p \in {"ann", "bot", "hub"} |->
                 IF p = "ann" THEN {"see"} ELSE {"see", "edit"}]

Ic == INSTANCE RuntimeIdentity WITH
  Requests <- {"r1"}, Operations <- {"get", "put"}, Tokens <- IdTokens, Proofs <- IdProofs,
  Principals <- {"ann", "bot", "hub"}, Humans <- {"ann"}, HumanClients <- {"web"},
  ClientOf <- IdClientOf, CapabilitiesOf <- IdCapabilitiesOf,
  MappedTypes <- {"human", "service"}, Permissions <- {"see", "edit"},
  GrantsOf <- IdGrantsOf, MaxActors <- 2, MaxTtl <- 2, Tolerance <- 1, MaxClock <- 2,
  clock <- x1, active <- x2, bound <- x3, profiles <- x4, replay <- x5, req <- x6

-----------------------------------------------------------------------------
\* Two requests that race for one delegation.

Ir == INSTANCE RuntimeIdentity WITH
  Requests <- {"r1", "r2"}, Operations <- {"get"}, Tokens <- IdRaceTokens,
  Proofs <- IdRaceProofs, Principals <- {"ann", "bot"}, Humans <- {"ann"},
  HumanClients <- {"web"}, ClientOf <- IdClientOf, CapabilitiesOf <- IdCapabilitiesOf,
  MappedTypes <- {"human", "service"}, Permissions <- {}, GrantsOf <- IdGrantsOf,
  MaxActors <- 2, MaxTtl <- 2, Tolerance <- 1, MaxClock <- 3, clock <- x1, active <- x2,
  bound <- x3, profiles <- x4, replay <- x5, req <- x6

-----------------------------------------------------------------------------
\* What a component of so many variables leaves alone.
after6 == <<x7, x8, x9, x10, x11>>
after10 == <<x11>>

NoneAfter10 == x11 = None
NoneAfter6 == x7 = None /\ x8 = None /\ x9 = None /\ x10 = None /\ NoneAfter10

Init ==
  \/ component = "gateway"     /\ Gw!Init
  \/ component = "eviction"    /\ Ge!Init
  \/ component = "epoch"       /\ Ep!Init
  \/ component = "query"       /\ Rq!Init /\ NoneAfter6
  \/ component = "compilation" /\ Pc!Init /\ NoneAfter10
  \/ component = "document"    /\ Pd!Init /\ NoneAfter6
  \/ component = "answer"      /\ Qp!Init /\ NoneAfter6
  \/ component = "evaluator"   /\ Qa!Init /\ NoneAfter6
  \/ component = "chain"       /\ Ic!Init /\ NoneAfter6
  \/ component = "race"        /\ Ir!Init /\ NoneAfter6

Next ==
  \/ component = "gateway"     /\ Gw!Next /\ UNCHANGED component
  \/ component = "eviction"    /\ Ge!Next /\ UNCHANGED component
  \/ component = "epoch"       /\ Ep!Next /\ UNCHANGED component
  \/ component = "query"       /\ Rq!Next /\ UNCHANGED <<component, after6>>
  \/ component = "compilation" /\ Pc!Next /\ UNCHANGED <<component, after10>>
  \/ component = "document"    /\ Pd!Next /\ UNCHANGED <<component, after6>>
  \/ component = "answer"      /\ Qp!Next /\ UNCHANGED <<component, after6>>
  \/ component = "evaluator"   /\ Qa!Next /\ UNCHANGED <<component, after6>>
  \/ component = "chain"       /\ Ic!Next /\ UNCHANGED <<component, after6>>
  \/ component = "race"        /\ Ir!Next /\ UNCHANGED <<component, after6>>

Spec == Init /\ [][Next]_vars

-----------------------------------------------------------------------------
(* Properties.                                                             *)

\* Ttl, the cache and the epochs are as the constructors demand, and tokens
\* as an issuer signs them.
ASSUME AccessAssumption ==
  /\ Gw!GatewayAssumption /\ Ge!GatewayAssumption /\ Ep!EpochAssumption /\ Rq!QueryAssumption
  /\ Ic!IdentityAssumption /\ Ir!IdentityAssumption

\* Every component keeps to its types; caches to their bounds.
AccessTyped ==
  /\ component = "gateway" => Gw!TypeOK /\ Gw!CacheBounded
  /\ component = "eviction" => Ge!TypeOK /\ Ge!CacheBounded
  /\ component = "epoch" => Ep!TypeOK
  /\ component = "query" => Rq!TypeOK
  /\ component = "compilation" => Pc!TypeOK
  /\ component = "document" => Pd!TypeOK /\ Pd!Bounded
  /\ component = "answer" => Qp!TypeOK
  /\ component = "chain" => Ic!TypeOK

\* What is answered was allowed.  The gateway decides by the facts of the
\* epoch it names, never before an epoch it has answered at or was told of,
\* and not at all once its clock failed; a revocation ends every ALLOW within
\* a TTL, missed notifications or not.  A query shows what was allowed when
\* its lease was committed and releases the lease first; its rows, its count
\* and its filters tell nothing of a value the caller may not see.
AnswersAuthorized ==
  /\ [](/\ component = "gateway" => Gw!DecisionIsOfItsEpoch /\ Gw!EpochsNeverGoBack
        /\ component = "eviction" => Ge!DecisionIsOfItsEpoch /\ Ge!EpochsNeverGoBack
        /\ component = "epoch" => Ep!RevokedWithinTtl /\ Ep!AllowedWasGranted
        /\ component = "query" => /\ Rq!ShownWasAllowed /\ Rq!DataMeansReleased
                                  /\ Rq!LinksShownWithTheirEnds
        /\ component = "answer" => /\ Qp!SelectsOnlyVisible /\ Qp!HiddenValuesDoNotMatter
                                   /\ Qp!CountIsSearch)
  /\ [][/\ component = "gateway" => Gw!AnswersReachTheFloor /\ Gw!UnsafeClockFailsClosed
        /\ component = "eviction" => Ge!AnswersReachTheFloor /\ Ge!UnsafeClockFailsClosed
        /\ component = "epoch" => Ep!NotifiedProcessesAreCurrent]_vars

\* A delegation is used once, by one token and one proof, before it expires;
\* no principal of its chain was disabled, unbound or revoked, each holds what
\* the token asks for, and the chain may do no more than each of its members.
DelegationBounded ==
  /\ component = "chain" => Ic!DeadChainRefused /\ Ic!CapabilitiesHeld /\ Ic!ChainNeverWidens
  /\ component = "race" => Ir!OneUse /\ Ir!OneTokenPerProof /\ Ir!NeverLate

\* What is served is what was written and tested: a document's dependencies,
\* types and tests hold for the release that pins it, a request is decided on
\* the bytes whose test vectors passed and on attributes of the types they
\* were compiled for, and the SQL statement shows of every object what the
\* evaluator of the test vectors decides.
PolicyFaithful ==
  /\ component = "document" => /\ Pd!BackstopAgrees /\ Pd!ReleaseClosed /\ Pd!ComparesAlike
                               /\ Pd!PassedIsSeen
  /\ component = "compilation" => /\ Pc!RecordedIsStored /\ Pc!OkIsRecorded
                                  /\ Pc!LeavesDraftTested /\ Pc!DecidesOnTestedBytes
                                  /\ Pc!EvaluatesTyped
  /\ component = "evaluator" => Qa!AgreesWithEvaluator
=============================================================================
