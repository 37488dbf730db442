---------------------------- MODULE QueryPolicy ----------------------------
(***************************************************************************)
(* Typed queries under a policy.  A request is compiled against the        *)
(* object type and the caller's policy into a plan (or refused), and the   *)
(* plan is rendered as one SQL statement in which the row policy, the      *)
(* property policy, the client's filter, the search, the order and the     *)
(* limit are evaluated with SQL's three-valued logic.                      *)
(*                                                                         *)
(* Source: src/packages/query-domain/src/compiler.ts, policy-plan.ts,      *)
(* schema-registry.ts; src/packages/query-postgres/src/renderer.ts; and the *)
(* evaluator of src/packages/policy-domain/src/index.ts, the reference.    *)
(*                                                                         *)
(* Abstractions.  Objects of one type with a primary key, a property p the *)
(* client asks about, a property q the policy reads and at most one link   *)
(* target, with one property t.  A policy predicate is a conjunction or    *)
(* disjunction of literals, a literal an atom or its negation (the nesting *)
(* the code bounds is cut to two levels); equality stands for all          *)
(* comparison operators, as what matters is when one has no answer.        *)
(* The client's filter and search text compare p with a constant.          *)
(* The SQL text, its parameters and the names they are bound under are     *)
(* left out: the model evaluates what the text says.                       *)
(***************************************************************************)
EXTENDS Naturals, Sequences, FiniteSets

CONSTANTS RuleSets,   \* the rules of the bound policy artifact
          Stores,     \* the current generation: a function from primary keys to objects
          Attributes, \* the actor attribute's value, or "missing"
          Requests    \* what a client may ask

VARIABLES rules, store, attr, request,
          plan,       \* "none", "refused" or the compiled plan
          answer      \* the rows of the result, or their number

vars == <<rules, store, attr, request, plan, answer>>

(* What a policy says: three-valued evaluation and decision. *)

\* "T", "F" and "U" for unknown.
Not3(x) == CASE x = "T" -> "F" [] x = "F" -> "T" [] OTHER -> "U"
All3(S) == IF "F" \in S THEN "F" ELSE IF "U" \in S THEN "U" ELSE "T"
Any3(S) == IF "T" \in S THEN "T" ELSE IF "U" \in S THEN "U" ELSE "F"
Truth(b) == IF b THEN "T" ELSE "F"

Values == {"zero", "one"}
Held == Values \cup {"null", "missing"}      \* the states of a property
NoLink == "nolink"                           \* there is no link target

(* The atoms. *)
Constant(b)  == [kind |-> "constant", value |-> b]
\* A comparison has an answer only when both operands have a value.
Compare(x, y) ==
    IF {x, y} \cap {"null", "missing"} # {} THEN "U" ELSE Truth(x = y)

EvaluateNull(x) == IF x = "missing" THEN "U" ELSE Truth(x = "null")

EvaluateAtom(a, facts) ==
    CASE a.kind = "constant"          -> Truth(a.value)
      [] a.kind = "property_is"       -> Compare(facts.q, a.value)
      [] a.kind = "property_is_actor" -> Compare(facts.q, facts.attr)
      [] a.kind = "is_null"           -> EvaluateNull(facts.q)
      [] a.kind = "link_exists"       -> IF facts.t = NoLink THEN "F" ELSE Compare(facts.t, a.value)

EvaluateLiteral(l, facts) ==
    IF l.negated THEN Not3(EvaluateAtom(l.atom, facts)) ELSE EvaluateAtom(l.atom, facts)

\* evaluatePredicate
EvaluatePredicate(p, facts) ==
    LET results == {EvaluateLiteral(l, facts) : l \in p.literals}
    IN IF p.op = "all" THEN All3(results) ELSE Any3(results)

\* evaluatePolicyRules, for the rules of one target: only a rule whose
\* predicate is true matches.
Matched(rs, target, facts) ==
    {r \in rs : r.target = target /\ EvaluatePredicate(r.predicate, facts) = "T"}

\* Deny before mask before allow; without a matching rule, deny.
Decide(rs, target, facts) ==
    LET effects == {r.effect : r \in Matched(rs, target, facts)}
    IN CASE "deny" \in effects  -> "deny"
         [] "deny" \notin effects /\ "mask" \in effects /\ target = "property" -> "mask"
         [] "deny" \notin effects /\ ("mask" \notin effects \/ target # "property")
              /\ "allow" \in effects -> "allow"
         [] OTHER -> "deny"

-----------------------------------------------------------------------------
(* Compilation. *)

Facts(o) == [q |-> o.q, attr |-> attr, t |-> o.t]

PropertyRules(effect) == {r \in rules : r.target = "property" /\ r.effect = effect}
RowRules(effect) == {r \in rules : r.target = "row" /\ r.effect = effect}

CanEverAllow == PropertyRules("allow") # {}

\* Which requests the compiler refuses: an unreadable selection, a filter, a
\* search or an order on a property that no rule ever allows.
Refused(rq) ==
    \/ rq.operation = "search" /\ ~CanEverAllow /\ PropertyRules("mask") = {}
    \/ rq.filter # "none" /\ ~CanEverAllow
    \/ rq.text # "none" /\ ~CanEverAllow
    \/ rq.order = "property" /\ ~CanEverAllow

\* compileClientWhere, compileSort and combineQueryGuards: the properties
\* that the filter or the order reads are guarded.
Guarded(rq) == rq.filter # "none" \/ (rq.operation = "search" /\ rq.order = "property")

(* The SQL the plan is rendered to. *)

\* EXISTS has no unknown: a target whose comparison has no answer is not found.
SqlAtom(a, o) ==
    IF a.kind = "link_exists"
    THEN Truth(o.t # NoLink /\ Compare(o.t, a.value) = "T")
    ELSE EvaluateAtom(a, Facts(o))

SqlLiteral(l, o) == IF l.negated THEN Not3(SqlAtom(l.atom, o)) ELSE SqlAtom(l.atom, o)

\* renderPredicate
SqlPredicate(p, o) ==
    LET results == {SqlLiteral(l, o) : l \in p.literals}
    IN IF p.op = "all" THEN All3(results) ELSE Any3(results)

AnyOf(rs, o) == Any3({SqlPredicate(r.predicate, o) : r \in rs})

\* Mutant of RowVisible: the deny rules are not rendered.
RowVisibleNoDeny(o) == AnyOf(RowRules("allow"), o) = "T"

\* rowPolicyPredicate: allowed, and not denied for sure.
RowVisible(o) == AnyOf(RowRules("allow"), o) = "T" /\ AnyOf(RowRules("deny"), o) # "T"

\* propertyProjection: a selected property is restricted, masked, missing,
\* null or shown with its value.
Projection(o) ==
    IF AnyOf(PropertyRules("deny"), o) = "T" THEN "restricted"
    ELSE IF AnyOf(PropertyRules("mask"), o) = "T" THEN "masked"
    ELSE IF AnyOf(PropertyRules("allow"), o) # "T" THEN "restricted"
    ELSE o.p

\* propertyValueAllowedPredicate, the guard of a filter and of an order: an
\* unknown deny or mask makes the guard unknown.
FilterGuard(o) ==
    All3({AnyOf(PropertyRules("allow"), o), Not3(AnyOf(PropertyRules("deny"), o))}
           \cup {Not3(SqlPredicate(r.predicate, o)) : r \in PropertyRules("mask")})

\* propertyAllowedPredicate, the guard of a search: an unknown deny or mask
\* does not hide.
SearchGuard(o) ==
    /\ AnyOf(PropertyRules("allow"), o) = "T"
    /\ AnyOf(PropertyRules("deny"), o) # "T"
    /\ \A r \in PropertyRules("mask") : SqlPredicate(r.predicate, o) # "T"

ClientFilter(rq, o) ==
    CASE rq.filter = "none"   -> "T"
      [] rq.filter = "is"     -> Compare(o.p, "one")
      [] rq.filter = "is_not" -> Not3(Compare(o.p, "one"))
      [] rq.filter = "null"   -> EvaluateNull(o.p)

\* searchPredicate
SearchMatches(rq, o) == rq.text = "none" \/ (SearchGuard(o) /\ Compare(o.p, rq.text) = "T")

\* The WHERE clause of a search and of a count.
Selected(rq) ==
    {k \in DOMAIN store :
       LET o == store[k]
       IN /\ RowVisible(o)
          /\ All3({ClientFilter(rq, o)} \cup (IF Guarded(rq) THEN {FilterGuard(o)} ELSE {})) = "T"
          /\ SearchMatches(rq, o)}

\* orderBy: by the property with nulls last, then by primary key.
SortKey(rq, o) ==
    CASE rq.order = "key" -> 0
      [] rq.order = "property" /\ o.p = "zero" -> 0
      [] rq.order = "property" /\ o.p = "one"  -> 1
      [] rq.order = "property" /\ o.p \notin Values -> 2

Before(rq, j, k) ==
    \/ SortKey(rq, store[j]) < SortKey(rq, store[k])
    \/ SortKey(rq, store[j]) = SortKey(rq, store[k]) /\ j < k

Ordered(rq, keys) ==
    CHOOSE s \in [1..Cardinality(keys) -> keys] :
       \A i, j \in 1..Cardinality(keys) : i < j => Before(rq, s[i], s[j])

Page(rq, keys) ==
    LET all == Ordered(rq, keys)
    IN SubSeq(all, 1, IF rq.limit < Cardinality(keys) THEN rq.limit ELSE Cardinality(keys))

Rows(rq) == [i \in 1..Len(Page(rq, Selected(rq))) |->
               [key |-> Page(rq, Selected(rq))[i], p |-> Projection(store[Page(rq, Selected(rq))[i]])]]

Init ==
    /\ rules \in RuleSets /\ store \in Stores /\ attr \in Attributes
    /\ request \in Requests
    /\ plan = "none" /\ answer = <<>>

Compile ==
    /\ plan = "none"
    /\ plan' = IF Refused(request) THEN "refused" ELSE "compiled"
    /\ UNCHANGED <<rules, store, attr, request, answer>>

Execute ==
    /\ plan = "compiled"
    /\ plan' = "executed"
    /\ answer' = IF request.operation = "count" THEN <<Cardinality(Selected(request))>>
                 ELSE Rows(request)
    /\ UNCHANGED <<rules, store, attr, request>>

Next == Compile \/ Execute

Spec == Init /\ [][Next]_vars

-----------------------------------------------------------------------------
Executed == plan = "executed"

\* A refused request has no answer, and an answer never exceeds the page.
TypeOK ==
    /\ plan \in {"none", "refused", "compiled", "executed"}
    /\ ~Executed => answer = <<>>
    /\ request.operation = "search" => Len(answer) =< request.limit

\* The statement shows of every object what the policy's own evaluator, the
\* one that runs the author's test vectors, decides for it.
AgreesWithEvaluator ==
    \A k \in DOMAIN store :
       LET o == store[k]
           decision == Decide(rules, "property", Facts(o))
       IN /\ RowVisible(o) <=> Decide(rules, "row", Facts(o)) = "allow"
          /\ Projection(o) = CASE decision = "deny"  -> "restricted"
                               [] decision = "mask"  -> "masked"
                               [] decision = "allow" -> o.p

\* A row that a filter, an order or a search on a property selects is a row
\* whose value of that property the caller is allowed to see.
SelectsOnlyVisible ==
    Executed /\ request.operation = "search" /\ (Guarded(request) \/ request.text # "none")
      => \A i \in 1..Len(answer) : answer[i].p \notin {"masked", "restricted"}

\* What the caller may not see cannot be found out by asking: the answer is
\* the same whatever the value of a masked or restricted property.
HiddenValuesDoNotMatter ==
    Executed =>
      \A k \in DOMAIN store, v \in Held :
         (~RowVisible(store[k]) \/ Projection(store[k]) \in {"masked", "restricted"}) =>
            LET other == [store EXCEPT ![k].p = v]
                keys == {j \in DOMAIN other :
                           /\ RowVisible(other[j])
                           /\ All3({ClientFilter(request, other[j])}
                                     \cup (IF Guarded(request) THEN {FilterGuard(other[j])} ELSE {})) = "T"
                           /\ SearchMatches(request, other[j])}
            IN keys = Selected(request)

\* A count is the number of rows that an unlimited search with the same
\* filter and text, ordered by key, would return.
CountIsSearch ==
    Executed /\ request.operation = "count" =>
      answer = <<Cardinality(Selected([request EXCEPT !.operation = "search", !.order = "key"]))>>
=============================================================================
