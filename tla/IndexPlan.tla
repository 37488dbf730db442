----------------------------- MODULE IndexPlan -----------------------------
(***************************************************************************)
(* Compilation of the index plan of an object type, the check of the       *)
(* compiled plan against the published object type, and the recompilation  *)
(* of a stored definition before DDL is derived from it.                   *)
(*                                                                         *)
(* Source: packages/materialization-domain/src/index-plan.ts               *)
(* (compileObjectType, compileDeclaration, assertCapabilitiesCovered,      *)
(* validateCompiledIndexDefinition), packages/materialization-postgres/    *)
(* src/index-capacity.ts (assertPlanMatchesPublishedObjectType) and        *)
(* packages/contracts/src/metadata.ts (assertPropertySemantics).           *)
(*                                                                         *)
(* The object type has a primary key "k" and a property "p" with every     *)
(* metadata the contract accepts.  Abstractions: "integer" stands for the  *)
(* scalar types that are not string; a digest is the value it is computed  *)
(* from, so a signature is the definition it hashes; one JSON path.        *)
(***************************************************************************)
EXTENDS Naturals, Sequences, FiniteSets, SequencesExt, FiniteSetsExt

CONSTANTS
  MaxDeclarations,  \* bound: declarations a caller writes
  Budget            \* maxSecondaryUnitsPerObjectType

BudgetOK == Budget \in Nat

VARIABLES
  meta,      \* metadata of the properties "k" and "p"
  decls,     \* declarations to compile
  compiled,  \* sequence of compiled definitions
  outcome    \* "compiling", "rejected", "compiled", "published" or "unpublished"

vars == <<meta, decls, compiled, outcome>>

Property == [type : {"string", "integer", "string[]", "json"}, filterable : BOOLEAN,
             sortable : BOOLEAN, searchable : BOOLEAN, unique : BOOLEAN,
             path : {"none", "top", "nested"}]

\* assertPropertySemantics.
ContractAccepts(q) ==
  /\ q.type = "json" => /\ ~q.sortable /\ ~q.searchable /\ ~q.unique
                        /\ q.filterable = (q.path # "none")
  /\ q.type # "json" => q.path = "none"
  /\ q.searchable => q.type = "string"

PrimaryKey == [type |-> "integer", filterable |-> FALSE, sortable |-> FALSE,
               searchable |-> FALSE, unique |-> TRUE, path |-> "none"]

Key(prop, path) == [prop |-> prop, path |-> path]
Btree(keys, unique) == [kind |-> "btree", keys |-> keys, unique |-> unique, evidence |-> TRUE]
Gin(kind) == [kind |-> kind, keys |-> <<Key("p", "none")>>, unique |-> FALSE, evidence |-> TRUE]

\* Declarations a caller may write, useful or not.
Declarations ==
  {Btree(<<Key("p", path)>>, unique) : path \in {"none", "top"}, unique \in BOOLEAN}
  \cup {Gin("gin_trigram"), Gin("gin_array"), Btree(<<Key("k", "none")>>, FALSE),
        Btree(<<Key("k", "none"), Key("p", "none")>>, FALSE),
        Btree(<<Key("p", "none"), Key("p", "none")>>, FALSE),
        [Gin("gin_array") EXCEPT !.evidence = FALSE]}

\* One declaration for each capability of the property.
Needed(q) ==
  (IF q.unique THEN <<Btree(<<Key("p", "none")>>, TRUE)>>
   ELSE IF (q.filterable \/ q.sortable) /\ q.type \notin {"string[]", "json"}
        THEN <<Btree(<<Key("p", "none")>>, FALSE)>> ELSE <<>>)
  \o (IF q.type = "json" /\ q.filterable THEN <<Btree(<<Key("p", q.path)>>, FALSE)>> ELSE <<>>)
  \o (IF q.type = "string[]" /\ q.filterable THEN <<Gin("gin_array")>> ELSE <<>>)
  \o (IF q.searchable THEN <<Gin("gin_trigram")>> ELSE <<>>)

Init ==
  /\ \E q \in Property :
       /\ ContractAccepts(q)
       /\ meta = [k |-> PrimaryKey, p |-> q]
       /\ decls \in {Needed(q)} \cup SeqOf(Declarations, MaxDeclarations)
  /\ compiled = <<>>
  /\ outcome = "compiling"

-----------------------------------------------------------------------------
(* compileObjectType                                                        *)

Scalar(type) == type \notin {"string[]", "json"}

\* validatePropertyMetadata: JSON paths are top level.
MetadataValid(q) ==
  /\ q.sortable => Scalar(q.type)
  /\ q.searchable => q.type = "string"
  /\ q.unique => Scalar(q.type)
  /\ q.path # "nested"

\* indexKeyValueType and validateBtreeKey.
KeyValid(key) ==
  LET q == meta[key.prop] IN
  IF key.path # "none" THEN q.type = "json" /\ q.path = key.path
  ELSE /\ Scalar(q.type)
       /\ key.prop = "k" \/ q.filterable \/ q.sortable \/ q.unique

ValueType(key) == IF key.path # "none" THEN "string" ELSE meta[key.prop].type

Distinct(keys) == Cardinality(Range(keys)) = Len(keys)

\* compileDeclaration accepts the declaration.
DeclarationValid(d) ==
  /\ d.evidence
  /\ CASE d.kind = "btree" ->
            /\ Len(d.keys) \in 1 .. 3 /\ Distinct(d.keys)
            /\ \A n \in DOMAIN d.keys : KeyValid(d.keys[n])
            /\ d.unique => Len(d.keys) = 1 /\ meta[d.keys[1].prop].unique
       [] d.kind = "gin_trigram" -> meta.p.type = "string" /\ meta.p.searchable
       [] d.kind = "gin_array" -> meta.p.type = "string[]" /\ meta.p.filterable

UnitCost(d) ==
  CASE d.kind = "gin_trigram" -> 4
    [] d.kind = "gin_array" -> 3
    [] OTHER -> IF d.unique THEN 2 ELSE Len(d.keys)

\* recipeFor.
Recipe(kind, unique, type) ==
  CASE kind = "gin_trigram" -> "TRIGRAM_GIN"
    [] kind = "gin_array" -> "ARRAY_GIN"
    [] unique -> "UNIQUE_BTREE"
    [] OTHER -> type

\* canonicalIndexSignature: what two indexes must share to be the same index.
Signature(d) ==
  [kind |-> d.kind, unique |-> d.unique,
   keys |-> [n \in DOMAIN d.keys |-> <<d.keys[n], ValueType(d.keys[n])>>]]

Definition(d) ==
  [signature |-> Signature(d), cost |-> UnitCost(d),
   recipe |-> Recipe(d.kind, d.unique, ValueType(d.keys[1])), kind |-> d.kind,
   unique |-> d.unique, keys |-> d.keys]

Reject == outcome' = "rejected" /\ compiled' = <<>> /\ UNCHANGED <<meta, decls>>

\* One turn of the loop over the declarations.
CompileDeclaration ==
  LET d == decls[Len(compiled) + 1] IN
  /\ outcome = "compiling" /\ Len(compiled) < Len(decls)
  /\ IF /\ MetadataValid(meta.p) /\ DeclarationValid(d)
        /\ \A n \in DOMAIN compiled : compiled[n].signature # Signature(d)
     THEN compiled' = Append(compiled, Definition(d)) /\ UNCHANGED <<meta, decls, outcome>>
     ELSE Reject

\* An index of the kind whose first key is the property.
Led(indexes, kind, path) ==
  \E n \in DOMAIN indexes : /\ indexes[n].kind = kind
                            /\ indexes[n].keys[1].prop = "p"
                            /\ path \in {"any", indexes[n].keys[1].path}

LedUnique(indexes) ==
  \E n \in DOMAIN indexes : indexes[n].recipe = "UNIQUE_BTREE" /\ indexes[n].keys[1].prop = "p"

\* assertCapabilitiesCovered.
Covered(q, indexes) ==
  IF q.type = "json" THEN q.path # "none" => Led(indexes, "btree", q.path)
  ELSE /\ (q.filterable \/ q.sortable) /\ q.type # "string[]" => Led(indexes, "btree", "any")
       /\ q.type = "string[]" /\ q.filterable => Led(indexes, "gin_array", "any")
       /\ q.searchable => Led(indexes, "gin_trigram", "any")
       /\ q.unique => LedUnique(indexes)

UnitsOf(indexes) == FoldSeq(LAMBDA d, sum : sum + d.cost, 0, indexes)

FinishCompile ==
  /\ outcome = "compiling" /\ Len(compiled) = Len(decls)
  /\ IF MetadataValid(meta.p) /\ Covered(meta.p, compiled) /\ UnitsOf(compiled) <= Budget
     THEN outcome' = "compiled" /\ UNCHANGED <<meta, decls, compiled>>
     ELSE Reject

-----------------------------------------------------------------------------
(* assertPlanMatchesPublishedObjectType                                     *)

\* indexKeyMatchesPublishedProperty.
KeyMatches(key, type) ==
  LET q == meta[key.prop] IN
  IF q.type = "json" THEN key.path = q.path ELSE key.path = "none" /\ type = q.type

\* The first key has the capability the recipe is for.
RecipeMatches(d) ==
  LET q == meta[d.keys[1].prop] IN
  CASE d.recipe = "TRIGRAM_GIN" -> q.type = "string" /\ q.searchable
    [] d.recipe = "ARRAY_GIN" -> q.type = "string[]" /\ q.filterable
    [] d.recipe = "UNIQUE_BTREE" -> q.unique
    [] OTHER -> q.filterable \/ q.sortable

PublishedCovered(q, indexes) ==
  /\ q.searchable => Led(indexes, "gin_trigram", "any")
  /\ q.unique => LedUnique(indexes)
  /\ q.type = "string[]" /\ q.filterable => Led(indexes, "gin_array", "any")
  /\ q.type = "json" /\ q.path # "none" => Led(indexes, "btree", q.path)
  /\ q.type \notin {"json", "string[]"} /\ (q.filterable \/ q.sortable) =>
       Led(indexes, "btree", "any")

PublisherAccepts ==
  /\ \A n \in DOMAIN compiled :
       /\ \A i \in DOMAIN compiled[n].keys :
            KeyMatches(compiled[n].keys[i], compiled[n].signature.keys[i][2])
       /\ RecipeMatches(compiled[n])
  /\ PublishedCovered(meta.p, compiled)

Publish ==
  /\ outcome = "compiled"
  /\ outcome' = IF PublisherAccepts THEN "published" ELSE "unpublished"
  /\ UNCHANGED <<meta, decls, compiled>>

Next == CompileDeclaration \/ FinishCompile \/ Publish

Spec == Init /\ [][Next]_vars

-----------------------------------------------------------------------------
(* Properties                                                               *)

\* validateCompiledIndexDefinition: the cost, the recipe and the signature
\* derived from a stored definition.
RecompileAccepts(d) ==
  /\ IF d.kind = "btree" THEN Len(d.keys) <= 3 ELSE Len(d.keys) = 1 /\ ~d.unique
  /\ d.cost = (CASE d.kind = "gin_trigram" -> 4
                 [] d.kind = "gin_array" -> 3
                 [] OTHER -> IF d.unique THEN 2 ELSE Len(d.keys))
  /\ d.recipe = Recipe(d.kind, d.unique, d.signature.keys[1][2])

\* Every definition the compiler returns is accepted when it is read back and
\* recompiled for DDL (validateCompiledIndexDefinition).
CompiledRecompiles == \A n \in DOMAIN compiled : RecompileAccepts(compiled[n])

\* The repository refuses a compiled plan only for an index nobody declared a
\* use for: a plain index led by a property that is neither filtered nor
\* sorted.  The two checks were written separately and agree on the rest.
PublisherAgrees ==
  outcome = "unpublished" =>
    \E n \in DOMAIN compiled :
      LET q == meta[compiled[n].keys[1].prop] IN
      compiled[n].kind = "btree" /\ ~compiled[n].unique /\ ~q.filterable /\ ~q.sortable

\* A published plan answers every query the property promises: a filter or a
\* sort by an ordered index that begins with it, a search by trigrams, a list
\* member by an inverted index (compileObjectType, publisher).
AnswersQueries ==
  LET Begins(kind) == \E n \in DOMAIN compiled :
        compiled[n].kind = kind /\ compiled[n].keys[1].prop = "p"
      q == meta.p
  IN  outcome \in {"compiled", "published"} =>
        /\ q.filterable => Begins(IF q.type = "string[]" THEN "gin_array" ELSE "btree")
        /\ q.sortable => Begins("btree")
        /\ q.searchable => Begins("gin_trigram")

\* A property the planner can index gets its plan from one declaration for each
\* capability, and the repository accepts it.
NeededPublishes ==
  (/\ decls = Needed(meta.p)
   /\ meta.p.type = "string[]" => ~meta.p.sortable /\ ~meta.p.unique
   /\ meta.p.path # "nested") => outcome \notin {"rejected", "unpublished"}
=============================================================================
