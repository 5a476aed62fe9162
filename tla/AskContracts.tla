------------------------------ MODULE AskContracts ------------------------------
(***************************************************************************)
(* The contracts that the stages of a question hand to each other, with    *)
(* the checks their validators make: one that fails is not a refusal of    *)
(* the question but an internal error.                                     *)
(***************************************************************************)
EXTENDS AskPlanning

CONSTANT Sources

Optional(S) == S \cup {None}

FieldRef == Sources \X STRING \X STRING

\* The strings that are put in order.
Names == DOMAIN Rank

-----------------------------------------------------------------------------
(* contracts/semantic.py *)

BusinessObjective == {"lookup", "aggregate", "comparison", "ranking", "trend", "diagnosis"}

RankingSpec == [direction: {"ascending", "descending"}, metric: Optional(STRING), limit: 1..1000]

DerivationSpec == [operation: STRING, metric: Optional(STRING)]

BusinessFilter ==
    [subject: STRING, operator: STRING, values: Seq(STRING \cup {Null}), list: BOOLEAN,
     text: STRING]

\* _FILTER: a symbol and one value.
Symbols == {"=", "!=", ">", ">=", "<", "<="}

TextFilter == {f \in BusinessFilter : f.operator \in Symbols /\ ~f.list /\ Null \notin ToSet(f.values)}

\* What the patterns of the RuleExtractor may find, and what the intent model may answer.
IsText(t) ==
    t \in [why: BOOLEAN, comparison: BOOLEAN, trend: BOOLEAN, relative: Optional(STRING),
          ranking: Optional([direction: {"ascending", "descending"}, metric: {None}, limit: Nat]),
          dates: Seq(Int), filters: Seq(TextFilter), source: Optional(Sources),
          words: SUBSET STRING]

IsReading(m) ==
    m \in [objective: BusinessObjective, metrics: Seq(Names), dimensions: Seq(STRING),
          entities: Seq(STRING), filters: Seq(BusinessFilter),
          ranking: Optional([direction: {"ascending", "descending"}, metric: Optional(Names),
                             limit: 1..1000]),
          derivations: Seq([operation: STRING, metric: Optional(Names)]),
          time: Optional(STRING), comparison: BOOLEAN]

IsBusinessQuery(q) ==
    /\ q \in [objective: BusinessObjective, metrics: Seq(STRING), dimensions: Seq(STRING),
              entities: Seq(STRING), filters: Seq(BusinessFilter),
              ranking: Optional(RankingSpec), derivations: Seq(DerivationSpec),
              time: Optional(STRING), comparison: BOOLEAN, words: SUBSET STRING]
    /\ q.objective = "ranking" => q.ranking # None
    /\ q.objective = "comparison" => q.comparison

SemanticAssetType == {"metric", "dimension", "term", "object", "field", "relationship"}

\* An asset of the registry (semantic/assets.py).
SemanticAsset ==
    [id: Names, kind: {"metric", "dimension", "term", "alias"}, name: STRING,
     aliases: SUBSET STRING, source: Optional(Sources), object: Optional(STRING),
     objectName: Optional(STRING), field: Optional(STRING), path: Optional(STRING),
     aggregation: Optional(Aggregates), axis: BOOLEAN, target: Optional(STRING),
     status: {"suggested", "pending", "approved", "published", "deprecated"}]

\* A candidate, and the binding it may become.
SemanticCandidate ==
    [type: SemanticAssetType, id: Names, name: STRING, labels: SUBSET STRING, source: Sources,
     object: Optional(STRING), path: Optional(STRING), dtype: Optional(STRING),
     aggregation: Optional(Aggregates), axis: BOOLEAN, migration: BOOLEAN,
     phrases: SUBSET STRING, score: 0..2, term: STRING, axisOf: BOOLEAN, order: Nat]

\* A grounding binds within its scope only.
IsGroundedQuery(g) ==
    g.bindings \subseteq SemanticCandidate /\ \A b \in g.bindings : g.scope \in {None, b.source}

-----------------------------------------------------------------------------
(* contracts/query.py *)

GroundedDataObjectRef ==
    [id: STRING, source: Sources, name: Optional(STRING), kind: STRING, store: Optional(STRING)]

\* What a binding must have by its type.
IsQueryContextBinding(b) ==
    \/ b.type = "relationship"
    \/ b.object # None /\ (b.type \in {"metric", "dimension", "field"} => b.path # None)

QueryContextFilter ==
    [field: FieldRef, operator: FilterOperators, values: Seq(STRING \cup {Null}), list: BOOLEAN]

QueryContextRelationship ==
    [id: STRING, source: Sources, from: STRING, fromPath: STRING, to: STRING, toPath: STRING]

IsGroundedQueryContext(c) ==
    /\ c.bindings # {} /\ \A b \in c.bindings : IsQueryContextBinding(b)
    /\ \A i \in DOMAIN c.filters : c.filters[i] \in QueryContextFilter
    /\ c.relationships \subseteq QueryContextRelationship
    /\ c.locators \subseteq GroundedDataObjectRef
    /\ (c.range = None) = (c.time = None)
    /\ c.time # None => c.time.dtype \in DateTypes
    /\ c.scope # None => c.sources = {c.scope}
    /\ \A o \in c.locators : o.source \in c.sources

\* Only a count aggregates without a field.
IsPlanAggregate(a) ==
    /\ a.function \in Aggregates /\ a.field \in Optional(FieldRef)
    /\ a.field = None => a.function = "count"

IsPlanSort(s) ==
    s.direction \in {"ascending", "descending"} /\ (s.by = "field" => s.key \in FieldRef)

IsGroundedQueryPlan(p) ==
    /\ p.source \in Sources /\ p.objects # {} /\ p.limit \in 1..1000
    /\ \A i \in DOMAIN p.aggregates : IsPlanAggregate(p.aggregates[i])
    /\ \A i \in DOMAIN p.sorts : IsPlanSort(p.sorts[i])
    /\ p.joins \subseteq QueryContextRelationship
    /\ (p.range = None) = (p.time = None)
    /\ p.aggregates # <<>> \/ p.selected # <<>>
    /\ Cardinality(p.objects) > 1 => p.joins # {}
    /\ ToSet(p.group) \subseteq ToSet(p.selected)
    /\ \A o \in p.locators : o.source = p.source

IsNativeQuery(n) ==
    /\ n.source \in Sources /\ n.version \in Nat
    /\ n.language \in {"sql", "mongodb_json", "redis_json"}

-----------------------------------------------------------------------------
(* graph/reading.py: what one scan publishes of a source *)

IsRevision(r, s, version) ==
    /\ r.version = version
    /\ IsFiniteSet(r.objects) /\ IsFiniteSet(r.fields) /\ IsFiniteSet(r.relationships)
    /\ \A o \in r.objects : /\ o \in GroundedDataObjectRef /\ o.source = s
                           /\ o.id \in Names /\ o.name \in STRING
    /\ \A f \in r.fields : /\ f.source = s /\ f.id \in Names /\ f.path \in STRING
                          /\ f.type \in STRING /\ \E o \in r.objects : f.object = o.id
    /\ \A f, g \in r.fields : f.object = g.object /\ f.path = g.path => f = g
    /\ \A x \in r.relationships : x \in QueryContextRelationship /\ x.source = s /\ x.id \in Names

=============================================================================
