------------------------------ MODULE AskPlanning ------------------------------
(***************************************************************************)
(* From a grounded question to a read-only query: QueryContextBuilder, the *)
(* GroundedQueryPlanner and the GroundedPlanValidator that judges it; the  *)
(* SQL, MongoDB and Redis compilers, and GroundedNativeQueryValidator.     *)
(*                                                                         *)
(* A field reference is <<source, object, path>> with its type, a binding  *)
(* as AskSemantics leaves it.  Of a locator the name and the kind remain.  *)
(* A compiled query keeps the parts of the plan its text is written from:  *)
(* columns, source, join, conditions with their parameters, grouping,      *)
(* order and limit.  Quoting is that of the driver and never fails.  A     *)
(* moment is a half of a day: its midnight, or all that is later.          *)
(***************************************************************************)
EXTENDS AskSemantics

CONSTANTS
    Nested,     \* paths with a dot in them
    Flat,       \* <<path, name>>: the name a dotted path has in a MongoDB group
    Null        \* the value of a filter that has none

Nothing == [ok |-> FALSE]

Ref(b) == <<b.source, b.object, b.path>>

DateTypes == {"date", "datetime", "timestamp", "timestamptz"}

Aggregates == {"count", "sum", "average", "minimum", "maximum"}

-----------------------------------------------------------------------------
(* QueryContextBuilder *)

BoundAs(bindings, term, types) == {b \in bindings : b.term = term /\ b.type \in types}

\* A binding per term, in order; one per field, the first.
Deduped(seq) ==
    Taken(seq, {i \in DOMAIN seq : \A j \in 1..(i - 1) : Ref(seq[j]) # Ref(seq[i])})

BoundTerms(bindings, terms, types) ==
    Deduped([i \in DOMAIN terms |-> Preferred(BoundAs(bindings, terms[i], types))])

FilterOperators == {"equals", "not_equals", "greater_than", "greater_or_equal", "less_than",
                    "less_or_equal", "in", "between", "contains"}

\* _FILTER_OPERATORS, less the Chinese words: how an operator may be written.
Spellings ==
    [equals |-> {"=", "==", "eq", "equal", "equals"},
     not_equals |-> {"!=", "<>", "ne", "notequal", "notequals"},
     greater_than |-> {">", "gt", "greaterthan"},
     greater_or_equal |-> {">=", "gte", "greaterorequal"},
     less_than |-> {"<", "lt", "lessthan"},
     less_or_equal |-> {"<=", "lte", "lessorequal"},
     in |-> {"in"}, between |-> {"between", "range"}, contains |-> {"contains", "like"}]

\* What a word stands for: one operator, or none.
OperatorsOf(word) == {o \in FilterOperators : word \in Spellings[o]}

FilterTypes == {"dimension", "field"}

\* _filter(): the values of a filter are a sequence; f.list says it was written as one.
FilterOK(bindings, f) ==
    /\ BoundAs(bindings, f.subject, FilterTypes) # {}
    /\ OperatorsOf(f.operator) # {}
    /\ "in" \in OperatorsOf(f.operator) => f.list /\ f.values # <<>>
    /\ "between" \in OperatorsOf(f.operator) => f.list /\ Len(f.values) = 2

Filter(bindings, f) ==
    [field |-> Ref(Preferred(BoundAs(bindings, f.subject, FilterTypes))),
     operator |-> CHOOSE o \in OperatorsOf(f.operator) : TRUE, values |-> f.values, list |-> f.list]

DerivationOK(bindings, d) ==
    d.operation \in Aggregates /\ d.metric # None /\ BoundAs(bindings, d.metric, {"metric"}) # {}

RankingOK(bindings, ranking) ==
    ranking = None \/ BoundAs(bindings, ranking.metric, {"metric"}) # {}

\* _time_field(): the axis the question's time was grounded on, of a date type, and
\* a range with it.
TimeFields(bindings, axis) ==
    {b \in bindings : b.term = axis /\ b.path # None}

TimeOK(bindings, axis, range) ==
    IF axis = None THEN range = None
    ELSE /\ TimeFields(bindings, axis) # {} /\ range # None
         /\ Preferred(TimeFields(bindings, axis)).dtype \in DateTypes

\* _validate_aggregation_semantics(): no function is guessed.
Aggregated(bindings, q) ==
    \A b \in bindings : b.type = "metric" => b.term \in Derived(q) \/ b.aggregation # None

EntityTypes == {"term", "object"}

ContextOK(g, q, axis, range) ==
    LET bound(terms, types) == \A i \in DOMAIN terms : BoundAs(g.bindings, terms[i], types) # {}
    IN /\ g.executable
       /\ ~q.comparison
       /\ \A i \in DOMAIN q.derivations : DerivationOK(g.bindings, q.derivations[i])
       /\ RankingOK(g.bindings, q.ranking)
       /\ bound(q.metrics, {"metric"})
       /\ bound(q.dimensions, {"dimension"})
       /\ bound(q.entities, EntityTypes)
       /\ \A i \in DOMAIN q.filters : FilterOK(g.bindings, q.filters[i])
       /\ TimeOK(g.bindings, axis, range)
       /\ Aggregated(g.bindings, q)

\* build()
Context(g, q, axis, range) ==
    LET b == g.bindings IN
    IF ~ContextOK(g, q, axis, range) THEN Nothing
    ELSE [ok |-> TRUE, scope |-> g.scope, objective |-> q.objective, bindings |-> b,
          metrics |-> BoundTerms(b, q.metrics, {"metric"}),
          dimensions |-> BoundTerms(b, q.dimensions, {"dimension"}),
          filters |-> [i \in DOMAIN q.filters |-> Filter(b, q.filters[i])],
          ranking |-> q.ranking, derivations |-> q.derivations, range |-> range,
          time |-> IF axis = None THEN None ELSE Preferred(TimeFields(b, axis)),
          relationships |-> {r \in g.read.relationships :
                                \E x \in b : x.type = "relationship" /\ x.id = r.id},
          locators |-> {o \in g.read.objects : o.id \in Objects(b)},
          sources |-> {x.source : x \in b}, version |-> g.version]

-----------------------------------------------------------------------------
(* GroundedQueryPlanner *)

\* The last derivation of a metric is the one the dictionary keeps.
Override(c, term) ==
    LET of == {i \in DOMAIN c.derivations : c.derivations[i].metric = term}
    IN IF of = {} THEN None
       ELSE c.derivations[CHOOSE i \in of : \A j \in of : j <= i].operation

Function(c, b) ==
    IF Override(c, b.term) # None THEN Override(c, b.term) ELSE b.aggregation

\* _metric_bindings(): the metrics asked for, then the others that are bound (to be
\* ranked by, or derived), in the order of their terms.
MetricBindings(c) ==
    LET extras == {b \in c.bindings : b.type = "metric"} \ ToSet(c.metrics)
    IN c.metrics \o InOrder(extras, [b \in extras |-> Rank[b.term]])

\* _aggregates(): one per field, under an alias of function and path.  A count of
\* rows if there is no metric.
AggregatesOf(c) ==
    LET metrics == Deduped(MetricBindings(c))
        same(i) == {j \in 1..i : /\ Function(c, metrics[j]) = Function(c, metrics[i])
                                 /\ metrics[j].path = metrics[i].path}
    IN IF MetricBindings(c) = <<>>
       THEN <<[function |-> "count", field |-> None, alias |-> <<"count">>]>>
       ELSE [i \in DOMAIN metrics |->
                [function |-> Function(c, metrics[i]), field |-> Ref(metrics[i]),
                 alias |-> <<Function(c, metrics[i]), metrics[i].path, Cardinality(same(i))>>]]

JoinsOf(c) == {r \in c.relationships : {r.from, r.to} = Objects(c.bindings)}

RankedBy(c) ==
    LET metrics == MetricBindings(c)
        i == CHOOSE n \in DOMAIN metrics : metrics[n].term = c.ranking.metric
    IN Ref(metrics[i])

DefaultLimit == 200

\* _projection_lookup(): a lookup in one collection or key space reads rows.
Projected(c) ==
    /\ c.objective = "lookup" /\ c.ranking = None
    /\ Cardinality(c.locators) = 1
    /\ \A o \in c.locators : o.kind \in {"collection", "key_space"}
    /\ c.metrics = <<>> /\ c.dimensions # <<>>

\* plan(): a join for two objects, refused where the context has none for them.
PlanOK(c) ==
    /\ Cardinality(c.sources) = 1
    /\ Cardinality(Objects(c.bindings)) \in 1..2
    /\ Cardinality(Objects(c.bindings)) = 2 => Cardinality(JoinsOf(c)) = 1

Plan(c) ==
    LET keys == [i \in DOMAIN c.dimensions |-> Ref(c.dimensions[i])]
        aggregates == AggregatesOf(c)
        keyspace == \E o \in c.locators : o.kind = "key_space"
        sorts == IF c.ranking = None
                 THEN [i \in DOMAIN keys |-> [by |-> "field", key |-> keys[i],
                                              direction |-> "ascending"]]
                 ELSE <<[by |-> "aggregate",
                         key |-> aggregates[CHOOSE i \in DOMAIN aggregates :
                                                aggregates[i].field = RankedBy(c)].alias,
                         direction |-> c.ranking.direction]>>
    IN IF ~PlanOK(c) THEN Nothing
       ELSE [ok |-> TRUE, source |-> CHOOSE s \in c.sources : TRUE,
             objects |-> Objects(c.bindings), locators |-> c.locators,
             aggregates |-> IF Projected(c) THEN <<>> ELSE aggregates,
             selected |-> keys, group |-> IF Projected(c) THEN <<>> ELSE keys,
             filters |-> c.filters,
             sorts |-> IF Projected(c) /\ keyspace THEN <<>> ELSE sorts,
             limit |-> IF c.ranking = None THEN DefaultLimit ELSE c.ranking.limit,
             joins |-> IF Cardinality(Objects(c.bindings)) = 2 THEN JoinsOf(c) ELSE {},
             time |-> IF c.time = None THEN None ELSE Ref(c.time), range |-> c.range,
             version |-> c.version]

-----------------------------------------------------------------------------
(* GroundedPlanValidator *)

FieldsOf(p) ==
    ToSet(p.selected) \cup ToSet(p.group)
    \cup {p.filters[i].field : i \in DOMAIN p.filters}
    \cup ({p.aggregates[i].field : i \in DOMAIN p.aggregates} \ {None})
    \cup {p.sorts[i].key : i \in {n \in DOMAIN p.sorts : p.sorts[n].by = "field"}}
    \cup ({p.time} \ {None})

Aliases(p) == [i \in DOMAIN p.aggregates |-> p.aggregates[i].alias]

ValidScope(p, c) == c.sources = {p.source} /\ c.scope \in {None, p.source}

ValidObjects(p, c) ==
    /\ p.objects \subseteq Objects(c.bindings)
    /\ Cardinality(p.objects) > 1 => p.joins # {}
    /\ p.locators \subseteq c.locators /\ {o.id : o \in p.locators} = p.objects

ValidFields(p, c) ==
    \A f \in FieldsOf(p) : /\ \E b \in c.bindings : b.path # None /\ Ref(b) = f
                           /\ f[2] \in p.objects

ValidOrdering(p) ==
    \A i \in DOMAIN p.sorts : p.sorts[i].by = "aggregate" => p.sorts[i].key \in ToSet(Aliases(p))

ValidJoins(p, c) ==
    \A j \in p.joins : /\ j \in c.relationships /\ j.source = p.source /\ j.from # j.to
                       /\ {j.from, j.to} \subseteq p.objects

ValidUnique(p) == IsInjective(Aliases(p)) /\ IsInjective(p.selected) /\ IsInjective(p.group)

\* _require_aggregation_semantics(): of several bindings of a field the dictionary
\* keeps the one bound last, whatever it is.
BoundLast(c, field) ==
    LET of == {b \in c.bindings : b.path # None /\ Ref(b) = field}
    IN {b \in of : b.order = Max({x.order : x \in of})}

ValidSemantics(p, c) ==
    \A i \in DOMAIN p.aggregates :
        p.aggregates[i].field # None =>
            \A b \in BoundLast(c, p.aggregates[i].field) :
                \/ b.type # "metric"
                \/ Override(c, b.term) # None
                \/ b.aggregation = p.aggregates[i].function

ValidRevision(p, c) == c.version # 0 => p.version = c.version

\* validate()
ValidPlan(p, c) ==
    /\ ValidScope(p, c) /\ ValidObjects(p, c) /\ ValidFields(p, c) /\ ValidOrdering(p)
    /\ ValidJoins(p, c) /\ ValidUnique(p) /\ ValidSemantics(p, c) /\ ValidRevision(p, c)

-----------------------------------------------------------------------------
(* Native queries *)

Drivers == {"sqlite", "postgresql", "mysql", "mongodb", "redis"}

Relational == {"sqlite", "postgresql", "mysql"}

FlatName(path) == IF path \in Nested THEN (CHOOSE x \in Flat : x[1] = path)[2] ELSE path

-----------------------------------------------------------------------------
(* GroundedSQLCompiler *)

Missing(f) == f.values = <<Null>> /\ ~f.list

\* _predicate(): a missing value is compared by IS NULL or not at all.
PredicateOK(f) ==
    /\ Missing(f) => f.operator \in {"equals", "not_equals"}
    /\ f.operator = "in" => Null \notin ToSet(f.values)

Parameters(f) == IF Missing(f) THEN <<>> ELSE f.values

SqlOperator ==
    [equals |-> "=", not_equals |-> "!=", greater_than |-> ">", greater_or_equal |-> ">=",
     less_than |-> "<", less_or_equal |-> "<=", in |-> "IN", between |-> "BETWEEN",
     contains |-> "LIKE"]

Predicate(f) ==
    [field |-> f.field, values |-> Parameters(f),
     operator |-> IF ~Missing(f) THEN SqlOperator[f.operator]
                  ELSE IF f.operator = "equals" THEN "IS NULL" ELSE "IS NOT NULL"]

\* _value(): the days as they are.
SqlBounds(p) == IF p.range = None THEN <<>> ELSE <<p.range.start, p.range.end>>

SqlOK(p) ==
    /\ Cardinality(p.joins) <= 1
    /\ \A o \in p.locators : o.name # None
    /\ \A i \in DOMAIN p.filters : PredicateOK(p.filters[i])

Sql(p) ==
    [ok |-> TRUE, language |-> "sql", source |-> p.source, version |-> p.version,
     select |-> p.selected, aggregates |-> p.aggregates, from |-> p.objects,
     joins |-> p.joins, where |-> [i \in DOMAIN p.filters |-> Predicate(p.filters[i])],
     bounds |-> SqlBounds(p), on |-> p.time,
     group |-> p.group, order |-> p.sorts, limit |-> p.limit,
     parameters |-> FlattenSeq([i \in DOMAIN p.filters |-> Parameters(p.filters[i])])
                       \o SqlBounds(p) \o <<p.limit>>]

-----------------------------------------------------------------------------
(* GroundedMongoCompiler *)

Midnight(day) == 2 * day
Later(day) == 2 * day + 1

\* _time_value(): from the midnight of the first day to the end of the last.
MongoBounds(p) == IF p.range = None THEN <<>> ELSE <<Midnight(p.range.start), Later(p.range.end)>>

MongoOperator ==
    [equals |-> "$eq", not_equals |-> "$ne", greater_than |-> "$gt", greater_or_equal |-> "$gte",
     less_than |-> "$lt", less_or_equal |-> "$lte", in |-> "$in", between |-> "$gte $lte",
     contains |-> "$regex"]

Clause(f) == [field |-> f.field, values |-> f.values, operator |-> MongoOperator[f.operator]]

Grouped(p) == p.aggregates # <<>> \/ p.group # <<>>

\* A group renames its keys and refuses an alias with a dot, which the planner gives
\* every metric on a nested field.
GroupOK(p) ==
    LET keys == [i \in DOMAIN p.group |-> FlatName(p.group[i][3])]
    IN /\ IsInjective(keys)
       /\ \A i \in DOMAIN p.aggregates :
            /\ p.aggregates[i].field = None \/ p.aggregates[i].field[3] \notin Nested
            /\ p.aggregates[i].alias \notin {<<k>> : k \in ToSet(keys)}

MongoOK(p) ==
    /\ Cardinality(p.objects) = 1 /\ p.joins = {}
    /\ \A o \in p.locators : o.name # None
    /\ Grouped(p) => GroupOK(p)
    /\ Grouped(p) \/ \A i \in DOMAIN p.sorts : p.sorts[i].by = "field"

Mongo(p) ==
    [ok |-> TRUE, language |-> "mongodb_json", source |-> p.source, version |-> p.version,
     operation |-> IF Grouped(p) THEN "aggregate" ELSE "find",
     select |-> p.selected, aggregates |-> p.aggregates, from |-> p.objects, joins |-> {},
     where |-> [i \in DOMAIN p.filters |-> Clause(p.filters[i])],
     bounds |-> MongoBounds(p), on |-> p.time, group |-> p.group,
     order |-> p.sorts, limit |-> p.limit, parameters |-> <<>>]

-----------------------------------------------------------------------------
(* GroundedRedisCompiler *)

VirtualFields == {"key", "value", "type", "ttl", "exists", "cardinality"}

KeyFilter(p, f) ==
    /\ f.field[3] = "key" /\ f.operator \in {"equals", "in"}
    /\ Len(f.values) \in 1..p.limit /\ Null \notin ToSet(f.values)

\* One virtual field of one key, or of several for their values; all keys without one.
RedisOK(p) ==
    LET fields == {f[3] : f \in ToSet(p.selected)}
        kind == (CHOOSE o \in p.locators : TRUE).store
    IN /\ Cardinality(p.objects) = 1 /\ p.joins = {} /\ ~Grouped(p)
       /\ p.range = None /\ p.sorts = <<>>
       /\ kind # None /\ fields # {} /\ fields \subseteq VirtualFields
       /\ Len(p.filters) <= 1
       /\ \A i \in DOMAIN p.filters : KeyFilter(p, p.filters[i])
       /\ IF p.filters = <<>> THEN fields = {"key"}
          ELSE /\ Cardinality(fields) = 1 /\ fields # {"key"}
               /\ Len(p.filters[1].values) > 1 => fields = {"value"} /\ kind = "string"
               /\ fields = {"cardinality"} => kind \in {"set", "zset"}

\* The keys are the arguments of the command, one or several.
KeyArgument(f) == [field |-> f.field, values |-> f.values, operator |-> "key"]

\* A range of a list or a sorted set ends at the limit, a scan of keys carries it;
\* the other commands have the keys for their bound.
Redis(p) ==
    [ok |-> TRUE, language |-> "redis_json", source |-> p.source, version |-> p.version,
     select |-> p.selected, aggregates |-> <<>>, from |-> p.objects, joins |-> {},
     where |-> [i \in DOMAIN p.filters |-> KeyArgument(p.filters[i])],
     bounds |-> <<>>, on |-> None, group |-> <<>>, order |-> <<>>,
     limit |-> p.limit, parameters |-> <<>>]

-----------------------------------------------------------------------------
(* GroundedNativeCompiler and the validator *)

Compiles(p, driver) ==
    CASE driver \in Relational -> SqlOK(p)
      [] driver = "mongodb" -> MongoOK(p)
      [] driver = "redis" -> RedisOK(p)
      [] OTHER -> FALSE

Compile(p, driver) ==
    IF ~Compiles(p, driver) THEN Nothing
    ELSE CASE driver \in Relational -> Sql(p)
           [] driver = "mongodb" -> Mongo(p)
           [] driver = "redis" -> Redis(p)

\* validate(): what it was compiled from decides, so a query that differs from the
\* compiler's in any part is refused.
ValidNative(native, p, expected) ==
    /\ native.source = p.source /\ native.version = p.version
    /\ native.language = "sql" =>
        Len(native.parameters) = Len(SqlBounds(p)) + 1
            + Len(FlattenSeq([i \in DOMAIN p.filters |-> Parameters(p.filters[i])]))
    /\ native.language = "mongodb_json" =>
        Cardinality(p.objects) = 1 /\ p.joins = {} /\ native.limit <= p.limit
    /\ native = expected

=============================================================================
