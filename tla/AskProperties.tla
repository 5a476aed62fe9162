----------------------------- MODULE AskProperties -----------------------------
(***************************************************************************)
(* What must hold of a question, from what its text states to what the     *)
(* database ran.                                                           *)
(***************************************************************************)
EXTENDS AskPipeline

Protocol == INSTANCE AskProtocol

Terms(term) == {b \in work.grounding.bindings : b.term = term /\ b.path # None}

-----------------------------------------------------------------------------
\* No stage hands on what the contract of the next refuses, whatever the model reads and
\* the assets say; only trusted definitions are read, and what ran is what was generated
\* (the validators of contracts/semantic.py and contracts/query.py).
AskTypeOK ==
    /\ pc \in Stages /\ request \in Requests
    /\ catalog \in [Sources -> {"ready", "created", "gone"}]
    /\ \A s \in DOMAIN graph : s \in Sources /\ graph[s].version \in 1..Len(Revisions[s])
    /\ \A m \in work.materials : m.status \in {"approved", "published"}
    /\ work.query # None => IsBusinessQuery(work.query)
    /\ pc = "ground" => work.retrieval.candidates \subseteq SemanticCandidate
    /\ work.grounding # None => IsGroundedQuery(work.grounding)
    /\ work.plan # None => IsGroundedQueryContext(work.context) /\ IsGroundedQueryPlan(work.plan)
    /\ work.native # None => IsNativeQuery(work.native) /\ work.native.source = work.plan.source
    /\ ran # None => ran.native = work.native

\* The events of ask_stream() are those of AskProtocol: stages in order, one verdict,
\* done after it and nothing else.
StreamKeepsItsPromise == Protocol!Spec

\* What a symbol of the text is in each language; Redis has keys to be equal to.
Means(language, symbol) ==
    IF language = "sql" THEN symbol
    ELSE IF language = "redis_json" THEN IF symbol = "=" THEN "key" ELSE "?"
    ELSE CASE symbol = "=" -> "$eq"
           [] symbol = "!=" -> "$ne"
           [] symbol = ">" -> "$gt"
           [] symbol = ">=" -> "$gte"
           [] symbol = "<" -> "$lt"
           [] symbol = "<=" -> "$lte"

\* A filter the text states reaches the database with its sense and its value, on a field its
\* subject is bound to; whatever else the rows are restricted by is a filter of the model on a
\* subject the text states none for (_merge_filters() through _predicate()).
StatedFiltersAreRun ==
    ran # None =>
        LET stated == request.text.filters
            where == ran.native.where
            on(f, n) == where[n].field \in {Ref(b) : b \in Terms(f.subject)}
            runs(f, n) == /\ on(f, n) /\ where[n].values = f.values
                          /\ where[n].operator = Means(ran.native.language, f.operator)
        IN /\ \A i \in DOMAIN stated : \E n \in DOMAIN where : runs(stated[i], n)
           /\ \A n \in DOMAIN where :
                \/ \E i \in DOMAIN stated : runs(stated[i], n)
                \/ \E i \in DOMAIN work.query.filters :
                      /\ on(work.query.filters[i], n)
                      /\ \A j \in DOMAIN stated :
                            stated[j].subject # work.query.filters[i].subject

Day(moment) == moment \div 2

\* Whether a database takes a moment for one of the range.  A date in SQL is its midnight; to
\* SQLite both are text, and a day with a time comes after the day.
Passes(native, driver, dtype, moment) ==
    LET from == native.bounds[1]
        to == native.bounds[2]
    IN IF driver \notin Relational THEN from <= moment /\ moment <= to
       ELSE IF driver = "sqlite" /\ dtype # "date"
       THEN Midnight(from) <= moment /\ moment < Midnight(to)
       ELSE Midnight(from) <= moment /\ moment <= Midnight(to)

\* The moments a column of SQL can hold, of days in and around a range.
Moments(driver, dtype, range) ==
    {m \in Midnight(range.start - 1)..Later(range.end + 1) :
        driver \in Relational /\ dtype = "date" => m = Midnight(Day(m))}

\* A text with a time never runs without its range, on a date of an object the query reads: the
\* field of the time axis, unless a metric of the question has its name.  Nothing outside the
\* range passes, and all inside it but the last day of a column of SQL with times.  Dates in
\* the text are not overruled by the model (normalize_time_range() through the compilers,
\* _time_field()).
StatedTimeIsRun ==
    ran # None /\ Intent!Time(request.text) # None =>
        LET driver == Driver[work.source]
            range == TimeRange
        IN /\ ran.native.on[2] \in ran.native.from
           /\ \E b \in work.grounding.bindings :
                 /\ Ref(b) = ran.native.on /\ b.dtype \in DateTypes
                 /\ b.axisOf \/ (b.type = "metric" /\ b.term \in Axes)
                 /\ \A m \in Moments(driver, b.dtype, range) :
                      /\ Passes(ran.native, driver, b.dtype, m) => Day(m) \in range.start..range.end
                      /\ Day(m) \in range.start..range.end =>
                            \/ Passes(ran.native, driver, b.dtype, m)
                            \/ Day(m) = range.end /\ driver \in Relational /\ b.dtype # "date"

\* A definition governed for an object of the graph is never read from another object,
\* though that one has its name by now (match_object(), which has no fallback to names).
DefinitionsKeepTheirIdentity ==
    ran # None =>
        \A b \in work.grounding.bindings : \A a \in Governance :
            b.id = a.id /\ b.type = a.kind /\ a.object # None =>
                b.object = a.object /\ b.source = a.source

\* Every metric, the one ranked by and every derived one is an aggregate of what ran, over
\* the field its term is bound to, and the order is that of the ranking's metric.  The
\* function is a derivation of a term bound to the field, or the one governed for it; it is
\* that of a term whose derivations agree, where no other metric is on the field: one field
\* has one aggregate (_aggregates() and _ordering()).
MetricsAreRun ==
    ran # None /\ ran.native.aggregates # <<>> =>
        LET q == work.query
            metrics == {b \in work.grounding.bindings : b.type = "metric"}
            aggregates == ToSet(ran.native.aggregates)
            over(term) == {a \in aggregates : a.field \in {Ref(b) : b \in Terms(term)}}
            derives(term, function) ==
                \E i \in DOMAIN q.derivations :
                    q.derivations[i].metric = term /\ q.derivations[i].operation = function
        IN /\ \A i \in DOMAIN q.metrics : over(q.metrics[i]) # {}
           /\ \A i \in DOMAIN q.derivations : over(q.derivations[i].metric) # {}
           /\ \A a \in aggregates : a.field # None =>
                \E b \in metrics : /\ Ref(b) = a.field
                                   /\ derives(b.term, a.function) \/ a.function = b.aggregation
           /\ \A b \in metrics, f \in Aggregates :
                /\ derives(b.term, f)
                /\ \A g \in Aggregates : derives(b.term, g) => g = f
                /\ \A d \in metrics : Ref(d) = Ref(b) => d = b
                => \E a \in over(b.term) : a.function = f
           /\ q.ranking # None =>
                /\ Len(ran.native.order) = 1 /\ ran.native.limit = q.ranking.limit
                /\ ran.native.order[1].key \in {a.alias : a \in over(q.ranking.metric)}

\* The query that runs is the one the question asks: its filters and its time as the text
\* states them, and what it names in the meaning it was governed with (the intent parser,
\* grounding, planning and the compilers together).
QuestionsReachTheDatabase ==
    /\ StatedFiltersAreRun
    /\ StatedTimeIsRun
    /\ DefinitionsKeepTheirIdentity
    /\ MetricsAreRun

\* An answer is of one revision of the structure: the fields of a query that ran were in
\* the scan its plan carries the version of, and a structure is shown with the version
\* that was active (ExecutionRevisionValidator, _schema_inventory_response()).
AnswersAreOfOneRevision ==
    /\ ran # None =>
        LET revision == Revisions[work.source][ran.native.version]
        IN /\ {<<f[2], f[3]>> : f \in FieldsOf(work.plan)}
                  \subseteq {<<f.object, f.path>> : f \in revision.fields}
           /\ ran.native.from \subseteq {o.id : o \in revision.objects}
    /\ pc = "listed" /\ ~WholeWorkspace => work.retrieval.version = work.version

\* A metric that no governed definition is called by, or is part of, asks the user: a
\* definition of another word of the question never stands in for it.  "A candidate that
\* declares no address is never bound" (_address_strength()).
NoMetricIsGuessed ==
    ran # None =>
        \A i \in DOMAIN work.query.metrics :
            \E b \in Terms(work.query.metrics[i]) :
                \E l \in b.labels : l = b.term \/ <<b.term, l>> \in Longer

\* Every moment of the days the text names, those of the last day too, which SQL cuts at its
\* midnight.
LastDayIsRun ==
    ran # None /\ Intent!Time(request.text) # None =>
        LET driver == Driver[work.source]
        IN \E b \in work.grounding.bindings :
            /\ Ref(b) = ran.native.on
            /\ \A m \in Moments(driver, b.dtype, TimeRange) :
                  Day(m) \in TimeRange.start..TimeRange.end => Passes(ran.native, driver, b.dtype, m)

\* A question whose query has run is answered with its rows, whatever the answer model
\* does: "an executed query must survive model failures" (AnswerComposer.compose()).
ExecutedQuestionsAnswer == ran # None ~> "result_ready" \in ToSet(stream)

\* Every stream ends with one word of what became of its question, and with its rows where
\* there are any (ask_stream(), AnswerComposer.compose()).
StreamsTellTheOutcome == StreamKeepsItsPromise /\ ExecutedQuestionsAnswer

-----------------------------------------------------------------------------
(* The inductive invariant: what a question carries on is what its stages make of what *)
(* they were given, whatever has become of the graph and the registry since.            *)

\* An asset that was governed, in some status.
Known(m) == \E a \in Governance : m = [a EXCEPT !.status = m.status]

\* What is in the graph of a source is one of its revisions.
GraphIsPublished ==
    /\ DOMAIN graph \subseteq Sources
    /\ \A s \in DOMAIN graph : /\ graph[s].version \in DOMAIN Revisions[s]
                             /\ graph[s] = Revisions[s][graph[s].version]

WorldFits ==
    /\ catalog \in [Sources -> {"ready", "created", "gone"}] /\ snapshot \in [Sources -> Nat]
    /\ changes \in Nat /\ GraphIsPublished
    /\ IsFiniteSet(assets) /\ \A m \in assets : Known(m)

\* A read of one revision of every source it has.
IsRead(read, scope) ==
    /\ read.sources \subseteq Sources /\ (scope # None => read.sources \subseteq {scope})
    /\ \A s \in read.sources : read.version[s] \in DOMAIN Revisions[s]
    /\ read.objects = UNION {Revisions[s][read.version[s]].objects : s \in read.sources}
    /\ read.fields = UNION {Revisions[s][read.version[s]].fields : s \in read.sources}
    /\ read.relationships =
            UNION {Revisions[s][read.version[s]].relationships : s \in read.sources}

Understood ==
    /\ request.mode = "question" /\ work.stated.ok /\ work.query = work.stated.query
    /\ \E reading \in Readings[request.text] :
          work.stated = Intent!Understand(request.text, request.scope, reading)

Retrieved ==
    /\ Understood /\ ~work.stated.ask /\ IsRead(work.retrieval.read, work.stated.scope)
    /\ work.retrieval = Retrieval(work.query, work.materials, work.retrieval.read,
                                  work.stated.scope)

Grounded == Retrieved /\ work.grounding = Ground(work.query, work.retrieval)

Planned ==
    /\ Grounded /\ work.grounding.executable /\ work.grounding.bindings # {}
    /\ work.query.time # None => TimeRange # None /\ Cardinality(Axes) = 1
    /\ work.context = Context(work.grounding, work.query, Axis, TimeRange) /\ work.context.ok
    /\ work.plan = Plan(work.context) /\ work.plan.ok /\ ValidPlan(work.plan, work.context)
    /\ work.source = work.plan.source

Compiled ==
    Planned /\ work.native = Compile(work.plan, Driver[work.source]) /\ work.native.ok

\* What has not been computed yet.
NothingEarly ==
    /\ pc \in {"accepted", "dispatch"} => work = NoWork
    /\ pc \in {"sql planned", "sql ready", "sql running", "inventory", "listed"} => work.query = None
    /\ pc \in Stages \ {"time", "generate", "generated", "check", "execute", "compose", "closing",
                       "done", "left"} => work.grounding = None
    /\ pc \in Stages \ {"generate", "generated", "check", "execute", "compose", "closing", "done",
                       "left"} => work.plan = None
    /\ pc \in Stages \ {"generated", "check", "execute", "compose", "closing", "done", "left"} =>
          work.native = None
    /\ pc \in Stages \ {"compose", "closing", "done", "left"} => ran = None

WorkFits ==
    /\ DOMAIN work = DOMAIN NoWork /\ IsFiniteSet(work.materials)
    /\ \A m \in work.materials : Known(m) /\ m.status \in {"approved", "published"}
    /\ pc \in {"understand", "asked", "graph"} \/ work.query # None => Understood
    /\ pc \in {"understand", "graph"} => ~work.stated.ask
    /\ pc = "ground" => Retrieved
    /\ pc = "time" \/ work.grounding # None => Grounded
    /\ pc = "generate" \/ work.plan # None => Planned
    /\ pc \in {"generated", "check", "execute"} \/ work.native # None => Compiled
    /\ pc = "execute" => work.native.version # 0
    /\ ran # None => Compiled /\ ran.native = work.native /\ work.native.version # 0
    /\ pc \in {"sql planned", "sql ready", "sql running"} => request.mode = "sql"
    /\ pc = "inventory" => request.mode # "question" /\ request.scope # None
    /\ pc = "listed" =>
          /\ request.mode # "question"
          /\ ~WholeWorkspace => work.retrieval.version = work.version

AskInductive == pc \in Stages /\ request \in Requests /\ WorldFits /\ NothingEarly /\ WorkFits

Events == {"accepted", "intent_ready", "retrieval_ready", "grounding_ready", "plan_ready",
           "query_ready", "execution_started", "done"} \cup Protocol!Verdicts

\* The last event of the stream, by where the generator is; and the path it is on.
StreamFits ==
    LET last == stream[Len(stream)]
        asked == Len(stream) > 1 /\ stream[2] = "intent_ready"
    IN /\ stream \in Seq(Events) /\ stream # <<>>
       /\ pc \in {"accepted", "dispatch", "inventory"} => stream = <<"accepted">>
       /\ pc = "sql planned" => last = "plan_ready" /\ ~asked
       /\ pc = "sql ready" => last = "query_ready" /\ ~asked
       /\ pc = "sql running" => last = "execution_started" /\ ~asked
       /\ pc = "listed" => last = "retrieval_ready" /\ ~asked
       /\ pc \in {"understand", "asked", "graph"} => last = "intent_ready" /\ asked
       /\ pc = "ground" => last = "retrieval_ready" /\ asked
       /\ pc = "time" => last = "grounding_ready"
       /\ pc = "generate" => last = "plan_ready"
       /\ pc = "generated" => last = "query_ready"
       /\ pc \in {"check", "execute", "compose"} => last = "execution_started"
       /\ pc = "closing" => last \in {"result_ready", "clarification_required", "error"}

=============================================================================
