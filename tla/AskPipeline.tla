------------------------------ MODULE AskPipeline ------------------------------
(***************************************************************************)
(* One question through QanerisService.ask_stream(): a generator that      *)
(* reads the catalog, the registry of governed assets, the published graph *)
(* (twice) and at last the enterprise database, while other threads scan,  *)
(* delete and govern what it has read.                                     *)
(*                                                                         *)
(* A step runs from one read or yield to the next.  What it has computed   *)
(* stays in work; the computations themselves are in AskIntent,            *)
(* AskSemantics and AskPlanning.  The reading of the intent model is any   *)
(* of Readings; every outside call may fail.                               *)
(***************************************************************************)
EXTENDS AskContracts

CONSTANTS
    Requests,    \* [mode, scope, text, mismatch]
    Readings,    \* text -> what the intent model may make of it
    Driver,      \* source -> its driver
    Revisions,   \* source -> what its scans find, in order
    Governance,  \* the governed assets before anything changes
    Ranges,      \* relative expression -> its days, None if it cannot be normalized
    PhysicalNames,
    Reviewed,    \* bound: the assets decided on beside the question
    MaxChanges   \* bound: scans, deletions and decisions beside the question

ASSUME ChangesAssumption == MaxChanges \in Nat

\* The strings that are ordered are ids and terms, each with a place of its own.
ASSUME NamesAssumption ==
    /\ None \notin STRING \cup Sources \cup FieldRef \cup RankingSpec \cup SemanticCandidate
    /\ Names \subseteq STRING
    /\ \A x \in Names : Rank[x] \in Nat
    /\ \A x, y \in Names : Rank[x] = Rank[y] => x = y

\* What the code writes in place of a phrase or a time is a string.
ASSUME WordsAssumption == {Question, "dates"} \subseteq STRING

\* An id is given once, to an asset or to an object of one source; a scan counts.
ASSUME RevisionsAssumption ==
    /\ IsFiniteSet(Sources)
    /\ \A s \in Sources : Len(Revisions[s]) > 0 /\ DOMAIN Revisions[s] = 1..Len(Revisions[s])
    /\ \A s \in Sources : \A i \in DOMAIN Revisions[s] : IsRevision(Revisions[s][i], s, i)
    /\ \A s, t \in Sources : \A i \in DOMAIN Revisions[s], j \in DOMAIN Revisions[t] :
          \A o \in Revisions[s][i].objects, x \in Revisions[t][j].objects : o.id = x.id => s = t

ASSUME GovernanceAssumption ==
    /\ IsFiniteSet(Governance) /\ Governance \subseteq SemanticAsset
    /\ \A a, b \in Governance : a.id = b.id => a = b

\* A relative expression is one with a range of days, or with none.
ASSUME RangesAssumption ==
    /\ \A e \in DOMAIN Ranges : Ranges[e] \in Optional([start: Int, end: Int])
    /\ \A text \in DOMAIN Readings : text.relative # None => text.relative \in DOMAIN Ranges

ASSUME RequestsAssumption ==
    /\ Requests \subseteq [mode: {"question", "schema", "workspace", "sql"},
                           scope: Optional(Sources), text: DOMAIN Readings, mismatch: BOOLEAN]
    /\ \A text \in DOMAIN Readings :
          IsText(text) /\ \A reading \in Readings[text] : IsReading(reading)

VARIABLES
    request,
    pc,          \* where the generator is
    stream,      \* the events it has yielded
    work,        \* what it has read and computed
    catalog,     \* source -> its status in the catalog
    snapshot,    \* source -> the version of its active snapshot
    graph,       \* published source -> its revision
    assets,      \* the registry
    ran,         \* the query the database ran, with the version of its structure then
    changes

world == <<catalog, snapshot, graph, assets, changes>>
vars == <<request, pc, stream, work, world, ran>>

Intent == INSTANCE AskIntent

Stages == {"accepted", "sql planned", "sql ready", "sql running", "dispatch", "inventory",
           "listed", "understand", "asked", "graph", "ground", "time", "generate",
           "generated", "check", "execute", "compose", "closing", "done", "left"}

NoWork == [source |-> None, version |-> 0, query |-> None, stated |-> None, materials |-> {},
           retrieval |-> None, grounding |-> None, context |-> None, plan |-> None,
           native |-> None]

Init ==
    /\ request \in Requests
    /\ pc = "accepted" /\ stream = <<"accepted">> /\ work = NoWork /\ ran = None
    /\ catalog \in [Sources -> {"ready", "created"}]
    /\ snapshot = [s \in Sources |-> IF catalog[s] = "ready" THEN 1 ELSE 0]
    /\ graph = [s \in {x \in Sources : catalog[x] = "ready"} |-> Revisions[s][1]]
    /\ assets = Governance /\ changes = 0

-----------------------------------------------------------------------------
(* Steps of the generator *)

Goto(stage) == pc' = stage /\ UNCHANGED <<request, world, ran>>

Yield(event) == stream' = Append(stream, event)

Verdict(event) == Yield(event) /\ Goto("closing") /\ UNCHANGED work

\* A slip of Fail: nobody is told.
FailQuietly == Goto("closing") /\ UNCHANGED <<stream, work>>

Fail == Verdict("error")

AskUser == Verdict("clarification_required")

Ready == {s \in Sources : catalog[s] = "ready"}

\* What an outside call that fails leaves: an error.
Outside == {"accepted", "sql running", "dispatch", "inventory", "listed", "understand",
            "graph", "generate", "check", "execute"}

CallFails == pc \in Outside /\ Fail

\* _prepare_explicit_sql(): one of the ready sources, that of the scope if there is one.
PlanSql ==
    /\ pc = "accepted" /\ request.mode = "sql"
    /\ LET sources == IF request.scope = None THEN Ready ELSE {request.scope} \cap Ready
       IN IF sources = {} THEN Fail
          ELSE \E s \in sources : /\ work' = [work EXCEPT !.source = s]
                                  /\ Yield("plan_ready") /\ Goto("sql planned")

OfferSql ==
    \/ pc = "sql planned" /\ Yield("query_ready") /\ Goto("sql ready") /\ UNCHANGED work
    \/ pc = "sql ready" /\ Yield("execution_started") /\ Goto("sql running") /\ UNCHANGED work

\* _execute_explicit_sql(): on whatever the source is by now.
RunSql ==
    /\ pc = "sql running"
    /\ IF catalog[work.source] = "gone" THEN Fail ELSE Verdict("result_ready")

\* _require_ready_scope()
ScopeReady == IF request.scope = None THEN Ready # {} ELSE request.scope \in Ready

WholeWorkspace == request.mode = "workspace" /\ request.scope = None

CheckScope ==
    /\ pc = "accepted" /\ request.mode # "sql"
    /\ IF WholeWorkspace \/ ScopeReady
       THEN Goto("dispatch") /\ UNCHANGED <<stream, work>>
       ELSE Fail

-----------------------------------------------------------------------------
(* A question about the structure *)

\* The snapshot of the catalog is read first, the graph after it.
Inventory ==
    /\ pc = "dispatch" /\ request.mode # "question"
    /\ IF WholeWorkspace
       THEN Yield("retrieval_ready") /\ Goto("listed") /\ UNCHANGED work
       ELSE IF request.scope = None THEN AskUser
       ELSE IF catalog[request.scope] = "gone" THEN Fail
       ELSE IF request.mismatch THEN AskUser
       ELSE IF snapshot[request.scope] = 0 THEN Fail
       ELSE /\ work' = [work EXCEPT !.version = snapshot[request.scope]]
            /\ Goto("inventory") /\ UNCHANGED stream

\* A slip of Agrees: whatever is published is shown.
AgreesAnyway(s) == s \in DOMAIN graph

Agrees(s) == s \in DOMAIN graph /\ graph[s].version = work.version

Describe ==
    /\ pc = "inventory"
    /\ IF ~Agrees(request.scope) THEN Fail
       ELSE /\ work' = [work EXCEPT !.source = request.scope, !.retrieval = graph[request.scope]]
            /\ Yield("retrieval_ready") /\ Goto("listed")

AnswerInventory == pc = "listed" /\ Verdict("result_ready")

-----------------------------------------------------------------------------
(* A business question *)

Understand ==
    /\ pc = "dispatch" /\ request.mode = "question"
    /\ \E reading \in Readings[request.text] :
        LET u == Intent!Understand(request.text, request.scope, reading)
        IN IF ~u.ok THEN Fail
           ELSE /\ work' = [work EXCEPT !.query = u.query,
                                        !.stated = u]
                /\ Yield("intent_ready")
                /\ Goto(IF u.ask THEN "asked" ELSE "understand")

AskAboutIntent == pc = "asked" /\ AskUser

ReadAssets ==
    /\ pc = "understand"
    /\ work' = [work EXCEPT !.materials = Materials(assets, work.stated.scope)]
    /\ Goto("graph") /\ UNCHANGED stream

Retrieve ==
    /\ pc = "graph"
    /\ work' = [work EXCEPT !.retrieval =
                    Retrieval(work.query, work.materials, Read(graph, work.stated.scope),
                              work.stated.scope)]
    /\ Yield("retrieval_ready") /\ Goto("ground")

GroundQuestion ==
    /\ pc = "ground"
    /\ work' = [work EXCEPT !.grounding = Ground(work.query, work.retrieval)]
    /\ Yield("grounding_ready") /\ Goto("time")

\* normalize_time_range(): of what the text states, not of what the model read.
TimeRange ==
    LET dates == work.stated.dates
        ends == {dates[1], dates[Len(dates)]}
    IN IF dates # <<>> THEN [start |-> Min(ends), end |-> Max(ends)]
       ELSE IF work.stated.time = None THEN None
       ELSE Ranges[work.stated.time]

Axes == {b.term : b \in {x \in work.grounding.bindings : x.axis}}

Axis == IF work.query.time = None THEN None ELSE CHOOSE t \in Axes : TRUE

\* build_query_context() and plan_grounded_query()
PlanQuestion ==
    /\ pc = "time"
    /\ IF ~work.grounding.executable \/ work.grounding.bindings = {} THEN AskUser
       ELSE IF work.query.time # None /\ (TimeRange = None \/ Cardinality(Axes) # 1) THEN AskUser
       ELSE \E context \in {Context(work.grounding, work.query, Axis, TimeRange)} :
            \E plan \in {IF context.ok THEN Plan(context) ELSE Nothing} :
                IF ~plan.ok \/ ~ValidPlan(plan, context) THEN Fail
                ELSE /\ work' = [work EXCEPT !.context = context, !.plan = plan,
                                           !.source = plan.source]
                     /\ Yield("plan_ready") /\ Goto("generate")

Generated ==
    LET native == Compile(work.plan, Driver[work.source])
    IN IF native.ok /\ ValidNative(native, work.plan, native) THEN native ELSE Nothing

Generate ==
    /\ pc = "generate"
    /\ IF catalog[work.source] = "gone" \/ ~Generated.ok THEN Fail
       ELSE /\ work' = [work EXCEPT !.native = Generated]
            /\ Yield("query_ready") /\ Goto("generated")

StartExecution ==
    pc = "generated" /\ Yield("execution_started") /\ Goto("check") /\ UNCHANGED work

\* ExecutionRevisionValidator
Current ==
    /\ work.native.version # 0
    /\ work.source \in DOMAIN graph /\ graph[work.source].version = work.native.version

CheckRevision ==
    /\ pc = "check"
    /\ IF catalog[work.source] = "gone" \/ ~Current THEN Fail
       ELSE Goto("execute") /\ UNCHANGED <<stream, work>>

Execute ==
    /\ pc = "execute"
    /\ IF catalog[work.source] = "gone" THEN Fail
       ELSE /\ ran' = [native |-> work.native,
                       version |-> IF work.source \in DOMAIN graph
                                   THEN graph[work.source].version ELSE 0]
            /\ pc' = "compose" /\ UNCHANGED <<request, stream, work, world>>

\* AnswerComposer.compose(): the model's answer, or the summary of the rows where it
\* fails, has a number that is not in the rows, or hides that they were cut.
Compose == pc = "compose" /\ Verdict("result_ready")

Close == pc = "closing" /\ Yield("done") /\ Goto("done") /\ UNCHANGED work

\* A reader that goes away closes the generator where it has yielded last.
Yielded == {"accepted", "sql planned", "sql ready", "sql running", "listed", "understand",
            "asked", "ground", "time", "generate", "generated", "check", "closing"}

Leave == pc \in Yielded /\ Goto("left") /\ UNCHANGED <<stream, work>>

Step ==
    \/ PlanSql \/ OfferSql \/ RunSql \/ CheckScope
    \/ Inventory \/ Describe \/ AnswerInventory
    \/ Understand \/ AskAboutIntent \/ ReadAssets \/ Retrieve \/ GroundQuestion \/ PlanQuestion
    \/ Generate \/ StartExecution \/ CheckRevision \/ Execute \/ Compose \/ Close

-----------------------------------------------------------------------------
(* Other threads *)

\* What changes when the question has ended is none of its business.
Elsewhere == pc \notin {"done", "left"} /\ UNCHANGED <<request, pc, stream, work, ran>>

Changed == changes < MaxChanges /\ changes' = changes + 1

\* A scan replaces the structure in the graph, then activates its snapshot.
Publish(s) ==
    /\ Changed /\ catalog[s] # "gone" /\ s \in DOMAIN graph
    /\ graph[s].version = snapshot[s] /\ snapshot[s] < Len(Revisions[s])
    /\ graph' = [graph EXCEPT ![s] = Revisions[s][snapshot[s] + 1]]
    /\ Elsewhere /\ UNCHANGED <<catalog, snapshot, assets>>

Activate(s) ==
    /\ s \in DOMAIN graph /\ graph[s].version # snapshot[s] /\ catalog[s] # "gone"
    /\ snapshot' = [snapshot EXCEPT ![s] = graph[s].version]
    /\ Elsewhere /\ UNCHANGED <<catalog, graph, assets, changes>>

\* delete_datasource(): the graph first.
Unpublish(s) ==
    /\ Changed /\ catalog[s] = "ready" /\ s \in DOMAIN graph
    /\ graph' = [t \in DOMAIN graph \ {s} |-> graph[t]]
    /\ Elsewhere /\ UNCHANGED <<catalog, snapshot, assets>>

RemoveRow(s) ==
    /\ catalog[s] = "ready" /\ s \notin DOMAIN graph
    /\ catalog' = [catalog EXCEPT ![s] = "gone"]
    /\ snapshot' = [snapshot EXCEPT ![s] = 0]
    /\ Elsewhere /\ UNCHANGED <<graph, assets, changes>>

\* save() of an asset: any decision on it.
Govern(a, status) ==
    /\ Changed /\ a \in assets /\ a.status # status
    /\ assets' = (assets \ {a}) \cup {[a EXCEPT !.status = status]}
    /\ Elsewhere /\ UNCHANGED <<catalog, snapshot, graph>>

World ==
    \/ \E s \in Sources : Publish(s) \/ Activate(s) \/ Unpublish(s) \/ RemoveRow(s)
    \/ \E a \in {x \in assets : x.id \in Reviewed} : \E status \in {"published", "deprecated"} : Govern(a, status)

Ended == pc \in {"done", "left"} /\ UNCHANGED vars

Next == Step \/ CallFails \/ Leave \/ World \/ Ended

Spec == Init /\ [][Next]_vars

\* The reader of the stream pulls until it is done or it leaves.
FairSpec == Spec /\ WF_vars(Step)

=============================================================================
