------------------------------- MODULE Decisions -------------------------------
(***************************************************************************)
(* The pure decisions of the system over all their small inputs: the       *)
(* calendar of a question, what a question takes from the conversation     *)
(* before it, the look at a statement that is to be executed, the routing  *)
(* and the plans of federated questions, the merge of their answers, the   *)
(* workbooks that are imported, what a connection asks of TLS and of its   *)
(* certificates, the reports of a batch of scans, the binding of semantic  *)
(* assets, downloads, and the charts of an answer.  A state is one input.  *)
(***************************************************************************)
EXTENDS Integers, SequencesExt, FiniteSetsExt

CONSTANTS
    Years,      \* bound: years of the days a question is asked on
    Counts,     \* bound: numerals written
    MaxRows,    \* bound: rows of an answer
    Values      \* bound: values of a cell

Calendar == INSTANCE AskTime
Merger == INSTANCE FederatedMerge
Planner == INSTANCE FederatedPlan
Tls == INSTANCE Tls
Secret == INSTANCE SecretMaterial WITH None <- "none"
Excel == INSTANCE ExcelSheet
              WITH MaxSheets <- 2, MaxRows <- 4, MaxColumns <- 2, MaxCells <- 5, MaxName <- 6, MaxText <- 8
Batch == INSTANCE ScanBatch WITH None <- "none", MaxObjects <- 2
Setup == INSTANCE SetupTools WITH Size <- 2
Assets == INSTANCE AssetLoading WITH None <- "none"
Sql == INSTANCE ReadOnlySql
Chart == INSTANCE Charts WITH None <- "none", MostRows <- 4, MostSlices <- 3, MostSeries <- 2
Context == INSTANCE FollowUps WITH None <- "none", MaxMessages <- 3, MaxChars <- 6, MaxQuestion <- 2

VARIABLE input

-----------------------------------------------------------------------------
(* The inputs *)

Todays == {Calendar!Date(y, m, d) : y \in Years, m \in {1, 2, 3, 12}, d \in {1, 2, 28, 29, 30, 31}}

Asked == {[about |-> "day", today |-> t] :
            t \in {x \in Todays : x.d <= Calendar!MonthLength(x.y, x.m)}}

Written == {[about |-> "count", count |-> n] : n \in Counts}

Sources == {"a", "b", "c"}
Words == {"x", "y"}

Routed == [about: {"route"}, ready: SUBSET Sources, explicit: SUBSET Sources,
           required: SUBSET Words, coverage: [Sources -> SUBSET Words]]

Keys == {Merger!Cell("int", 1), Merger!Cell("text", 1), Merger!Cell("int", 2), Merger!Cell("list", 1),
         Merger!Null}

KeySequences == UNION {[1..n -> Keys] : n \in 0..MaxRows}

Joined == [about: {"join"}, left: KeySequences, right: KeySequences,
           mode: {"inner", "left", "anti"},
           cardinality: {"ONE_TO_ONE", "ONE_TO_MANY", "MANY_TO_ONE"},
           nulls: {"REJECT", "DROP"}, fit: {"fits", "swapped", "explicit", "unprojected"}]

Task(source, shape) == [source |-> source, shape |-> shape]

Drafts == [about: {"draft"}, tasks: {<<Task("a", "scalar"), Task("b", "scalar")>>,
                                     <<Task("a", "scalar"), Task("b", "scalar"), Task("c", "scalar")>>,
                                     <<Task("a", "scalar"), Task("b", "rows")>>},
           operation: Planner!Operations, scalar: Planner!ScalarOperations \cup {"none"},
           mode: {"none"}, mapped: {FALSE}, values: [1..3 -> Values]]

\* Times of two days as columns and texts hold them, a text that is none, and none at all.
Days == {Merger!TimeCell(type, "native", d) : type \in {"date", "datetime"}, d \in 1..2}
        \cup {Merger!TimeCell("text", form, d) : form \in ToSet(Merger!Forms), d \in 1..2}
        \cup {Merger!TimeCell("text", "none", 0), Merger!Null}

DaySequences == UNION {[1..n -> Days] : n \in 0..MaxRows}

Series == [about: {"series"}, left: DaySequences, right: DaySequences]

Secured == {[about |-> "tls", request |-> r] : r \in {q \in Tls!Requests : Tls!ValidRequest(q)}}

\* Certificates, in force now or at another time, and keys, with and without a lock.
Certificates == [is: {"certificate"}, form: {"pem", "der", "other"}, key: {1, 2}, from: {2, 3},
                 until: {2, 3}, usage: {{}, {"client"}, {"client", "server"}}, ca: BOOLEAN]

LockedKeys == [is: {"key"}, form: {"pem", "der", "other"}, key: {1, 2}, lock: {"none", "p"}]

Identities == [about: {"identity"}, certificate: Certificates, key: LockedKeys,
               password: {"none", "p", "q"}, later: {2, 3}]

\* Two identities in a store; a file is missing or holds the document of another id.
Stored(n, kind) ==
    [is |-> IF kind = "client_certificate" THEN "certificate" ELSE "key", form |-> "pem", key |-> n]
        @@ IF kind = "client_certificate"
           THEN [from |-> 1, until |-> n + 1, usage |-> {}, ca |-> FALSE]
           ELSE [lock |-> "none"]

Documents == <<Secret!Document(1, "client_certificate", Stored(1, "client_certificate"), "m"),
               Secret!Document(2, "client_private_key", Stored(1, "client_private_key"), "m"),
               Secret!Document(3, "client_certificate", Stored(2, "client_certificate"), "m"),
               Secret!Document(4, "client_private_key", Stored(2, "client_private_key"), "m")>>

\* The document of an id, one with the cipher of another, or another altogether.
Found(id) ==
    {Documents[j] : j \in 1..4} \cup {[Documents[id] EXCEPT !.sealed = Documents[j].sealed] : j \in 1..4}
        \cup {[Documents[id] EXCEPT !.version = 2], [Documents[id] EXCEPT !.kind = "token"]}

Opened == [about: {"secret"}, certificate: 1..4, key: 1..4, now: {2, 3}, master: {"m", "o", "unset"},
           files: {[Documents EXCEPT ![id] = d] : id \in 1..4, d \in UNION {Found(i) : i \in 1..4}}
                      \cup {[i \in (1..4) \ {id} |-> Documents[i]] : id \in 1..4}]

\* A sheet's header and data, cell by cell: all kinds in one column, some in two, and two
\* sheets of a workbook.
CellOf(is, n, timed) == [is |-> is, n |-> n, timed |-> timed]

Cells == {Excel!Null, CellOf("bool", 2, FALSE), CellOf("int", 2, FALSE), CellOf("float", 1, FALSE),
          CellOf("datetime", 2, FALSE), CellOf("datetime", 2, TRUE), CellOf("datetime", 3, TRUE),
          CellOf("time", 1, TRUE), CellOf("str", 2, FALSE), CellOf("str", 9, FALSE),
          CellOf("nan", 0, FALSE), CellOf("formula", 0, FALSE)}

Names == {Excel!Null, CellOf("str", 2, FALSE), CellOf("str", 3, FALSE), CellOf("str", 4, FALSE),
          CellOf("str", 1, FALSE), CellOf("str", 7, FALSE), CellOf("int", 2, FALSE),
          CellOf("error", 0, FALSE)}

Few == {Excel!Null, CellOf("int", 2, FALSE), CellOf("formula", 0, FALSE), CellOf("error", 0, FALSE)}

SheetOf(name, state, merged, rows) ==
    [name |-> name, state |-> state, merged |-> merged, rows |-> rows]

Column(n) == {<<<<CellOf("str", 2, FALSE)>>>> \o [i \in 1..n |-> <<data[i]>>] : data \in [1..n -> Cells]}

Headed == {<<<<a, b>>, <<c>>, <<d, e>>>> : a \in Names, b \in Names, c \in Few, d \in Few, e \in Few}

Wide == {<<<<CellOf("str", 2, FALSE), CellOf("str", 4, FALSE), a>>, <<b>>>> : a \in Names, b \in Cells}
            \cup {[i \in 1..5 |-> <<CellOf("int", 2 * i, FALSE)>>]}

Small == {SheetOf(name, state, merged, rows) :
              name \in {1, 2, 3, 4}, state \in {"visible", "hidden"}, merged \in BOOLEAN,
              rows \in {<<>>, <<<<CellOf("str", 2, FALSE)>>>>,
                       <<<<CellOf("str", 2, FALSE)>>, <<CellOf("int", 4, FALSE)>>, <<CellOf("int", 2, FALSE)>>,
                         <<CellOf("float", 3, FALSE)>>>>,
                       <<<<CellOf("str", 2, FALSE)>>, <<Excel!Null>>, <<CellOf("int", 2, FALSE)>>>>}}

Workbooks == {<<SheetOf(2, "visible", merged, rows)>> : merged \in {FALSE}, rows \in Column(3) \cup Headed \cup Wide}
                 \cup {<<a, b>> : a \in Small, b \in Small}

Filed == {[about |-> "workbook", file |-> [container |-> {}, sheets |-> w]] : w \in Workbooks}
             \cup {[about |-> "workbook", file |-> [container |-> d, sheets |-> <<>>]] :
                       d \in SUBSET {"FILE_TOO_LARGE", "MACROS"}}

\* A source that passes, those that differ in what their scan meets, and pairs of them.
Sound == [name |-> "a", id |-> "new", workspace |-> "w", before |-> {}, reachable |-> TRUE,
          created |-> TRUE, finishes |-> TRUE, ready |-> TRUE, found |-> TRUE, document |-> TRUE,
          snapshot |-> [version |-> 1, objects |-> 1, active |-> TRUE],
          graph |-> [readable |-> TRUE, databases |-> 1, version |-> 1, objects |-> 1]]

Met(source) ==
    {source, [source EXCEPT !.reachable = FALSE], [source EXCEPT !.finishes = FALSE],
     [source EXCEPT !.created = FALSE], [source EXCEPT !.created = FALSE, !.before = {"old"}],
     [source EXCEPT !.finishes = FALSE, !.before = {"old"}], [source EXCEPT !.ready = FALSE],
     [source EXCEPT !.found = FALSE],
     [source EXCEPT !.document = FALSE], [source EXCEPT !.graph.readable = FALSE],
     [source EXCEPT !.graph.databases = 0], [source EXCEPT !.graph.version = 2],
     [source EXCEPT !.snapshot.active = FALSE]}

Counted == {[Sound EXCEPT !.snapshot.objects = s, !.graph.objects = g] : s \in 0..3, g \in 0..4}

Batches == {<<>>} \cup {<<s>> : s \in Met(Sound) \cup Counted}
               \cup {<<a, [b EXCEPT !.name = "b", !.workspace = w]>> :
                        a \in Met(Sound), b \in Met(Sound), w \in {"w", "v"}}

Scanned == [about: {"batch"}, sources: Batches, opens: BOOLEAN]

\* Two objects of one name in two namespaces, as the profile and as the graph have them.
ProfileObjects == {[source |-> "s", id |-> n, namespace |-> n, name |-> "o",
                    fields |-> {[path |-> "p"]}] : n \in {"n1", "n2"}}

GraphObjects == {[source |-> "s", node |-> n, namespace |-> n, name |-> "o", fields |-> f] :
                    n \in {"n1", "n2"},
                    f \in {{[node |-> "f1", path |-> "p"]}, {},
                           {[node |-> "f1", path |-> "p"], [node |-> "f2", path |-> "p"]}}}

GraphsOf == {g \in SUBSET GraphObjects : \A a, b \in g : a.namespace = b.namespace => a = b}

Seed == [id |-> "m", kind |-> "metric", source |-> "s", namespace |-> "none", profiled |-> "none",
         object |-> "o", path |-> "p", target |-> "none", origin |-> "enterprise",
         status |-> "approved", confirmed |-> FALSE]

Bound == {[Seed EXCEPT !.kind = k, !.source = s, !.namespace = n, !.profiled = i, !.object = o,
                       !.path = p] :
             k \in {"metric", "concept"}, s \in {"s", "none"}, n \in {"n1", "none"},
             i \in {"n1", "none"}, o \in {"o", "none"}, p \in {"p", "q", "none"}}

Governed == {[Seed EXCEPT !.origin = o, !.status = s, !.confirmed = c] :
                o \in {"enterprise", "model_suggestion"}, s \in {"suggested", "approved"}, c \in BOOLEAN}

Alias == [[f \in DOMAIN Seed |-> "none"] EXCEPT
             !.id = "k", !.kind = "alias", !.target = "m", !.origin = "enterprise",
             !.status = "approved", !.confirmed = FALSE]

SeedFiles == {<<s>> : s \in Bound \cup Governed}
                 \cup {<<[Alias EXCEPT !.target = t], s>> :
                          t \in {"m", "k", "x", "none"}, s \in Bound \cup Governed}

\* What an earlier file has left: nothing, an asset, or one that this file has too, bound to a
\* graph that has been replaced.
Left == {<<>>} \cup {[n \in {id} |-> [id |-> id, seed |-> [Seed EXCEPT !.id = id], profiled |-> "n0",
                                    identity |-> [object |-> "n0", field |-> "f0"]]] : id \in {"x", "m"}}

Seeded == [about: {"seeds"}, seeds: SeedFiles, profile: SUBSET ProfileObjects,
           graph: GraphsOf, registry: Left]

Registries ==
    {[about |-> "registry", db |-> [main |-> [rows |-> rows, keyed |-> keyed], legacy |-> Assets!NoTable]] :
        rows \in SUBSET {"m", "k"}, keyed \in {"asset", "workspace"}}

\* The file an earlier download has left, and three attempts.
Downloads == [about: {"download"}, have: 0..2, expected: {0, 2},
              replies: [1..3 -> [honours: BOOLEAN, bytes: 0..2, breaks: BOOLEAN]]]

\* A question, the user's answers to it, and what the model makes of them, where it is asked.
Facts == [dates: SUBSET {1}, numbers: SUBSET {1}, filters: SUBSET {1}, source: {"none", "s", "t"},
           loose: {{}}]

\* With some of what is loose; a text with a date has no relative time.
Loosely(facts, kinds) ==
    {[f EXCEPT !.loose = IF f.dates = {} THEN l ELSE l \ {"time"}] : f \in facts, l \in SUBSET kinds}

Earlier == [dates |-> {1}, numbers |-> {}, filters |-> {}, source |-> "t", loose |-> {}]

Clarifications == {<<>>} \cup {<<f>> : f \in Loosely(Facts, {"time"})}
                      \cup {<<Earlier, f>> : f \in Facts}

Silent == [given |-> FALSE, size |-> 0, physical |-> FALSE, secret |-> FALSE, facts |-> Earlier]

Replies == [given: {TRUE}, size: {1}, physical: {FALSE}, secret: {FALSE}, facts: Facts]
            \cup [given: BOOLEAN, size: 0..3, physical: BOOLEAN, secret: BOOLEAN, facts: {Earlier}]

Clarified == [about: {"follow-up"}, facts: Loosely(Facts, {"time", "ranking"}), elliptical: {TRUE},
              confirmed: {TRUE}, clarifications: Clarifications, reply: Replies]
             \cup {q \in [about: {"follow-up"}, facts: Loosely(Facts, {"time", "ranking"}),
                           elliptical: BOOLEAN, confirmed: BOOLEAN, clarifications: Clarifications,
                           reply: {Silent}] : ~(q.elliptical /\ q.confirmed)}

\* Messages of some length, and a memory that takes some of the room.
Shown == [about: {"context"}, sizes: UNION {[1..n -> 1..4] : n \in 0..4}, size: 0..8, reduced: 0..3]

\* All short statements, and longer ones that begin to read.
Statements ==
    {[about |-> "statement", sql |-> s] : s \in
        UNION {[1..n -> Sql!Marks \cup Sql!Words] : n \in 0..4}
            \cup {<<"read">> \o s : s \in [1..5 -> {"listed", ";", "single", "/*", "*/", "--", "newline"}]}}

\* Answers of two columns: two rows of anything, three of little, and more than are drawn; and
\* answers of four columns.
Cell(is, n) == [is |-> is, n |-> n]

Anything == {Cell("null", 0), Cell("number", 0), Cell("number", 1), Cell("number", -1),
             Cell("text", 0), Cell("infinite", 0), Cell("object", 0)}

Some == {Cell("number", 1), Cell("null", 0), Cell("text", 0)}

Drawings ==
    [columns: {<<"a", "b">>},
     rows: UNION {[1..n -> [{"a", "b"} -> Anything]] : n \in 0..2} \cup [1..3 -> [{"a", "b"} -> Some]]
              \cup {[i \in 1..n |-> [a |-> Cell("text", 0), b |-> v]] : n \in 4..5, v \in Anything}]
        \cup [columns: {<<"a", "b", "c", "d">>}, rows: [1..2 -> [{"a", "b", "c", "d"} -> Some \ {Cell("null", 0)}]]]

Charted == [about: {"chart"}, drawing: Drawings, status: {"completed", "failed"}, groupBy: {"none", "b"},
            aliases: {<<>>, <<"b">>}, time: {"none", "a"}]

Init == input \in Asked \cup Written \cup {r \in Routed : r.explicit \subseteq r.ready}
                     \cup Joined \cup Drafts \cup Series \cup Secured \cup Identities \cup Opened \cup Filed
                     \cup Scanned \cup Seeded \cup Registries \cup Downloads
                     \cup Clarified \cup Shown \cup Statements \cup Charted

Next == UNCHANGED input

Spec == Init /\ [][Next]_input

-----------------------------------------------------------------------------
(* The calendar *)

From(expression, n) == Calendar!Normalize(expression, n, input.today)

Follows(a, b) == Calendar!Number(b.start) = Calendar!Number(a.end) + 1

Length(range) == Calendar!Number(range.end) - Calendar!Number(range.start) + 1

\* The day before a week, a month or a year that has begun ends the one before it, a week
\* has seven days and recent days are as many as said, on the last days of months, in leap
\* years and over new year; a count means what it says in numerals
\* (normalize_time_range(), _count()).
RelativeTimesAreRead ==
    /\ input.about = "day" =>
        /\ Follows(From("last week", 0), From("this week", 0))
        /\ Follows(From("last month", 0), From("this month", 0))
        /\ Follows(From("last year", 0), From("this year", 0))
        /\ Length(From("last week", 0)) = 7
        /\ Length(From("last year", 0)) \in {365, 366}
        /\ \A n \in {1, 7, 30, 365} : Length(From("recent days", n)) = n
        /\ \A n \in {1, 2, 13} : Length(From("recent months", n)) \in (28 * n)..(31 * n + 1)
        /\ \A n \in {1, 4} : Length(From("recent years", n)) \in (365 * n)..(366 * n + 1)
    /\ input.about = "count" => Calendar!Count(Calendar!Written(input.count)) = input.count

\* A month that is named is the whole month: the example question "2026 年 7 月" is verified
\* over 2026-07-01 to 2026-07-31 (_parse_date()).
NamedMonthsAreWhole ==
    input.about = "day" =>
        LET range == Calendar!Explicit(<<Calendar!ParseDate(input.today.y, input.today.m, 0)>>)
        IN Length(range) = Calendar!MonthLength(input.today.y, input.today.m)

-----------------------------------------------------------------------------
(* Conversations *)

NoMemory == [confirmed |-> FALSE, findings |-> {}]

LastAnswer ==
    Context!ConfirmedMemory([query |-> "q", evidence |-> "s", size |-> 2, reduced |-> 1], "run", NoMemory)

\* What the user has said of a question: the message and the last answer about it.
Said(question) ==
    {question.facts} \cup (IF question.clarifications = <<>> THEN {} ELSE {Last(question.clarifications)})

AskedOf(question) ==
    Context!Resolve(Context!AskedQuestion([facts |-> question.facts, elliptical |-> question.elliptical],
                                          question.clarifications),
                    IF question.confirmed THEN LastAnswer ELSE NoMemory, question.reply)

\* Whatever a model makes of a question that leans on the one before it: every date, number
\* and filter of the question and of the user's last answer about it is in what is asked, the
\* source is the one the user named first and no other, and an answer's date stands for the
\* relative time of the question.  Every other question is asked as it stands, with its
\* rankings and relative times, which in a follow-up are the model's to keep (_drive(),
\* resolve()).
FollowUpsKeepTheirFacts ==
    input.about = "follow-up" =>
        LET asked == AskedOf(input)
            follows == input.elliptical /\ input.confirmed
            dated == \E f \in Said(input) : f.dates # {}
        IN /\ ~follows =>
                /\ asked.ok
                /\ asked.facts.numbers = UNION {f.numbers : f \in Said(input)}
                /\ "time" \in asked.facts.loose => ~dated
                /\ \A f \in Said(input) : f.loose \ asked.facts.loose \subseteq {"time"}
           /\ asked.ok =>
                /\ \A f \in Said(input) : /\ f.dates \subseteq asked.facts.dates
                                          /\ f.numbers \subseteq asked.facts.numbers
                                          /\ f.filters \subseteq asked.facts.filters
                /\ asked.facts.source \in {f.source : f \in Said(input)}
                /\ input.facts.source # "none" => asked.facts.source = input.facts.source
                /\ follows => /\ input.reply.given /\ input.reply.size \in 1..2
                              /\ ~input.reply.physical /\ ~input.reply.secret

\* "Guarded business-language follow-up resolution" of all that the rules find, which the guard
\* does not keep: a relative time, a ranking or a comparison may be gone (_facts()).
FollowUpsKeepEverything ==
    input.about = "follow-up" /\ AskedOf(input).ok /\ ~(\E f \in Said(input) : f.dates # {}) =>
        \A f \in Said(input) : f.loose \subseteq AskedOf(input).facts.loose

\* What a model is shown of a conversation is its end, whole but for the oldest message that is
\* shown, within the room; it goes as far back as the room and the number of messages allow
\* (working_set()).
ContextsAreRecent ==
    input.about = "context" =>
        LET messages == [i \in DOMAIN input.sizes |-> [id |-> i, size |-> input.sizes[i]]]
            memory == [size |-> input.size, reduced |-> input.reduced]
            shown == Context!WorkingSet(messages, memory)
            first == Len(messages) - Len(shown)
            used == FoldLeft(LAMBDA n, m : n + m.size, 0, shown)
            room == Context!Room(memory)
        IN /\ \A i \in DOMAIN shown : /\ shown[i].id = first + i
                                      /\ shown[i].size > 0
                                      /\ i > 1 => shown[i].size = messages[first + i].size
           /\ used <= room /\ Len(shown) <= 3
           /\ first > 0 /\ Len(shown) < 3 => used = room
           /\ shown # <<>> /\ shown[1].size < messages[first + 1].size => used = room

\* A question means what it says: relative times are what the calendar says, a follow-up
\* keeps what was said, and its context is the latest.
QuestionsKeepTheirMeaning == RelativeTimesAreRead /\ FollowUpsKeepTheirFacts /\ ContextsAreRecent

-----------------------------------------------------------------------------
(* Statements *)

\* What of a statement is neither quoted nor comment, read once from left to right.
Code(sql) ==
    LET Read(state, mark) ==
            CASE state.in = "code" /\ mark \in Sql!Quotes \cup {"[", "--", "/*"} ->
                    [state EXCEPT !.in = mark, !.depth = 1]
              [] state.in = "code" -> [state EXCEPT !.code = Append(state.code, mark)]
              [] state.in = "/*" /\ mark \in {"/*", "*/"} ->
                    LET depth == state.depth + IF mark = "/*" THEN 1 ELSE -1
                    IN [state EXCEPT !.depth = depth, !.in = IF depth = 0 THEN "code" ELSE "/*"]
              [] \/ state.in \in Sql!Quotes /\ mark = state.in
                 \/ state.in = "[" /\ mark = "]"
                 \/ state.in = "--" /\ mark = "newline" -> [state EXCEPT !.in = "code"]
              [] OTHER -> state
    IN SelectSeq(FoldLeft(Read, [in |-> "code", depth |-> 0, code |-> <<>>], sql).code,
                 LAMBDA mark : mark # "newline")

\* A statement is let through exactly when it begins with SELECT or WITH and, outside of
\* quotes and comments, has no word of the list and is one statement; what writes and is not
\* in the list is left to the rights of the connection
\* (validate_read_only_query()).
StatementsAreRead ==
    input.about = "statement" =>
        LET code == Code(input.sql)
            text == SelectSeq(input.sql, LAMBDA mark : mark # "newline")
        IN Sql!ValidateReadOnlyQuery(input.sql) =
            /\ text # <<>> /\ text[1] = "read"
            /\ "listed" \notin ToSet(code)
            /\ \A i \in DOMAIN code : code[i] = ";" => i = Len(code)

\* "Reject every statement that could mutate the database", SELECT ... INTO among them, which
\* the list does not do: INTO is not in it.
AcceptedStatementsOnlyRead ==
    input.about = "statement" /\ Sql!ValidateReadOnlyQuery(input.sql) =>
        ToSet(Code(input.sql)) \cap {"listed", "unlisted"} = {}

-----------------------------------------------------------------------------
(* Charts *)

\* The segments of a line are runs of neighbouring points, and together all of its values.
Lined(spec, s, segments) ==
    /\ FlattenSeq(segments) = SelectSeq([p \in DOMAIN spec.points |-> p],
                                        LAMBDA p : ~Chart!Null(spec.points[p].values[s]))
    /\ \A k \in 1..(Len(segments) - 1) : Last(segments[k]) + 1 < segments[k + 1][1]

\* A kind that may be chosen is drawn, no other is, and what is chosen for the user is drawn
\* when anything can be; what is drawn is every row of the answer in its order, each column
\* in one place.
Drawn(view, selected, eligible, spec) ==
    /\ selected \in eligible \ {"table"} => spec.kind = selected
    /\ selected \notin eligible \cup {"auto"} => spec.kind = "none"
    /\ selected = "auto" /\ eligible \cap {"bar", "line"} # {} => spec.kind # "none"
    /\ spec.kind # "none" =>
        /\ view.status = "completed" /\ Len(spec.points) = Len(view.rows)
        /\ spec.category \notin ToSet(spec.series)
        /\ \A p \in DOMAIN spec.points :
            /\ spec.points[p].category = view.rows[p][spec.category]
            /\ \A s \in DOMAIN spec.series : spec.points[p].values[s] = view.rows[p][spec.series[s]]
        /\ \A s \in DOMAIN spec.series : Lined(spec, s, Chart!LineSegments(spec, s))

\* Charts show the answer: the kinds a page offers and what it can draw agree
\* (eligibleChartKinds(), buildChartSpec(), isChartSpec(), lineSegments()).
ChartsShowTheAnswer ==
    input.about = "chart" =>
        LET view == Chart!ViewOf([columns |-> input.drawing.columns, rows |-> input.drawing.rows,
                                  count |-> Len(input.drawing.rows),
                                  status |-> input.status, groupBy |-> input.groupBy,
                                  aliases |-> input.aliases, time |-> input.time,
                                  truncated |-> FALSE, evidenceTruncated |-> FALSE])
        IN \A selected \in {"auto", "table", "bar", "line", "pie"} :
                Drawn(view, selected, Chart!EligibleKinds(view), Chart!Shown(view, selected))

-----------------------------------------------------------------------------
(* Federated questions *)

\* A question answered by one source that nobody named is answered by the only one that
\* covers it; one that is federated over sources nobody named needs two of them
\* (route()).
RoutesCoverTheQuestion ==
    input.about = "route" /\ Cardinality(input.ready) > 1 /\ input.explicit = {} =>
        LET route == Planner!Route(input.ready, {}, input.required, input.coverage)
            covers(sources) == input.required \subseteq UNION {input.coverage[s] : s \in sources}
        IN /\ route.kind = "single_source" =>
                {route.source} = {s \in input.ready : covers({s})}
           /\ route.kind = "federated" =>
                covers(input.ready) /\ \A s \in input.ready : ~covers({s})

Row(n, cell) == [n |-> n, key |-> cell]

\* The answer of one side, which may be another source's, not a grounded one, or without the
\* mapped field.
Answer(cells, side, fit) ==
    [rows |-> [i \in DOMAIN cells |-> Row(i, cells[i])], columns |-> <<"n", "key">>, axis |-> "",
     source |-> IF fit = "swapped" THEN "left" ELSE side,
     grounded |-> fit # "explicit", projected |-> fit = "fits"]

\* What a join means: the pairs of rows with one key, and in its mode the rows of the
\* left without a partner.
Pairs(left, right) ==
    {<<i, j>> \in (DOMAIN left) \X (DOMAIN right) : left[i] = right[j] /\ left[i] # Merger!Null}

Relational(left, right, mode) ==
    LET alone == {i \in DOMAIN left : /\ left[i] # Merger!Null
                                      /\ \A j \in DOMAIN right : left[i] # right[j]}
        pairs == {<<Row(p[1], left[p[1]]), Row(p[2], right[p[2]])>> : p \in Pairs(left, right)}
        rest == {<<Row(i, left[i]), Merger!Null>> : i \in alone}
    IN CASE mode = "inner" -> pairs [] mode = "left" -> pairs \cup rest [] OTHER -> rest

Measured(times) ==
    [rows |-> [i \in DOMAIN times |-> [day |-> times[i], value |-> Merger!Cell("int", i)]],
     columns |-> <<"day", "value">>, axis |-> "day"]

\* Two times are one when they are written alike: a date of a column and a text are, where a
\* moment and a day of the same date are not.
Alike(s, t) ==
    /\ s.value = t.value
    /\ LET day == s.type = "date" \/ s.form = "day"
           moment == s.type = "datetime" \/ s.form = "moment"
       IN IF day THEN t.type = "date" \/ t.form = "day"
          ELSE IF moment THEN t.type = "datetime" \/ t.form = "moment"
          ELSE s.form = t.form

Timed(times) == \A i \in DOMAIN times : times[i].type # "null" /\ times[i].form # "none"

Once(times) == \A i, j \in DOMAIN times : i # j => ~Alike(times[i], times[j])

\* The rows of a merge of two series: each has the value of one row of a side or of two that are
\* alike, every row of a side is in one, days are in order, and of a day a month comes before
\* the day, and a day before what is later that day.
Aligned(sides, rows) ==
    LET In(row, s, i) == row.values[s] = Merger!Cell("int", i)
        all == UNION {{<<s, i>> : i \in DOMAIN sides[s]} : s \in 1..2}
    IN /\ \A p \in all : Cardinality({n \in DOMAIN rows : In(rows[n], p[1], p[2])}) = 1
       /\ \A n \in DOMAIN rows :
            LET here == {p \in all : In(rows[n], p[1], p[2])}
            IN /\ here # {}
               /\ \A p, q \in all : p \in here => (q \in here <=> Alike(sides[p[1]][p[2]], sides[q[1]][q[2]]))
               /\ \A p \in here : sides[p[1]][p[2]].value = rows[n].key[1]
               /\ n > 1 => Merger!Earlier(rows[n - 1].key, rows[n].key)

\* A merge neither loses nor invents nor repeats a row, and refuses a mapping that the
\* rows contradict: a key twice on a side where it is unique, or a null that is not
\* allowed, and answers that are not the mapping's.  Series meet where their times are written
\* alike, and are refused for a time that is none or comes twice (_join(), _timeseries()).
MergesAreRelational ==
    /\ input.about = "join" =>
        LET mapping == [left |-> "key", right |-> "key", cardinality |-> input.cardinality,
                        nulls |-> input.nulls, sources |-> <<"left", "right">>]
            result == Merger!Join(Answer(input.left, "left", input.fit),
                                  Answer(input.right, "right", input.fit), mapping, input.mode)
            keys(side) == SelectSeq(side, LAMBDA c : c # Merger!Null)
            nulls == Merger!Null \in ToSet(input.left \o input.right)
        IN IF result.ok
           THEN /\ input.fit = "fits"
                /\ ToSet(result.rows) = Relational(input.left, input.right, input.mode)
                /\ Len(result.rows) = Cardinality(ToSet(result.rows))
           ELSE \/ input.fit # "fits"
                \/ Merger!Cell("list", 1) \in ToSet(input.left \o input.right)
                \/ input.nulls = "REJECT" /\ nulls
                \/ input.cardinality # "MANY_TO_ONE" /\ ~IsInjective(keys(input.left))
                \/ input.cardinality # "ONE_TO_MANY" /\ ~IsInjective(keys(input.right))
    /\ input.about = "series" =>
        LET result == Merger!Align(<<Measured(input.left), Measured(input.right)>>)
        IN /\ result.ok = \A side \in {input.left, input.right} : Timed(side) /\ Once(side)
           /\ result.ok => Aligned(<<input.left, input.right>>, result.rows)

Scope == [sources |-> 3, source |-> 10, total |-> 30, allowed |-> {"a", "b", "c"}]

NoMapping == [status |-> "DRAFT", left |-> "a", right |-> "b"]

\* A plan that is valid can be merged when every source answers in the shape it was asked
\* for, but for a division by zero and for a quotient over three sources, which the
\* validator lets pass (validate(), _scalars()).
ValidPlansMerge ==
    input.about = "draft" /\ Planner!Valid(input, Scope, NoMapping)
        /\ input.operation \in {"compare_scalars", "combine_scalars"} =>
        LET answers == [i \in DOMAIN input.tasks |->
                [rows |-> <<[v |-> Merger!Cell("int", input.values[i])]>>, columns |-> <<"v">>]]
            merged == Merger!Merge([operation |-> input.operation, scalar |-> input.scalar],
                                   answers, Scope)
        IN /\ \/ merged.ok
              \/ merged.code = "division_by_zero" /\ input.values[2] = 0
              \/ input.scalar \in Merger!Quotient /\ Len(input.tasks) = 3
           /\ merged.ok /\ input.operation = "combine_scalars" => merged.rows[1].result # <<>>

\* A federated question is sent to sources that cover it, its plan can be merged, and the
\* merge is that of the plan (the router, the validator and the merger).
FederatedAnswersAreSound == RoutesCoverTheQuestion /\ ValidPlansMerge /\ MergesAreRelational

-----------------------------------------------------------------------------
(* Workbooks *)

Taken(file) == {i \in Excel!Visible(file) : \E r \in DOMAIN file.sheets[i].rows :
                                                Excel!Stored(file.sheets[i].rows[r]) # {}}

\* What can be imported: everything visible is a table with a header, without formulas,
\* merged ranges or values of no type, within the limits, and names tell columns and tables
\* apart whatever their case.
SoundSheet(sheet) ==
    LET header == sheet.rows[1]
        names == {c \in DOMAIN header : header[c].is # "null"}
    IN /\ ~sheet.merged /\ ~Excel!Blank(sheet.name)
       /\ names = 1..Cardinality(names)
       /\ \A c \in names : ~Excel!BadName(header[c])
       /\ \A c, d \in names : Excel!Key(header[c]) = Excel!Key(header[d]) => c = d
       /\ \A i \in 2..Len(sheet.rows) : \A c \in Excel!Stored(sheet.rows[i]) :
            c \in names /\ ~Excel!Bad(sheet.rows[i][c])

Importable(file) ==
    LET taken == Taken(file)
    IN /\ file.container = {} /\ taken # {} /\ Cardinality(Excel!Visible(file)) <= 2
       /\ \A i \in Excel!Visible(file) :
            Len(file.sheets[i].rows) <= 4 /\ Excel!ColumnExtent(file.sheets[i]) <= 2
       /\ \A i \in taken : SoundSheet(file.sheets[i])
       /\ \A i, j \in taken :
            Excel!Fold(file.sheets[i].name) = Excel!Fold(file.sheets[j].name) => i = j
       /\ MapThenSumSet(LAMBDA i : MapThenSumSet(LAMBDA r : Cardinality(Excel!Stored(file.sheets[i].rows[r])),
                                                 2..Len(file.sheets[i].rows)), taken) <= 5

\* What a stored value means: a number, a moment, a truth or a text of one of these.
Meaning(value) ==
    <<CASE value.as \in {"INTEGER", "REAL"} -> "number" [] value.as \in {"DATE", "DATETIME"} -> "moment"
        [] OTHER -> value.as, value.n>>

MeaningOf(cell) == Meaning([as |-> Excel!Classify(cell), n |-> cell.n])

\* Every row with a value becomes a row of its table, every value keeps its meaning, and a
\* column is said to hold nulls when it does.
Kept(plan, table) ==
    LET data == SetToSortSeq(Excel!DataRows(plan.sheet), <)
    IN /\ Len(table) = Len(data)
       /\ \A i \in DOMAIN data, c \in DOMAIN plan.columns :
            IF c \in Excel!Stored(plan.sheet.rows[data[i]])
            THEN Meaning(table[i][c]) = MeaningOf(plan.sheet.rows[data[i]][c])
            ELSE table[i][c] = Excel!Null
       /\ \A c \in DOMAIN plan.columns :
            plan.columns[c].nullable = \E i \in DOMAIN table : table[i][c] = Excel!Null

AllKept(plans, result) ==
    /\ result.ok /\ Len(result.tables) = Len(plans)
    /\ \A k \in DOMAIN plans : Kept(plans[k], result.tables[k])

TakenWhole(file, plan) ==
    /\ plan.ok = Importable(file)
    /\ plan.ok => /\ Len(plan.plans) = Cardinality(Taken(file))
                  /\ AllKept(plan.plans, Excel!Materialize(plan.plans))

\* A workbook is refused exactly when something in it cannot be kept; otherwise its tables
\* keep all of it (validate_workbook(), iter_table_rows(), coerce_cell()).
WorkbooksAreTakenWhole ==
    input.about = "workbook" =>
        TakenWhole(input.file, IF Excel!ReadContainer(input.file).ok
                               THEN Excel!ValidateWorkbook(input.file)
                               ELSE Excel!ReadContainer(input.file))

-----------------------------------------------------------------------------
(* Connections *)

\* What a connection asks of TLS is refused or all of it reaches the driver, with every
\* file the driver is pointed at written: nothing is dropped on the way to a driver that
\* cannot do it (_validate_capabilities(), materialize()).
DriversGetWhatIsAsked ==
    input.about = "tls" =>
        LET r == input.request
            given == Tls!Materialize(r).given
        IN r.enabled /\ ~Tls!Materialize(r).refused =>
            /\ "ca_certificate" \in r.material => given.ca
            /\ "client_certificate" \in r.material => given.identity
            /\ r.minimum = "1.3" => given.minimum = "1.3"
            /\ r.name = "other" => given.name = "other"
            /\ r.verify => given.verify
            /\ given.files \subseteq Tls!Materialize(r).written

\* An identity is stored exactly when a connection would take it as it was sent, and from
\* then on opens without a password until its certificate expires
\* (create_client_identity(), _normalize_material()).
IdentitiesStayUsable ==
    input.about = "identity" =>
        LET made == Secret!CreateClientIdentity(input.certificate, input.key, input.password, 2)
            sent == [client_certificate |-> input.certificate, client_private_key |-> input.key]
                        @@ IF input.password = "none" THEN <<>>
                           ELSE [client_private_key_password |-> [is |-> "text", text |-> input.password]]
        IN /\ made.ok = Secret!NormalizeMaterial(sent, 2).ok
           /\ made.ok =>
                LET files == <<Secret!Document(1, "client_certificate", made.value[1], "m"),
                               Secret!Document(2, "client_private_key", made.value[2], "m")>>
                    given == Secret!Connect([client_certificate |-> 1, client_private_key |-> 2],
                                            files, "m", input.later)
                IN /\ given.ok = (input.later <= input.certificate.until)
                   /\ given.ok => /\ given.value["client_certificate"].key = input.key.key
                                  /\ given.value["client_private_key"].key = input.certificate.key

\* Whatever a file of the store holds, whatever fields of a profile refer to which secret and
\* whichever key the process was started with: a connection that is given an identity is
\* given the two that were stored under its ids, a pair in force (resolve(), materialize()).
IdentitiesAreAuthentic ==
    input.about = "secret" =>
        LET store == Secret!FromEnvironment([directory |-> "outside", key |-> input.master])
            ids == [client_certificate |-> input.certificate, client_private_key |-> input.key]
            given == Secret!Connect(ids, input.files, store.value, input.now)
        IN store.ok /\ given.ok =>
            /\ \A f \in DOMAIN ids : given.value[f] = Documents[ids[f]].sealed.material
            /\ <<input.certificate, input.key>> \in {<<1, 2>>, <<3, 4>>}
            /\ input.now <= given.value["client_certificate"].until

\* Nothing that protects a connection is dropped, lost or taken from somebody else on its way
\* to the driver.
TlsIsNeverWeakened ==
    DriversGetWhatIsAsked /\ IdentitiesStayUsable /\ IdentitiesAreAuthentic

-----------------------------------------------------------------------------
(* A batch of scans *)

\* A source whose connection works, whose scan leaves an active snapshot and a document,
\* and whose graph is that snapshot: all of it, and nothing that is left over.
Whole(source) ==
    /\ source.reachable /\ source.created /\ source.finishes /\ source.ready /\ source.found
    /\ source.document /\ source.snapshot.active
    /\ source.graph = [readable |-> TRUE, databases |-> 1, version |-> source.snapshot.version,
                       objects |-> source.snapshot.objects]
    /\ source.snapshot.objects <= 2

\* The report of a batch has one result per source, in their order, and names exactly the
\* sources that are not whole; until all of them have theirs it says "running"; a batch
\* passes when all pass, and a datasource it names is the one its source created or has had
\* (scan(), _scan_one(), validate()).
ScanReportsAreWhole ==
    input.about = "batch" =>
        LET sources == input.sources
            reports == Batch!Scan(sources, input.opens)
            last == reports[Len(reports)]
            sound == {i \in DOMAIN sources : input.opens /\ Whole(sources[i])}
        IN IF Cardinality({sources[i].workspace : i \in DOMAIN sources}) # 1
           THEN reports = <<>> /\ Batch!ExitCode(reports) = 2
           ELSE /\ \A k \in 1..(Len(reports) - 1) :
                    reports[k].status = "running" /\ IsPrefix(reports[k].members, last.members)
                /\ [i \in DOMAIN last.members |-> last.members[i].name]
                        = [i \in DOMAIN sources |-> sources[i].name]
                /\ last.failures = {sources[i].name : i \in DOMAIN sources \ sound}
                /\ (Batch!ExitCode(reports) = 0) = (sound = DOMAIN sources)
                /\ \A i \in DOMAIN sources :
                    /\ last.members[i].datasource \in {"none", "new"} \cup sources[i].before
                    /\ last.members[i].datasource = "new" => sources[i].created
                    /\ i \in sound => last.members[i].datasource = "new"

-----------------------------------------------------------------------------
(* Semantic assets *)

\* A metric that names its object has the identity of the only field of that name in the graph,
\* in the namespace its profile says where profile and graph agree; what a model has proposed is
\* trusted only when confirmed.
SoundlyBound(asset, profile, graph) ==
    LET seed == asset.seed
        named(set) == {<<o.namespace, o.name>> : o \in set}
        fields == {<<o, f>> \in graph \X UNION {o.fields : o \in graph} :
                      /\ f \in o.fields /\ o.name = seed.object /\ f.path = seed.path
                      /\ seed.namespace \in {"none", o.namespace}}
    IN /\ seed.kind = "metric" /\ seed.object # "none" =>
            /\ fields # {}
            /\ \A f \in fields : asset.identity = [object |-> f[1].node, field |-> f[2].node]
            /\ named(graph) = named(profile) => asset.identity.object = asset.profiled
       /\ seed.origin = "model_suggestion" /\ seed.status = "approved" => seed.confirmed

\* A file of seeds that is refused changes nothing.  Of one that is not, wherever the saving
\* breaks off, the assets before that are bound to the graph of today and the others are as
\* they were; loading the file once more comes to what an unbroken load would have, with no
\* alias that points nowhere, which one may until then (load(), save(), _resolve(),
\* _graph_identity()).
SeedsAreBound ==
    input.about = "seeds" =>
        LET UpTo(stop, registry) == Assets!LoadUpTo(input.seeds, input.profile, input.graph, registry, stop)
            whole == UpTo(Len(input.seeds), input.registry)
        IN \/ \A stop \in 0..Len(input.seeds) : UpTo(stop, input.registry) = input.registry
           \/ /\ \A stop \in 0..Len(input.seeds) :
                    LET part == UpTo(stop, input.registry)
                        saved == {input.seeds[i].id : i \in 1..stop}
                    IN /\ DOMAIN part = DOMAIN input.registry \cup saved
                       /\ \A id \in DOMAIN part :
                            IF id \in saved
                            THEN part[id].seed \in ToSet(input.seeds)
                                 /\ SoundlyBound(part[id], input.profile, input.graph)
                            ELSE part[id] = input.registry[id]
                       /\ UpTo(Len(input.seeds), part) = whole
              /\ \A id \in DOMAIN whole : whole[id].seed.target \in {"none"} \cup DOMAIN whole

\* A registry that is opened keeps its rows, under a key per workspace, and opening it once
\* more changes nothing ("nothing is lost or silently merged", _migrate()).
RegistriesAreKept ==
    input.about = "registry" =>
        LET opened == Assets!Initialize(input.db)
        IN /\ opened.main = [rows |-> input.db.main.rows, keyed |-> "workspace"]
           /\ Assets!Initialize(opened) = opened

GovernedAssetsAreKept == SeedsAreBound /\ RegistriesAreKept

\* The same when the process stops in between, which the statements of the move, each
\* committed on its own, do not keep.
RegistriesSurviveCrashes ==
    input.about = "registry" =>
        \A stop \in 0..4 :
            Assets!Initialize(Assets!InitializeUpTo(input.db, stop)).main.rows = input.db.main.rows

\* "Names must never be the only physical identity of an asset", which they are for a metric
\* that is bound by the id of its profile (_graph_identity()).
MetricsHaveIdentity ==
    input.about = "seeds" =>
        LET saved == Assets!Load(input.seeds, input.profile, input.graph, input.registry)
        IN \A id \in DOMAIN saved : saved[id].seed.kind = "metric" => saved[id].identity.object # "none"

-----------------------------------------------------------------------------
(* Downloads *)

\* Whatever connections break and whatever the server makes of a range, a download that
\* ends well has the bytes of the artifact once and in order, and all of them where the
\* server has told how many there are (_download_resumable()).
DownloadsAreWhole ==
    input.about = "download" =>
        LET result == Setup!DownloadResumable(SubSeq(Setup!Artifact, 1, input.have),
                                              input.replies, input.expected)
        IN result.returned =>
            /\ IsPrefix(result.file, Setup!Artifact)
            /\ input.expected # 0 => result.file = Setup!Artifact

=============================================================================
