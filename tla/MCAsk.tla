--------------------------------- MODULE MCAsk ---------------------------------
(* Two sources: orders of customers in SQLite, scanned again after a column of   *)
(* days was made one of days with times, and after the table of orders was       *)
(* created anew; and events in MongoDB.                                          *)
EXTENDS AskProperties

Shop == "shop"
Web == "web"

Object(id, source, name, kind) ==
    [id |-> id, source |-> source, name |-> name, kind |-> kind, store |-> None]

Field(id, object, source, path, type) ==
    [id |-> id, object |-> object, source |-> source, path |-> path, type |-> type]

ShopRevision(version, orders, day) ==
    [version |-> version,
     objects |-> {Object(orders, Shop, "orders", "table"), Object("o2", Shop, "customers", "table")},
     fields |-> {Field(orders \o ".amount", orders, Shop, "amount", "number"),
                 Field(orders \o ".day", orders, Shop, "day", day),
                 Field("f3", "o2", Shop, "region", "text")},
     relationships |-> {[id |-> "r1", source |-> Shop, from |-> orders, fromPath |-> "customer",
                         to |-> "o2", toPath |-> "id"]}]

WebRevision(version) ==
    [version |-> version, objects |-> {Object("o3", Web, "events", "collection")},
     fields |-> {Field("o3.page", "o3", Web, "page", "text"),
                 Field("o3.seen", "o3", Web, "seen", "datetime")},
     relationships |-> {}]

MCRevisions == [s \in {Shop, Web} |->
    IF s = Shop
    THEN <<ShopRevision(1, "o1", "date"), ShopRevision(2, "o1", "datetime"),
           ShopRevision(3, "o4", "date")>>
    ELSE <<WebRevision(1)>>]

Asset(id, kind, name, source, object, objectName, field, path, aggregation, axis) ==
    [id |-> id, kind |-> kind, name |-> name, aliases |-> {}, source |-> source,
     object |-> object, objectName |-> objectName, field |-> field, path |-> path,
     aggregation |-> aggregation, axis |-> axis, status |-> "published", target |-> None]

Revenue == Asset("a1", "metric", "revenue", Shop, "o1", "orders", None, "amount", "sum", FALSE)

MCGovernance == {
    Revenue,
    Asset("a2", "dimension", "region", Shop, "o2", "customers", "f3", "region", None, FALSE),
    Asset("a3", "dimension", "day", Shop, "o1", "orders", None, "day", None, TRUE),
    [Revenue EXCEPT !.id = "a4", !.kind = "alias", !.name = "turnover", !.target = "a1"],
    Asset("a5", "dimension", "page", Web, "o3", "events", "o3.page", "page", None, FALSE),
    Asset("a6", "dimension", "seen", Web, "o3", "events", "o3.seen", "seen", None, TRUE)}

Ids == <<"a1", "a2", "a3", "a4", "a5", "a6", "f3", "o1", "o1.amount", "o1.day", "o2", "o3",
         "o3.page", "o3.seen", "o4", "o4.amount", "o4.day", "orders.amount", "profit", "r1",
         "revenue", "total revenue", "turnover">>

MCRank == [id \in ToSet(Ids) |-> CHOOSE i \in DOMAIN Ids : Ids[i] = id]

MCLonger == {<<"total revenue", "revenue">>}

Where(subject, operator, value) ==
    [subject |-> subject, operator |-> operator, values |-> <<value>>, list |-> FALSE,
     text |-> value]

Is(subject, value) == Where(subject, "=", value)

Plain == [why |-> FALSE, ranking |-> None, comparison |-> FALSE, trend |-> FALSE,
          relative |-> None, dates |-> <<>>, filters |-> <<>>, source |-> None,
          words |-> {"revenue", "region"}]

Derive(metric, operation) == [operation |-> operation, metric |-> metric]

Top(metric) == [direction |-> "descending", metric |-> metric, limit |-> 5]

Asking == [objective |-> "aggregate", metrics |-> <<"revenue">>, dimensions |-> <<"region">>,
           entities |-> <<>>, filters |-> <<>>, ranking |-> None, derivations |-> <<>>,
           time |-> None, comparison |-> FALSE]

Filtered == [Plain EXCEPT !.relative = "last month", !.filters = <<Is("region", "north")>>]
Twice == [Plain EXCEPT !.filters = <<Is("region", "north"), Where("region", "!=", "west")>>]
Above == [Plain EXCEPT !.filters = <<Where("amount", ">=", "5")>>]
Ranked == [Plain EXCEPT !.ranking = Top(None), !.dates = <<5, 3>>, !.relative = "lately"]
Vague == [Plain EXCEPT !.relative = "lately"]
Physically == [Plain EXCEPT !.filters = <<Is("orders.amount", "1")>>]
Unknown == [Plain EXCEPT !.words = {"revenue", "profit"}]
Pages == [Plain EXCEPT !.words = {"page"}]
Seen == [Pages EXCEPT !.dates = <<3, 5>>, !.filters = <<Where("page", "<=", "home")>>]

MCReadings ==
    [t \in {Plain, Filtered, Twice, Ranked, Vague, Physically, Unknown, Above, Pages, Seen} |->
        CASE t = Plain -> {[Asking EXCEPT !.metrics = <<"total revenue">>],
                           [Asking EXCEPT !.derivations = <<Derive("orders.amount", "average")>>],
                           [Asking EXCEPT !.derivations = <<Derive("revenue", "average")>>],
                           [Asking EXCEPT !.metrics = <<"revenue", "turnover">>,
                                          !.derivations = <<Derive("turnover", "average")>>],
                           [Asking EXCEPT !.metrics = <<"turnover">>, !.dimensions = <<"day">>,
                                          !.time = "last month"]}
          [] t = Filtered -> {[Asking EXCEPT !.filters = <<Is("region", "south")>>],
                              [Asking EXCEPT !.dimensions = <<>>, !.time = "lately"]}
          [] t = Above -> {[Asking EXCEPT !.filters = <<Where("region", "not in", "south")>>],
                           [Asking EXCEPT !.filters = <<Is("amount", "turnover"),
                                                        Where("region", "gt", "south")>>]}
          [] t = Twice -> {[Asking EXCEPT !.filters = <<Is("day", "monday")>>,
                                          !.derivations = <<Derive("revenue", "average"),
                                                            Derive("revenue", "maximum")>>]}
          [] t = Ranked -> {[Asking EXCEPT !.ranking = Top("revenue"), !.metrics = <<>>],
                            [Asking EXCEPT !.ranking = Top("turnover"),
                                           !.entities = <<"customers">>]}
          [] t = Unknown -> {[Asking EXCEPT !.metrics = <<"profit", "revenue">>,
                                            !.dimensions = <<>>]}
          [] t \in {Pages, Seen} -> {[Asking EXCEPT !.objective = "lookup", !.metrics = <<>>,
                                                   !.dimensions = <<"page">>]}
          [] OTHER -> {Asking}]

Request(mode, scope, text, mismatch) ==
    [mode |-> mode, scope |-> scope, text |-> text, mismatch |-> mismatch]

MCRequests ==
    {Request("question", Shop, t, FALSE) : t \in DOMAIN MCReadings \ {Pages, Seen}}
    \cup {Request("question", None, t, FALSE) : t \in {Filtered, Pages}}
    \cup {Request("question", Web, t, FALSE) : t \in {Pages, Seen}}
    \cup {Request(mode, scope, Plain, mismatch) : mode \in {"workspace", "schema"},
                                                  scope \in {None, Shop}, mismatch \in BOOLEAN}
    \cup {Request("sql", scope, Plain, FALSE) : scope \in {None, Shop}}

MCDriver == [s \in {Shop, Web} |-> IF s = Shop THEN "sqlite" ELSE "mongodb"]

MCRanges == [t \in {"last month", "lately"} |->
                IF t = "lately" THEN None ELSE [start |-> 1, end |-> 2]]

=============================================================================
