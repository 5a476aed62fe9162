-------------------------------- MODULE Charts --------------------------------
(***************************************************************************)
(* The charts a page makes of an answer (web/frontend/src, ask/askView,    *)
(* visualization): which kinds its table allows, the one that is chosen,   *)
(* what is drawn, and the check of it before it is drawn.                  *)
(*                                                                         *)
(* A value is null, a number, an infinite one, a text or something else;   *)
(* column names are model values.                                          *)
(***************************************************************************)
EXTENDS Integers, SequencesExt, FiniteSetsExt

CONSTANTS
    None,
    MostRows, MostSlices, MostSeries    \* 50, 8 and 3 in the code

Number(value) == value.is = "number"
Null(value) == value.is = "null"
CategoryValue(value) == value.is # "object"

Where(columns, Test(_)) == SelectSeq(columns, Test)
Except(columns, field) == SelectSeq(columns, LAMBDA c : c # field)
Distinct(columns) ==
    FoldLeft(LAMBDA seen, c : IF c \in ToSet(seen) THEN seen ELSE Append(seen, c), <<>>, columns)
Leading(columns) == SubSeq(columns, 1, Min({MostSeries, Len(columns)}))

\* tableView(), evidenceView(): the table, its plan and what is known of it.
ViewOf(response) ==
    [status |-> response.status, columns |-> response.columns, rows |-> response.rows,
     count |-> response.count,
     groupBy |-> response.groupBy, aliases |-> response.aliases, time |-> response.time,
     truncated |-> response.truncated \/ response.evidenceTruncated]

\* A slip of NumericColumn: one number is enough.
NumericSomewhere(view, field) == \E r \in DOMAIN view.rows : Number(view.rows[r][field])

NumericColumn(view, field) ==
    LET values == {view.rows[r][field] : r \in DOMAIN view.rows}
    IN (\E v \in values : ~Null(v)) /\ (\A v \in values : Number(v) \/ Null(v))

CategoryColumn(view, field) == \A r \in DOMAIN view.rows : CategoryValue(view.rows[r][field])

\* The columns that can be drawn as numbers and those that can stand below them.
NumericColumns(view) == Where(view.columns, LAMBDA c : NumericColumn(view, c))
OtherColumns(view, numeric) ==
    Where(view.columns, LAMBDA c : c \notin ToSet(numeric) /\ CategoryColumn(view, c))

\* The dimension that was grouped by, else the first column that is not a number.
CategoryOf(view, other) ==
    IF view.groupBy \in ToSet(other) THEN view.groupBy
    ELSE IF other = <<>> THEN None ELSE other[1]

\* The measures first, in their order.
Measured(view, numeric) == Where(Distinct(view.aliases \o view.columns), LAMBDA c : c \in ToSet(numeric))

Choice(view, numeric, measured, category) ==
    [category |-> category, series |-> Leading(Except(measured, category)),
     lines |-> Leading(Except(measured, view.time)), slices |-> Except(numeric, category)]

Drawable(view) == view.columns # <<>> /\ view.count # 0 /\ Len(view.rows) \in 2..MostRows

BarFits(view, choice) == Drawable(view) /\ choice.category # None /\ choice.series # <<>>

LineFits(view, choice) ==
    /\ Drawable(view) /\ view.time \in ToSet(view.columns)
    /\ CategoryColumn(view, view.time) /\ choice.lines # <<>>

Sliced(values) == (\A v \in values : Number(v) /\ v.n >= 0) /\ (\E v \in values : v.n > 0)

PieFits(view, choice) ==
    /\ BarFits(view, choice) /\ Len(view.rows) <= MostSlices /\ Len(choice.slices) = 1
    /\ Sliced({view.rows[r][choice.slices[1]] : r \in DOMAIN view.rows})

\* analyzeTable()
Chosen(view, numeric) ==
    Choice(view, numeric, Measured(view, numeric), CategoryOf(view, OtherColumns(view, numeric)))

AnalyzeTable(view) == Chosen(view, NumericColumns(view))

\* eligibleChartKinds()
Eligible(view, choice) ==
    {"table"} \cup {kind \in {"bar", "line", "pie"} :
        /\ view.status = "completed"
        /\ CASE kind = "bar" -> BarFits(view, choice)
             [] kind = "line" -> LineFits(view, choice)
             [] OTHER -> PieFits(view, choice)}

EligibleKinds(view) == Eligible(view, AnalyzeTable(view))

\* automaticChartKind()
AutomaticKind(eligible) ==
    IF "line" \in eligible THEN "line" ELSE IF "bar" \in eligible THEN "bar" ELSE "table"

\* isChartSpec()
ValuesOf(spec) == {spec.points[p].values[s] : p \in DOMAIN spec.points, s \in DOMAIN spec.series}

IsChartSpec(spec) ==
    /\ spec.category # None
    /\ Len(spec.series) \in 1..MostSeries /\ IsInjective(spec.series)
    /\ Len(spec.points) \in 2..MostRows
    /\ \A v \in ValuesOf(spec) : Number(v) \/ Null(v)
    /\ spec.kind = "pie" =>
         Len(spec.series) = 1 /\ Len(spec.points) <= MostSlices /\ Sliced(ValuesOf(spec))

NoChart == [kind |-> None]

\* A point per row, in their order.
SpecOf(view, kind, category, series) ==
    [kind |-> kind, category |-> category, series |-> series,
     points |-> [r \in DOMAIN view.rows |->
        [category |-> view.rows[r][category],
         values |-> [s \in DOMAIN series |-> view.rows[r][series[s]]]]],
     truncated |-> view.truncated]

Checked(spec) == IF IsChartSpec(spec) THEN spec ELSE NoChart

\* buildChartSpec()
ChartSpec(view, kind, choice) ==
    IF kind \notin Eligible(view, choice) \ {"table"} THEN NoChart
    ELSE Checked(SpecOf(view, kind, IF kind = "line" THEN view.time ELSE choice.category,
                        CASE kind = "line" -> choice.lines
                          [] kind = "pie" -> choice.slices
                          [] OTHER -> choice.series))

\* VisualizationPanel(): the kind that is selected, and the table where it cannot be drawn.
Shown(view, selected) ==
    IF view.status # "completed" THEN NoChart
    ELSE ChartSpec(view, IF selected = "auto" THEN AutomaticKind(EligibleKinds(view)) ELSE selected,
                   AnalyzeTable(view))

\* lineSegments(): a missing value ends a segment; the places of the points of each.
LineSegments(spec, s) ==
    LET missing(p) == Null(spec.points[p].values[s])
        Add(segments, p) ==
            IF missing(p) THEN segments
            ELSE IF p > 1 /\ ~missing(p - 1)
                 THEN Front(segments) \o <<Append(Last(segments), p)>>
                 ELSE Append(segments, <<p>>)
    IN FoldLeft(Add, <<>>, [p \in DOMAIN spec.points |-> p])

===============================================================================
