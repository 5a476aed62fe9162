---------------------------- MODULE FederatedMerge ----------------------------
(***************************************************************************)
(* ControlledMerger: what becomes of the completed answers of a federated  *)
(* plan.                                                                   *)
(*                                                                         *)
(* A cell is a typed value, a row a function from columns to cells, an     *)
(* answer a sequence of rows with its columns.  A merge is a sequence of   *)
(* rows or an error.  Decimal arithmetic is that of integers, and a        *)
(* quotient stays the pair of its terms; a size in bytes is the number of  *)
(* rows.  A cell of a time axis has, besides its type and day, the form in *)
(* which it is written.                                                    *)
(***************************************************************************)
EXTENDS Integers, SequencesExt

Null == [type |-> "null", value |-> 0]
Cell(type, value) == [type |-> type, value |-> value]

Failure(code) == [ok |-> FALSE, code |-> code, rows |-> <<>>]
Merged(rows) == [ok |-> TRUE, code |-> "", rows |-> rows]

Distinct(seq) == \A i, j \in DOMAIN seq : seq[i] = seq[j] => i = j

-----------------------------------------------------------------------------
(* Scalars *)

\* _number(): booleans are no numbers.
Number(cell) == cell.type \in {"int", "float"}

\* One row with one column per source, and the operation's result beside the
\* inputs.  A quotient is <<numerator, denominator>>.
Calculated(operation, v) ==
    CASE operation = "sum" -> <<FoldLeft(+, 0, v), 1>>
      [] operation = "difference" -> <<v[1] - FoldLeft(+, 0, Tail(v)), 1>>
      [] operation = "ratio" -> <<v[1], v[2]>>
      [] operation \in {"percentage_change", "percentage_difference"} ->
            <<(v[1] - v[2]) * 100, v[2]>>

Quotient == {"ratio", "percentage_change", "percentage_difference"}

Scalars(answers, operation) ==
    LET v == [i \in DOMAIN answers |->
                LET row == answers[i].rows[1] IN row[CHOOSE c \in DOMAIN row : TRUE].value]
    IN IF \E i \in DOMAIN answers :
            \/ Len(answers[i].rows) # 1
            \/ Len(answers[i].columns) # 1
            \/ ~Number(answers[i].rows[1][answers[i].columns[1]])
       THEN Failure("merge_input_invalid")
       ELSE IF operation \in Quotient /\ Len(v) # 2 THEN Failure("merge_input_invalid")
       ELSE IF operation \in Quotient /\ v[2] = 0 THEN Failure("division_by_zero")
       ELSE Merged(<<[inputs |-> v, result |-> IF operation = "none" THEN <<>>
                                               ELSE Calculated(operation, v)]>>)

-----------------------------------------------------------------------------
(* Rows of the same columns *)

\* Numbers of different types may share a column.
Compatible(types) == types \subseteq {"int", "float"} \/ \A a, b \in types : a = b

Union(answers) ==
    LET columns == ToSet(answers[1].columns)
        rows == FlattenSeq([i \in DOMAIN answers |-> answers[i].rows])
        TypesOf(c) == {rows[i][c].type : i \in DOMAIN rows} \ {"null"}
    IN IF \A i \in DOMAIN answers : ToSet(answers[i].columns) = columns
          /\ \A c \in columns : Compatible(TypesOf(c))
       THEN Merged(rows)
       ELSE Failure("merge_schema_mismatch")

-----------------------------------------------------------------------------
(* Time series *)

\* How a time is written: a month, a day, a day with a time behind a blank or behind a T.  A
\* month is the first of its days.  In this order texts of the same day sort; other texts
\* are none.
Forms == <<"month", "day", "spaced", "moment">>

TimeCell(type, form, day) == [type |-> type, value |-> day, form |-> form]

\* What isoformat() makes of a date and of a datetime; a text is what it is.
IsTime(cell) ==
    \/ cell.type \in {"date", "datetime"}
    \/ cell.type = "text" /\ cell.form \in ToSet(Forms)

FormOf(cell) ==
    CASE cell.type = "date" -> "day" [] cell.type = "datetime" -> "moment" [] OTHER -> cell.form

\* The key of a row is its text: <<day, place of the form>>, sorted as texts are.
TimeKey(cell) == <<cell.value, CHOOSE k \in DOMAIN Forms : Forms[k] = FormOf(cell)>>

Earlier(a, b) == a[1] < b[1] \/ (a[1] = b[1] /\ a[2] < b[2])

AxisKey(answer, i) == TimeKey(answer.rows[i][answer.axis])

\* The values of one source by its time axis, which the plan has to name; an answer with no
\* rows is an empty series.
Series(answer) ==
    LET metric == CHOOSE c \in ToSet(answer.columns) : c # answer.axis
        At(key) == CHOOSE i \in DOMAIN answer.rows : AxisKey(answer, i) = key
    IN [key \in {AxisKey(answer, i) : i \in DOMAIN answer.rows} |-> answer.rows[At(key)][metric]]

RowError(answer, i) ==
    IF ~IsTime(answer.rows[i][answer.axis]) THEN "merge_input_invalid"
    ELSE IF \E j \in 1..(i - 1) : IsTime(answer.rows[j][answer.axis]) /\ AxisKey(answer, j) = AxisKey(answer, i)
    THEN "merge_time_axis_duplicate" ELSE ""

First(errors) ==
    LET found == SelectSeq(errors, LAMBDA e : e # "") IN IF found = <<>> THEN "" ELSE found[1]

SeriesError(answer) ==
    IF answer.axis = "" THEN "merge_time_axis_unconfirmed"
    ELSE IF answer.rows = <<>> THEN ""
    ELSE IF Len(answer.columns) # 2 THEN "merge_input_invalid"
    ELSE First([i \in DOMAIN answer.rows |-> RowError(answer, i)])

\* One row for every key of any source, in order, Null where a source has none.
TimeSeries(answers) ==
    LET series == [i \in DOMAIN answers |-> Series(answers[i])]
        keys == SetToSortSeq(UNION {DOMAIN series[i] : i \in DOMAIN series}, Earlier)
    IN Merged([n \in DOMAIN keys |-> [key |-> keys[n], values |-> [i \in DOMAIN answers |->
            IF keys[n] \in DOMAIN series[i] THEN series[i][keys[n]] ELSE Null]]])

Align(answers) ==
    LET error == First([i \in DOMAIN answers |-> SeriesError(answers[i])])
    IN IF error # "" THEN Failure(error) ELSE TimeSeries(answers)

-----------------------------------------------------------------------------
(* Joins on a confirmed mapping *)

Keyed(rows, key) == SelectSeq(rows, LAMBDA row : row[key] # Null)

\* The sides of a mapping on which a key may occur only once.
LeftUnique(cardinality) == cardinality \in {"ONE_TO_ONE", "ONE_TO_MANY"}
RightUnique(cardinality) == cardinality \in {"ONE_TO_ONE", "MANY_TO_ONE"}

Unique(rows, key) == Distinct([i \in DOMAIN rows |-> rows[i][key]])

\* What one row of the left becomes, the index of the right looked up by type and
\* value: a pair per match, itself with Null where there is none, or nothing.
JoinRow(row, matches, mode) ==
    CASE mode = "anti" -> IF matches = <<>> THEN <<<<row, Null>>>> ELSE <<>>
      [] mode = "left" /\ matches = <<>> -> <<<<row, Null>>>>
      [] OTHER -> [m \in DOMAIN matches |-> <<row, matches[m]>>]

Matches(right, key, cell) == SelectSeq(right, LAMBDA row : row[key] = cell)

\* What has no hash is no key.
Unhashable(rows, key) == \E i \in DOMAIN rows : rows[i][key].type = "list"

\* The sides of a mapping are two sources, and the answers have to be theirs, from a grounded
\* plan that selects the mapped fields.
Join(left, right, mapping, mode) ==
    LET l == Keyed(left.rows, mapping.left)
        r == Keyed(right.rows, mapping.right)
    IN IF ~left.grounded \/ ~right.grounded THEN Failure("join_projection_unconfirmed")
       ELSE IF <<left.source, right.source>> # mapping.sources
       THEN Failure("join_mapping_source_mismatch")
       ELSE IF ~left.projected \/ ~right.projected THEN Failure("join_projection_unconfirmed")
       ELSE IF mapping.nulls = "REJECT" /\ (l # left.rows \/ r # right.rows)
       THEN Failure("join_null_key")
       ELSE IF Unhashable(l, mapping.left) \/ Unhashable(r, mapping.right)
       THEN Failure("merge_input_invalid")
       ELSE IF \/ LeftUnique(mapping.cardinality) /\ ~Unique(l, mapping.left)
               \/ RightUnique(mapping.cardinality) /\ ~Unique(r, mapping.right)
       THEN Failure("join_cardinality_violation")
       ELSE Merged(FlattenSeq([i \in DOMAIN l |->
                JoinRow(l[i], Matches(r, mapping.right, l[i][mapping.left]), mode)]))

-----------------------------------------------------------------------------
(* merge() *)

Rows(answers) == FoldLeft(LAMBDA n, a : n + Len(a.rows), 0, answers)

\* The inputs' limits come first, the result's last.  A join may be larger than
\* what it joins.
Merge(plan, answers, scope) ==
    LET result ==
            CASE plan.operation \in {"compare_scalars", "combine_scalars"} ->
                    Scalars(answers, plan.scalar)
              [] plan.operation = "union_rows" -> Union(answers)
              [] plan.operation = "align_time_series" -> Align(answers)
              [] plan.operation = "keyed_join" ->
                    Join(answers[1], answers[2], plan.mapping, plan.mode)
    IN IF \/ Rows(answers) > scope.total
          \/ \E i \in DOMAIN answers : Len(answers[i].rows) > scope.source
       THEN Failure("result_limit")
       ELSE IF result.ok /\ Len(result.rows) > scope.total THEN Failure("result_limit")
       ELSE result

=============================================================================
