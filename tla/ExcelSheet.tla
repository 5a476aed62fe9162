------------------------------ MODULE ExcelSheet ------------------------------
(***************************************************************************)
(* From the cells of a workbook to the tables of a database: what an       *)
(* import refuses, the type it gives a column and the values it stores.    *)
(*                                                                         *)
(* A cell is what the file says it holds and a number n for which value:   *)
(* halves for numbers, half days for moments, and for texts a name whose   *)
(* case is its last bit, 0 and 1 being blank.  `timed' says that the       *)
(* cell's number format shows a time of day.  A row is the cells at its    *)
(* references, a sheet [name, state, merged, rows], a file                 *)
(* [container, sheets] with what is wrong with its container.              *)
(***************************************************************************)
EXTENDS Integers, SequencesExt, FiniteSetsExt

CONSTANTS
    MaxSheets, MaxRows, MaxColumns, MaxCells,   \* the policy's limits, scaled down
    MaxName, MaxText                            \* the longest column name and text

Null == [is |-> "null", n |-> 0, timed |-> FALSE]

Stored(row) == {c \in DOMAIN row : row[c].is # "null"}

Width(row) == Max({0} \cup Stored(row))

Fold(n) == n \div 2

Blank(n) == Fold(n) = 0

Refused(code) == [ok |-> FALSE, code |-> code]

-----------------------------------------------------------------------------
(* Cells and columns *)

\* Errors and formulas are no values, and a number that is none has no kind.
Classifiable(cell) == cell.is \notin {"error", "formula", "nan"}

Classify(cell) ==
    CASE cell.is = "bool" -> "BOOLEAN" [] cell.is = "int" -> "INTEGER"
      [] cell.is = "float" -> "REAL" [] cell.is = "time" -> "TIME" [] cell.is = "str" -> "TEXT"
      [] cell.is = "datetime" -> IF cell.n % 2 = 0 /\ ~cell.timed THEN "DATE" ELSE "DATETIME"
      [] OTHER -> "NULL"

TypeOf(kind) == IF kind = "TIME" THEN "TEXT" ELSE kind

\* A slip of Widen: a date and a moment are both dates.
WidenToDate(left, right) ==
    CASE left = "NULL" -> right
      [] right = "NULL" \/ left = right -> left
      [] {left, right} = {"INTEGER", "REAL"} -> "REAL"
      [] {left, right} = {"DATE", "DATETIME"} -> "DATE"
      [] OTHER -> "TEXT"

Widen(left, right) ==
    CASE left = "NULL" -> right
      [] right = "NULL" \/ left = right -> left
      [] {left, right} = {"INTEGER", "REAL"} -> "REAL"
      [] {left, right} = {"DATE", "DATETIME"} -> "DATETIME"
      [] OTHER -> "TEXT"

InferType(kinds) ==
    LET type == FoldLeft(LAMBDA t, kind : Widen(t, TypeOf(kind)), "NULL", kinds)
    IN IF type = "NULL" THEN "TEXT" ELSE type

\* The one text of a value of a kind.
CanonicalText(cell) == [as |-> Classify(cell), n |-> cell.n]

\* What is written: int() cuts the fraction off, a date its time of day, a truth is 0 or 1.
Coerce(cell, type) ==
    CASE cell.is = "null" -> Null
      [] type = "BOOLEAN" -> [as |-> type, n |-> IF cell.n = 0 THEN 0 ELSE 2]
      [] type \in {"INTEGER", "DATE"} -> [as |-> type, n |-> cell.n - (cell.n % 2)]
      [] type \in {"REAL", "DATETIME"} -> [as |-> type, n |-> cell.n]
      [] OTHER -> CanonicalText(cell)

-----------------------------------------------------------------------------
(* The header: row 1, always *)

Key(cell) == IF cell.is = "str" THEN <<"TEXT", Fold(cell.n)>> ELSE <<Classify(cell), cell.n>>

BadName(cell) ==
    ~Classifiable(cell) \/ (cell.is = "str" /\ (Blank(cell.n) \/ cell.n > MaxName))

NameDefect(row, c) ==
    IF BadName(row[c]) THEN "INVALID_HEADER"
    ELSE IF \E d \in 1..(c - 1) : Key(row[d]) = Key(row[c]) THEN "DUPLICATE_HEADER"
    ELSE "none"

\* The first defect from the left, gaps before all.
ParseHeader(row) ==
    LET defects == {c \in 1..Width(row) : NameDefect(row, c) # "none"}
    IN IF Stored(row) # 1..Width(row) THEN "INVALID_HEADER"
       ELSE IF defects # {} THEN NameDefect(row, Min(defects))
       ELSE "none"

-----------------------------------------------------------------------------
(* One sheet *)

RowExtent(sheet) == Len(sheet.rows)

ColumnExtent(sheet) == Max({0} \cup {Len(sheet.rows[i]) : i \in DOMAIN sheet.rows})

DataRows(sheet) == {i \in DOMAIN sheet.rows : i > 1 /\ Stored(sheet.rows[i]) # {}}

Bad(cell) == ~Classifiable(cell) \/ (cell.is = "str" /\ cell.n > MaxText)

\* The first of the rows that has such a cell in the columns, or 0.
FirstRow(sheet, rows, columns, Is(_)) ==
    LET found == {i \in rows : \E c \in Stored(sheet.rows[i]) \cap columns : Is(sheet.rows[i][c])}
    IN IF found = {} THEN 0 ELSE Min(found)

Formula(sheet) ==
    FirstRow(sheet, DOMAIN sheet.rows, 1..ColumnExtent(sheet), LAMBDA c : c.is = "formula")

Beyond(sheet, width) == \E i \in DataRows(sheet) : Width(sheet.rows[i]) > width

ColumnPlan(sheet, c) ==
    LET cell(i) == IF c \in DOMAIN sheet.rows[i] THEN sheet.rows[i][c] ELSE Null
        data == SetToSortSeq(DataRows(sheet), <)
        kinds == SelectSeq([i \in DOMAIN data |-> Classify(cell(data[i]))],
                           LAMBDA kind : kind # "NULL")
    IN [type |-> InferType(kinds), allNull |-> kinds = <<>>,
        nullable |-> \E i \in DataRows(sheet) : cell(i) = Null]

\* Rows are read up to the first formula, and a value that has no type ends the reading at
\* once, when the header is sound; all the rest is judged after the last row.
ScanSheet(sheet) ==
    LET header == IF sheet.rows = <<>> THEN "none" ELSE ParseHeader(sheet.rows[1])
        width == IF sheet.rows = <<>> \/ header # "none" THEN 0 ELSE Width(sheet.rows[1])
        formula == Formula(sheet)
        bad == FirstRow(sheet, DataRows(sheet), 1..width, Bad)
        content == \E i \in DOMAIN sheet.rows : Stored(sheet.rows[i]) # {}
    IN CASE RowExtent(sheet) > MaxRows -> Refused("ROW_LIMIT_EXCEEDED")
         [] RowExtent(sheet) <= MaxRows /\ ColumnExtent(sheet) > MaxColumns ->
                Refused("COLUMN_LIMIT_EXCEEDED")
         [] OTHER ->
            IF bad # 0 /\ (formula = 0 \/ bad < formula) THEN Refused("INVALID_CELL_VALUE")
            ELSE IF formula # 0 THEN Refused("FORMULA_UNSUPPORTED")
            ELSE IF ~content THEN [ok |-> TRUE, skipped |-> TRUE]
            ELSE IF sheet.merged THEN Refused("MERGED_CELL_UNSUPPORTED")
            ELSE IF header # "none" THEN Refused(header)
            ELSE IF Beyond(sheet, width) THEN Refused("INVALID_HEADER")
            ELSE [ok |-> TRUE, skipped |-> FALSE, sheet |-> sheet,
                  columns |-> [c \in 1..width |-> ColumnPlan(sheet, c)],
                  count |-> Cardinality(DataRows(sheet)),
                  cells |-> MapThenSumSet(LAMBDA i : Cardinality(Stored(sheet.rows[i])),
                                          DataRows(sheet))]

-----------------------------------------------------------------------------
(* The workbook *)

\* What is looked at before anything is kept, in this order.
ContainerChecks ==
    <<"INVALID_EXTENSION", "FILE_TOO_LARGE", "UNREADABLE_ARCHIVE", "ZIP_LIMIT_EXCEEDED",
      "MISSING_PART", "MACROS", "NO_SPREADSHEET">>

ReadContainer(file) ==
    IF file.container = {} THEN [ok |-> TRUE]
    ELSE Refused(ContainerChecks[Min({i \in DOMAIN ContainerChecks :
                                          ContainerChecks[i] \in file.container})])

Visible(file) == {i \in DOMAIN file.sheets : file.sheets[i].state = "visible"}

Tables(taken) == {Fold(taken.plans[i].sheet.name) : i \in DOMAIN taken.plans}

\* The name of a sheet's table is looked at when the rest of the sheet is sound.
TakePlan(taken, sheet, plan) ==
    IF ~taken.ok \/ sheet.state # "visible" THEN taken
    ELSE IF ~plan.ok THEN plan
    ELSE IF plan.skipped THEN taken
    ELSE IF Blank(sheet.name) THEN Refused("INVALID_TABLE_NAME")
    ELSE IF Fold(sheet.name) \in Tables(taken) THEN Refused("DUPLICATE_TABLE_NAME")
    ELSE IF taken.cells + plan.cells > MaxCells THEN Refused("CELL_LIMIT_EXCEEDED")
    ELSE [ok |-> TRUE, plans |-> Append(taken.plans, plan), cells |-> taken.cells + plan.cells]

Conclude(file, taken) ==
    IF Cardinality(Visible(file)) > MaxSheets THEN Refused("SHEET_LIMIT_EXCEEDED")
    ELSE IF taken.ok /\ taken.plans = <<>> THEN Refused("NO_IMPORTABLE_SHEET")
    ELSE taken

ValidateWorkbook(file) ==
    Conclude(file, FoldLeft(LAMBDA taken, sheet : TakePlan(taken, sheet, ScanSheet(sheet)),
                            [ok |-> TRUE, plans |-> <<>>, cells |-> 0], file.sheets))

-----------------------------------------------------------------------------
(* The database: the sheets are read again, with the columns decided *)

TableRows(plan) ==
    LET cell(i, c) == IF c \in DOMAIN plan.sheet.rows[i] THEN plan.sheet.rows[i][c] ELSE Null
        row(i) == [c \in DOMAIN plan.columns |-> Coerce(cell(i, c), plan.columns[c].type)]
        all == [i \in 1..(RowExtent(plan.sheet) - 1) |-> row(i + 1)]
    IN SelectSeq(all, LAMBDA r : \E c \in DOMAIN r : r[c] # Null)

\* Rows are counted as they are inserted; a table with another count than was validated
\* rolls all tables back.
Materialize(plans) ==
    LET written == [i \in DOMAIN plans |-> TableRows(plans[i])]
    IN IF \E i \in DOMAIN plans : Len(written[i]) # plans[i].count
       THEN Refused("MATERIALIZATION_FAILED")
       ELSE [ok |-> TRUE, tables |-> written]

=============================================================================
