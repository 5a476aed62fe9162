-------------------------------- MODULE AskTime --------------------------------
(***************************************************************************)
(* The calendar of a question: counts written in digits or in Chinese      *)
(* numerals, and the range of days a time expression stands for            *)
(* (normalize_time_range).                                                 *)
(*                                                                         *)
(* A date is [y, m, d]; its day number counts days from a fixed origin.    *)
(* A numeral is a sequence over 1..9, Ten and Hundred.                     *)
(***************************************************************************)
EXTENDS Integers, SequencesExt

Ten == 10
Hundred == 100
Unreadable == [ok |-> FALSE]

-----------------------------------------------------------------------------
(* Numerals *)

Digit(s, absent) == IF Len(s) = 1 /\ s[1] \in 1..9 THEN s[1] ELSE absent

First(s, sign) == CHOOSE i \in DOMAIN s : s[i] = sign /\ \A j \in 1..(i - 1) : s[j] # sign

Before(s, i) == SubSeq(s, 1, i - 1)
After(s, i) == SubSeq(s, i + 1, Len(s))

\* _count(), which is _parse_count() too: what stands before a hundred or a ten is one
\* digit, and 1 if it is anything else; 0 stands for the KeyError of a numeral that
\* is neither a digit nor has one of the two.
RECURSIVE Count(_)
Count(s) ==
    IF s = <<Ten>> THEN 10
    ELSE IF s = <<Hundred>> THEN 100
    ELSE IF Hundred \in ToSet(s)
    THEN LET i == First(s, Hundred)
             rest == After(s, i)
         IN Digit(Before(s, i), 1) * 100 + (IF rest = <<>> THEN 0 ELSE Count(rest))
    ELSE IF Ten \in ToSet(s)
    THEN LET i == First(s, Ten) IN Digit(Before(s, i), 1) * 10 + Digit(After(s, i), 0)
    ELSE Digit(s, 0)

\* The numerals of the numbers below a thousand, as they are written.
Below100(n) ==
    IF n < 10 THEN <<n>>
    ELSE (IF n < 20 THEN <<>> ELSE <<n \div 10>>) \o <<Ten>>
         \o (IF n % 10 = 0 THEN <<>> ELSE <<n % 10>>)

Written(n) ==
    IF n < 100 THEN Below100(n)
    ELSE <<n \div 100, Hundred>>
         \o (IF n % 100 = 0 THEN <<>>
             ELSE IF n % 100 \in 10..19 THEN <<1>> \o Below100(n % 100)
             ELSE Below100(n % 100))

-----------------------------------------------------------------------------
(* Dates *)

Date(y, m, d) == [y |-> y, m |-> m, d |-> d]

Leap(y) == y % 4 = 0 /\ (y % 100 # 0 \/ y % 400 = 0)

MonthLength(y, m) ==
    CASE m \in {4, 6, 9, 11} -> 30
      [] m = 2 -> IF Leap(y) THEN 29 ELSE 28
      [] OTHER -> 31

MonthStart(y, m) == FoldLeft(+, 0, [i \in 1..(m - 1) |-> MonthLength(y, i)])

\* Day 1 is the first of January of the year 1, a Monday.
Number(date) ==
    LET y == date.y - 1
    IN y * 365 + y \div 4 - y \div 100 + y \div 400 + MonthStart(date.y, date.m) + date.d

\* The date of a day number, looked for around a date it is near to.
DateOf(n, near) ==
    LET years == (near.y - 2)..(near.y + 1)
        y == CHOOSE k \in years : Number(Date(k, 1, 1)) <= n /\ n < Number(Date(k + 1, 1, 1))
        m == CHOOSE k \in 1..12 : /\ Number(Date(y, k, 1)) <= n
                                  /\ n < Number(Date(y, k, 1)) + MonthLength(y, k)
    IN Date(y, m, n - Number(Date(y, m, 1)) + 1)

Weekday(date) == (Number(date) - 1) % 7

\* _shift_month(), _shift_year(): the day is the last of a shorter month.
ShiftMonth(date, offset) ==
    LET absolute == date.y * 12 + date.m - 1 + offset
        y == absolute \div 12
        m == (absolute % 12) + 1
    IN Date(y, m, IF date.d > MonthLength(y, m) THEN MonthLength(y, m) ELSE date.d)

ShiftYear(date, offset) == ShiftMonth(date, 12 * offset)

-----------------------------------------------------------------------------
(* normalize_time_range() *)

\* _parse_date(): a month without a day is its first day.
ParseDate(y, m, day) == Date(y, m, IF day = 0 THEN 1 ELSE day)

Days(start, end) == [ok |-> TRUE, start |-> start, end |-> end]

\* A range from the first and the last date of the text, in either order.
Explicit(dates) ==
    LET first == dates[1]
        last == dates[Len(dates)]
    IN IF Number(first) <= Number(last) THEN Days(first, last) ELSE Days(last, first)

Normalize(expression, n, today) ==
    LET monday == Number(today) - Weekday(today)
        previous == ShiftMonth(today, -1)
    IN CASE expression = "this year" -> Days(Date(today.y, 1, 1), today)
         [] expression = "last year" -> Days(Date(today.y - 1, 1, 1), Date(today.y - 1, 12, 31))
         [] expression = "this month" -> Days(Date(today.y, today.m, 1), today)
         [] expression = "last month" ->
                Days(Date(previous.y, previous.m, 1),
                      Date(previous.y, previous.m, MonthLength(previous.y, previous.m)))
         [] expression = "this week" -> Days(DateOf(monday, today), today)
         [] expression = "last week" ->
                Days(DateOf(monday - 7, today), DateOf(monday - 1, today))
         [] expression = "recent days" -> Days(DateOf(Number(today) - (n - 1), today), today)
         [] expression = "recent months" -> Days(ShiftMonth(today, -n), today)
         [] expression = "recent years" -> Days(ShiftYear(today, -n), today)
         [] OTHER -> Unreadable

=============================================================================
