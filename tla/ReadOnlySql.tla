------------------------------ MODULE ReadOnlySql ------------------------------
(***************************************************************************)
(* The look at a statement before it is executed (querying/validation,     *)
(* read_only.py).  A statement is a sequence of marks and words: quotes,   *)
(* what opens or closes a comment, the end of a line, a semicolon, "read"  *)
(* for SELECT or WITH, "listed" for a word of the list of those that may   *)
(* not occur, INSERT or DROP, and "unlisted" for one that writes and is    *)
(* not in it: INTO, MERGE, TRUNCATE.  Words are apart from each other.     *)
(***************************************************************************)
EXTENDS Integers, SequencesExt, FiniteSetsExt

Quotes == {"single", "double"}
Marks == Quotes \cup {"[", "]", "--", "/*", "*/", "newline", ";"}
Words == {"read", "listed", "unlisted"}

\* Where a region that starts at i is over, the first place behind it.  A quote that is
\* doubled does not end a quotation, comments nest, and what is not closed goes to the end.
QuoteEnd(sql, i) ==
    LET end[k \in 1..(Len(sql) + 2)] ==
            IF k > Len(sql) THEN Len(sql) + 1
            ELSE IF sql[k] # sql[i] THEN end[k + 1]
            ELSE IF k < Len(sql) /\ sql[k + 1] = sql[i] THEN end[k + 2]
            ELSE k + 1
    IN end[i + 1]

\* A slip of CommentEnd: the first end of a comment ends it.
FlatCommentEnd(sql, i) ==
    IF \E k \in i..Len(sql) : sql[k] = "*/"
    THEN Min({k \in i..Len(sql) : sql[k] = "*/"}) + 1
    ELSE Len(sql) + 1

CommentEnd(sql, i) ==
    LET Deeper(k) == CASE sql[k] = "/*" -> 1 [] sql[k] = "*/" -> -1 [] OTHER -> 0
        depth[k \in i..Len(sql)] == Deeper(k) + IF k = i THEN 0 ELSE depth[k - 1]
        closed == {k \in i..Len(sql) : depth[k] = 0}
    IN IF closed = {} THEN Len(sql) + 1 ELSE Min(closed) + 1

\* The next mark of a kind, or the end.
Behind(sql, i, mark) ==
    IF \E k \in i..Len(sql) : sql[k] = mark
    THEN Min({k \in i..Len(sql) : sql[k] = mark}) + 1
    ELSE Len(sql) + 1

RegionEnd(sql, i) ==
    CASE sql[i] \in Quotes -> QuoteEnd(sql, i)
      [] sql[i] = "/*" -> CommentEnd(sql, i)
      [] sql[i] = "--" -> Behind(sql, i, "newline")
      [] sql[i] = "[" -> Behind(sql, i, "]")
      [] OTHER -> i

\* _strip_for_safety(): spaces for what is quoted or comment, lines stay.
StripForSafety(sql) ==
    LET hidden[i \in 1..(Len(sql) + 1)] ==
            IF i > Len(sql) THEN {}
            ELSE IF RegionEnd(sql, i) = i THEN hidden[i + 1]
            ELSE (i..(RegionEnd(sql, i) - 1)) \cup hidden[RegionEnd(sql, i)]
    IN [i \in DOMAIN sql |->
            IF i \in hidden[1] /\ sql[i] # "newline" THEN "space" ELSE sql[i]]

Blank == {"space", "newline"}

StripEnd(sql) ==
    LET kept == {i \in DOMAIN sql : sql[i] \notin Blank}
    IN IF kept = {} THEN <<>> ELSE SubSeq(sql, 1, Max(kept))

Strip(sql) == Reverse(StripEnd(Reverse(StripEnd(sql))))

\* _strip_trailing_semicolon(): one, of the text as it was written.
StripTrailingSemicolon(sql) ==
    LET head == StripEnd(sql)
    IN IF head # <<>> /\ Last(head) = ";" THEN StripEnd(Front(head)) ELSE head

\* One statement: a semicolon at most, and that behind everything else.
OneStatement(stripped) ==
    LET count == Cardinality({i \in DOMAIN stripped : stripped[i] = ";"})
    IN count = 0 \/ (count = 1 /\ Last(StripEnd(stripped)) = ";")

\* validate_read_only_query()
ValidateReadOnlyQuery(sql) ==
    LET stripped == StripForSafety(StripTrailingSemicolon(Strip(sql)))
    IN /\ OneStatement(StripForSafety(sql))
       /\ stripped # <<>> /\ stripped[1] = "read"
       /\ "listed" \notin ToSet(stripped)

=============================================================================
