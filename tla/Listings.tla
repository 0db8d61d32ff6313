------------------------------- MODULE Listings -------------------------------
(***************************************************************************)
(* One page of a listing, as each backend cuts it.  A row carries its sort *)
(* key and its id.  Tasks are listed newest status first, push configs by  *)
(* rising id; a cursor is the (key, id) of the last row of the page before *)
(* and the next page is the rows past it.  The memory and DynamoDB stores  *)
(* sort what they have read and slice it, the SQL stores select the rows   *)
(* past the cursor and fetch one row more than the page holds.             *)
(***************************************************************************)
EXTENDS Naturals, Sequences, FiniteSets, SequencesExt, FiniteSetsExt

CONSTANT None

\* The order of (sort key, task id) pairs.
Below(a, b) == a.key < b.key \/ (a.key = b.key /\ a.id < b.id)

\* Whether row b comes after row a in the listing.
Follows(kind, a, b) == IF kind = "tasks" THEN Below(b, a) ELSE a.id < b.id

\* The rows in the order of the listing: i - 1 of them come before row i.
Sorted(kind, rows) ==
    [i \in 1 .. Cardinality(rows) |->
        CHOOSE row \in rows :
            Cardinality({before \in rows : Follows(kind, before, row)}) = i - 1]

\* (mutant) the cursor compares sort keys and forgets the tie-break.
PastCursorKey(kind, cursor, row) ==
    IF cursor = None THEN TRUE
    ELSE IF kind = "tasks" THEN row.key < cursor.key ELSE cursor.id < row.id
PastCursor(kind, cursor, row) ==
    IF cursor = None THEN TRUE ELSE Follows(kind, cursor, row)

Page(rows, more) ==
    [rows |-> rows, next |-> IF more THEN Last(rows) ELSE None]

\* Memory and DynamoDB: from the first row past the cursor, size rows.
SlicedPage(kind, rows, cursor, size) ==
    LET sorted == Sorted(kind, rows)
        first  == SelectInSeq(sorted, LAMBDA row : PastCursor(kind, cursor, row))
        start  == IF first = 0 THEN Len(sorted) + 1 ELSE first
        end    == Min({start + size - 1, Len(sorted)})
    IN  Page(SubSeq(sorted, start, end), end < Len(sorted))

\* WHERE ... past the cursor ORDER BY ... LIMIT page_size + 1
Fetched(kind, rows, cursor, size) ==
    LET past == Sorted(kind, {row \in rows : PastCursor(kind, cursor, row)})
    IN  SubSeq(past, 1, Min({size + 1, Len(past)}))

\* SQLite and PostgreSQL: the row past the page is dropped again.
SelectedPage(kind, rows, cursor, size) ==
    LET fetched == Fetched(kind, rows, cursor, size)
    IN  Page(SubSeq(fetched, 1, Min({size, Len(fetched)})), Len(fetched) > size)

PageOf(backend, kind, rows, cursor, size) ==
    IF backend \in {"sqlite", "postgres"}
    THEN SelectedPage(kind, rows, cursor, size)
    ELSE SlicedPage(kind, rows, cursor, size)
=============================================================================
