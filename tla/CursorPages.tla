----------------------------- MODULE CursorPages -----------------------------
(***************************************************************************)
(* Cursor pagination: a client walks through the pages of a table that is    *)
(* written to in the meantime. A page is the first rows, newest first, after *)
(* the row that the cursor names. Refund attempts take the filter of         *)
(* common/pagination/cursor.util.ts; listings, bids and API keys are         *)
(* filtered by supabase.service.ts and api-keys.repository.ts themselves.    *)
(***************************************************************************)
EXTENDS Integers, FiniteSets, FiniteSetsExt

CONSTANTS Ids,       \* ids of rows; a UUID says nothing of the time
          Dates,     \* values of created_at
          PageSize,  \* rows of a page
          NoCursor,  \* the first page is asked for without a cursor
          LastPage   \* next_cursor of the last page

ASSUME PagesAssumption ==
    /\ Ids \subseteq Nat /\ Dates \subseteq Nat
    /\ IsFiniteSet(Ids) /\ IsFiniteSet(Dates)
    /\ PageSize \in Nat \ {0}
    /\ NoCursor # LastPage /\ {NoCursor, LastPage} \cap (Dates \X Ids) = {}

VARIABLES endpoint,   \* which list is walked
          shownRows,  \* the rows that the list shows now, as pairs of created_at and id
          nextCursor, \* next_cursor of the last page, or LastPage
          seen,       \* rows the client was given, with how many times
          walkOf      \* rows that have been on show since the walk began

pageVars == <<endpoint, shownRows, nextCursor, seen, walkOf>>

Row == Dates \X Ids

PagesTypeOK ==
    /\ endpoint \in {"refunds", "marketplace"}
    /\ shownRows \subseteq Row
    /\ nextCursor \in Row \cup {NoCursor, LastPage}
    /\ seen \in [Row -> Nat]
    /\ walkOf \subseteq shownRows

(* No two rows have the same id. *)
Table(set) == \A x, y \in set : x[2] = y[2] => x = y

PagesInit ==
    /\ endpoint \in {"refunds", "marketplace"}
    /\ shownRows \in {set \in SUBSET Row : Table(set)}
    /\ nextCursor = NoCursor
    /\ seen = [x \in Row |-> 0]
    /\ walkOf = shownRows

-----------------------------------------------------------------------------
(* ORDER BY created_at DESC, id DESC. *)
Before(x, y) == x[1] > y[1] \/ (x[1] = y[1] /\ x[2] > y[2])

(* Mutant: rows of the same date as the last one are taken to be read. *)
OlderDates(c) == {x \in shownRows : x[1] < c[1]}

(* .or(lt, and(eq, id.lt)): what comes after the cursor in that order. *)
ApplyCursorFilter(c) == {x \in shownRows : x[1] < c[1] \/ (x[1] = c[1] /\ x[2] < c[2])}

(* .lt(created_at).or(eq, id.lt): two filters, of which both must hold. *)
FilterOfListings(c) == {x \in shownRows : x[1] < c[1] /\ (x[1] = c[1] \/ x[2] < c[2])}

RowsAfter(c) ==
    CASE c = NoCursor -> shownRows
      [] c # NoCursor /\ endpoint = "refunds" -> ApplyCursorFilter(c)
      [] OTHER -> FilterOfListings(c)

(* limit + 1 rows are fetched; the extra one says that there is a next page.  *)
FirstOf(set, n) == {x \in set : Cardinality({y \in set : Before(y, x)}) < n}

LastOf(set) == CHOOSE x \in set : \A y \in set \ {x} : Before(y, x)

NextPage ==
    /\ nextCursor # LastPage
    /\ LET fetched == FirstOf(RowsAfter(nextCursor), PageSize + 1)
           page    == FirstOf(fetched, PageSize)
       IN  /\ nextCursor' = IF Cardinality(fetched) > PageSize THEN LastOf(page) ELSE LastPage
           /\ seen' = [x \in Row |-> IF x \in page THEN seen[x] + 1 ELSE seen[x]]
    /\ UNCHANGED <<endpoint, shownRows, walkOf>>

(* A row is added, of any date: the clock of its writer is another's.         *)
RowAppears(x) ==
    /\ Table(shownRows \cup {x}) /\ x \notin shownRows
    /\ shownRows' = shownRows \cup {x}
    /\ UNCHANGED <<endpoint, nextCursor, seen, walkOf>>

(* A row leaves the list: a listing is sold, a key revoked.                   *)
RowLeaves(x) ==
    /\ shownRows' = shownRows \ {x}
    /\ walkOf' = walkOf \ {x}
    /\ UNCHANGED <<endpoint, nextCursor, seen>>

PagesNext ==
    \/ NextPage
    \/ \E x \in Row : RowAppears(x)
    \/ \E x \in shownRows : RowLeaves(x)

PagesSpec == PagesInit /\ [][PagesNext]_pageVars

-----------------------------------------------------------------------------
Complete == nextCursor = LastPage => \A x \in walkOf : seen[x] > 0

(* "even if rows are inserted or deleted between requests the client will     *)
(* neither skip nor duplicate rows" (cursor.util.ts:5): no list ever shows a  *)
(* row twice in one walk that stays in the table, and a completed walk over   *)
(* the refunds has shown every row that was there throughout.                 *)
WalkIsWhole ==
    /\ \A x \in walkOf : seen[x] <= 1
    /\ endpoint = "refunds" => Complete

(* The same of every list, the listings, bids and API keys included.          *)
EveryWalkIsWhole == Complete
=============================================================================
