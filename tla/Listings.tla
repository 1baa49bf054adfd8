------------------------------ MODULE Listings ------------------------------
(***************************************************************************)
(* The lists the API answers a page at a time: payments (services/         *)
(* payment.ts), businesses (routes/businesses.ts), flagged payments        *)
(* (services/compliance.ts) and reports (services/reporting.ts).  A page   *)
(* is cut at an offset of the table as it is when the page is asked for;   *)
(* its rows and the number of rows there are come from two statements      *)
(* that run side by side.  Rows are added while a reader leafs through,    *)
(* with a time of their own: that of the payment's block, or of the start  *)
(* of the transaction that writes them.  No row is ever deleted.           *)
(* What a browser keeps of a page for a few seconds is not modelled.       *)
(***************************************************************************)
EXTENDS Naturals, FiniteSets, FiniteSetsExt

CONSTANTS
    Ids,        \* identifiers of rows, ordered
    Times,      \* what a list is ordered by
    PerPage,    \* limit
    Filters     \* the filters a reader tries

ASSUME ListingAssumption == Ids \subseteq Nat /\ Times \subseteq Nat /\ PerPage \in Nat \ {0}
                     /\ {"all", "flagged"} \subseteq Filters
                     /\ Filters \subseteq {"all", "flagged", "other"}

VARIABLES
    list,       \* which list it is, and sortOrder; businesses are listed as
                \* payments are
    table,      \* the rows
    filter,     \* the status asked for, or "all"
    reading,    \* the page being read
    answer,     \* the page the reader has
    began,      \* history: the rows there were when the reader started on an
                \* unfiltered list; given up when one is added to it while a
                \* page's rows are read and their number is not, or conversely
    met         \* history: those of them the reader was shown since

listingVars == <<list, table, filter, reading, answer, began, met>>

\* A row's status as a filter tells it apart.
RowStatuses == {"flagged", "other"}
NotThere == [time |-> 0, status |-> "none"]
NoPage == [page |-> 0, pages |-> 0]
NotAsked == [page |-> 0, read |-> {}, rows |-> {}, total |-> 0]

\* The lists whose order is completed by the row's id; the audit trail is
\* listed as reports are (services/audit.ts).
TieBroken == {"reports"}

ListingInit ==
    /\ list \in [of : {"payments", "flagged", "reports"}, order : {"asc", "desc"}]
    /\ (list.of \in {"flagged", "reports"} => list.order = "desc")
    /\ table = [r \in Ids |-> NotThere]
    /\ filter = (IF list.of = "flagged" THEN "flagged" ELSE "all")
    /\ reading = NotAsked /\ answer = NoPage
    /\ began = {} /\ met = {}

ListingTypeOK ==
    /\ \A r \in Ids : table[r] = NotThere \/ table[r] \in [time : Times, status : RowStatuses]
    /\ filter \in Filters
    /\ began \cup met \cup reading.rows \subseteq Ids

----------------------------------------------------------------------------
(* The table. *)

Present == {r \in Ids : table[r] # NotThere}
HalfRead == Cardinality(reading.read) = 1

AddRow(r, t) ==
    /\ table[r] = NotThere
    /\ table' = [table EXCEPT ![r] = [time |-> t, status |-> "other"]]
    /\ IF HalfRead THEN began' = {} /\ met' = {} ELSE UNCHANGED <<began, met>>
    /\ UNCHANGED <<list, filter, reading, answer>>

\* A row's status moves on; its time is written once.
MoveRow(r) ==
    /\ table[r] # NotThere
    /\ \E s \in RowStatuses \ {table[r].status} : table' = [table EXCEPT ![r].status = s]
    /\ UNCHANGED <<list, filter, reading, answer, began, met>>

----------------------------------------------------------------------------
(* The query. *)

Where(f) == {r \in Present : f = "all" \/ table[r].status = f}

\* Mutant: the order the caller asks for with sortBy is followed
ByStatus(r) == IF table[r].status = "flagged" THEN 1 ELSE 2

\* sortBy is looked up in an object that is still empty: initiatedAt it is.
SortKey(r) == table[r].time

Ahead(r, s) ==
    LET a == IF list.order = "asc" THEN r ELSE s
        b == IF list.order = "asc" THEN s ELSE r
    IN \/ SortKey(a) < SortKey(b)
       \/ SortKey(a) = SortKey(b) /\ list.of \in TieBroken /\ a < b

\* The first n rows of S, ties in whatever order the statement finds them.
Fronts(S, n) == {U \in kSubset(n, S) : \A r \in U, s \in S \ U : ~Ahead(s, r)}

Least(a, b) == IF a < b THEN a ELSE b

\* skip (page - 1) * limit, take limit
Slices(S, page) ==
    LET n == Cardinality(S)
        skipped == Fronts(S, Least((page - 1) * PerPage, n))
        reached == Fronts(S, Least(page * PerPage, n))
    IN {V \ U : U \in skipped, V \in {W \in reached : \E X \in skipped : X \subseteq W}}

TotalPages(total) == (total + PerPage - 1) \div PerPage

ReadRows ==
    /\ reading.page # 0 /\ "rows" \notin reading.read
    /\ \E S \in Slices(Where(filter), reading.page) :
          reading' = [reading EXCEPT !.rows = S, !.read = @ \cup {"rows"}]
    /\ UNCHANGED <<list, table, filter, answer, began, met>>

CountRows ==
    /\ reading.page # 0 /\ "total" \notin reading.read
    /\ reading' = [reading EXCEPT !.total = Cardinality(Where(filter)), !.read = @ \cup {"total"}]
    /\ UNCHANGED <<list, table, filter, answer, began, met>>

ShowPage ==
    /\ reading.read = {"rows", "total"}
    /\ answer' = [page |-> reading.page, pages |-> TotalPages(reading.total)]
    /\ met' = met \cup (reading.rows \cap began)
    /\ reading' = NotAsked
    /\ UNCHANGED <<list, table, filter, began>>

----------------------------------------------------------------------------
(* The reader: a filter sends it back to the first page. *)

AskPage(p) == reading' = [NotAsked EXCEPT !.page = p] /\ answer' = NoPage

Choose(f) ==
    /\ reading = NotAsked
    /\ list.of = "flagged" => f = "flagged"
    /\ filter' = f /\ AskPage(1)
    /\ began' = (IF f = "all" THEN Present ELSE {}) /\ met' = {}
    /\ UNCHANGED <<list, table>>

PagerShown == answer.pages > 1

Turn ==
    /\ reading = NotAsked /\ PagerShown
    /\ \/ answer.page > 1 /\ AskPage(answer.page - 1)
       \/ answer.page < answer.pages /\ AskPage(answer.page + 1)
    /\ UNCHANGED <<list, table, filter, began, met>>

Refetch ==
    /\ reading = NotAsked /\ answer.page # 0 /\ AskPage(answer.page)
    /\ UNCHANGED <<list, table, filter, began, met>>

ListingNext ==
    \/ \E r \in Ids : (\E t \in Times : AddRow(r, t)) \/ MoveRow(r)
    \/ \E f \in Filters : Choose(f)
    \/ ReadRows \/ CountRows \/ ShowPage \/ Turn \/ Refetch

----------------------------------------------------------------------------
(* Properties. *)

TotallyOrdered == list.of \in TieBroken \/ \A r, s \in Present : r # s => table[r].time # table[s].time

\* A reader who leafs through an unfiltered list up to the page the pager calls
\* the last was shown every row there was at the start, whatever was added and
\* however statuses moved meanwhile.  Where it need not hold, the code has no
\* answer: a filtered list loses rows in front of the offset, rows of one block
\* have no order, and a count may be older than its page.
NothingSkipped ==
    filter = "all" /\ reading = NotAsked /\ answer.page > 0 /\ answer.page >= answer.pages
        /\ TotallyOrdered
    => began \subseteq met
=============================================================================
