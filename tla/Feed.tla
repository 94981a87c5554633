--------------------------------- MODULE Feed ---------------------------------
(***************************************************************************)
(* ActivityService.getPage: a customer scrolls through the money movements *)
(* of the account, page after page, while rows appear and transfers find   *)
(* their loan.  A page is two queries, of the status log and of the        *)
(* unmatched inflows, merged; its cursor is the last row it shows.         *)
(***************************************************************************)
EXTENDS Naturals, FiniteSets

CONSTANTS
    Ids,            \* the order of row ids, which is not that of time
    Times,          \* created_at, in milliseconds
    PageSizes       \* the limits a client asks for

VARIABLES
    rows,           \* loan_status_logs with a type, and NGN inflows
    matched,        \* is_matched
    limit,
    cursor,         \* of the page asked for
    logRead,        \* what the two queries of the page returned
    inflowRead,
    finished,       \* next_cursor was null
    first,          \* history: the rows when it began
    shown,          \* history: rows shown, and rows shown again
    repeated

vars == <<rows, matched, limit, cursor, logRead, inflowRead, finished, first, shown, repeated>>

Row == [id : Ids, at : Times, source : {"log", "inflow"}, trusted : BOOLEAN]

NoRow    == [id |-> 0, at |-> 0, source |-> "none", trusted |-> FALSE]
NotRead  == {NoRow}

\* Requery mismatches and failed credits are inflows the feed hides.
Rows == {r \in Row : r.source = "log" => r.trusted}

TypeOK ==
    /\ rows \subseteq Rows /\ matched \subseteq rows /\ limit \in PageSizes
    /\ cursor \in Rows \cup {NoRow}
    /\ (logRead \cup inflowRead) \subseteq Rows \cup {NoRow}
    /\ finished \in BOOLEAN
    /\ (first \cup shown) \subseteq rows /\ repeated \subseteq shown

Distinct(rs) == \A r, s \in rs : r.id = s.id => r = s

\* The first page has no cursor.
Init ==
    /\ \E present \in SUBSET Ids :
          rows \in {{f[i] : i \in present} :
                       f \in {g \in [present -> Rows] : \A i \in present : g[i].id = i}}
    /\ limit \in PageSizes
    /\ cursor = NoRow
    /\ logRead = NotRead /\ inflowRead = NotRead
    /\ finished = FALSE
    /\ first = rows /\ matched = {} /\ shown = {} /\ repeated = {}

-----------------------------------------------------------------------------

\* A transaction commits, with the time at which it began.
Appear ==
    /\ ~finished
    /\ \E r \in Rows \ rows : Distinct(rows \cup {r}) /\ rows' = rows \cup {r}
    /\ UNCHANGED <<matched, limit, cursor, logRead, inflowRead, finished, first, shown, repeated>>

\* An inflow is credited to a loan.
Matched(r) ==
    /\ ~finished /\ r \in rows \ matched /\ r.source = "inflow"
    /\ matched' = matched \cup {r}
    /\ UNCHANGED <<rows, limit, cursor, logRead, inflowRead, finished, first, shown, repeated>>

-----------------------------------------------------------------------------
(* getPage *)

\* Mutant: the id of the cursor is not looked at.
Older_ByTime(r) == cursor = NoRow \/ r.at < cursor.at

Older(r) == cursor = NoRow \/ r.at < cursor.at \/ (r.at = cursor.at /\ r.id < cursor.id)

\* orderBy created_at, then id, both descending.
Newer(r, s) == r.at > s.at \/ (r.at = s.at /\ r.id > s.id)

\* The merged list breaks a tie by "log:..." or "inflow:...".
Above(r, s) ==
    \/ r.at > s.at
    \/ r.at = s.at /\ r.source = "log" /\ s.source = "inflow"
    \/ r.source = s.source /\ Newer(r, s)

Top(rs, Before(_, _)) == {r \in rs : Cardinality({s \in rs : Before(s, r)}) < limit}

Query(source) == Top({r \in rows \ matched : r.source = source /\ Older(r)}, Newer)

\* Promise.all: two queries, which may see different states.
ReadLog ==
    /\ ~finished /\ logRead = NotRead
    /\ logRead' = Query("log")
    /\ UNCHANGED <<rows, matched, limit, cursor, inflowRead, finished, first, shown, repeated>>

ReadInflows ==
    /\ ~finished /\ inflowRead = NotRead
    /\ inflowRead' = Query("inflow")
    /\ UNCHANGED <<rows, matched, limit, cursor, logRead, finished, first, shown, repeated>>

Merged == logRead \cup {r \in inflowRead : r.trusted}

HasMore ==
    \/ Cardinality(Merged) > limit
    \/ Cardinality(logRead) = limit \/ Cardinality(inflowRead) = limit

Last(page) == CHOOSE r \in page : \A s \in page \ {r} : Above(s, r)

Answer ==
    LET page == Top(Merged, Above)
    IN  /\ ~finished /\ logRead # NotRead /\ inflowRead # NotRead
        /\ shown' = shown \cup page
        /\ repeated' = repeated \cup (page \cap shown)
        /\ IF HasMore /\ page # {}
           THEN cursor' = Last(page) /\ UNCHANGED finished
           ELSE finished' = TRUE /\ UNCHANGED cursor
        /\ logRead' = NotRead /\ inflowRead' = NotRead
        /\ UNCHANGED <<rows, matched, limit, first>>

-----------------------------------------------------------------------------

Next == Appear \/ (\E r \in rows : Matched(r)) \/ ReadLog \/ ReadInflows \/ Answer

Spec == Init /\ [][Next]_vars

-----------------------------------------------------------------------------
(* Properties *)

\* A log row and an inflow of the same millisecond.
Tie == \E r, s \in rows : r.at = s.at /\ r.source # s.source

Hidden == \E r \in rows : ~r.trusted

\* Whatever appears or is matched meanwhile, every row that was there all
\* along has been shown when the feed ends, and none is shown twice; not so
\* with a tie of the two sources, and a page may end the feed early, or its
\* cursor pass over rows, if it lost an inflow that is not shown.
FeedHolds ==
    ~Tie => /\ repeated = {}
            /\ finished /\ ~Hidden => first \ matched \subseteq shown

\* A row of one of the two queries, below what has been shown.
Below(source) == {r \in rows : r.source = source /\ Older(r)}

\* What a query has returned is below the cursor, and misses no row of the
\* beginning but below a full page.
QueryHolds(read, source) ==
    read # NotRead =>
        /\ read \subseteq Below(source) /\ Cardinality(read) <= limit
        /\ \A r \in (first \ matched) \cap Below(source) :
              r \in read \/ (Cardinality(read) = limit /\ \A s \in read : Newer(s, r))

\* What has been shown is above the cursor; the rest of the beginning is below.
CursorHolds ==
    /\ IsFiniteSet(rows) /\ Distinct(rows)
    /\ cursor # NoRow => cursor \in rows
    /\ ~Tie /\ ~finished => \A r \in shown : ~Older(r)
    /\ ~Tie /\ ~Hidden /\ ~finished => \A r \in first \ matched : r \in shown \/ Older(r)

IInv ==
    /\ TypeOK /\ CursorHolds
    /\ QueryHolds(logRead, "log") /\ QueryHolds(inflowRead, "inflow")
    /\ FeedHolds
=============================================================================
