-------------------------------- MODULE Paging --------------------------------
(***************************************************************************)
(* Cursor pagination of the API's lists: jobs and artifacts, newest first, *)
(* workers and runtime profiles, oldest first (list_jobs,                  *)
(* list_artifacts_page, list_workers_page, list_runtime_profiles_page).    *)
(* One client follows the cursors of one list while rows are committed, in *)
(* any order of their keys since a row's timestamp is its transaction's    *)
(* start, and while jobs enter and leave the state the list is filtered by.*)
(* No row is ever deleted.                                                 *)
(***************************************************************************)
EXTENDS Integers, Sequences, Functions

CONSTANTS
    RowKeys,      \* keys of the rows: <<timestamp, id>>
    Lists,        \* the lists, each named by its route and what it lists
    NewestFirst,  \* those that are read in descending order
    PageSize      \* the limit, or CONTROL_PLANE_PAGE_SIZE

ASSUME PagingAssumption ==
    /\ RowKeys \subseteq Nat \X Nat
    /\ Lists # {} /\ NewestFirst \subseteq Lists
    /\ PageSize \in Nat \ {0}

VARIABLES
    listed,   \* keys of the committed rows that match the list's filter
    hidden,   \* keys of the committed rows that do not
    walk      \* the client: its list, its cursor, what it received

pagingVars == <<listed, hidden, walk>>

NoCursor == <<>>

PagingInit ==
    /\ listed \in SUBSET RowKeys
    /\ hidden = {}
    /\ walk = [at |-> "idle", list |-> CHOOSE l \in Lists : TRUE,
               cursor |-> NoCursor, got |-> <<>>, steady |-> {}]

-------------------------------------------------------------------------------
(* Rows.                                                                   *)

InsertRow(k) ==
    /\ k \notin listed \cup hidden
    /\ \/ listed' = listed \cup {k} /\ UNCHANGED hidden
       \/ hidden' = hidden \cup {k} /\ UNCHANGED listed
    /\ UNCHANGED walk

\* A job changes state.
Refilter(k) ==
    /\ \/ /\ k \in listed
          /\ listed' = listed \ {k}
          /\ hidden' = hidden \cup {k}
       \/ /\ k \in hidden
          /\ hidden' = hidden \ {k}
          /\ listed' = listed \cup {k}
    /\ walk' = [walk EXCEPT !.steady = @ \ {k}]

-------------------------------------------------------------------------------
(* A page.                                                                 *)

\* Fault: rows of the same instant are not told apart.
FaultTimeOnly(a, b) == a[1] < b[1]

\* The row comparison of SQL.
Before(a, b) == a[1] < b[1] \/ (a[1] = b[1] /\ a[2] < b[2])

\* Does k come after c in the list's order?
Follows(list, k, c) == IF list \in NewestFirst THEN Before(k, c) ELSE Before(c, k)

\* The rows the query may return.
Remaining(list, cursor) ==
    {k \in listed : cursor = NoCursor \/ Follows(list, k, cursor)}

\* ORDER BY ... LIMIT n: the results that respect the order, one unless rows tie.
TopRows(list, rows, n) ==
    {s \in UNION {[1 .. k -> rows] : k \in 0 .. n} :
        /\ \A i, k \in DOMAIN s : i < k => s[i] # s[k] /\ ~Follows(list, s[i], s[k])
        /\ Len(s) = n \/ Range(s) = rows
        /\ \A k \in rows \ Range(s) : \A i \in DOMAIN s : ~Follows(list, s[i], k)}

\* One row more than the page tells whether there is another page; the cursor
\* is the last row the client gets.
Page(rows) ==
    LET more == Len(rows) > PageSize
        items == IF more THEN SubSeq(rows, 1, PageSize) ELSE rows
    IN  [items |-> items, next |-> IF more THEN items[PageSize] ELSE NoCursor]

-------------------------------------------------------------------------------
(* The client.                                                             *)

StartWalk(list) ==
    /\ walk.at \in {"idle", "done"}
    /\ walk' = [at |-> "reading", list |-> list, cursor |-> NoCursor,
                got |-> <<>>, steady |-> listed]
    /\ UNCHANGED <<listed, hidden>>

NextPage ==
    /\ walk.at = "reading"
    /\ \E rows \in TopRows(walk.list, Remaining(walk.list, walk.cursor), PageSize + 1) :
          walk' = [walk EXCEPT
              !.at = IF Page(rows).next = NoCursor THEN "done" ELSE "reading",
              !.cursor = Page(rows).next,
              !.got = @ \o Page(rows).items]
    /\ UNCHANGED <<listed, hidden>>

\* decode_route_cursor, and list_artifacts_page's check of the job: a cursor is
\* good for the list that gave it out only.
ForeignCursor(list) ==
    /\ walk.at = "reading"
    /\ walk.cursor # NoCursor
    /\ list # walk.list
    /\ UNCHANGED pagingVars

PagingNext ==
    \/ \E k \in RowKeys : InsertRow(k) \/ Refilter(k)
    \/ \E list \in Lists : StartWalk(list) \/ ForeignCursor(list)
    \/ NextPage

PagingSpec == PagingInit /\ [][PagingNext]_pagingVars

-------------------------------------------------------------------------------
(* Properties.                                                             *)

\* Following the cursors never shows a row twice, and shows every row that
\* matched from the first page to the last, whatever is committed in between.
WalkIsComplete ==
    /\ \A i, j \in DOMAIN walk.got : i # j => walk.got[i] # walk.got[j]
    /\ walk.at = "done" =>
          \A k \in walk.steady : \E i \in DOMAIN walk.got : walk.got[i] = k

=============================================================================
