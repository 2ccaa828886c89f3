------------------------------ MODULE Listing ------------------------------
(***************************************************************************)
(* A client that reads a list page by page while rows are inserted,        *)
(* deleted and, in the order of popularity, re-ranked: the thread lists,   *)
(* the comments of a thread, one's own posts and the report queue.         *)
(*                                                                         *)
(* A page is one statement on what is committed at that moment, and the    *)
(* token in its answer is all that connects it to the next page. A row is  *)
(* an id; ids are given in ascending order, but a row becomes visible only *)
(* when its transaction commits.                                           *)
(***************************************************************************)
EXTENDS Naturals, FiniteSets

CONSTANTS
  MaxId,     \* bound: rows of the table
  MaxViews,  \* bound: view_count of a row
  Sizes,     \* page sizes a client asks for
  Mine,      \* ids of the rows whose author_id is the reader
  Matching,  \* ids of the rows whose title contains the search term
  Tables,    \* which tables are read
  None

Ids == 1..MaxId

\* The lists of each table. "open" and "closed" are the report queue by status.
Lists == [threads  |-> {"new", "popular", "search", "mine"},
          comments |-> {"comments", "myComments"},
          reports  |-> {"open", "closed"}]

VARIABLES
  table,   \* the table the client reads from
  row,     \* absent, pending (id given, not committed), live, gone or void
  views,   \* threads.view_count
  thread,  \* whether the thread of the comments is alive
  list,    \* the list being read
  pc,      \* where the request for the next page is
  size,    \* its page size
  token,   \* its cursor, None for the first page; after an answer, nextCursor
  seen,    \* history: rows shown since the walk began
  again,   \* history: a row was shown that had been shown before
  due      \* history: rows of the list since the walk began that have not
           \* climbed past the reader

store == <<row, views, thread>>
walk == <<list, pc, size, token, seen, again, due>>
vars == <<table, store, walk>>

AllLists == UNION {Lists[t] : t \in DOMAIN Lists}
Cursor == [sort : {"", "popular"}, id : Ids, views : Nat \cup {None}]
Damaged == [sort |-> "", id |-> 0, views |-> None]

ASSUME ListingAssumption ==
  /\ MaxId \in Nat
  /\ MaxViews \in Nat
  /\ Sizes \subseteq Nat \ {0}
  /\ Mine \subseteq Ids
  /\ Matching \subseteq Ids
  /\ Tables \subseteq DOMAIN Lists
  /\ None \notin Nat \cup Cursor \cup {Damaged}

(***************************************************************************)
(* The rows each query returns from behind a cursor, and their order.      *)
(***************************************************************************)
CursorSort(l) == IF l = "popular" THEN "popular" ELSE ""

Live == {i \in Ids : row[i] = "live"}

\* The id is what every list but the popular one compares.
Below(c, i) == c = None \/ (c # None /\ i < c.id)

ListThreads(c) == {i \in Live : Below(c, i)}
SearchThreads(c) == {i \in Live \cap Matching : Below(c, i)}
ListMyThreads(c) == {i \in Live \cap Mine : Below(c, i)}
ListComments(c) == {i \in Live : Below(c, i)}
ListMyComments(c) == {i \in Live \cap Mine : Below(c, i)}

\* Mistake: rows are told apart by their counts alone.
CountBelow(c, v, i) == v < c.views

\* (view_count, id) < (cursor_view_count, cursor_id).
PairBelow(c, v, i) == v < c.views \/ (v = c.views /\ i < c.id)

\* A cursor without a count is a null, and reads from the top.
ListPopular(c) ==
  {i \in Live : \/ c = None
                \/ c # None /\ (c.views = None \/ PairBelow(c, views[i], i))}

\* Mistake: the queue reads on from the row of the cursor.
ListReportsFrom(c, status) ==
  {i \in Ids : /\ row[i] = status
               /\ c = None \/ (c # None /\ i >= c.id)}

\* The queue of reports by status, the oldest first.
ListReports(c, status) ==
  {i \in Ids : /\ row[i] = status
               /\ c = None \/ (c # None /\ i > c.id)}

Rows(l, c) ==
  CASE l = "new" -> ListThreads(c)
    [] l = "popular" -> ListPopular(c)
    [] l = "search" -> SearchThreads(c)
    [] l = "mine" -> ListMyThreads(c)
    [] l = "comments" -> ListComments(c)
    [] l = "myComments" -> ListMyComments(c)
    [] l = "open" -> ListReports(c, "live")
    [] l = "closed" -> ListReports(c, "gone")

\* Row x precedes row y.
Before(l, x, y) ==
  CASE l = "popular" -> views[x] > views[y] \/ (views[x] = views[y] /\ x > y)
    [] l \in {"open", "closed"} -> x < y
    [] OTHER -> x > y

\* P is the first n of the rows C, or all of them when there are fewer.
IsPage(P, C, n) ==
  /\ P \subseteq C
  /\ Cardinality(P) = IF Cardinality(C) < n THEN Cardinality(C) ELSE n
  /\ \A x \in P, y \in C \ P : Before(list, x, y)

\* The cursor of the last row of a page.
CursorAt(P) ==
  LET last == CHOOSE x \in P : \A y \in P \ {x} : Before(list, y, x)
  IN  [sort |-> CursorSort(list), id |-> last,
       views |-> IF list = "popular" THEN views[last] ELSE None]

(***************************************************************************)
(* The client, and the handlers that answer it.                            *)
(***************************************************************************)
Init ==
  /\ table \in Tables
  /\ \E k \in 0..MaxId :
       /\ row \in [Ids -> {"live", "pending", "gone", "absent"}]
       /\ \A i \in Ids : row[i] = "absent" <=> i > k
       /\ views \in [Ids -> 0..MaxViews]
       /\ \A i \in Ids : (i > k \/ table # "threads") => views[i] = 0
  /\ thread \in {"alive", "deleted"}
  /\ list = None
  /\ pc = "idle"
  /\ size = None
  /\ token = None
  /\ thread = "deleted" => table = "comments"
  /\ seen = {}
  /\ again = FALSE
  /\ due = {}

\* The first page of a list.
Open(l, n) ==
  /\ pc = "idle"
  /\ list' = l
  /\ pc' = "asked"
  /\ size' = n
  /\ due' = Rows(l, None)
  /\ UNCHANGED <<table, store, token, seen, again>>

\* The page that follows, possibly of another size.
Follow(n) ==
  /\ pc = "answered"
  /\ token # None
  /\ pc' = "asked"
  /\ size' = n
  /\ UNCHANGED <<table, store, list, token, seen, again, due>>

\* The token of one list in a request for another list of the same table. What
\* such a request can still promise is the rest of the other list.
Paste(l, n) ==
  /\ pc = "answered"
  /\ token # None
  /\ table = "threads"
  /\ l # list
  /\ list' = l
  /\ pc' = "asked"
  /\ size' = n
  /\ due' = Rows(l, token)
  /\ UNCHANGED <<table, store, token, seen, again>>

\* A token that was cut, or has the version of an older format.
Damage(n) ==
  /\ pc = "answered"
  /\ token # None
  /\ pc' = "asked"
  /\ size' = n
  /\ token' = Damaged
  /\ UNCHANGED <<table, store, list, seen, again, due>>

\* Mistake: the order is not compared.
AnyOrder == token # None => token.id > 0

\* DecodeCursor, and the order for which the token was issued.
Acceptable ==
  token # None => token.id > 0 /\ token.sort = CursorSort(list)

Refuse ==
  /\ pc = "asked"
  /\ ~Acceptable
  /\ pc' = "refused"
  /\ UNCHANGED <<table, store, list, size, token, seen, again, due>>

Show(P, next) ==
  /\ pc' = "answered"
  /\ token' = next
  /\ seen' = seen \cup P
  /\ again' = (again \/ seen \cap P # {})
  /\ UNCHANGED <<table, store, list, size, due>>

\* A full page may have a successor, which may be empty.
NextToken(P) == IF P # {} /\ Cardinality(P) = size THEN CursorAt(P) ELSE None

Fetch(C) == \E P \in SUBSET C : IsPage(P, C, size) /\ Show(P, NextToken(P))

Asked(lists) == pc = "asked" /\ list \in lists /\ Acceptable

FetchThreadList ==
  /\ Asked({"new", "popular", "search"})
  /\ Fetch(Rows(list, token))

FetchMyThreadList == Asked({"mine"}) /\ Fetch(ListMyThreads(token))

FetchMyComments == Asked({"myComments"}) /\ Fetch(ListMyComments(token))

\* FetchComments asks for the thread in a statement of its own, and then lists.
FindThread ==
  /\ Asked({"comments"})
  /\ pc' = IF thread = "alive" THEN "found" ELSE "notFound"
  /\ UNCHANGED <<table, store, list, size, token, seen, again, due>>

FetchComments == pc = "found" /\ Fetch(ListComments(token))

\* The queue reads one row more than it shows, and knows whether there is a
\* next page.
ListQueue ==
  /\ Asked({"open", "closed"})
  /\ LET C == Rows(list, token)
     IN  \E P \in SUBSET C :
           /\ IsPage(P, C, size)
           /\ Show(P, IF Cardinality(C) > size THEN CursorAt(P) ELSE None)

(***************************************************************************)
(* Everybody else.                                                         *)
(***************************************************************************)
\* The identity column gives out the id before the transaction commits.
Insert(i) ==
  /\ row[i] = "absent"
  /\ \A j \in Ids : j < i => row[j] # "absent"
  /\ row' = [row EXCEPT ![i] = "pending"]
  /\ UNCHANGED <<table, views, thread, walk>>

Finish(i, how) ==
  /\ row[i] = "pending"
  /\ row' = [row EXCEPT ![i] = how]
  /\ UNCHANGED <<table, views, thread, walk>>

\* A soft delete; for a report, its resolution.
Remove(i) ==
  /\ row[i] = "live"
  /\ row' = [row EXCEPT ![i] = "gone"]
  /\ due' = due \ {i}
  /\ UNCHANGED <<table, views, thread, list, pc, size, token, seen, again>>

\* IncrementThreadViewCounts: one statement raises the counts of several rows.
Flush(S) ==
  /\ table = "threads"
  /\ S # {}
  /\ \A i \in S : row[i] \in {"live", "gone"} /\ views[i] < MaxViews
  /\ views' = [i \in Ids |-> IF i \in S THEN views[i] + 1 ELSE views[i]]
  /\ due' = IF list = "popular" /\ token \in Cursor /\ token.views # None
              THEN {i \in due : i \in seen \/ PairBelow(token, views'[i], i)}
              ELSE due
  /\ UNCHANGED <<table, row, thread, list, pc, size, token, seen, again>>

DeleteThread ==
  /\ table = "comments"
  /\ thread = "alive"
  /\ thread' = "deleted"
  /\ UNCHANGED <<table, row, views, walk>>

Answer ==
  \/ Refuse
  \/ FetchThreadList \/ FetchMyThreadList \/ FetchMyComments
  \/ FindThread \/ FetchComments
  \/ ListQueue

Client ==
  \E n \in Sizes :
    \/ \E l \in Lists[table] : Open(l, n)
    \/ Follow(n)
    \/ \E l \in Lists["threads"] : Paste(l, n)
    \/ Damage(n)

\* What happened before the walk is in Init, and what happens after it no longer
\* matters.
Walking == pc = "asked" \/ pc = "found" \/ (pc = "answered" /\ token # None)

Others ==
  /\ Walking
  /\ \/ \E i \in Ids : Insert(i) \/ Remove(i)
     \/ \E i \in Ids : \E how \in {"live", "void"} : Finish(i, how)
     \/ \E S \in SUBSET Ids : Flush(S)
     \/ DeleteThread

Next == Client \/ Answer \/ Others

Spec == Init /\ [][Next]_vars

\* Every request is answered, and a client that has a token asks again.
FairSpec == Spec /\ WF_vars(Answer) /\ WF_vars(Client)

(***************************************************************************)
(* Properties.                                                             *)
(***************************************************************************)
TypeOK ==
  /\ table \in Tables
  /\ row \in [Ids -> {"absent", "pending", "live", "gone", "void"}]
  /\ views \in [Ids -> Nat]
  /\ thread \in {"alive", "deleted"}
  /\ list \in Lists[table] \cup {None}
  /\ pc \in {"idle", "asked", "found", "answered", "refused", "notFound"}
  /\ size \in Sizes \cup {None}
  /\ token \in Cursor \cup {None, Damaged}
  /\ seen \subseteq Ids
  /\ again \in BOOLEAN
  /\ due \subseteq Ids

\* No page repeats a row of an earlier page, whatever was inserted or re-ranked
\* in between, and whichever lists the token was used for (pagination.go:1-15,
\* threads.sql.go: view_count and id compared as a pair).  ADR 0006:143-147 and
\* threads.sql.go:531-535 fear repeats when a count moves between two pages; but
\* counts only rise, so that a row shown moves further away from the pages to come.
NoRepeat == ~again

\* When an answer says that there is no further page, every row that was in the
\* list all along has been shown. In the order of popularity that leaves out
\* only the rows that climbed past the reader meanwhile, the loss that ADR
\* 0006:143-150 and threads.sql.go:531-535 accept.
NothingSkipped ==
  pc = "answered" /\ token = None => due \subseteq seen

\* Whoever follows the tokens comes to an end, in spite of what is inserted.
WalkEnds == pc = "asked" ~> pc \in {"refused", "notFound"} \/ (pc = "answered" /\ token = None)
=============================================================================
