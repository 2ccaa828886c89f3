--------------------------- MODULE ListingProofs ---------------------------
(***************************************************************************)
(* Theorems about Listing, for tables of any size, any counts, any page    *)
(* sizes and any rows that match a search or belong to the reader.         *)
(***************************************************************************)
EXTENDS Listing, FiniteSetTheorems, WellFoundedInduction, TLAPS

\* A walk has begun in a list of the table.
Typed ==
  /\ TypeOK
  /\ pc # "idle" => list \in Lists[table] /\ size \in Sizes
  /\ pc = "idle" => token = None /\ seen = {} /\ due = {} /\ list = None
  /\ pc = "found" => list = "comments"

\* Only the cursors of the popular list carry a count.
CountFits ==
  token \in Cursor => (token.sort = "popular" <=> token.views # None)

\* A token that was found acceptable stays so, and every answer is given to an
\* acceptable one and ends in another.
TokenFits == pc \in {"found", "answered"} => Acceptable

\* The row x is at or before the row of the token, in the order of the list
\* for which the token was issued.
Reached(x) ==
  CASE table = "reports" -> x <= token.id
    [] table # "reports" /\ token.sort = "popular" -> ~PairBelow(token, views[x], x)
    [] table # "reports" /\ token.sort # "popular" -> x >= token.id

\* What was shown is behind the reader.
SeenReached ==
  /\ token \in Cursor => \A x \in seen : Reached(x)
  /\ token = None /\ pc \in {"asked", "found"} => seen = {}

\* What is due was shown or lies ahead.
DueAhead ==
  /\ Acceptable /\ pc \in {"asked", "found"} => due \subseteq seen \cup Rows(list, token)
  /\ pc = "answered" =>
       due \subseteq seen \cup (IF token = None THEN {} ELSE Rows(list, token))

ListingInv ==
  /\ Typed /\ CountFits /\ TokenFits /\ SeenReached /\ DueAhead /\ NoRepeat

(***************************************************************************)
(* Pages.                                                                  *)
(***************************************************************************)
\* A set of numbers that is not empty has a smallest one.
LEMMA Smallest ==
  ASSUME NEW T \in SUBSET Nat, T # {}
  PROVE  \E x \in T : \A y \in T : x <= y
<1> DEFINE R == {p \in Nat \X Nat : p[1] < p[2]}
<1>1. IsWellFoundedOn(R, Nat)
  BY NatLessThanWellFounded DEF OpToRel
<1>2. PICK x \in T : \A y \in T : <<y, x>> \notin R
  <2> HIDE DEF R
  <2> QED BY <1>1, WFMin
<1>3. \A y \in T : ~(y < x)
  BY <1>2
<1> QED BY <1>3

\* A set of ids that is not empty has a largest one.
LEMMA Largest ==
  ASSUME NEW T \in SUBSET Ids, T # {}
  PROVE  \E x \in T : \A y \in T : y <= x
<1> DEFINE D == {MaxId - i : i \in T}
<1>1. D \in SUBSET Nat /\ D # {}
  <2>1. \A i \in T : MaxId - i \in Nat
    BY ListingAssumption DEF Ids
  <2> QED BY <2>1
<1>2. PICK d \in D : \A e \in D : d <= e
  <2> HIDE DEF D
  <2> QED BY <1>1, Smallest
<1>3. PICK x \in T : d = MaxId - x
  BY <1>2
<1>4. \A y \in T : MaxId - x <= MaxId - y
  BY <1>2, <1>3
<1> QED BY <1>4, ListingAssumption DEF Ids

\* A page that is not empty has a last row, which its cursor names.
LEMMA LastRow ==
  ASSUME Typed, pc # "idle", NEW P \in SUBSET Ids, P # {}
  PROVE  /\ CursorAt(P) \in Cursor
         /\ CursorAt(P).sort = CursorSort(list)
         /\ CursorAt(P).sort = "popular" <=> CursorAt(P).views # None
         /\ CursorAt(P).id \in P
         /\ list = "popular" => CursorAt(P).views = views[CursorAt(P).id]
         /\ \A y \in P \ {CursorAt(P).id} : Before(list, y, CursorAt(P).id)
<1>1. \E x \in P : \A y \in P \ {x} : Before(list, y, x)
  <2>1. CASE list \in {"open", "closed"}
    <3>1. PICK x \in P : \A y \in P : y <= x
      BY Largest
    <3> QED BY <3>1, <2>1 DEF Before, Ids
  <2>2. CASE list \notin {"open", "closed", "popular"}
    <3>1. PICK x \in P : \A y \in P : x <= y
      BY Smallest DEF Ids
    <3>2. \A y \in P \ {x} : y > x
      BY <3>1 DEF Ids
    <3> QED BY <3>2, <2>2 DEF Before
  <2>3. CASE list = "popular"
    <3> DEFINE V == {views[i] : i \in P}
    <3>0. views \in [Ids -> Nat]
      BY DEF Typed, TypeOK
    <3>1. V \in SUBSET Nat /\ V # {}
      BY <3>0
    <3>2. PICK v \in V : \A w \in V : v <= w
      <4> HIDE DEF V
      <4> QED BY <3>1, Smallest
    <3> DEFINE Q == {i \in P : views[i] = v}
    <3>3. Q \in SUBSET Nat /\ Q # {}
      BY <3>2 DEF Ids
    <3>4. PICK x \in Q : \A y \in Q : x <= y
      <4> HIDE DEF Q
      <4> QED BY <3>3, Smallest
    <3>5. \A y \in P \ {x} : views[y] > views[x] \/ (views[y] = views[x] /\ y > x)
      <4> SUFFICES ASSUME NEW y \in P \ {x}
                   PROVE  views[y] > views[x] \/ (views[y] = views[x] /\ y > x)
        OBVIOUS
      <4>1. views[x] = v /\ v <= views[y] /\ views[y] \in Nat /\ views[x] \in Nat
        BY <3>0, <3>2, <3>4
      <4>2. views[y] = v => x <= y /\ x # y
        BY <3>4
      <4> QED BY <4>1, <4>2, <3>4 DEF Ids
    <3>6. x \in P
      BY <3>4
    <3> QED BY <3>5, <3>6, <2>3 DEF Before
  <2> QED BY <2>1, <2>2, <2>3
<1> DEFINE last == CHOOSE x \in P : \A y \in P \ {x} : Before(list, y, x)
<1>2. last \in P /\ \A y \in P \ {last} : Before(list, y, last)
  BY <1>1
<1>3. CursorAt(P) = [sort |-> CursorSort(list), id |-> last,
                     views |-> IF list = "popular" THEN views[last] ELSE None]
  BY DEF CursorAt
<1> HIDE DEF last
<1>4. views[last] \in Nat /\ views[last] # None
  BY <1>2, ListingAssumption DEF Typed, TypeOK
<1>5. /\ CursorAt(P).sort = CursorSort(list) /\ CursorAt(P).id = last
      /\ CursorAt(P).views = IF list = "popular" THEN views[last] ELSE None
  BY <1>3
<1>6. CursorAt(P) \in Cursor
  <2>1. CursorSort(list) \in {"", "popular"} /\ last \in Ids
        /\ (IF list = "popular" THEN views[last] ELSE None) \in Nat \cup {None}
    BY <1>2, <1>4 DEF CursorSort
  <2>2. \A a \in {"", "popular"}, b \in Ids, v \in Nat \cup {None} :
          [sort |-> a, id |-> b, views |-> v] \in Cursor
    BY DEF Cursor
  <2> QED BY <1>3, <2>1, <2>2
<1>7. CursorAt(P).sort = "popular" <=> CursorAt(P).views # None
  BY <1>4, <1>5 DEF CursorSort
<1> QED BY <1>2, <1>5, <1>6, <1>7

\* The rows behind a token are ids.
LEMMA RowsAreIds ==
  ASSUME NEW l \in AllLists, NEW c
  PROVE  Rows(l, c) \subseteq Ids
<1> USE DEF Live, ListThreads, SearchThreads, ListMyThreads, ListComments,
            ListMyComments, ListPopular, ListReports
<1> QED BY DEF Rows, AllLists, Lists

\* A page of rows that are ids is finite, and either all of them or full.
LEMMA PageIsFullOrAll ==
  ASSUME NEW C \in SUBSET Ids, NEW P, NEW n \in Nat \ {0}, IsPage(P, C, n)
  PROVE  /\ Cardinality(P) \in Nat /\ Cardinality(C) \in Nat
         /\ P = {} => C = {}
         /\ Cardinality(P) # n => P = C
         /\ Cardinality(C) <= n => P = C
         /\ Cardinality(C) > n => P # {}
<1>1. IsFiniteSet(Ids)
  BY FS_Interval, ListingAssumption DEF Ids
<1>2. IsFiniteSet(C)
  BY <1>1, FS_Subset
<1>3. P \in SUBSET C
  BY DEF IsPage
<1>4. IsFiniteSet(P) /\ (Cardinality(C) = Cardinality(P) => C = P)
  BY <1>2, <1>3, FS_Subset
<1>5. Cardinality(P) \in Nat /\ Cardinality(C) \in Nat
  BY <1>2, <1>4, FS_CardinalityType
<1>6. Cardinality({}) = 0
  BY FS_EmptySet
<1>7. Cardinality(P) = IF Cardinality(C) < n THEN Cardinality(C) ELSE n
  BY DEF IsPage
<1> QED BY <1>4, <1>5, <1>6, <1>7


(***************************************************************************)
(* Answers.                                                                *)
(***************************************************************************)
\* The queue of reports is in a table of its own.
LEMMA ListOfTable ==
  ASSUME Typed, pc # "idle"
  PROVE  list \in AllLists /\ (table = "reports" <=> list \in {"open", "closed"})
<1>1. DOMAIN Lists = {"threads", "comments", "reports"}
      /\ Lists["threads"] = {"new", "popular", "search", "mine"}
      /\ Lists["comments"] = {"comments", "myComments"}
      /\ Lists["reports"] = {"open", "closed"}
  BY DEF Lists
<1>2. table \in DOMAIN Lists
  BY ListingAssumption DEF Typed, TypeOK
<1> QED BY <1>1, <1>2 DEF AllLists, Typed

\* A cursor names a row.
LEMMA CursorIds == \A c \in Cursor : c.id \in Ids
BY DEF Cursor

\* A damaged token is not acceptable.
LEMMA AcceptableIsCursor ==
  ASSUME Typed, Acceptable
  PROVE  token = None \/ token \in Cursor
<1>1. Damaged.id = 0
  BY DEF Damaged
<1>2. token = Damaged => token = None
  BY <1>1 DEF Acceptable
<1> QED BY <1>2 DEF Typed, TypeOK

\* What a statement returns lies ahead of its token.
LEMMA RowsAhead ==
  ASSUME ListingInv, pc \in {"asked", "found"}, Acceptable, token \in Cursor,
         NEW x \in Rows(list, token)
  PROVE  x \in Ids /\ ~Reached(x)
<1>1. x \in Ids /\ token.id \in Ids /\ token # None /\ token.sort = CursorSort(list)
  BY RowsAreIds, ListOfTable, ListingAssumption DEF ListingInv, Acceptable, Cursor
<1>2. CASE list = "popular"
  <2>1. x \in ListPopular(token) /\ token.views # None /\ table # "reports"
    BY <1>1, <1>2, ListOfTable DEF Rows, CursorSort, ListingInv, CountFits
  <2> QED BY <1>1, <1>2, <2>1 DEF ListPopular, Reached, CursorSort
<1>3. CASE list \in {"open", "closed"}
  <2>1. x > token.id /\ table = "reports"
    BY <1>1, <1>3, ListOfTable DEF Rows, ListReports, ListingInv
  <2> QED BY <1>1, <2>1 DEF Reached, Ids
<1>4. CASE list \notin {"popular", "open", "closed"}
  <2>1. table # "reports" /\ token.sort # "popular"
    BY <1>1, <1>4, ListOfTable DEF CursorSort, ListingInv
  <2>2. list \in {"new", "search", "mine", "comments", "myComments"}
    BY <1>4, ListOfTable DEF AllLists, Lists, ListingInv
  <2>3. Below(token, x)
    BY <2>2 DEF Rows, ListThreads, SearchThreads, ListMyThreads, ListComments,
                ListMyComments
  <2> QED BY <1>1, <2>1, <2>3 DEF Reached, Below, Ids
<1> QED BY <1>2, <1>3, <1>4

\* An answer shows a page of the rows behind its token, and hands out the token
\* of the last row when there may be more.
Answers(P, next) ==
  /\ pc \in {"asked", "found"} /\ Acceptable
  /\ IsPage(P, Rows(list, token), size)
  /\ IF next = None THEN P = Rows(list, token) ELSE P # {} /\ next = CursorAt(P)
  /\ Show(P, next)

\* An answer leaves behind what it and the earlier ones have shown.
LEMMA AnswerReaches ==
  ASSUME ListingInv, NEW P, NEW next, Answers(P, next), next # None,
         NEW x \in seen \cup P
  PROVE  Reached(x)'
<1> DEFINE last == CursorAt(P).id
<1>1. Typed /\ pc # "idle" /\ list \in AllLists /\ P \in SUBSET Ids /\ x \in Ids
  <2>1. Typed /\ pc # "idle" /\ list \in AllLists
    BY ListOfTable DEF ListingInv, Answers
  <2> QED BY <2>1, RowsAreIds DEF Answers, IsPage, Typed, TypeOK
<1>2. /\ CursorAt(P) \in Cursor /\ CursorAt(P).sort = CursorSort(list)
      /\ last \in P /\ (list = "popular" => CursorAt(P).views = views[last])
      /\ \A y \in P \ {last} : Before(list, y, last)
  BY <1>1, LastRow DEF Answers
<1>3. token' = CursorAt(P) /\ UNCHANGED <<table, views>>
  BY DEF Answers, Show, store
<1>4. last \in Ids /\ last \in Rows(list, token)
  BY <1>1, <1>2 DEF Answers, IsPage
<1>5. views \in [Ids -> Nat]
  BY <1>1 DEF Typed, TypeOK
<1>6. table = "reports" <=> list \in {"open", "closed"}
  BY <1>1, ListOfTable
<1>7. CASE x \in P
  <2>1. x = last \/ Before(list, x, last)
    BY <1>2, <1>7
  <2> HIDE DEF last
  <2>2. CASE list = "popular"
    <3>1. views[x] > views[last] \/ (views[x] = views[last] /\ x >= last)
      BY <1>1, <1>4, <1>5, <2>1, <2>2 DEF Before, Ids
    <3>2. ~PairBelow(CursorAt(P), views[x], x)
      BY <1>1, <1>2, <1>4, <1>5, <2>2, <3>1 DEF PairBelow, Ids, last
    <3> QED BY <1>2, <1>3, <1>6, <2>2, <3>2 DEF Reached, CursorSort, PairBelow
  <2>3. CASE list \in {"open", "closed"}
    <3>1. x <= last
      BY <1>1, <1>4, <2>1, <2>3 DEF Before, Ids
    <3> QED BY <1>3, <1>6, <2>3, <3>1 DEF Reached, last
  <2>4. CASE list \notin {"popular", "open", "closed"}
    <3>1. x >= last
      BY <1>1, <1>4, <2>1, <2>4 DEF Before, Ids
    <3> QED BY <1>2, <1>3, <1>6, <2>4, <3>1 DEF Reached, CursorSort, last
  <2> QED BY <2>2, <2>3, <2>4
<1>8. CASE x \in seen
  <2>1. token \in Cursor
    <3>1. token # None
      BY <1>8 DEF ListingInv, SeenReached, Answers
    <3> QED BY <3>1, AcceptableIsCursor DEF ListingInv, Answers
  <2>2. Reached(x) /\ ~Reached(last) /\ token.sort = CursorSort(list)
        /\ (list = "popular" => token.views \in Nat) /\ token.id \in Ids
    <3>1. token # None
      BY <2>1, ListingAssumption
    <3> QED BY <1>4, <1>8, <2>1, <3>1, RowsAhead
         DEF ListingInv, SeenReached, Answers, Acceptable, CountFits, CursorSort, Cursor
  <2> HIDE DEF last
  <2>3. CASE list = "popular"
    <3>1. ~PairBelow(token, views[x], x) /\ PairBelow(token, views[last], last)
      BY <1>6, <2>2, <2>3 DEF Reached, CursorSort
    <3>2. ~PairBelow(CursorAt(P), views[x], x)
      <4>1. CursorAt(P).views = views[last] /\ CursorAt(P).id = last
        BY <1>2, <2>3 DEF last
      <4>2. views[x] \in Nat /\ views[last] \in Nat /\ token.views \in Nat
            /\ x \in Nat /\ last \in Nat /\ token.id \in Nat
        BY <1>1, <1>4, <1>5, <2>2, <2>3 DEF Ids
      <4> QED BY <3>1, <4>1, <4>2 DEF PairBelow
    <3> QED BY <1>2, <1>3, <1>6, <2>3, <3>2 DEF Reached, CursorSort, PairBelow
  <2>4. CASE list \in {"open", "closed"}
    <3>1. x <= token.id /\ ~(last <= token.id)
      BY <1>6, <2>2, <2>4 DEF Reached
    <3>2. x <= last
      BY <1>1, <1>4, <2>2, <3>1 DEF Ids
    <3> QED BY <1>3, <1>6, <2>4, <3>2 DEF Reached, last
  <2>5. CASE list \notin {"popular", "open", "closed"}
    <3>1. x >= token.id /\ ~(last >= token.id)
      BY <1>6, <2>2, <2>5 DEF Reached, CursorSort
    <3>2. x >= last
      BY <1>1, <1>4, <2>2, <3>1 DEF Ids
    <3> QED BY <1>2, <1>3, <1>6, <2>5, <3>2 DEF Reached, CursorSort, last
  <2> QED BY <2>3, <2>4, <2>5
<1> QED BY <1>7, <1>8

\* The rows that did not fit on the page are behind its token.
LEMMA RestFollows ==
  ASSUME ListingInv, NEW P, NEW next, Answers(P, next), next # None,
         NEW x \in Rows(list, token) \ P
  PROVE  x \in Rows(list, CursorAt(P))
<1> DEFINE last == CursorAt(P).id
<1>1. Typed /\ pc # "idle" /\ list \in AllLists /\ P \in SUBSET Ids /\ x \in Ids
  <2>1. Typed /\ pc # "idle" /\ list \in AllLists
    BY ListOfTable DEF ListingInv, Answers
  <2> QED BY <2>1, RowsAreIds DEF Answers, IsPage, Typed, TypeOK
<1>2. /\ CursorAt(P) # None /\ last \in P
      /\ (list = "popular" => CursorAt(P).views = views[last])
  BY <1>1, LastRow DEF Answers
<1>3. Before(list, last, x)
  BY <1>2 DEF Answers, IsPage
<1> HIDE DEF last
<1>4. views \in [Ids -> Nat] /\ last \in Ids
  BY <1>1, <1>2 DEF Typed, TypeOK
<1>5. CASE list = "popular"
  <2>1. x \in Live
    BY <1>5 DEF Rows, ListPopular
  <2>2. views[x] < views[last] \/ (views[x] = views[last] /\ x < last)
    BY <1>1, <1>3, <1>4, <1>5 DEF Before, Ids
  <2>3. PairBelow(CursorAt(P), views[x], x)
    BY <1>2, <1>5, <2>2 DEF PairBelow, last
  <2> QED BY <1>2, <1>5, <2>1, <2>3 DEF Rows, ListPopular
<1>6. CASE list \in {"open", "closed"}
  <2>1. x > last
    BY <1>1, <1>3, <1>4, <1>6 DEF Before, Ids
  <2> QED BY <1>2, <1>6, <2>1 DEF Rows, ListReports, last
<1>7. CASE list \notin {"popular", "open", "closed"}
  <2>1. x < last
    BY <1>1, <1>3, <1>4, <1>7 DEF Before, Ids
  <2>2. Below(CursorAt(P), x)
    BY <1>2, <2>1 DEF Below, last
  <2> QED BY <1>1, <1>7, <2>2
         DEF Rows, ListThreads, SearchThreads, ListMyThreads, ListComments,
             ListMyComments, AllLists, Lists
<1> QED BY <1>5, <1>6, <1>7

\* An answer keeps the invariant.
LEMMA AnswerKeeps ==
  ASSUME ListingInv, NEW P, NEW next, Answers(P, next)
  PROVE  ListingInv'
<1> DEFINE C == Rows(list, token)
<1>1. Typed /\ pc # "idle" /\ list \in AllLists /\ C \in SUBSET Ids /\ P \in SUBSET C
  <2>1. Typed /\ pc # "idle" /\ list \in AllLists
    BY ListOfTable DEF ListingInv, Answers
  <2> QED BY <2>1, RowsAreIds DEF Answers, IsPage
<1>2. /\ pc' = "answered" /\ token' = next /\ seen' = seen \cup P
      /\ again' = (again \/ seen \cap P # {})
      /\ UNCHANGED <<table, row, views, thread, list, size, due>>
  BY DEF Answers, Show, store
<1>3. next # None =>
        /\ next = CursorAt(P) /\ CursorAt(P) \in Cursor
        /\ CursorAt(P).sort = CursorSort(list)
        /\ (CursorAt(P).sort = "popular" <=> CursorAt(P).views # None)
  BY <1>1, LastRow DEF Answers
<1>4. Typed'
  BY <1>1, <1>2, <1>3 DEF Typed, TypeOK
<1>5. CountFits'
  BY <1>2, <1>3, ListingAssumption DEF CountFits
<1>6. TokenFits'
  <2>1. next # None => next.id > 0 /\ next.sort = CursorSort(list)
    <3>1. \A c \in Cursor : c.id > 0
      BY ListingAssumption, CursorIds DEF Ids
    <3> QED BY <1>3, <3>1
  <2> QED BY <1>2, <2>1 DEF TokenFits, Acceptable, CursorSort
<1>7. SeenReached'
  <2>1. next # None => \A x \in seen \cup P : Reached(x)'
    BY AnswerReaches
  <2> QED BY <1>2, <2>1, ListingAssumption DEF SeenReached
<1>8. due \subseteq seen \cup C
  BY DEF ListingInv, DueAhead, Answers
<1>9. DueAhead'
  <2>1. CASE next = None
    BY <1>2, <1>8, <2>1 DEF DueAhead, Answers
  <2>2. CASE next # None
    <3>1. \A x \in C \ P : x \in Rows(list, CursorAt(P))
      BY <2>2, RestFollows
    <3>2. Rows(list, token)' = Rows(list, next)
      BY <1>2 DEF Rows, ListThreads, SearchThreads, ListMyThreads, ListComments,
                  ListMyComments, ListPopular, ListReports, Live, Below, PairBelow
    <3>3. due' \subseteq seen' \cup Rows(list, next)
      BY <1>2, <1>3, <1>8, <2>2, <3>1
    <3> QED BY <1>2, <2>2, <3>2, <3>3 DEF DueAhead
  <2> QED BY <2>1, <2>2
<1>10. NoRepeat'
  <2>1. \A x \in P : x \notin seen
    <3>1. CASE token \in Cursor
      <4>1. \A x \in Rows(list, token) : ~Reached(x)
        BY <3>1, RowsAhead DEF Answers
      <4>2. \A x \in seen : Reached(x)
        BY <3>1 DEF ListingInv, SeenReached
      <4> QED BY <1>1, <4>1, <4>2
    <3>2. CASE token = None
      BY <3>2 DEF ListingInv, SeenReached, Answers
    <3> QED BY <1>1, <3>1, <3>2, AcceptableIsCursor DEF Answers
  <2> QED BY <1>2, <2>1 DEF NoRepeat, ListingInv
<1> QED BY <1>4, <1>5, <1>6, <1>7, <1>9, <1>10 DEF ListingInv

(***************************************************************************)
(* The steps.                                                              *)
(***************************************************************************)
\* The answers that follow the rule of NextToken.
LEMMA FetchKeeps ==
  ASSUME ListingInv, pc \in {"asked", "found"}, Acceptable, Fetch(Rows(list, token))
  PROVE  ListingInv'
<1>1. PICK P \in SUBSET Rows(list, token) :
        IsPage(P, Rows(list, token), size) /\ Show(P, NextToken(P))
  BY DEF Fetch
<1>2. /\ Typed /\ pc # "idle" /\ Rows(list, token) \in SUBSET Ids
      /\ size \in Nat \ {0}
  BY RowsAreIds, ListOfTable, ListingAssumption DEF ListingInv, Typed
<1>3. /\ P = {} => Rows(list, token) = {}
      /\ Cardinality(P) # size => P = Rows(list, token)
  BY <1>1, <1>2, PageIsFullOrAll
<1>4. P # {} => CursorAt(P) # None
  BY <1>2, LastRow, ListingAssumption
<1>5. IF NextToken(P) = None
        THEN P = Rows(list, token) ELSE P # {} /\ NextToken(P) = CursorAt(P)
  BY <1>1, <1>3, <1>4 DEF NextToken
<1> QED BY <1>1, <1>5, AnswerKeeps DEF Answers

\* The answers of the queue.
LEMMA ListQueueKeeps ==
  ASSUME ListingInv, ListQueue
  PROVE  ListingInv'
<1> DEFINE C == Rows(list, token)
           Next1(P) == IF Cardinality(C) > size THEN CursorAt(P) ELSE None
<1>1. pc = "asked" /\ Acceptable
  BY DEF ListQueue, Asked
<1>2. PICK P \in SUBSET C : IsPage(P, C, size) /\ Show(P, Next1(P))
  BY DEF ListQueue
<1>3. Typed /\ pc # "idle" /\ C \in SUBSET Ids /\ size \in Nat \ {0}
  BY <1>1, RowsAreIds, ListOfTable, ListingAssumption DEF ListingInv, Typed
<1> HIDE DEF C
<1>4. /\ Cardinality(C) \in Nat
      /\ Cardinality(C) <= size => P = C
      /\ Cardinality(C) > size => P # {}
  BY <1>2, <1>3, PageIsFullOrAll
<1>5. P # {} => CursorAt(P) # None
  BY <1>2, <1>3, LastRow, ListingAssumption
<1>6. IF Next1(P) = None THEN P = C ELSE P # {} /\ Next1(P) = CursorAt(P)
  BY <1>3, <1>4, <1>5
<1> HIDE DEF Next1
<1>7. Answers(P, Next1(P))
  BY <1>1, <1>2, <1>6 DEF Answers, C
<1> QED BY <1>7, AnswerKeeps

\* What a request asks for does not change what the statements return.
LEMMA SameRows ==
  ASSUME UNCHANGED <<row, views>>, NEW l, NEW c
  PROVE  Rows(l, c)' = Rows(l, c)
BY DEF Rows, ListThreads, SearchThreads, ListMyThreads, ListComments,
       ListMyComments, ListPopular, ListReports, Live, Below, PairBelow

\* A request for the first page.
LEMMA OpenKeeps ==
  ASSUME ListingInv, NEW n \in Sizes, NEW l \in Lists[table], Open(l, n)
  PROVE  ListingInv'
<1> USE DEF ListingInv, store
<1>1. Typed' /\ CountFits'
  <2>1. Typed'
    <3>1. due' \subseteq Ids
      <4>1. l \in AllLists
        BY ListingAssumption DEF AllLists, Typed, TypeOK
      <4> QED BY <4>1, RowsAreIds DEF Open
    <3> QED BY <3>1 DEF Typed, TypeOK, Open
  <2> QED BY <2>1 DEF CountFits, Open
<1>2. TokenFits' /\ NoRepeat'
  BY DEF TokenFits, NoRepeat, Open
<1>3. SeenReached'
  BY ListingAssumption DEF SeenReached, Open, Typed
<1>4. DueAhead'
  <2>1. Rows(list, token)' = Rows(l, None)
    BY DEF Open, Typed, Rows, ListThreads, SearchThreads, ListMyThreads,
       ListComments, ListMyComments, ListPopular, ListReports, Live, Below, PairBelow
  <2> QED BY <2>1 DEF DueAhead, Open
<1> QED BY <1>1, <1>2, <1>3, <1>4

\* A request with a token: for the next page or for another list.
LEMMA NextPageKeeps ==
  ASSUME ListingInv, NEW n \in Sizes, NEW l \in Lists["threads"],
         Follow(n) \/ Paste(l, n)
  PROVE  ListingInv'
<1> USE DEF ListingInv, store
<1>1. /\ pc = "answered" /\ pc' = "asked" /\ token # None /\ size' = n
      /\ list' \in Lists[table]
      /\ UNCHANGED <<table, row, views, thread, token, seen, again>>
  BY DEF Follow, Paste, Typed
<1>2. list' \in AllLists
  BY <1>1, ListingAssumption DEF AllLists, Typed, TypeOK
<1>3. Rows(list, token)' = Rows(list', token)
  BY <1>1 DEF Rows, ListThreads, SearchThreads, ListMyThreads,
       ListComments, ListMyComments, ListPopular, ListReports, Live, Below, PairBelow
<1>4. due' \subseteq Ids
  BY <1>2, RowsAreIds DEF Follow, Paste, Typed, TypeOK
<1>5. Typed' /\ CountFits'
  BY <1>1, <1>4 DEF Typed, TypeOK, CountFits
<1>6. TokenFits' /\ NoRepeat' /\ SeenReached'
  BY <1>1 DEF TokenFits, NoRepeat, SeenReached, Reached
<1>7. DueAhead'
  <2>1. CASE Follow(n)
    BY <1>1, <1>3, <2>1 DEF DueAhead, Follow
  <2>2. CASE Paste(l, n)
    BY <1>1, <1>3, <2>2 DEF DueAhead, Paste
  <2> QED BY <2>1, <2>2
<1> QED BY <1>5, <1>6, <1>7

\* A damaged token is a token, but not one that is accepted.
LEMMA DamageKeeps ==
  ASSUME ListingInv, NEW n \in Sizes, Damage(n)
  PROVE  ListingInv'
<1> USE DEF ListingInv, store
<1>1. Damaged \notin Cursor /\ Damaged # None /\ ~(Damaged.id > 0)
  <2>1. Damaged.id = 0
    BY DEF Damaged
  <2>2. 0 \notin Ids
    BY ListingAssumption DEF Ids
  <2> QED BY <2>1, <2>2, CursorIds, ListingAssumption
<1>2. pc' = "asked" /\ token' = Damaged /\ ~Acceptable'
  BY <1>1 DEF Damage, Acceptable
<1>3. Typed' /\ CountFits'
  BY <1>1 DEF Damage, Typed, TypeOK, CountFits
<1>4. TokenFits' /\ NoRepeat' /\ SeenReached' /\ DueAhead'
  BY <1>1, <1>2 DEF TokenFits, NoRepeat, SeenReached, DueAhead, Damage
<1> QED BY <1>3, <1>4

\* A refusal, and the look for the thread.
LEMMA LookKeeps ==
  ASSUME ListingInv, Refuse \/ FindThread
  PROVE  ListingInv'
<1> USE DEF ListingInv, store
<1>1. /\ pc = "asked" /\ UNCHANGED <<table, row, views, thread, list, size, token, seen, again, due>>
      /\ pc' \in {"refused", "notFound"}
         \/ (pc' = "found" /\ list = "comments" /\ Acceptable)
  BY DEF Refuse, FindThread, Asked
<1>2. Rows(list, token)' = Rows(list, token) /\ Acceptable' = Acceptable
  BY <1>1 DEF Rows, ListThreads, SearchThreads, ListMyThreads, ListComments,
     ListMyComments, ListPopular, ListReports, Live, Below, PairBelow, Acceptable
<1>3. Typed' /\ CountFits'
  BY <1>1 DEF Typed, TypeOK, CountFits
<1>4. TokenFits' /\ NoRepeat' /\ DueAhead'
  BY <1>1, <1>2 DEF TokenFits, NoRepeat, DueAhead
<1>5. SeenReached'
  BY <1>1 DEF SeenReached, Reached
<1> QED BY <1>3, <1>4, <1>5

(***************************************************************************)
(* The others.                                                             *)
(***************************************************************************)
\* What the others do keeps the invariant if it takes nobody ahead of the
\* reader back, and nothing that is still due away.
LEMMA ChangeKeeps ==
  ASSUME ListingInv, Typed', UNCHANGED <<table, list, pc, size, token, seen, again>>,
         due' \subseteq due,
         \A x \in due' : x \in Rows(list, token) => x \in seen \cup Rows(list, token)',
         token \in Cursor => \A x \in seen : Reached(x) => Reached(x)'
  PROVE  ListingInv'
<1> USE DEF ListingInv
<1>1. CountFits' /\ NoRepeat' /\ TokenFits' /\ (Acceptable' = Acceptable)
  BY DEF CountFits, NoRepeat, TokenFits, Acceptable
<1>2. SeenReached'
  BY DEF SeenReached
<1>3. DueAhead'
  BY <1>1 DEF DueAhead
<1> QED BY <1>1, <1>2, <1>3

\* A row that is inserted, finished or removed takes nothing else away.
LEMMA RowChangeKeeps ==
  ASSUME ListingInv, Walking, NEW i \in Ids,
         Insert(i) \/ Remove(i) \/ \E how \in {"live", "void"} : Finish(i, how)
  PROVE  ListingInv'
<1>1. /\ UNCHANGED <<table, views, thread, list, pc, size, token, seen, again>>
      /\ \A x \in Ids \ {i} : row'[x] = row[x]
      /\ due' \subseteq due /\ (row[i] = "live" => i \notin due')
      /\ row[i] \in {"absent", "pending", "live"}
  BY DEF Insert, Remove, Finish, walk, ListingInv, Typed, TypeOK
<1>2. Typed /\ pc # "idle" /\ list \in AllLists
  BY ListOfTable DEF Walking, ListingInv
<1>3. Typed'
  BY <1>1, <1>2 DEF Typed, TypeOK, Insert, Remove, Finish, walk
<1>4. ASSUME NEW x \in due', x \in Rows(list, token)
      PROVE  x \in Rows(list, token)'
  <2>1. x \in Ids /\ x # i /\ row'[x] = row[x]
    <3>1. x \in Ids
      BY <1>2, <1>4, RowsAreIds
    <3>2. row[x] \in {"live", "gone"}
      BY <1>2, <1>4 DEF Rows, ListThreads, SearchThreads, ListMyThreads, ListComments,
         ListMyComments, ListPopular, ListReports, Live, AllLists, Lists
    <3> QED BY <1>1, <1>4, <3>1, <3>2
  <2>2. CASE list = "popular"
    BY <1>1, <1>4, <2>1, <2>2 DEF Rows, ListPopular, Live, PairBelow
  <2>3. CASE list \in {"open", "closed"}
    BY <1>1, <1>4, <2>1, <2>3 DEF Rows, ListReports
  <2>4. CASE list \in {"new", "search", "mine", "comments", "myComments"}
    BY <1>1, <1>4, <2>1, <2>4 DEF Rows, ListThreads, SearchThreads, ListMyThreads,
       ListComments, ListMyComments, Live, Below
  <2> QED BY <1>2, <2>2, <2>3, <2>4 DEF AllLists, Lists
<1>5. \A x \in seen : Reached(x) => Reached(x)'
  BY <1>1 DEF Reached, PairBelow
<1> QED BY <1>1, <1>3, <1>4, <1>5, ChangeKeeps

\* Higher counts take no row back in the order of popularity, and what climbs
\* past the reader is no longer due.
LEMMA FlushKeeps ==
  ASSUME ListingInv, Walking, NEW S \in SUBSET Ids, Flush(S)
  PROVE  ListingInv'
<1>1. /\ UNCHANGED <<table, row, thread, list, pc, size, token, seen, again>>
      /\ views' = [i \in Ids |-> IF i \in S THEN views[i] + 1 ELSE views[i]]
      /\ due' \subseteq due
  BY DEF Flush
<1>2. Typed /\ pc # "idle" /\ list \in AllLists
  BY ListOfTable DEF Walking, ListingInv
<1>3. /\ views \in [Ids -> Nat] /\ views' \in [Ids -> Nat]
      /\ \A i \in Ids : views'[i] >= views[i]
  BY <1>1, <1>2 DEF Typed, TypeOK
<1>4. Typed'
  BY <1>1, <1>2, <1>3 DEF Typed, TypeOK
<1>5. ASSUME NEW x \in due', x \in Rows(list, token)
      PROVE  x \in seen \cup Rows(list, token)'
  <2>1. CASE list # "popular"
    <3>1. CASE list \in {"open", "closed"}
      BY <1>1, <1>5, <3>1 DEF Rows, ListReports
    <3>2. CASE list \in {"new", "search", "mine", "comments", "myComments"}
      BY <1>1, <1>5, <3>2 DEF Rows, ListThreads, SearchThreads, ListMyThreads,
         ListComments, ListMyComments, Live, Below
    <3> QED BY <1>2, <2>1, <3>1, <3>2 DEF AllLists, Lists
  <2>2. CASE list = "popular"
    <3>1. x \in ListPopular(token)
      BY <1>5, <2>2 DEF Rows
    <3>2. CASE token \in Cursor /\ token.views # None
      <4>1. x \in seen \/ PairBelow(token, views'[x], x)
        BY <1>5, <2>2, <3>2 DEF Flush
      <4>2. x \in seen \/ x \in ListPopular(token)'
        BY <1>1, <3>1, <3>2, <4>1 DEF ListPopular, Live, PairBelow
      <4> QED BY <1>1, <2>2, <4>2 DEF Rows
    <3>3. CASE token = None \/ token.views = None
      <4>1. x \in ListPopular(token)'
        BY <1>1, <3>1, <3>3 DEF ListPopular, Live
      <4> QED BY <1>1, <2>2, <4>1 DEF Rows
    <3>4. token = None \/ token \in Cursor \/ token.views = None
      <4>1. Damaged.views = None
        BY DEF Damaged
      <4> QED BY <1>2, <4>1 DEF Typed, TypeOK
    <3> QED BY <3>2, <3>3, <3>4
  <2> QED BY <2>1, <2>2
<1>6. ASSUME token \in Cursor, NEW x \in seen, Reached(x)
      PROVE  Reached(x)'
  <2>1. x \in Ids /\ token.id \in Ids
    BY <1>2, <1>6 DEF Typed, TypeOK, Cursor
  <2>2. CASE table # "reports" /\ token.sort = "popular"
    <3>1. token.views \in Nat
      BY <1>6, <2>2 DEF ListingInv, CountFits, Cursor
    <3>2. ~PairBelow(token, views[x], x)
      BY <1>6, <2>2 DEF Reached
    <3>3. ~PairBelow(token, views'[x], x)
      BY <1>3, <2>1, <3>1, <3>2 DEF PairBelow, Ids
    <3> QED BY <1>1, <2>2, <3>3 DEF Reached, PairBelow
  <2>3. CASE table = "reports" \/ token.sort # "popular"
    BY <1>1, <1>6, <2>3 DEF Reached
  <2> QED BY <2>2, <2>3
<1> QED BY <1>1, <1>4, <1>5, <1>6, ChangeKeeps

\* The thread of the comments is not looked at again.
LEMMA DeleteThreadKeeps ==
  ASSUME ListingInv, DeleteThread
  PROVE  ListingInv'
<1>1. /\ UNCHANGED <<table, row, views, list, pc, size, token, seen, again, due>>
      /\ thread' = "deleted"
  BY DEF DeleteThread, walk
<1>2. Typed'
  BY <1>1 DEF ListingInv, Typed, TypeOK
<1>3. Rows(list, token)' = Rows(list, token)
  BY <1>1 DEF Rows, ListThreads, SearchThreads, ListMyThreads, ListComments,
     ListMyComments, ListPopular, ListReports, Live, Below, PairBelow
<1>4. \A x \in seen : Reached(x) => Reached(x)'
  BY <1>1 DEF Reached, PairBelow
<1> QED BY <1>1, <1>2, <1>3, <1>4, ChangeKeeps

\* The invariant holds at first and is kept by every step.
LEMMA ListingAlways == Spec => []ListingInv
<1>1. Init => ListingInv
  <2> SUFFICES ASSUME Init PROVE ListingInv
    OBVIOUS
  <2>1. Typed
    <3>1. row \in [Ids -> {"absent", "pending", "live", "gone", "void"}]
          /\ views \in [Ids -> Nat]
      BY ListingAssumption DEF Init
    <3> QED BY <3>1 DEF Init, Typed, TypeOK
  <2>2. CountFits /\ TokenFits /\ SeenReached /\ DueAhead /\ NoRepeat
    BY ListingAssumption
       DEF Init, CountFits, TokenFits, SeenReached, DueAhead, NoRepeat
  <2> QED BY <2>1, <2>2 DEF ListingInv
<1>2. ListingInv /\ [Next]_vars => ListingInv'
  <2> SUFFICES ASSUME ListingInv, [Next]_vars PROVE ListingInv'
    OBVIOUS
  <2>1. CASE Client
    <3>1. ASSUME NEW n \in Sizes, NEW l \in Lists[table], Open(l, n)
          PROVE  ListingInv'
      BY <3>1, OpenKeeps
    <3>2. ASSUME NEW n \in Sizes, NEW l \in Lists["threads"], Follow(n) \/ Paste(l, n)
          PROVE  ListingInv'
      BY <3>2, NextPageKeeps
    <3>3. ASSUME NEW n \in Sizes, Damage(n)
          PROVE  ListingInv'
      BY <3>3, DamageKeeps
    <3>4. Lists["threads"] # {}
      BY DEF Lists
    <3> QED BY <2>1, <3>1, <3>2, <3>3, <3>4 DEF Client
  <2>2. CASE Refuse \/ FindThread
    BY <2>2, LookKeeps
  <2>3. CASE FetchThreadList
    BY <2>3, FetchKeeps DEF FetchThreadList, Asked
  <2>4. CASE FetchMyThreadList \/ FetchMyComments \/ FetchComments
    <3>1. /\ pc \in {"asked", "found"} /\ Acceptable
          /\ list \in {"mine", "myComments", "comments"}
          /\ list = "mine" => Fetch(ListMyThreads(token))
          /\ list = "myComments" => Fetch(ListMyComments(token))
          /\ list = "comments" => Fetch(ListComments(token))
      BY <2>4 DEF FetchMyThreadList, FetchMyComments, FetchComments, Asked,
                  ListingInv, TokenFits, Typed
    <3>2. Fetch(Rows(list, token))
      BY <3>1 DEF Rows
    <3> QED BY <3>1, <3>2, FetchKeeps
  <2>5. CASE ListQueue
    BY <2>5, ListQueueKeeps
  <2>6. CASE Others
    <3>1. ASSUME NEW i \in Ids,
                 Insert(i) \/ Remove(i) \/ \E how \in {"live", "void"} : Finish(i, how)
          PROVE  ListingInv'
      BY <2>6, <3>1, RowChangeKeeps DEF Others
    <3>2. ASSUME NEW S \in SUBSET Ids, Flush(S)
          PROVE  ListingInv'
      BY <2>6, <3>2, FlushKeeps DEF Others
    <3> QED BY <2>6, <3>1, <3>2, DeleteThreadKeeps DEF Others
  <2>7. CASE UNCHANGED vars
    <3>1. /\ UNCHANGED <<table, row, views, thread, list, pc, size, token, seen, again, due>>
      BY <2>7 DEF vars, store, walk
    <3>2. Typed'
      BY <3>1 DEF ListingInv, Typed, TypeOK
    <3>3. Rows(list, token)' = Rows(list, token)
      BY <3>1 DEF Rows, ListThreads, SearchThreads, ListMyThreads, ListComments,
         ListMyComments, ListPopular, ListReports, Live, Below, PairBelow
    <3>4. \A x \in seen : Reached(x) => Reached(x)'
      BY <3>1 DEF Reached, PairBelow
    <3> QED BY <3>1, <3>2, <3>3, <3>4, ChangeKeeps
  <2> QED BY <2>1, <2>2, <2>3, <2>4, <2>5, <2>6, <2>7 DEF Next, Answer
<1> QED BY <1>1, <1>2, PTL DEF Spec

\* No page repeats a row of an earlier page, in any list, whatever is inserted,
\* deleted or re-ranked in between, and also when a token is used for another
\* list (pagination.go:1-15, the comparisons in threads.sql.go).
THEOREM NothingTwice == Spec => []NoRepeat
<1>1. ListingInv => NoRepeat
  BY DEF ListingInv
<1> QED BY <1>1, ListingAlways, PTL

\* When an answer says that there is no further page, every row that was in the
\* list all along and, by popularity, has not climbed past the reader, has been
\* shown (buildListResult, NextTokenFor, ListQueue).
THEOREM AllShown == Spec => []NothingSkipped
<1>1. ListingInv => NothingSkipped
  BY DEF ListingInv, DueAhead, NothingSkipped
<1> QED BY <1>1, ListingAlways, PTL
=============================================================================
