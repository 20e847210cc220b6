------------------------------- MODULE Paging -------------------------------
(***************************************************************************)
(* The list of restaurants, read page by page while it changes.  Each page *)
(* is a request of its own: paginate asks for the rows of the page and     *)
(* then for their number, outside any transaction, and a client goes on    *)
(* while hasNext says so.  Ids are uuid v4, and rows come in the order of  *)
(* their ids: a new restaurant appears anywhere in the list.  Clients only *)
(* read, so one is enough.                                                 *)
(***************************************************************************)
EXTENDS Integers, FiniteSets

CONSTANTS
    Rows,        \* ids of restaurants, as numbers in the order of the ids
    Categories,
    NoFilter,    \* getRestaurants without a categoryId
    NoRow,       \* there is no such restaurant yet
    Limits,      \* bound: sizes of a page
    FirstPages   \* bound: pages a client begins with

\* @Min(1) @IsInt() of PaginationRequest, which the ValidationPipe checks.
ASSUME PagingAssumption ==
    /\ Rows \subseteq Nat /\ IsFiniteSet(Rows)
    /\ NoFilter \notin Categories /\ NoRow \notin Categories
    /\ Limits \subseteq Nat \ {0}
    /\ FirstPages \subseteq Nat \ {0}

VARIABLES
    categoryOf, \* the table: the category of each restaurant, or NoRow
    step,       \* where the client is with its present page
    filter, limit, page,  \* the request
    data, total,          \* the rows of the answer (a set), and their number
    first,      \* history: the page it began with
    base,       \* history: what was on the list then, from that page on
    shown,      \* history: rows it was shown
    again,      \* history: rows it was shown twice
    came,       \* history: rows that came onto its list meanwhile
    left        \* history: rows that left it

requestVars == <<filter, limit, page>>
historyVars == <<first, base, shown, again, came, left>>
vars == <<categoryOf, step, requestVars, data, total, historyVars>>

created == {r \in Rows : categoryOf[r] # NoRow}

\* WHERE category_id = f
List(f) == {r \in created : f = NoFilter \/ categoryOf[r] = f}

\* s holds the first n rows of list, or all if there are no more.
IsFirst(s, list, n) ==
    /\ s \subseteq list
    /\ \A x \in s, y \in list \ s : x < y
    /\ IF Cardinality(list) <= n THEN s = list ELSE Cardinality(s) = n

PagingTypeOK ==
    /\ categoryOf \in [Rows -> Categories \cup {NoRow}]
    /\ step \in {"idle", "find", "count", "answered"}
    /\ filter \in Categories \cup {NoFilter}
    /\ limit \in Nat \ {0}
    /\ page \in Nat \ {0}
    /\ data \subseteq Rows
    /\ total \in Nat
    /\ first \in Nat \ {0}
    /\ base \subseteq Rows
    /\ again \subseteq shown /\ shown \subseteq Rows
    /\ came \subseteq Rows
    /\ left \subseteq Rows

\* The default values of PaginationRequest.
PAGE_DEFAULT == 1
LIMIT_DEFAULT == 10

Init ==
    /\ categoryOf = [r \in Rows |-> NoRow]
    /\ step = "idle"
    /\ filter = NoFilter /\ limit = LIMIT_DEFAULT /\ page = PAGE_DEFAULT /\ first = page
    /\ data = {} /\ total = 0
    /\ base = {} /\ shown = {} /\ again = {} /\ came = {} /\ left = {}

-----------------------------------------------------------------------------
(* The table; how these two interleave inside is the matter of Catalogue   *)

NewIds == Rows \ created

\* What the change of the table does to the list of the client.
ListChanges ==
    /\ UNCHANGED <<step, requestVars, data, total, first, base, shown, again>>
    /\ IF step = "idle" THEN UNCHANGED <<came, left>>
       ELSE /\ came' = came \cup (List(filter)' \ List(filter))
            /\ left' = left \cup (List(filter) \ List(filter)')

\* Its commit.
createRestaurant(r, category) ==
    /\ r \in NewIds
    /\ categoryOf' = [categoryOf EXCEPT ![r] = category]
    /\ ListChanges

\* Its commit; only the category matters to a list.
updateRestaurant(r, category) ==
    /\ r \in created
    /\ categoryOf[r] # category
    /\ categoryOf' = [categoryOf EXCEPT ![r] = category]
    /\ ListChanges

-----------------------------------------------------------------------------
(* PaginationRequest, PaginationResponse                                   *)

getHasNext(p, n, count) == p * n < count

totalPages(n, count) == (count + n - 1) \div n

\* Mutant: as many pages as the whole pages, and one more.
hasNext_floor(p, n, count) == count \div n + 1 > p

hasNext(p, n, count) == totalPages(n, count) > p

-----------------------------------------------------------------------------
(* A client reads the list                                                 *)

Skip == (page - 1) * limit

open(f, n, p) ==
    /\ step = "idle"
    /\ step' = "find"
    /\ filter' = f /\ limit' = n /\ page' = p
    /\ first' = p
    /\ \E before \in SUBSET List(f) :
        IsFirst(before, List(f), (p - 1) * n) /\ base' = List(f) \ before
    /\ UNCHANGED <<categoryOf, data, total, shown, again, came, left>>

TakeRows(skip, take) ==
    LET list == List(filter)
    IN  /\ step = "find"
        /\ step' = "count"
        /\ \E before \in SUBSET list :
            /\ IsFirst(before, list, skip)
            /\ data' \in SUBSET (list \ before)
            /\ IsFirst(data', list \ before, take)
        /\ shown' = shown \cup data'
        /\ again' = again \cup (shown \cap data')
        /\ UNCHANGED <<categoryOf, requestVars, total, first, base, came, left>>

\* Mutant: pages are counted from 0.
findRows_fromZero == TakeRows(page * limit, limit)

\* Mutant: one row more is taken, to see whether there is a next page.
findRows_peek == TakeRows(Skip, limit + 1)

\* SELECT ... LIMIT limit OFFSET (page - 1) * limit, without an ORDER BY: InnoDB
\* reads the clustered index, or that of category_id, in the order of the ids.
findRows == TakeRows(Skip, limit)

\* Mutant: the length of the page goes into setTotalCount.
countRows_ofPage ==
    /\ step = "count"
    /\ step' = "answered"
    /\ total' = Cardinality(data)
    /\ UNCHANGED <<categoryOf, requestVars, data, historyVars>>

\* SELECT COUNT(*) by its own; findAndCount may save it after a page that is short.
countRows ==
    /\ step = "count"
    /\ step' = "answered"
    /\ \/ total' = Cardinality(List(filter))
       \/ Cardinality(data) < limit /\ total' = Skip + Cardinality(data)
    /\ UNCHANGED <<categoryOf, requestVars, data, historyVars>>

Finished == step = "answered" /\ ~hasNext(page, limit, total)

readOn ==
    /\ step = "answered"
    /\ hasNext(page, limit, total)
    /\ step' = "find"
    /\ page' = page + 1
    /\ UNCHANGED <<categoryOf, filter, limit, data, total, historyVars>>

\* What was read is forgotten.
close ==
    /\ Finished
    /\ step' = "idle"
    /\ filter' = NoFilter /\ limit' = LIMIT_DEFAULT /\ page' = PAGE_DEFAULT /\ first' = page'
    /\ data' = {} /\ total' = 0
    /\ base' = {} /\ shown' = {} /\ again' = {} /\ came' = {} /\ left' = {}
    /\ UNCHANGED categoryOf

Next ==
    \/ \E r \in Rows, category \in Categories : createRestaurant(r, category)
    \/ \E r \in Rows, category \in Categories : updateRestaurant(r, category)
    \/ \E f \in Categories \cup {NoFilter}, n \in Limits, p \in FirstPages : open(f, n, p)
    \/ findRows
    \/ countRows
    \/ readOn
    \/ close

Spec == Init /\ [][Next]_vars

-----------------------------------------------------------------------------
(* Properties                                                              *)

\* A client that has read to the end was shown each row that was on the list from
\* beginning to end, unless a row before it left the list meanwhile: rows that come
\* in, between pages or between the two queries of one, make it miss nothing.
NoRowSkipped ==
    Finished => \A r \in base \ (shown \cup left) : \E x \in left : x < r

\* It is shown a row twice only if a row came in before that one.
NoRowTwice == \A r \in again : \E x \in came : x < r

\* The page that hasNext promises is not empty, unless a row left the list.
PromisedPageIsNotEmpty ==
    step \in {"count", "answered"} /\ page > first /\ data = {} => left # {}

\* As long as the list keeps still, the total of an answer is the number of its
\* rows, whichever way findAndCount takes (of a page past the end it need not be).
TotalOfAQuietList ==
    step = "answered" /\ came = {} /\ left = {} /\ (data # {} \/ page = 1) =>
        total = Cardinality(List(filter))
=============================================================================
