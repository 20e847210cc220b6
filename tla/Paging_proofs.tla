---------------------------- MODULE Paging_proofs ----------------------------
(***************************************************************************)
(* Proofs about Paging for every set of ids, of categories, of page sizes  *)
(* and of first pages.  A row has a rank, the number of rows before it.  A *)
(* row that comes in only raises the rank of others, a row that leaves     *)
(* only lowers it: the argument compares ranks with the place up to which  *)
(* the client has read.                                                    *)
(***************************************************************************)
EXTENDS Paging, FiniteSetTheorems, TLAPS

RowsBefore(r, list) == {x \in list : x < r}
Rank(r, list) == Cardinality(RowsBefore(r, list))

\* Up to where the client has read the list.
Bound == IF step = "find" THEN Skip ELSE Skip + limit

\* A row the client was owed and not shown, although none left before it.
Missed(r) ==
    /\ r \in base /\ r \notin shown /\ r \notin left
    /\ \A x \in left : ~(x < r)

\* A row the client was shown, and none came before it.
Settled(r) == r \in shown /\ \A x \in came : ~(x < r)

\* What a page that is short says of the rows before it.
ShortOfAQuietList ==
    step = "count" /\ Cardinality(data) < limit /\ came = {} /\ left = {}
        /\ (data # {} \/ page = 1) =>
            Cardinality(List(filter)) = Skip + Cardinality(data)

NothingShownYet == step = "idle" => shown = {}

RanksOK ==
    step # "idle" =>
        /\ base \ left \subseteq List(filter)
        /\ \A r : Missed(r) => Rank(r, List(filter)) >= Bound
        /\ \A r : Settled(r) => Rank(r, List(filter)) < Bound

\* When the answer is the last one, or is going to be, nothing was missed.
EndsOK ==
    /\ step = "count" /\ Cardinality(data) < limit => \A r : ~Missed(r)
    /\ step = "answered" /\ total <= Skip + limit => \A r : ~Missed(r)

\* When there is to be another page, there is another row.
LengthOK ==
    /\ step = "find" /\ page > first /\ left = {} => Cardinality(List(filter)) > Skip
    /\ step = "answered" /\ total > Skip + limit /\ left = {} =>
            Cardinality(List(filter)) > Skip + limit

PInv ==
    /\ PagingTypeOK
    /\ NothingShownYet
    /\ RanksOK
    /\ NoRowTwice
    /\ EndsOK
    /\ LengthOK
    /\ PromisedPageIsNotEmpty
    /\ ShortOfAQuietList
    /\ TotalOfAQuietList

-----------------------------------------------------------------------------
(* Pages of a finite list                                                  *)

LEMMA FirstRowsAreBefore ==
    ASSUME NEW list, IsFiniteSet(list), NEW s, NEW n \in Nat, IsFirst(s, list, n),
           NEW r \in list \ s
    PROVE  Rank(r, list) >= n
<1>1. s \subseteq list /\ s # list
    BY DEF IsFirst
<1>2. Cardinality(list) \in Nat
    BY FS_CardinalityType
<1>3. Cardinality(s) = n
    BY <1>1 DEF IsFirst
<1>4. s \subseteq RowsBefore(r, list)
    BY DEF IsFirst, RowsBefore
<1>5. IsFiniteSet(RowsBefore(r, list))
  <2>1. RowsBefore(r, list) \in SUBSET list
      BY DEF RowsBefore
  <2>. QED  BY <2>1, FS_Subset
<1>6. Cardinality(s) <= Cardinality(RowsBefore(r, list))
    BY <1>4, <1>5, FS_Subset
<1>7. Cardinality(RowsBefore(r, list)) \in Nat
    BY <1>5, FS_CardinalityType
<1>. QED  BY <1>3, <1>6, <1>7 DEF Rank

LEMMA FirstRowsAreFew ==
    ASSUME NEW list, IsFiniteSet(list), NEW s, NEW n \in Nat, IsFirst(s, list, n)
    PROVE  /\ IsFiniteSet(s)
           /\ Cardinality(s) \in Nat
           /\ Cardinality(s) <= n
           /\ s # list => Cardinality(s) = n
           /\ s # list => Cardinality(list) > n
<1>1. s \in SUBSET list
    BY DEF IsFirst
<1>2. IsFiniteSet(s)
    BY <1>1, FS_Subset
<1>3. Cardinality(s) \in Nat /\ Cardinality(list) \in Nat
    BY <1>2, FS_CardinalityType
<1>. QED  BY <1>2, <1>3 DEF IsFirst

LEMMA RankInFirstRows ==
    ASSUME NEW list, IsFiniteSet(list), list \subseteq Nat,
           NEW s, NEW n \in Nat, IsFirst(s, list, n), NEW r \in s
    PROVE  Rank(r, list) < n
<1>1. s \subseteq list /\ \A x \in s, y \in list \ s : x < y
    BY DEF IsFirst
<1>2. RowsBefore(r, list) \subseteq s \ {r}
  <2>1. ASSUME NEW y \in list, y < r PROVE y \in s /\ y # r
    <3>1. y \in Nat /\ r \in Nat
        BY <1>1
    <3>2. y \notin s => r < y
        BY <1>1
    <3>. QED  BY <2>1, <3>1, <3>2
  <2>. QED  BY <2>1 DEF RowsBefore
<1>3. IsFiniteSet(s) /\ Cardinality(s) \in Nat /\ Cardinality(s) <= n
    BY FirstRowsAreFew
<1>4. IsFiniteSet(s \ {r}) /\ Cardinality(s \ {r}) = Cardinality(s) - 1
    BY <1>3, FS_RemoveElement
<1>5. /\ IsFiniteSet(RowsBefore(r, list))
      /\ Cardinality(RowsBefore(r, list)) <= Cardinality(s \ {r})
    BY <1>2, <1>4, FS_Subset
<1>6. Cardinality(RowsBefore(r, list)) \in Nat
    BY <1>5, FS_CardinalityType
<1>. QED  BY <1>3, <1>4, <1>5, <1>6 DEF Rank

LEMMA SplitCardinality ==
    ASSUME NEW list, IsFiniteSet(list), NEW s \in SUBSET list
    PROVE  /\ IsFiniteSet(s) /\ IsFiniteSet(list \ s)
           /\ Cardinality(s) \in Nat /\ Cardinality(list \ s) \in Nat
           /\ Cardinality(list) = Cardinality(s) + Cardinality(list \ s)
<1>1. IsFiniteSet(s)
    BY FS_Subset
<1>2. list \cap s = s
    OBVIOUS
<1>3. IsFiniteSet(list \ s) /\ Cardinality(list \ s) = Cardinality(list) - Cardinality(s)
    BY <1>2, FS_Difference, Zenon
<1>4. Cardinality(list) \in Nat /\ Cardinality(s) \in Nat /\ Cardinality(list \ s) \in Nat
    BY <1>1, <1>3, FS_CardinalityType
<1>. QED  BY <1>1, <1>3, <1>4

\* The first m rows and the first n of the others are the first m + n.
LEMMA FirstOfTheRest ==
    ASSUME NEW list, IsFiniteSet(list), NEW m \in Nat, NEW n \in Nat,
           NEW b, IsFirst(b, list, m), NEW d, IsFirst(d, list \ b, n)
    PROVE  IsFirst(b \cup d, list, m + n)
<1>1. b \in SUBSET list /\ d \in SUBSET (list \ b)
    BY DEF IsFirst
<1>2. \A x \in b \cup d, y \in list \ (b \cup d) : x < y
    BY <1>1 DEF IsFirst
<1>3. /\ IsFiniteSet(list \ b)
      /\ Cardinality(b) \in Nat /\ Cardinality(list \ b) \in Nat
      /\ Cardinality(list) = Cardinality(b) + Cardinality(list \ b)
    BY <1>1, SplitCardinality
<1>4. /\ IsFiniteSet((list \ b) \ d)
      /\ Cardinality(d) \in Nat /\ Cardinality((list \ b) \ d) \in Nat
      /\ Cardinality(list \ b) = Cardinality(d) + Cardinality((list \ b) \ d)
    BY <1>1, <1>3, SplitCardinality
<1>5. (b \cup d) \in SUBSET list /\ list \ (b \cup d) = (list \ b) \ d
    BY <1>1
<1>6. /\ Cardinality(b \cup d) \in Nat
      /\ Cardinality(list) = Cardinality(b \cup d) + Cardinality((list \ b) \ d)
  <2> DEFINE e == b \cup d
  <2>1. e \in SUBSET list /\ list \ e = (list \ b) \ d
      BY <1>5
  <2> HIDE DEF e
  <2>2. Cardinality(e) \in Nat /\ Cardinality(list) = Cardinality(e) + Cardinality(list \ e)
      BY <2>1, SplitCardinality
  <2>. QED  BY <2>1, <2>2 DEF e
<1>7. Cardinality(b \cup d) = Cardinality(b) + Cardinality(d)
    BY <1>3, <1>4, <1>6
<1>8. CASE Cardinality(list) <= m
  <2>1. b = list
      BY <1>8 DEF IsFirst
  <2>2. b \cup d = list
      BY <1>1, <2>1
  <2>. QED  BY <1>1, <1>2, <1>3, <1>8, <2>2 DEF IsFirst
<1>9. CASE ~(Cardinality(list) <= m)
  <2>1. Cardinality(b) = m
      BY <1>9 DEF IsFirst
  <2>2. CASE Cardinality(list \ b) <= n
    <3>1. d = list \ b
        BY <2>2 DEF IsFirst
    <3>2. b \cup d = list
        BY <1>1, <3>1
    <3>3. Cardinality(list) <= m + n
        BY <1>3, <2>1, <2>2
    <3>. QED  BY <1>1, <1>2, <3>2, <3>3 DEF IsFirst
  <2>3. CASE ~(Cardinality(list \ b) <= n)
    <3>1. Cardinality(d) = n
        BY <2>3 DEF IsFirst
    <3>2. ~(Cardinality(list) <= m + n)
        BY <1>3, <2>1, <2>3
    <3>. QED  BY <1>2, <1>5, <1>7, <2>1, <3>1, <3>2 DEF IsFirst
  <2>. QED  BY <2>2, <2>3
<1>. QED  BY <1>8, <1>9

\* Only a row that leaves before r lowers the rank of r.
LEMMA RankGrows ==
    ASSUME NEW old, IsFiniteSet(old), NEW new, IsFiniteSet(new), NEW r,
           \A x \in old \ new : ~(x < r)
    PROVE  /\ Rank(r, old) \in Nat /\ Rank(r, new) \in Nat
           /\ Rank(r, old) <= Rank(r, new)
<1>1. RowsBefore(r, old) \in SUBSET RowsBefore(r, new)
    BY DEF RowsBefore
<1>2. RowsBefore(r, new) \in SUBSET new
    BY DEF RowsBefore
<1>3. IsFiniteSet(RowsBefore(r, new))
    BY <1>2, FS_Subset
<1>4. /\ IsFiniteSet(RowsBefore(r, old))
      /\ Cardinality(RowsBefore(r, old)) <= Cardinality(RowsBefore(r, new))
    BY <1>1, <1>3, FS_Subset
<1>. QED  BY <1>3, <1>4, FS_CardinalityType DEF Rank

LEMMA RankBelowLength ==
    ASSUME NEW list, IsFiniteSet(list), list \subseteq Nat, NEW r \in list
    PROVE  /\ Rank(r, list) \in Nat /\ Cardinality(list) \in Nat
           /\ Rank(r, list) < Cardinality(list)
<1>1. RowsBefore(r, list) \subseteq list \ {r}
    BY DEF RowsBefore
<1>2. IsFiniteSet(list \ {r}) /\ Cardinality(list \ {r}) = Cardinality(list) - 1
    BY FS_RemoveElement
<1>3. /\ IsFiniteSet(RowsBefore(r, list))
      /\ Cardinality(RowsBefore(r, list)) <= Cardinality(list \ {r})
    BY <1>1, <1>2, FS_Subset
<1>4. Cardinality(RowsBefore(r, list)) \in Nat /\ Cardinality(list) \in Nat
    BY <1>3, FS_CardinalityType
<1>. QED  BY <1>2, <1>3, <1>4 DEF Rank

-----------------------------------------------------------------------------
(* The numbers of an answer                                                *)

LEMMA ProductGrows ==
    ASSUME NEW a \in Nat, NEW b \in Nat, NEW n \in Nat, a <= b
    PROVE  a * n \in Nat /\ b * n \in Nat /\ a * n <= b * n
<1>1. PICK d \in Nat : b = a + d
  <2>1. b - a \in Nat /\ b = a + (b - a)
      OBVIOUS
  <2>. QED  BY <2>1
<1>2. b * n = a * n + d * n
    BY <1>1
<1>3. a * n \in Nat /\ d * n \in Nat
    OBVIOUS
<1>. QED  BY <1>2, <1>3

LEMMA SkipToNext ==
    ASSUME NEW p \in Nat \ {0}, NEW n \in Nat \ {0}
    PROVE  /\ (p - 1) * n \in Nat
           /\ p * n = (p - 1) * n + n
           /\ (p - 1) * n + n \in Nat
<1>1. (p - 1) * n \in Nat
  <2>1. p - 1 \in Nat
      OBVIOUS
  <2>. QED  BY <2>1
<1>2. p * n = (p - 1) * n + n
    OBVIOUS
<1>. QED  BY <1>1, <1>2

\* PaginationResponse and getHasNext of PaginationRequest agree for every page, limit
\* and total: the service may take either.
THEOREM SameHasNext ==
    \A p, n \in Nat \ {0}, count \in Nat : hasNext(p, n, count) <=> getHasNext(p, n, count)
<1> SUFFICES ASSUME NEW p \in Nat \ {0}, NEW n \in Nat \ {0}, NEW count \in Nat
             PROVE  hasNext(p, n, count) <=> getHasNext(p, n, count)
    OBVIOUS
<1> DEFINE q == (count + n - 1) \div n
<1>1. q \in Nat /\ q * n <= count + n - 1 /\ count + n - 1 < q * n + n
  <2> DEFINE c == count + n - 1
  <2>1. c \in Nat /\ n \in Nat /\ n > 0
      OBVIOUS
  <2>2. c \div n \in Nat /\ (c \div n) * n <= c /\ c < (c \div n) * n + n
    <3> HIDE DEF c
    <3>1. c \div n \in Int /\ c % n \in 0 .. n - 1 /\ c = n * (c \div n) + (c % n)
        BY <2>1
    <3>2. c \div n >= 0
        BY <2>1
    <3>. QED  BY <2>1, <3>1, <3>2
  <2>. QED  BY <2>2
<1> HIDE DEF q
<1>2. CASE q > p
  <2>1. (p + 1) * n <= q * n
      BY <1>1, <1>2, ProductGrows
  <2>2. (p + 1) * n = p * n + n /\ p * n \in Nat /\ q * n \in Nat
      BY <1>1
  <2>3. p * n < count
      BY <1>1, <2>1, <2>2
  <2>. QED  BY <1>2, <2>3 DEF hasNext, totalPages, getHasNext, q
<1>3. CASE ~(q > p)
  <2>1. q * n <= p * n /\ q * n \in Nat /\ p * n \in Nat
      BY <1>1, <1>3, ProductGrows
  <2>2. ~(p * n < count)
      BY <1>1, <2>1
  <2>. QED  BY <1>3, <2>2 DEF hasNext, totalPages, getHasNext, q
<1>. QED  BY <1>2, <1>3

-----------------------------------------------------------------------------
(* Types                                                                   *)

LEMMA RowSets ==
    ASSUME NEW s \in SUBSET Rows
    PROVE  IsFiniteSet(s) /\ s \subseteq Nat /\ Cardinality(s) \in Nat
<1>1. IsFiniteSet(s)
    BY PagingAssumption, FS_Subset
<1>. QED  BY <1>1, PagingAssumption, FS_CardinalityType

LEMMA ListOfRows ==
    ASSUME NEW f
    PROVE  List(f) \in SUBSET Rows /\ List(f)' \in SUBSET Rows
BY DEF List, created

LEMMA Numbers ==
    ASSUME PagingTypeOK
    PROVE  /\ Skip \in Nat /\ limit \in Nat /\ limit > 0 /\ Skip + limit \in Nat
           /\ page * limit = Skip + limit
           /\ Bound \in Nat
<1>1. page \in Nat \ {0} /\ limit \in Nat \ {0}
    BY DEF PagingTypeOK
<1>. HIDE DEF Skip
<1>2. Skip \in Nat /\ page * limit = Skip + limit
    BY <1>1, SkipToNext DEF Skip
<1>. QED  BY <1>1, <1>2 DEF Bound

LEMMA HasNextByProduct ==
    ASSUME PagingTypeOK
    PROVE  hasNext(page, limit, total) <=> total > Skip + limit
<1>1. page \in Nat \ {0} /\ limit \in Nat \ {0} /\ total \in Nat
    BY DEF PagingTypeOK
<1>2. hasNext(page, limit, total) <=> page * limit < total
    BY <1>1, SameHasNext DEF getHasNext
<1>3. page * limit = Skip + limit /\ Skip + limit \in Nat
    BY Numbers
<1>. QED  BY <1>1, <1>2, <1>3

LEMMA TypesKept ==
    ASSUME PagingTypeOK, [Next]_vars
    PROVE  PagingTypeOK'
<1>. USE DEF PagingTypeOK
<1>1. ASSUME NEW r \in Rows, NEW category \in Categories, createRestaurant(r, category)
      PROVE  PagingTypeOK'
  <2>1. categoryOf' \in [Rows -> Categories \cup {NoRow}]
      BY <1>1 DEF createRestaurant
  <2>2. came' \subseteq Rows /\ left' \subseteq Rows
      BY <1>1, ListOfRows DEF createRestaurant, ListChanges
  <2>. QED  BY <1>1, <2>1, <2>2 DEF createRestaurant, ListChanges, requestVars
<1>2. ASSUME NEW r \in Rows, NEW category \in Categories, updateRestaurant(r, category)
      PROVE  PagingTypeOK'
  <2>1. categoryOf' \in [Rows -> Categories \cup {NoRow}]
      BY <1>2 DEF updateRestaurant
  <2>2. came' \subseteq Rows /\ left' \subseteq Rows
      BY <1>2, ListOfRows DEF updateRestaurant, ListChanges
  <2>. QED  BY <1>2, <2>1, <2>2 DEF updateRestaurant, ListChanges, requestVars
<1>3. ASSUME NEW f \in Categories \cup {NoFilter}, NEW n \in Limits, NEW p \in FirstPages,
             open(f, n, p)
      PROVE  PagingTypeOK'
  <2>1. n \in Nat \ {0} /\ p \in Nat \ {0}
      BY PagingAssumption
  <2>2. base' \subseteq Rows
      BY <1>3, ListOfRows DEF open
  <2>. QED  BY <1>3, <2>1, <2>2 DEF open
<1>4. ASSUME findRows PROVE PagingTypeOK'
  <2>1. data' \subseteq Rows
      BY <1>4, ListOfRows DEF findRows, TakeRows
  <2>. QED  BY <1>4, <2>1 DEF findRows, TakeRows, requestVars
<1>5. ASSUME countRows PROVE PagingTypeOK'
  <2>1. Cardinality(List(filter)) \in Nat /\ Cardinality(data) \in Nat
      BY ListOfRows, RowSets
  <2>2. Skip + Cardinality(data) \in Nat
      BY <2>1, Numbers
  <2>3. total' \in Nat
      BY <1>5, <2>1, <2>2 DEF countRows
  <2>. QED  BY <1>5, <2>3 DEF countRows, requestVars, historyVars
<1>6. ASSUME readOn PROVE PagingTypeOK'
    BY <1>6 DEF readOn, historyVars
<1>7. ASSUME close PROVE PagingTypeOK'
    BY <1>7, PagingAssumption DEF close, LIMIT_DEFAULT, PAGE_DEFAULT
<1>8. ASSUME UNCHANGED vars PROVE PagingTypeOK'
    BY <1>8 DEF vars, requestVars, historyVars
<1>. QED  BY <1>1, <1>2, <1>3, <1>4, <1>5, <1>6, <1>7, <1>8 DEF Next

LEMMA InitTypes == Init => PagingTypeOK
BY PagingAssumption DEF Init, PagingTypeOK, LIMIT_DEFAULT, PAGE_DEFAULT

\* Clients see only values of the declared kinds, whatever they ask for and
\* whatever happens to the table.
THEOREM PagingTypeCorrect == Spec => []PagingTypeOK
<1>1. Init => PagingTypeOK
    BY InitTypes
<1>2. PagingTypeOK /\ [Next]_vars => PagingTypeOK'
    BY TypesKept
<1>. QED  BY <1>1, <1>2, PTL DEF Spec

-----------------------------------------------------------------------------
(* The invariant                                                           *)

LEMMA InitInvariant == Init => PInv
<1> SUFFICES ASSUME Init PROVE PInv
    OBVIOUS
<1>1. PagingTypeOK
    BY InitTypes
<1>2. NothingShownYet /\ RanksOK
    BY DEF Init, NothingShownYet, RanksOK
<1>3. NoRowTwice /\ EndsOK /\ LengthOK
    BY DEF Init, NoRowTwice, EndsOK, LengthOK
<1>4. PromisedPageIsNotEmpty /\ ShortOfAQuietList /\ TotalOfAQuietList
    BY DEF Init, PromisedPageIsNotEmpty, ShortOfAQuietList, TotalOfAQuietList
<1>. QED  BY <1>1, <1>2, <1>3, <1>4 DEF PInv

\* A new restaurant, or another category of one.
LEMMA TableStep ==
    ASSUME PInv, PagingTypeOK', ListChanges
    PROVE  PInv'
<1> DEFINE L == List(filter)
           N == List(filter)'
<1>1. UNCHANGED <<step, filter, limit, page, data, total, first, base, shown, again>>
    BY DEF ListChanges, requestVars
<1>2. Skip' = Skip /\ Bound' = Bound
    BY <1>1 DEF Skip, Bound
<1>3. CASE step = "idle"
  <2>1. came' = came /\ left' = left /\ step' = "idle"
      BY <1>1, <1>3 DEF ListChanges
  <2>2. NothingShownYet' /\ RanksOK'
      BY <1>1, <2>1 DEF NothingShownYet, RanksOK, PInv
  <2>3. NoRowTwice' /\ EndsOK' /\ LengthOK'
      BY <1>1, <2>1 DEF NoRowTwice, EndsOK, LengthOK, PInv
  <2>4. PromisedPageIsNotEmpty' /\ ShortOfAQuietList' /\ TotalOfAQuietList'
      BY <2>1 DEF PromisedPageIsNotEmpty, ShortOfAQuietList, TotalOfAQuietList
  <2>. QED  BY <2>2, <2>3, <2>4 DEF PInv
<1>4. CASE step # "idle"
  <2>1. came' = came \cup (N \ L) /\ left' = left \cup (L \ N)
      BY <1>4 DEF ListChanges
  <2>2. IsFiniteSet(L) /\ IsFiniteSet(N) /\ Cardinality(L) \in Nat /\ Cardinality(N) \in Nat
      BY ListOfRows, RowSets
  <2>3. \A r : Missed(r)' => Missed(r) /\ \A x \in L \ N : ~(x < r)
      BY <1>1, <2>1 DEF Missed
  <2>4. \A r : Settled(r)' => Settled(r) /\ \A x \in N \ L : ~(x < r)
      BY <1>1, <2>1 DEF Settled
  <2>5. /\ base \ left \subseteq L
        /\ \A r : Missed(r) => Rank(r, L) >= Bound
        /\ \A r : Settled(r) => Rank(r, L) < Bound
      BY <1>4 DEF PInv, RanksOK
  <2>6. Skip \in Nat /\ limit \in Nat /\ Bound \in Nat
      BY Numbers DEF PInv
  <2>7. left' = {} => left = {} /\ Cardinality(L) <= Cardinality(N)
    <3>1. ASSUME left' = {} PROVE L \in SUBSET N /\ left = {}
        BY <2>1, <3>1
    <3>. QED  BY <2>2, <3>1, FS_Subset
  <2>8. left' = {} /\ came' = {} => left = {} /\ came = {} /\ N = L
      BY <2>1
  <2> HIDE DEF L, N
  <2>9. RanksOK'
    <3>1. base' \ left' \subseteq N
        BY <1>1, <2>1, <2>5
    <3>2. ASSUME NEW r, Missed(r)' PROVE Rank(r, N) >= Bound'
      <4>1. Rank(r, L) >= Bound /\ \A x \in L \ N : ~(x < r)
          BY <2>3, <2>5, <3>2
      <4>2. Rank(r, L) \in Nat /\ Rank(r, N) \in Nat /\ Rank(r, L) <= Rank(r, N)
          BY <2>2, <4>1, RankGrows
      <4>. QED  BY <1>2, <2>6, <4>1, <4>2
    <3>3. ASSUME NEW r, Settled(r)' PROVE Rank(r, N) < Bound'
      <4>1. Rank(r, L) < Bound /\ \A x \in N \ L : ~(x < r)
          BY <2>4, <2>5, <3>3
      <4>2. Rank(r, L) \in Nat /\ Rank(r, N) \in Nat /\ Rank(r, N) <= Rank(r, L)
          BY <2>2, <4>1, RankGrows
      <4>. QED  BY <1>2, <2>6, <4>1, <4>2
    <3>. QED  BY <3>1, <3>2, <3>3, Zenon DEF RanksOK, N, Rank, RowsBefore
  <2>10. NothingShownYet' /\ NoRowTwice'
      BY <1>1, <2>1 DEF NothingShownYet, NoRowTwice, PInv
  <2>11. EndsOK'
      BY <1>1, <1>2, <2>3, Zenon DEF EndsOK, PInv
  <2>12. LengthOK'
    <3>1. CASE left' = {}
      <4>1. /\ step = "find" /\ page > first => Cardinality(L) > Skip
            /\ step = "answered" /\ total > Skip + limit => Cardinality(L) > Skip + limit
          BY <2>7, <3>1 DEF LengthOK, PInv, L
      <4>2. Cardinality(L) <= Cardinality(N)
          BY <2>7, <3>1
      <4>3. /\ step = "find" /\ page > first => Cardinality(N) > Skip
            /\ step = "answered" /\ total > Skip + limit => Cardinality(N) > Skip + limit
          BY <2>2, <2>6, <4>1, <4>2
      <4>. QED  BY <1>1, <1>2, <4>3 DEF LengthOK, N
    <3>2. CASE left' # {}
        BY <3>2 DEF LengthOK
    <3>. QED  BY <3>1, <3>2
  <2>13. PromisedPageIsNotEmpty'
      BY <1>1, <2>1 DEF PromisedPageIsNotEmpty, PInv
  <2>14. ShortOfAQuietList' /\ TotalOfAQuietList'
      BY <1>1, <1>2, <2>8 DEF ShortOfAQuietList, TotalOfAQuietList, PInv, N, L
  <2>. QED  BY <2>9, <2>10, <2>11, <2>12, <2>13, <2>14 DEF PInv
<1>. QED  BY <1>3, <1>4

LEMMA OpenStep ==
    ASSUME PInv, PagingTypeOK',
           NEW f \in Categories \cup {NoFilter}, NEW n \in Nat \ {0}, NEW p \in Nat \ {0},
           open(f, n, p)
    PROVE  PInv'
<1>1. /\ step = "idle" /\ step' = "find" /\ filter' = f /\ limit' = n /\ page' = p
      /\ first' = p /\ shown' = shown /\ again' = again /\ came' = came
      BY DEF open
<1>2. List(filter)' = List(f)
    BY <1>1 DEF open, List, created
<1>3. Bound' = (p - 1) * n /\ (p - 1) * n \in Nat /\ p \in Nat
  <2>1. Bound' = (p - 1) * n
      BY <1>1 DEF Bound, Skip
  <2>. QED  BY <2>1, SkipToNext
<1>4. PICK before \in SUBSET List(f) :
        IsFirst(before, List(f), (p - 1) * n) /\ base' = List(f) \ before
    BY DEF open
<1>5. shown' = {}
    BY <1>1 DEF PInv, NothingShownYet
<1>6. RanksOK'
  <2>1. base' \ left' \subseteq List(f)
      BY <1>4
  <2>2. ASSUME NEW r, Missed(r)' PROVE Rank(r, List(f)) >= Bound'
    <3>1. r \in List(f) \ before
        BY <1>4, <2>2 DEF Missed
    <3>2. IsFiniteSet(List(f))
        BY ListOfRows, RowSets
    <3>. QED  BY <1>3, <1>4, <3>1, <3>2, FirstRowsAreBefore
  <2>3. \A r : ~Settled(r)'
      BY <1>5 DEF Settled
  <2>. QED  BY <1>2, <2>1, <2>2, <2>3, Zenon DEF RanksOK, Rank, RowsBefore
<1>7. NothingShownYet' /\ NoRowTwice' /\ EndsOK'
    BY <1>1 DEF NothingShownYet, NoRowTwice, EndsOK, PInv
<1>8. LengthOK'
    BY <1>1, <1>3 DEF LengthOK
<1>9. PromisedPageIsNotEmpty' /\ ShortOfAQuietList' /\ TotalOfAQuietList'
    BY <1>1 DEF PromisedPageIsNotEmpty, ShortOfAQuietList, TotalOfAQuietList
<1>. QED  BY <1>6, <1>7, <1>8, <1>9 DEF PInv

\* The rows of a page: the client has read up to the end of it.
LEMMA FindStep ==
    ASSUME PInv, PagingTypeOK', findRows
    PROVE  PInv'
<1> DEFINE L == List(filter)
<1>1. /\ step = "find" /\ step' = "count"
      /\ UNCHANGED <<filter, limit, page, total, first, base, came, left>>
      /\ shown' = shown \cup data'
      /\ again' = again \cup (shown \cap data')
    BY DEF findRows, TakeRows, requestVars
<1>2. List(filter)' = L
    BY DEF findRows, TakeRows, List, created, requestVars
<1>3. PICK before \in SUBSET L :
        /\ IsFirst(before, L, Skip)
        /\ data' \in SUBSET (L \ before)
        /\ IsFirst(data', L \ before, limit)
    BY DEF findRows, TakeRows
<1>4. /\ Skip \in Nat /\ limit \in Nat /\ limit > 0 /\ Skip + limit \in Nat
      /\ Skip' = Skip /\ Bound = Skip /\ Bound' = Skip + limit
    BY <1>1, Numbers DEF PInv, Bound, Skip
<1>5. IsFiniteSet(L) /\ L \subseteq Nat /\ Cardinality(L) \in Nat
    BY ListOfRows, RowSets
<1>6. /\ IsFiniteSet(L \ before)
      /\ Cardinality(before) \in Nat /\ Cardinality(L \ before) \in Nat
      /\ Cardinality(L) = Cardinality(before) + Cardinality(L \ before)
    BY <1>5, SplitCardinality
<1>7. /\ base \ left \subseteq L
      /\ \A r : Missed(r) => Rank(r, L) >= Skip
      /\ \A r : Settled(r) => Rank(r, L) < Skip
    BY <1>1, <1>4 DEF PInv, RanksOK
<1>8. IsFirst(before \cup data', L, Skip + limit)
    BY <1>3, <1>4, <1>5, FirstOfTheRest
<1>9. \A r : Missed(r)' => Missed(r)
    BY <1>1 DEF Missed
<1>10. \A r : Missed(r)' => r \in L /\ r \notin data'
    BY <1>1, <1>7 DEF Missed
<1>11. \A r : Missed(r)' => r \notin before
  <2> SUFFICES ASSUME NEW r, Missed(r)', r \in before PROVE FALSE
      OBVIOUS
  <2>1. Rank(r, L) < Skip
      BY <1>3, <1>4, <1>5, RankInFirstRows
  <2>2. Rank(r, L) >= Skip
      BY <1>7, <1>9
  <2>3. Rank(r, L) \in Nat
      BY <1>5, RankBelowLength
  <2>. QED  BY <1>4, <2>1, <2>2, <2>3
<1> HIDE DEF L
<1>12. Cardinality(data') < limit => data' = L \ before
    BY <1>3, <1>4, <1>6, FirstRowsAreFew
<1>13. RanksOK'
  <2>1. base' \ left' \subseteq L
      BY <1>1, <1>7
  <2>2. ASSUME NEW r, Missed(r)' PROVE Rank(r, L) >= Bound'
    <3>1. r \in L \ (before \cup data')
        BY <1>10, <1>11, <2>2
    <3>. QED  BY <1>4, <1>5, <1>8, <3>1, FirstRowsAreBefore
  <2>3. ASSUME NEW r, Settled(r)' PROVE Rank(r, L) < Bound'
    <3>1. CASE r \in data'
      <4>1. r \in before \cup data'
          BY <3>1
      <4>. QED  BY <1>4, <1>5, <1>8, <4>1, RankInFirstRows
    <3>2. CASE r \notin data'
      <4>1. Settled(r)
          BY <1>1, <2>3, <3>2 DEF Settled
      <4>2. Rank(r, L) < Skip
          BY <1>7, <4>1
      <4>3. Rank(r, L) \in Nat
          BY <1>5, RankGrows
      <4>. QED  BY <1>4, <4>2, <4>3
    <3>. QED  BY <3>1, <3>2
  <2>. QED  BY <1>2, <2>1, <2>2, <2>3, Zenon DEF RanksOK, Rank, RowsBefore
<1>14. NoRowTwice'
  <2> SUFFICES ASSUME NEW r \in shown \cap data' PROVE \E x \in came : x < r
      BY <1>1 DEF NoRowTwice, PInv
  <2> SUFFICES ASSUME \A x \in came : ~(x < r) PROVE FALSE
      OBVIOUS
  <2>1. Settled(r)
      BY DEF Settled
  <2>2. Rank(r, L) < Skip
      BY <1>7, <2>1
  <2>3. r \in L \ before
      BY <1>3
  <2>4. Rank(r, L) >= Skip
      BY <1>3, <1>4, <1>5, <2>3, FirstRowsAreBefore
  <2>5. Rank(r, L) \in Nat
      BY <1>5, RankGrows
  <2>. QED  BY <1>4, <2>2, <2>4, <2>5
<1>15. EndsOK'
  <2>1. ASSUME Cardinality(data') < limit, NEW r PROVE ~Missed(r)'
      BY <1>10, <1>11, <1>12, <2>1
  <2>. QED  BY <1>1, <2>1, Zenon DEF EndsOK
<1>16. NothingShownYet' /\ LengthOK' /\ TotalOfAQuietList'
    BY <1>1 DEF NothingShownYet, LengthOK, TotalOfAQuietList
<1>17. PromisedPageIsNotEmpty'
  <2> SUFFICES ASSUME page > first, data' = {}, left = {} PROVE FALSE
      BY <1>1 DEF PromisedPageIsNotEmpty
  <2>1. Cardinality(L) > Skip
      BY <1>1 DEF PInv, LengthOK, L
  <2>2. Cardinality(data') = 0
      BY FS_EmptySet
  <2>3. L \ before = {}
      BY <1>4, <1>12, <2>2
  <2>4. Cardinality(L \ before) = 0
      BY <2>3, FS_EmptySet
  <2>5. Cardinality(before) <= Skip
      BY <1>3, <1>4, <1>5, FirstRowsAreFew
  <2>. QED  BY <1>4, <1>6, <2>1, <2>4, <2>5
<1>18. ShortOfAQuietList'
  <2> SUFFICES ASSUME Cardinality(data') < limit, data' # {} \/ page = 1
               PROVE  Cardinality(L) = Skip + Cardinality(data')
      BY <1>1, <1>2, <1>4 DEF ShortOfAQuietList
  <2>1. data' = L \ before
      BY <1>12
  <2>2. Cardinality(before) <= Skip /\ (before # L => Cardinality(before) = Skip)
      BY <1>3, <1>4, <1>5, FirstRowsAreFew
  <2>3. page = 1 => Skip = 0
    <3>1. limit \in Nat
        BY <1>4
    <3>. QED  BY <3>1 DEF Skip
  <2>4. Cardinality(before) = Skip
      BY <1>4, <1>6, <2>1, <2>2, <2>3
  <2>. QED  BY <1>6, <2>1, <2>4
<1>. QED  BY <1>13, <1>14, <1>15, <1>16, <1>17, <1>18 DEF PInv

\* Their number.
LEMMA CountStep ==
    ASSUME PInv, PagingTypeOK', countRows
    PROVE  PInv'
<1> DEFINE L == List(filter)
           short == Cardinality(data) < limit /\ total' = Skip + Cardinality(data)
<1>1. /\ step = "count" /\ step' = "answered"
      /\ UNCHANGED <<filter, limit, page, data, first, base, shown, again, came, left>>
    BY DEF countRows, requestVars, historyVars
<1>2. List(filter)' = L
    BY DEF countRows, List, created, requestVars
<1>3. total' = Cardinality(L) \/ short
    BY DEF countRows
<1>4. /\ Skip \in Nat /\ limit \in Nat /\ limit > 0 /\ Skip + limit \in Nat
      /\ Skip' = Skip /\ Bound = Skip + limit /\ Bound' = Skip + limit
    BY <1>1, Numbers DEF PInv, Bound, Skip
<1>5. IsFiniteSet(L) /\ L \subseteq Nat /\ Cardinality(L) \in Nat /\ Cardinality(data) \in Nat
    BY ListOfRows, RowSets DEF PInv, PagingTypeOK
<1>6. \A r : (Missed(r)' <=> Missed(r)) /\ (Settled(r)' <=> Settled(r))
    BY <1>1 DEF Missed, Settled
<1> HIDE DEF L, short
<1>7. RanksOK'
  <2>1. /\ base \ left \subseteq L
        /\ \A r : Missed(r) => Rank(r, L) >= Skip + limit
        /\ \A r : Settled(r) => Rank(r, L) < Skip + limit
      BY <1>1, <1>4 DEF PInv, RanksOK, L
  <2>2. base' \ left' \subseteq L
      BY <1>1, <2>1
  <2>. QED  BY <1>2, <1>4, <1>6, <2>1, <2>2, Zenon DEF RanksOK, Rank, RowsBefore
<1>8. EndsOK'
  <2> SUFFICES ASSUME total' <= Skip + limit, NEW r PROVE ~Missed(r)
      BY <1>1, <1>4, <1>6, Zenon DEF EndsOK
  <2>1. CASE short
      BY <1>1, <2>1 DEF short, PInv, EndsOK
  <2>2. CASE total' = Cardinality(L)
    <3> SUFFICES ASSUME Missed(r) PROVE FALSE
        OBVIOUS
    <3>1. Rank(r, L) >= Skip + limit /\ r \in L
        BY <1>1, <1>4 DEF PInv, RanksOK, L, Missed
    <3>2. Rank(r, L) \in Nat /\ Rank(r, L) < Cardinality(L)
        BY <1>5, <3>1, RankBelowLength
    <3>. QED  BY <1>4, <1>5, <2>2, <3>1, <3>2
  <2>. QED  BY <1>3, <2>1, <2>2
<1>9. LengthOK'
  <2>1. total' > Skip + limit => total' = Cardinality(L)
      BY <1>3, <1>4, <1>5 DEF short
  <2>. QED  BY <1>1, <1>2, <1>4, <2>1 DEF LengthOK
<1>10. NothingShownYet' /\ NoRowTwice' /\ PromisedPageIsNotEmpty' /\ ShortOfAQuietList'
    BY <1>1 DEF NothingShownYet, NoRowTwice, PromisedPageIsNotEmpty, ShortOfAQuietList, PInv
<1>11. TotalOfAQuietList'
  <2> SUFFICES ASSUME came = {}, left = {}, data # {} \/ page = 1
               PROVE  total' = Cardinality(L)
      BY <1>1, <1>2 DEF TotalOfAQuietList
  <2>1. short => Cardinality(L) = Skip + Cardinality(data)
      BY <1>1 DEF short, PInv, ShortOfAQuietList, L
  <2>. QED  BY <1>3, <2>1 DEF short
<1>. QED  BY <1>7, <1>8, <1>9, <1>10, <1>11 DEF PInv

\* The next page: the client goes on where the last one ended.
LEMMA ReadOnStep ==
    ASSUME PInv, PagingTypeOK', readOn
    PROVE  PInv'
<1> DEFINE L == List(filter)
<1>1. /\ step = "answered" /\ step' = "find" /\ page' = page + 1
      /\ UNCHANGED <<filter, limit, data, total, first, base, shown, again, came, left>>
    BY DEF readOn, historyVars
<1>2. List(filter)' = L
    BY DEF readOn, List, created
<1>3. /\ Skip \in Nat /\ limit \in Nat /\ Skip + limit \in Nat /\ page * limit = Skip + limit
      /\ Bound = Skip + limit
    BY <1>1, Numbers DEF PInv, Bound
<1>4. Skip' = Skip + limit /\ Bound' = Skip + limit
  <2>1. page \in Nat
      BY DEF PInv, PagingTypeOK
  <2>2. (page + 1) - 1 = page
      BY <2>1
  <2>3. Skip' = page * limit
      BY <1>1, <2>2 DEF Skip
  <2>. QED  BY <1>1, <1>3, <2>3 DEF Bound
<1>5. total > Skip + limit
    BY HasNextByProduct DEF readOn, PInv
<1>6. \A r : (Missed(r)' <=> Missed(r)) /\ (Settled(r)' <=> Settled(r))
    BY <1>1 DEF Missed, Settled
<1>7. RanksOK'
  <2>1. /\ base \ left \subseteq L
        /\ \A r : Missed(r) => Rank(r, L) >= Skip + limit
        /\ \A r : Settled(r) => Rank(r, L) < Skip + limit
      BY <1>1, <1>3 DEF PInv, RanksOK
  <2> HIDE DEF L
  <2>2. base' \ left' \subseteq L
      BY <1>1, <2>1
  <2>. QED  BY <1>2, <1>4, <1>6, <2>1, <2>2, Zenon DEF RanksOK, Rank, RowsBefore
<1>8. LengthOK'
    BY <1>1, <1>2, <1>4, <1>5 DEF LengthOK, PInv
<1>9. NothingShownYet' /\ NoRowTwice' /\ EndsOK'
    BY <1>1 DEF NothingShownYet, NoRowTwice, EndsOK, PInv
<1>10. PromisedPageIsNotEmpty' /\ ShortOfAQuietList' /\ TotalOfAQuietList'
    BY <1>1 DEF PromisedPageIsNotEmpty, ShortOfAQuietList, TotalOfAQuietList
<1>. QED  BY <1>7, <1>8, <1>9, <1>10 DEF PInv

LEMMA CloseStep ==
    ASSUME PInv, PagingTypeOK', close
    PROVE  PInv'
<1>1. step' = "idle" /\ shown' = {} /\ again' = {}
    BY DEF close
<1>2. NothingShownYet' /\ RanksOK' /\ NoRowTwice'
    BY <1>1 DEF NothingShownYet, RanksOK, NoRowTwice
<1>3. EndsOK' /\ LengthOK'
    BY <1>1 DEF EndsOK, LengthOK
<1>4. PromisedPageIsNotEmpty' /\ ShortOfAQuietList' /\ TotalOfAQuietList'
    BY <1>1 DEF PromisedPageIsNotEmpty, ShortOfAQuietList, TotalOfAQuietList
<1>. QED  BY <1>2, <1>3, <1>4 DEF PInv

LEMMA StutterStep ==
    ASSUME PInv, PagingTypeOK', UNCHANGED vars
    PROVE  PInv'
<1>1. /\ UNCHANGED <<categoryOf, step, filter, limit, page, data, total>>
      /\ UNCHANGED <<first, base, shown, again, came, left>>
    BY DEF vars, requestVars, historyVars
<1>2. List(filter)' = List(filter) /\ Skip' = Skip /\ Bound' = Bound
    BY <1>1 DEF List, created, Skip, Bound
<1>3. \A r : (Missed(r)' <=> Missed(r)) /\ (Settled(r)' <=> Settled(r))
    BY <1>1 DEF Missed, Settled
<1>4. base' \ left' = base \ left
    BY <1>1
<1>5. RanksOK'
    BY <1>1, <1>2, <1>3, <1>4, Zenon DEF RanksOK, PInv, Rank, RowsBefore
<1>6. NothingShownYet' /\ NoRowTwice' /\ EndsOK' /\ LengthOK'
    BY <1>1, <1>2, <1>3 DEF NothingShownYet, NoRowTwice, EndsOK, LengthOK, PInv
<1>7. PromisedPageIsNotEmpty' /\ ShortOfAQuietList' /\ TotalOfAQuietList'
    BY <1>1, <1>2 DEF PromisedPageIsNotEmpty, ShortOfAQuietList, TotalOfAQuietList, PInv
<1>. QED  BY <1>5, <1>6, <1>7 DEF PInv

LEMMA PagingInvariant == Spec => []PInv
<1>1. Init => PInv
    BY InitInvariant
<1>2. PInv /\ [Next]_vars => PInv'
  <2> SUFFICES ASSUME PInv, [Next]_vars PROVE PInv'
      OBVIOUS
  <2>1. PagingTypeOK'
      BY TypesKept DEF PInv
  <2>2. ASSUME NEW r \in Rows, NEW category \in Categories, createRestaurant(r, category)
        PROVE  PInv'
      BY <2>1, <2>2, TableStep DEF createRestaurant
  <2>3. ASSUME NEW r \in Rows, NEW category \in Categories, updateRestaurant(r, category)
        PROVE  PInv'
      BY <2>1, <2>3, TableStep DEF updateRestaurant
  <2>4. ASSUME NEW f \in Categories \cup {NoFilter}, NEW n \in Limits, NEW p \in FirstPages,
               open(f, n, p)
        PROVE  PInv'
    <3>1. n \in Nat \ {0} /\ p \in Nat \ {0}
        BY PagingAssumption
    <3>. QED  BY <2>1, <2>4, <3>1, OpenStep
  <2>. QED
    BY <2>1, <2>2, <2>3, <2>4, FindStep, CountStep, ReadOnStep, CloseStep, StutterStep DEF Next
<1>. QED  BY <1>1, <1>2, PTL DEF Spec

-----------------------------------------------------------------------------
(* The theorems                                                            *)

\* Whatever comes, leaves or changes its category between the requests and between
\* the two queries of each, a client that reads to the end misses only rows that
\* came after one that left.
THEOREM NothingIsSkipped == Spec => []NoRowSkipped
<1>1. PInv => NoRowSkipped
  <2> SUFFICES ASSUME PInv, Finished, NEW r \in base \ (shown \cup left)
               PROVE  \E x \in left : x < r
      BY DEF NoRowSkipped
  <2>1. step = "answered" /\ ~(total > Skip + limit)
      BY HasNextByProduct DEF Finished, PInv
  <2>2. total \in Nat /\ Skip + limit \in Nat
      BY Numbers DEF PInv, PagingTypeOK
  <2>3. total <= Skip + limit
      BY <2>1, <2>2
  <2>4. ~Missed(r)
      BY <2>1, <2>3 DEF PInv, EndsOK
  <2>. QED  BY <2>4 DEF Missed
<1>. QED  BY <1>1, PagingInvariant, PTL

\* A client sees a row again only behind a row that came in.
THEOREM NothingIsShownTwice == Spec => []NoRowTwice
<1>1. PInv => NoRowTwice
    BY DEF PInv
<1>. QED  BY <1>1, PagingInvariant, PTL

\* After hasNext there is something on the next page, if no row left the list.
THEOREM PromisesAreKept == Spec => []PromisedPageIsNotEmpty
<1>1. PInv => PromisedPageIsNotEmpty
    BY DEF PInv
<1>. QED  BY <1>1, PagingInvariant, PTL

\* The count that findAndCount saves is the count it would have made.
THEOREM QuietTotalsAreTrue == Spec => []TotalOfAQuietList
<1>1. PInv => TotalOfAQuietList
    BY DEF PInv
<1>. QED  BY <1>1, PagingInvariant, PTL
=============================================================================
