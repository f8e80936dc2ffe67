------------------------------ MODULE QueryProofs ------------------------------
(***************************************************************************)
(* What is proved of queries, for all tables, queries and rows added       *)
(* meanwhile that the assumptions of Queries and QuerySessions allow:      *)
(* sorting and filtering are sound, a client that walks through a          *)
(* selection gets each row once, names lead to rows of their tables, joins *)
(* commute, and embedding and relations find what joins find.              *)
(*                                                                         *)
(* TablesOK says that tables stay tables, and WalkOK that what a client    *)
(* has is the part of its selection up to its cursor; the other invariants *)
(* follow from TablesOK by lemmas about the operators.  SortRows, RowsAt,  *)
(* FlattenSeq and Materialize are defined by recursive functions or by     *)
(* CHOOSE; for each, a lemma says that what is chosen exists, and others   *)
(* what it is, by induction on places (UpwardInduction).                   *)
(***************************************************************************)
EXTENDS QuerySessions, FiniteSetTheorems, FunctionTheorems, SequenceTheorems,
        WellFoundedInduction, TLAPS

-----------------------------------------------------------------------------
(***************************************************************************)
(* Places in a strict total order R of D.                                  *)
(***************************************************************************)

IsStrictOrder(R, D) ==
    /\ \A i \in D : <<i, i>> \notin R
    /\ \A i, j \in D : i # j => <<i, j>> \in R \/ <<j, i>> \in R
    /\ \A i, j, k \in D : <<i, j>> \in R /\ <<j, k>> \in R => <<i, k>> \in R

Before(R, D, i) == {j \in D : <<j, i>> \in R}
Places(R, D) == [i \in D |-> Cardinality(Before(R, D, i)) + 1]

\* Who comes earlier has fewer before him.
LEMMA PlaceGrows ==
    ASSUME NEW D, IsFiniteSet(D), NEW R, IsStrictOrder(R, D), NEW i \in D, NEW j \in D,
           <<j, i>> \in R
    PROVE  Cardinality(Before(R, D, j)) < Cardinality(Before(R, D, i))
<1> DEFINE A == Before(R, D, j)
           B == Before(R, D, i)
<1>1. A \subseteq B /\ j \in B /\ j \notin A /\ B \subseteq D
  BY DEF Before, IsStrictOrder
<1>2. IsFiniteSet(B) /\ IsFiniteSet(A)
  BY <1>1, FS_Subset
<1>3. Cardinality(A) <= Cardinality(B) /\ Cardinality(A) # Cardinality(B)
  BY <1>1, <1>2, FS_Subset
<1>4. Cardinality(A) \in Nat /\ Cardinality(B) \in Nat
  BY <1>2, FS_CardinalityType
<1> QED
  BY <1>3, <1>4

ArePlaces(place, R, D) ==
    /\ place \in [D -> D]
    /\ \A i, j \in D : <<j, i>> \in R <=> place[j] < place[i]
    /\ \A i, j \in D : place[i] = place[j] => i = j
    /\ \A k \in D : \E i \in D : place[i] = k

\* Everybody has a place, and every place is taken once.
LEMMA PlacesAreTaken ==
    ASSUME NEW n \in Nat, NEW D, D = 1..n, NEW R, IsStrictOrder(R, D)
    PROVE  ArePlaces(Places(R, D), R, D)
<1> DEFINE place == Places(R, D)
<1> HIDE DEF place
<1>0. \A k : k \in D <=> k \in Int /\ 1 <= k /\ k <= n
  OBVIOUS
<1>1. IsFiniteSet(D) /\ Cardinality(D) = n
  BY FS_Interval
<1>2. ASSUME NEW i \in D
      PROVE  Cardinality(Before(R, D, i)) \in Nat /\ Cardinality(Before(R, D, i)) < n
  <2>1. Before(R, D, i) \subseteq D /\ i \notin Before(R, D, i)
    BY DEF Before, IsStrictOrder
  <2>2. /\ IsFiniteSet(Before(R, D, i))
        /\ Cardinality(Before(R, D, i)) <= n /\ Cardinality(Before(R, D, i)) # n
    BY <1>1, <2>1, FS_Subset
  <2>3. Cardinality(Before(R, D, i)) \in Nat
    BY <2>2, FS_CardinalityType
  <2> QED
    BY <2>2, <2>3
<1>3. ASSUME NEW i \in D
      PROVE  /\ place[i] = Cardinality(Before(R, D, i)) + 1
             /\ place[i] \in D /\ place[i] \in Int
  <2>1. place[i] = Cardinality(Before(R, D, i)) + 1
    BY DEF place, Places
  <2>2. Cardinality(Before(R, D, i)) \in Int /\ Cardinality(Before(R, D, i)) + 1 <= n
    BY <1>2
  <2>3. Cardinality(Before(R, D, i)) >= 0
    BY <1>2
  <2> QED
    BY <1>0, <2>1, <2>2, <2>3
<1>4. place \in [D -> D]
  BY <1>3 DEF place, Places
<1>5. ASSUME NEW i \in D, NEW j \in D, <<j, i>> \in R PROVE place[j] < place[i]
  <2>1. Cardinality(Before(R, D, j)) < Cardinality(Before(R, D, i))
    BY <1>1, <1>5, PlaceGrows
  <2> QED
    BY <1>2, <1>3, <2>1
<1>6. ASSUME NEW i \in D, NEW j \in D, <<j, i>> \notin R PROVE ~(place[j] < place[i])
  <2>1. CASE i = j
    BY <1>3, <2>1
  <2>2. CASE i # j
    <3>1. <<i, j>> \in R
      BY <1>6, <2>2 DEF IsStrictOrder
    <3>2. place[i] < place[j]
      BY <1>5, <3>1
    <3> QED
      BY <1>3, <3>2
  <2> QED
    BY <2>1, <2>2
<1>7. ASSUME NEW i \in D, NEW j \in D, place[i] = place[j] PROVE i = j
  <2>1. <<i, j>> \notin R /\ <<j, i>> \notin R
    <3>1. ~(place[i] < place[j]) /\ ~(place[j] < place[i])
      BY <1>3, <1>7
    <3> QED
      BY <1>5, <3>1
  <2> QED
    BY <2>1 DEF IsStrictOrder
<1>8. \A k \in D : \E i \in D : place[i] = k
  <2>1. place \in Injection(D, D)
    BY <1>4, <1>7, Fun_IsInj
  <2>2. place \in Surjection(D, D)
    BY <1>1, <2>1, FS_Injection
  <2> QED
    BY <2>2 DEF Surjection
<1> QED
  BY <1>4, <1>5, <1>6, <1>7, <1>8 DEF place, ArePlaces

\* An enumeration in that order says who has which place.
IsInOrder(f, R, n) ==
    /\ f \in [1..n -> 1..n]
    /\ \A i \in 1..n : \E k \in 1..n : f[k] = i
    /\ \A a, b \in 1..n : a < b => <<f[a], f[b]>> \in R

\* Whoever is put in order stands at his place.
LEMMA OrderGivesPlaces ==
    ASSUME NEW n \in Nat, NEW R, IsStrictOrder(R, 1..n), NEW f, IsInOrder(f, R, n),
           NEW k \in 1..n
    PROVE  Cardinality(Before(R, 1..n, f[k])) + 1 = k
<1> DEFINE B == Before(R, 1..n, f[k])
           m == k - 1
           g == [a \in 1..m |-> f[a]]
<1>1. /\ f \in [1..n -> 1..n]
      /\ \A i \in 1..n : \E a \in 1..n : f[a] = i
      /\ \A a, b \in 1..n : a < b => <<f[a], f[b]>> \in R
  BY DEF IsInOrder
<1>2. m \in Nat /\ 1..m \subseteq 1..n /\ \A a \in 1..n : a \in 1..m <=> a < k
  OBVIOUS
<1>3. \A a \in 1..m : f[a] \in B
  BY <1>1, <1>2 DEF Before
<1>4. \A i \in B : \E a \in 1..m : f[a] = i
  <2> SUFFICES ASSUME NEW i \in B PROVE \E a \in 1..m : f[a] = i
    OBVIOUS
  <2>1. i \in 1..n /\ <<i, f[k]>> \in R
    BY DEF Before
  <2>2. PICK a \in 1..n : f[a] = i
    BY <1>1, <2>1
  <2>3. a # k
    BY <1>1, <2>1, <2>2 DEF IsStrictOrder
  <2>4. ~(k < a)
    <3> SUFFICES ASSUME k < a PROVE FALSE
      OBVIOUS
    <3>1. <<f[k], i>> \in R /\ f[k] \in 1..n
      BY <1>1, <2>2
    <3> QED
      BY <2>1, <3>1 DEF IsStrictOrder
  <2> QED
    BY <1>2, <2>2, <2>3, <2>4
<1>5. \A a, b \in 1..m : f[a] = f[b] => a = b
  <2> SUFFICES ASSUME NEW a \in 1..m, NEW b \in 1..m, f[a] = f[b], a < b \/ b < a PROVE FALSE
    OBVIOUS
  <2> QED
    BY <1>1, <1>2 DEF IsStrictOrder
<1> HIDE DEF B, m
<1>6. g \in Bijection(1..m, B)
  <2>1. g \in [1..m -> B] /\ \A a \in 1..m : g[a] = f[a]
    BY <1>3
  <2> HIDE DEF g
  <2> QED
    BY <1>4, <1>5, <2>1, Fun_IsBij
<1>7. Cardinality(B) = m
  BY <1>2, <1>6, FS_CountingElements, Fun_ExistsBij
<1> QED
  BY <1>7 DEF B, m

-----------------------------------------------------------------------------
(***************************************************************************)
(* Sorted rows.                                                            *)
(***************************************************************************)

PrecedenceOf(rows, columns) ==
    {p \in (DOMAIN rows) \X (DOMAIN rows) : Precedes(rows, columns, p[1], p[2])}

IsSorting(f, rows, columns) == IsInOrder(f, PrecedenceOf(rows, columns), Len(rows))
IsSortable(rows, columns) == IsStrictOrder(PrecedenceOf(rows, columns), DOMAIN rows)

\* Precedence as a relation.
LEMMA PrecedenceIs ==
    ASSUME NEW rows, NEW columns, NEW i \in DOMAIN rows, NEW j \in DOMAIN rows
    PROVE  <<j, i>> \in PrecedenceOf(rows, columns) <=> Precedes(rows, columns, j, i)
<1> DEFINE p == <<j, i>>
<1>1. p \in (DOMAIN rows) \X (DOMAIN rows) /\ p[1] = j /\ p[2] = i
  OBVIOUS
<1> HIDE DEF p
<1>2. p \in PrecedenceOf(rows, columns) <=> Precedes(rows, columns, p[1], p[2])
  BY <1>1 DEF PrecedenceOf
<1> QED
  BY <1>1, <1>2 DEF p

\* A position counts the rows that precede.
LEMMA PositionIsPlace ==
    ASSUME NEW rows, NEW columns, NEW i \in DOMAIN rows
    PROVE  Position(rows, columns, i)
               = Cardinality(Before(PrecedenceOf(rows, columns), DOMAIN rows, i)) + 1
<1>1. {j \in DOMAIN rows : Precedes(rows, columns, j, i)}
          = Before(PrecedenceOf(rows, columns), DOMAIN rows, i)
  BY PrecedenceIs DEF Before
<1> QED
  BY <1>1 DEF Position

\* However rows that belong in this order are enumerated in it, so they are sorted.
LEMMA SortedIs ==
    ASSUME NEW rows, IsList(rows), NEW columns, IsSortable(rows, columns),
           NEW f, IsSorting(f, rows, columns)
    PROVE  SortRows(rows, columns) = [k \in DOMAIN rows |-> rows[f[k]]]
<1> DEFINE D == DOMAIN rows
           R == PrecedenceOf(rows, columns)
           place == Places(R, D)
<1>1. Len(rows) \in Nat /\ D = 1..Len(rows)
  BY DEF IsList
<1>2. IsStrictOrder(R, D) /\ IsInOrder(f, R, Len(rows))
  BY DEF IsSortable, IsSorting
<1>3. \A i \in D : Position(rows, columns, i) = place[i]
  BY PositionIsPlace DEF Places
<1>4. \A k \in D : f[k] \in D /\ place[f[k]] = k
  <2> TAKE k \in D
  <2>1. f[k] \in D
    BY <1>1, <1>2 DEF IsInOrder
  <2>2. Cardinality(Before(R, D, f[k])) + 1 = k
    BY <1>1, <1>2, OrderGivesPlaces
  <2> QED
    BY <2>1, <2>2 DEF Places
<1>5. \A i, j \in D : place[i] = place[j] => i = j
  <2> HIDE DEF D, R
  <2>1. ArePlaces(place, R, D)
    BY <1>1, <1>2, PlacesAreTaken
  <2> HIDE DEF place
  <2> QED
    BY <2>1 DEF ArePlaces
<1> HIDE DEF place
<1>6. \A k \in D : (CHOOSE i \in D : Position(rows, columns, i) = k) = f[k]
  BY <1>3, <1>4, <1>5
<1>7. \A k \in D : rows[CHOOSE i \in D : Position(rows, columns, i) = k] = rows[f[k]]
  BY <1>6
<1> QED
  BY <1>7, Zenon DEF SortRows

\* Sortable rows have a sorting.
LEMMA SortingExists ==
    ASSUME NEW rows, IsList(rows), NEW columns, IsSortable(rows, columns)
    PROVE  \E f : IsSorting(f, rows, columns)
<1> DEFINE D == DOMAIN rows
           R == PrecedenceOf(rows, columns)
           place == Places(R, D)
           f == [k \in D |-> CHOOSE i \in D : place[i] = k]
<1>1. Len(rows) \in Nat /\ D = 1..Len(rows)
  BY DEF IsList
<1>2. IsStrictOrder(R, D)
  BY DEF IsSortable
<1>3. /\ place \in [D -> D]
      /\ \A i, j \in D : <<j, i>> \in R <=> place[j] < place[i]
      /\ \A i, j \in D : place[i] = place[j] => i = j
      /\ \A k \in D : \E i \in D : place[i] = k
  <2> HIDE DEF D, R
  <2>1. ArePlaces(place, R, D)
    BY <1>1, <1>2, PlacesAreTaken
  <2> HIDE DEF place
  <2> QED
    BY <2>1 DEF ArePlaces
<1> HIDE DEF place
<1>4. \A k \in D : f[k] \in D /\ place[f[k]] = k
  BY <1>3
<1>5. f \in [D -> D]
  BY <1>4
<1>6. \A i \in D : \E k \in D : f[k] = i
  BY <1>3, <1>4
<1> HIDE DEF f
<1> HIDE DEF D, R
<1>7. \A a, b \in D : a < b => <<f[a], f[b]>> \in R
  BY <1>3, <1>4
<1>8. IsInOrder(f, R, Len(rows))
  BY <1>1, <1>5, <1>6, <1>7 DEF IsInOrder
<1> QED
  BY <1>8 DEF IsSorting, R

-----------------------------------------------------------------------------
(***************************************************************************)
(* Comparing.                                                              *)
(***************************************************************************)

\* The comparison by some columns is a total preorder.
IsTotal(rows, columns) ==
    LET cmp(l, r) == CompareItems(l, r, columns)
        leq(l, r) == cmp(l, r) # "greater"
    IN  \A l, m, r \in Range(rows) :
            /\ cmp(l, m) \in {"less", "equal", "greater"}
            /\ cmp(l, m) = "less" <=> cmp(m, l) = "greater"
            /\ leq(l, m) /\ leq(m, r) => leq(l, r)

\* A total preorder with the tie broken by place can be sorted.
LEMMA TotalIsSortable ==
    ASSUME NEW rows, IsList(rows), NEW columns, IsTotal(rows, columns)
    PROVE  IsSortable(rows, columns)
<1> DEFINE D == DOMAIN rows
           R == PrecedenceOf(rows, columns)
           cmp(i, j) == CompareItems(rows[i], rows[j], columns)
<1>0. D \subseteq Int
  BY DEF IsList
<1>1. \A i \in D : rows[i] \in Range(rows)
  BY DEF Range
<1>2. \A i, j, k \in D :
          /\ cmp(i, j) \in {"less", "equal", "greater"}
          /\ cmp(i, j) = "less" <=> cmp(j, i) = "greater"
          /\ cmp(i, j) # "greater" /\ cmp(j, k) # "greater" => cmp(i, k) # "greater"
  BY <1>1 DEF IsTotal
<1>3. \A i, j \in D : <<i, j>> \in R <=> cmp(i, j) = "less" \/ (cmp(i, j) = "equal" /\ i < j)
  BY PrecedenceIs DEF Precedes
<1> HIDE DEF D, R, cmp
<1>4. \A i \in D : <<i, i>> \notin R
  BY <1>0, <1>2, <1>3
<1>5. \A i, j \in D : i # j => <<i, j>> \in R \/ <<j, i>> \in R
  BY <1>0, <1>2, <1>3
<1>6. ASSUME NEW i \in D, NEW j \in D, NEW k \in D, <<i, j>> \in R, <<j, k>> \in R
      PROVE  <<i, k>> \in R
  <2>1. cmp(i, k) # "greater"
    BY <1>2, <1>3, <1>6
  <2>2. CASE cmp(i, j) = "less" \/ cmp(j, k) = "less"
    BY <1>2, <1>3, <1>6, <2>1, <2>2
  <2>3. CASE cmp(i, j) = "equal" /\ i < j /\ cmp(j, k) = "equal" /\ j < k
    BY <1>0, <1>2, <1>3, <1>6, <2>1, <2>3
  <2> QED
    BY <1>3, <1>6, <2>2, <2>3
<1> QED
  BY <1>4, <1>5, <1>6 DEF IsSortable, IsStrictOrder, D, R
\* A column compares before the others.
IsLexicographic(rows, columns, column, rest) ==
    \A l, r \in Range(rows) :
        CompareItems(l, r, columns) = IF CompareAt(l, r, column) = "equal"
                                      THEN CompareItems(l, r, rest)
                                      ELSE CompareAt(l, r, column)

\* With one column the comparison is that of the column.
LEMMA CompareByOne ==
    ASSUME NEW l, NEW r, NEW column
    PROVE  CompareItems(l, r, <<column>>) = CompareAt(l, r, column)
<1> DEFINE I == {i \in 1..Len(<<column>>) : CompareAt(l, r, <<column>>[i]) # "equal"}
           first == SelectInSeq(<<column>>, LAMBDA c : CompareAt(l, r, c) # "equal")
<1>1. first = IF I # {} THEN Min(I) ELSE 0
  BY DEF SelectInSeq
<1>2. I = IF CompareAt(l, r, column) = "equal" THEN {} ELSE {1}
  <2>1. Len(<<column>>) = 1 /\ <<column>>[1] = column
    OBVIOUS
  <2> QED
    BY <2>1
<1>3. Min({1}) = 1
  BY DEF Min
<1>4. first = IF CompareAt(l, r, column) = "equal" THEN 0 ELSE 1
  <2> HIDE DEF I, first
  <2> QED
    BY <1>1, <1>2, <1>3
<1> QED
  BY <1>4 DEF CompareItems

\* Rows in one order, then stably in another, are in the order of both.
LEMMA SortingTwice ==
    ASSUME NEW rows, IsList(rows), NEW columns, NEW column, NEW rest,
           IsLexicographic(rows, columns, column, rest),
           IsTotal(rows, <<column>>), IsTotal(rows, rest)
    PROVE  /\ IsTotal(rows, columns)
           /\ SortRows(rows, columns) = SortRows(SortRows(rows, rest), <<column>>)
<1> DEFINE n == Len(rows)
           D == DOMAIN rows
<1>0. n \in Nat /\ D = 1..n
  BY DEF IsList
<1>1. IsTotal(rows, columns)
  <2> SUFFICES ASSUME NEW l \in Range(rows), NEW m \in Range(rows), NEW r \in Range(rows)
               PROVE  /\ CompareItems(l, m, columns) \in {"less", "equal", "greater"}
                      /\ CompareItems(l, m, columns) = "less"
                             <=> CompareItems(m, l, columns) = "greater"
                      /\ CompareItems(l, m, columns) # "greater"
                             /\ CompareItems(m, r, columns) # "greater"
                         => CompareItems(l, r, columns) # "greater"
    BY DEF IsTotal
  <2>1. \A x, y, z \in {l, m, r} :
            /\ CompareAt(x, y, column) \in {"less", "equal", "greater"}
            /\ CompareAt(x, y, column) = "less" <=> CompareAt(y, x, column) = "greater"
            /\ CompareAt(x, y, column) # "greater" /\ CompareAt(y, z, column) # "greater"
               => CompareAt(x, z, column) # "greater"
    BY CompareByOne DEF IsTotal
  <2>2. \A x, y, z \in {l, m, r} :
            /\ CompareItems(x, y, rest) \in {"less", "equal", "greater"}
            /\ CompareItems(x, y, rest) = "less" <=> CompareItems(y, x, rest) = "greater"
            /\ CompareItems(x, y, rest) # "greater" /\ CompareItems(y, z, rest) # "greater"
               => CompareItems(x, z, rest) # "greater"
    BY DEF IsTotal
  <2>3. \A x, y \in {l, m, r} :
            CompareItems(x, y, columns) = IF CompareAt(x, y, column) = "equal"
                                          THEN CompareItems(x, y, rest)
                                          ELSE CompareAt(x, y, column)
    BY DEF IsLexicographic
  <2> QED
    BY <2>1, <2>2, <2>3
<1>2. IsSortable(rows, columns) /\ IsSortable(rows, rest)
  BY <1>1, TotalIsSortable
<1>3. PICK f : IsSorting(f, rows, rest)
  BY <1>2, SortingExists
<1> DEFINE mid == [k \in D |-> rows[f[k]]]
<1>4. SortRows(rows, rest) = mid
  BY <1>2, <1>3, SortedIs
<1>5. /\ f \in [D -> D] /\ \A i \in D : \E k \in D : f[k] = i
      /\ \A a, b \in D : a < b => Precedes(rows, rest, f[a], f[b])
  <2>1. IsInOrder(f, PrecedenceOf(rows, rest), n)
    BY <1>3 DEF IsSorting
  <2>2. /\ f \in [D -> D] /\ \A i \in D : \E k \in D : f[k] = i
        /\ \A a, b \in D : a < b => <<f[a], f[b]>> \in PrecedenceOf(rows, rest)
    BY <1>0, <2>1 DEF IsInOrder
  <2> QED
    BY <2>2, PrecedenceIs
<1>6. /\ IsList(mid) /\ DOMAIN mid = D /\ Len(mid) = n
      /\ \A k \in D : mid[k] = rows[f[k]] /\ mid[k] \in Range(rows)
  <2>1. DOMAIN mid = D /\ IsFunction(mid)
    BY DEF IsFunction
  <2>2. mid \in Seq(Range(rows))
    BY <1>0, <1>5 DEF Range
  <2>3. Len(mid) = n
    BY <1>0, <2>1, <2>2
  <2> QED
    BY <1>0, <1>5, <2>1, <2>3 DEF IsList, Range
<1> HIDE DEF mid
<1>7. IsTotal(mid, <<column>>)
  <2>1. Range(mid) \subseteq Range(rows)
    BY <1>6 DEF Range
  <2> QED
    BY <2>1 DEF IsTotal
<1>8. IsSortable(mid, <<column>>)
  BY <1>6, <1>7, TotalIsSortable
<1>9. PICK g : IsSorting(g, mid, <<column>>)
  BY <1>6, <1>8, SortingExists
<1>10. SortRows(mid, <<column>>) = [k \in D |-> mid[g[k]]]
  BY <1>6, <1>8, <1>9, SortedIs
<1>11. /\ g \in [D -> D] /\ \A i \in D : \E k \in D : g[k] = i
       /\ \A a, b \in D : a < b => Precedes(mid, <<column>>, g[a], g[b])
  <2>1. IsInOrder(g, PrecedenceOf(mid, <<column>>), n)
    BY <1>6, <1>9 DEF IsSorting
  <2>2. /\ g \in [D -> D] /\ \A i \in D : \E k \in D : g[k] = i
        /\ \A a, b \in D : a < b => <<g[a], g[b]>> \in PrecedenceOf(mid, <<column>>)
    BY <1>0, <2>1 DEF IsInOrder
  <2> QED
    BY <1>6, <2>2, PrecedenceIs
<1> DEFINE h == [k \in D |-> f[g[k]]]
<1>12. h \in [D -> D] /\ \A i \in D : \E k \in D : h[k] = i
  BY <1>5, <1>11
<1>13. ASSUME NEW a \in D, NEW b \in D, a < b
       PROVE  Precedes(rows, columns, h[a], h[b])
  <2>1. /\ g[a] \in D /\ g[b] \in D /\ h[a] = f[g[a]] /\ h[b] = f[g[b]]
        /\ h[a] \in D /\ h[b] \in D
    BY <1>11, <1>12
  <2>2. Precedes(mid, <<column>>, g[a], g[b])
    BY <1>11, <1>13
  <2>3. mid[g[a]] = rows[h[a]] /\ mid[g[b]] = rows[h[b]]
    BY <1>6, <2>1
  <2> DEFINE x == rows[h[a]]
             y == rows[h[b]]
  <2>4. x \in Range(rows) /\ y \in Range(rows)
    BY <2>1 DEF Range
  <2>5. CompareItems(x, y, columns) = IF CompareAt(x, y, column) = "equal"
                                      THEN CompareItems(x, y, rest)
                                      ELSE CompareAt(x, y, column)
    BY <2>4 DEF IsLexicographic
  <2>6. \/ CompareAt(x, y, column) = "less"
        \/ CompareAt(x, y, column) = "equal" /\ g[a] < g[b]
    BY <2>2, <2>3, CompareByOne DEF Precedes
  <2>7. g[a] < g[b] => Precedes(rows, rest, h[a], h[b])
    BY <1>5, <2>1
  <2> HIDE DEF h
  <2> QED
    BY <2>5, <2>6, <2>7 DEF Precedes
<1>14. IsSorting(h, rows, columns)
  <2>1. \A a, b \in D : a < b => <<h[a], h[b]>> \in PrecedenceOf(rows, columns)
    BY <1>12, <1>13, PrecedenceIs
  <2> HIDE DEF h
  <2>2. IsInOrder(h, PrecedenceOf(rows, columns), n)
    BY <1>0, <1>12, <2>1 DEF IsInOrder
  <2> QED
    BY <2>2 DEF IsSorting
<1>15. SortRows(rows, columns) = [k \in D |-> rows[h[k]]]
  BY <1>2, <1>14, SortedIs
<1>16. \A k \in D : rows[h[k]] = mid[g[k]]
  BY <1>6, <1>11
<1>17. SortRows(rows, columns) = SortRows(mid, <<column>>)
  <2> HIDE DEF h, D
  <2> QED
    BY <1>10, <1>15, <1>16
<1> QED
  BY <1>1, <1>4, <1>17
\* A set of numbers has a smallest one.
LEMMA SmallestExists ==
    ASSUME NEW S \in SUBSET Nat, S # {}
    PROVE  \E m \in S : \A k \in S : m <= k
<1> DEFINE less == {p \in Nat \X Nat : p[1] < p[2]}
<1>1. IsWellFoundedOn(less, Nat)
  BY NatLessThanWellFounded, Zenon DEF OpToRel
<1> HIDE DEF less
<1>2. PICK m \in S : \A k \in S : <<k, m>> \notin less
  BY <1>1, WFMin
<1>3. \A k \in S : m \in Nat /\ k \in Nat /\ ~(k < m)
  BY <1>2 DEF less
<1> QED
  BY <1>3

\* What Min chooses.
LEMMA SmallestIsMin ==
    ASSUME NEW S \in SUBSET Nat, NEW m \in S, \A k \in S : m <= k
    PROVE  Min(S) = m
<1>1. \A x \in S : (\A k \in S : x <= k) => x = m
  <2> TAKE x \in S
  <2>1. x \in Nat /\ m \in Nat
    OBVIOUS
  <2>2. (\A k \in S : x <= k) => x <= m /\ m <= x
    OBVIOUS
  <2> QED
    BY <2>1, <2>2
<1> QED
  BY <1>1 DEF Min

\* The first column on which two rows differ decides.
LEMMA FirstDecides ==
    ASSUME NEW l, NEW r, NEW columns, Len(columns) \in Nat
    PROVE  /\ (\A i \in 1..Len(columns) : CompareAt(l, r, columns[i]) = "equal")
                  => CompareItems(l, r, columns) = "equal"
           /\ \A i \in 1..Len(columns) :
                  /\ CompareAt(l, r, columns[i]) # "equal"
                  /\ \A j \in 1..i - 1 : CompareAt(l, r, columns[j]) = "equal"
                  => CompareItems(l, r, columns) = CompareAt(l, r, columns[i])
<1> DEFINE I == {i \in 1..Len(columns) : CompareAt(l, r, columns[i]) # "equal"}
           first == SelectInSeq(columns, LAMBDA c : CompareAt(l, r, c) # "equal")
<1>1. first = IF I # {} THEN Min(I) ELSE 0
  BY DEF SelectInSeq
<1>2. CompareItems(l, r, columns) = IF first = 0 THEN "equal" ELSE CompareAt(l, r, columns[first])
  BY DEF CompareItems
<1> HIDE DEF first
<1>3. ASSUME \A i \in 1..Len(columns) : CompareAt(l, r, columns[i]) = "equal"
      PROVE  CompareItems(l, r, columns) = "equal"
  <2>1. I = {}
    BY <1>3
  <2> QED
    BY <1>1, <1>2, <2>1
<1>4. ASSUME NEW i \in 1..Len(columns), CompareAt(l, r, columns[i]) # "equal",
             \A j \in 1..i - 1 : CompareAt(l, r, columns[j]) = "equal"
      PROVE  CompareItems(l, r, columns) = CompareAt(l, r, columns[i])
  <2>1. I \in SUBSET Nat /\ i \in I
    BY <1>4
  <2>2. \A j \in I : i <= j
    <3> SUFFICES ASSUME NEW j \in I, j < i PROVE FALSE
      OBVIOUS
    <3>1. j \in 1..i - 1
      OBVIOUS
    <3> QED
      BY <1>4, <3>1
  <2>3. Min(I) = i
    <3> HIDE DEF I
    <3> QED
      BY <2>1, <2>2, SmallestIsMin
  <2>4. first = i
    BY <1>1, <2>1, <2>3
  <2>5. i # 0
    OBVIOUS
  <2> QED
    BY <1>2, <2>4, <2>5
<1> QED
  BY <1>3, <1>4

\* Of the columns from the i-th on, the i-th compares first.
From(columns, i) == SubSeq(columns, i, Len(columns))

\* The columns from one on, and the first of them.
LEMMA FromIs ==
    ASSUME NEW columns, IsList(columns), NEW i \in 1..Len(columns) + 1
    PROVE  /\ Len(From(columns, i)) = Len(columns) - i + 1
           /\ \A j \in 1..Len(columns) - i + 1 : From(columns, i)[j] = columns[i + j - 1]
<1>1. columns \in Seq(Range(columns)) /\ Len(columns) \in Nat
  BY DEF IsList, IsFunction, Range
<1>2. \A j \in i..Len(columns) : columns[j] \in Range(columns)
  BY DEF Range, IsList
<1> QED
  BY <1>1, <1>2, SubSeqProperties DEF From

\* The first column decides, the later ones on a tie.
LEMMA FromIsLexicographic ==
    ASSUME NEW rows, NEW columns, IsList(columns), NEW i \in 1..Len(columns)
    PROVE  IsLexicographic(rows, From(columns, i), columns[i], From(columns, i + 1))
<1> DEFINE n == Len(columns)
           all == From(columns, i)
           rest == From(columns, i + 1)
<1>1. n \in Nat /\ i \in Int /\ 1 <= i /\ i <= n
  BY DEF IsList
<1>2. /\ Len(all) = n - i + 1 /\ Len(rest) = n - i
      /\ \A j \in 1..n - i + 1 : all[j] = columns[i + j - 1]
      /\ \A j \in 1..n - i : rest[j] = columns[i + j]
  <2>1. Len(all) = n - i + 1 /\ \A j \in 1..n - i + 1 : all[j] = columns[i + j - 1]
    BY <1>1, FromIs
  <2>2. PICK m \in 1..n + 1 : m = i + 1
    BY <1>1
  <2>3. Len(rest) = n - m + 1 /\ \A j \in 1..n - m + 1 : rest[j] = columns[m + j - 1]
    <3>1. /\ Len(From(columns, m)) = n - m + 1
          /\ \A j \in 1..n - m + 1 : From(columns, m)[j] = columns[m + j - 1]
      BY <2>2, FromIs
    <3> QED
      BY <2>2, <3>1
  <2> HIDE DEF n, all, rest
  <2>4. Len(rest) = n - i
    BY <1>1, <2>2, <2>3
  <2>5. \A j \in 1..n - i : rest[j] = columns[i + j]
    <3> TAKE j \in 1..n - i
    <3>1. j \in 1..n - m + 1 /\ m + j - 1 = i + j
      BY <1>1, <2>2
    <3> QED
      BY <2>3, <3>1
  <2> QED
    BY <2>1, <2>4, <2>5
<1> HIDE DEF n, all, rest
<1>3. Len(all) \in Nat /\ Len(rest) \in Nat
  BY <1>1, <1>2
<1>4. all[1] = columns[i] /\ \A j \in 1..Len(rest) : rest[j] = all[j + 1]
  BY <1>1, <1>2
<1> SUFFICES ASSUME NEW l, NEW r
             PROVE  CompareItems(l, r, all) = IF CompareAt(l, r, columns[i]) = "equal"
                                              THEN CompareItems(l, r, rest)
                                              ELSE CompareAt(l, r, columns[i])
  BY DEF IsLexicographic, all, rest
<1>5. CASE CompareAt(l, r, columns[i]) # "equal"
  <2>1. 1 \in 1..Len(all) /\ 1..1 - 1 = {}
    BY <1>1, <1>2
  <2>2. CompareItems(l, r, all) = CompareAt(l, r, all[1])
    BY <1>3, <1>4, <1>5, <2>1, FirstDecides
  <2> QED
    BY <1>4, <1>5, <2>2
<1>6. CASE CompareAt(l, r, columns[i]) = "equal"
  <2>1. CASE \A j \in 1..Len(rest) : CompareAt(l, r, rest[j]) = "equal"
    <3>1. CompareItems(l, r, rest) = "equal"
      BY <1>3, <2>1, FirstDecides
    <3>2. ASSUME NEW j \in 1..Len(all) PROVE CompareAt(l, r, all[j]) = "equal"
      <4>1. j = 1 \/ (j - 1 \in 1..Len(rest) /\ all[j] = rest[j - 1])
        BY <1>1, <1>2, <1>4
      <4> QED
        BY <1>4, <1>6, <2>1, <4>1
    <3>3. CompareItems(l, r, all) = "equal"
      BY <1>3, <3>2, FirstDecides
    <3> QED
      BY <1>6, <3>1, <3>3
  <2>2. CASE \E j \in 1..Len(rest) : CompareAt(l, r, rest[j]) # "equal"
    <3> DEFINE J == {j \in 1..Len(rest) : CompareAt(l, r, rest[j]) # "equal"}
    <3>1. J \in SUBSET Nat /\ J # {}
      BY <2>2
    <3>2. PICK j \in J : \A k \in J : j <= k
      <4> HIDE DEF J
      <4> QED
        BY <3>1, SmallestExists
    <3>3. j \in 1..Len(rest) /\ CompareAt(l, r, rest[j]) # "equal"
      OBVIOUS
    <3>4. ASSUME NEW k \in 1..j - 1 PROVE CompareAt(l, r, rest[k]) = "equal"
      <4>1. k \in 1..Len(rest) /\ ~(j <= k)
        BY <1>3, <3>3
      <4>2. k \notin J
        BY <3>2, <4>1
      <4> QED
        BY <4>1, <4>2
    <3> HIDE DEF J
    <3>5. CompareItems(l, r, rest) = CompareAt(l, r, rest[j])
      BY <1>3, <3>3, <3>4, FirstDecides
    <3>6. j + 1 \in 1..Len(all) /\ all[j + 1] = rest[j] /\ (j + 1) - 1 = j
      <4>1. j \in Int /\ 1 <= j /\ j <= n - i /\ Len(all) = n - i + 1
        BY <1>1, <1>2, <3>3
      <4>2. j + 1 \in 1..Len(all) /\ (j + 1) - 1 = j
        BY <1>1, <4>1
      <4> QED
        BY <1>4, <3>3, <4>2
    <3>7. ASSUME NEW k \in 1..j PROVE CompareAt(l, r, all[k]) = "equal"
      <4>1. k = 1 \/ (k - 1 \in 1..j - 1 /\ all[k] = rest[k - 1])
        BY <1>3, <1>4, <3>3
      <4> QED
        BY <1>4, <1>6, <3>4, <4>1
    <3>8. CompareItems(l, r, all) = CompareAt(l, r, all[j + 1])
      BY <1>3, <3>3, <3>6, <3>7, FirstDecides
    <3> QED
      BY <1>6, <3>5, <3>6, <3>8
  <2> QED
    BY <2>1, <2>2
<1> QED
  BY <1>5, <1>6
\* Of a column whose values have one kind, all are numbers or null, or none is a number.
LEMMA OneKindIs ==
    ASSUME NEW rows, IsTable(rows), NEW path, HasOneKind(rows, path)
    PROVE  \/ \A row \in Range(rows) :
                  Has(row, path) => IsNumber(row[path]) \/ row[path].kind = "null"
           \/ \A row \in Range(rows) : Has(row, path) => ~IsNumber(row[path])
<1> SUFFICES ASSUME NEW row \in Range(rows), Has(row, path), IsNumber(row[path]),
                    NEW other \in Range(rows), Has(other, path), ~IsNumber(other[path])
             PROVE  other[path].kind = "null"
  OBVIOUS
<1>1. row[path].kind # "null"
  BY DEF IsNumber
<1>2. "number" \in KindsAt(rows, path)
  BY <1>1 DEF KindsAt
<1>3. other[path].kind # "null" => other[path].kind \in KindsAt(rows, path)
  BY DEF KindsAt
<1>4. other[path].kind # "null" => other[path].kind = "number"
  BY <1>2, <1>3 DEF HasOneKind
<1>5. other[path].kind # "number"
  BY DEF IsTable, IsPrinted, IsValue, Kind, Range, Has
<1> QED
  BY <1>4, <1>5

\* compare_optional_values is a total preorder on such a column.
LEMMA OptionalIsTotal ==
    ASSUME NEW rows, IsTable(rows), NEW path, HasOneKind(rows, path),
           NEW l \in Range(rows), NEW m \in Range(rows), NEW r \in Range(rows)
    PROVE  /\ CompareOptional(l, m, path) \in {"less", "equal", "greater"}
           /\ CompareOptional(l, m, path) = "less" <=> CompareOptional(m, l, path) = "greater"
           /\ CompareOptional(l, m, path) # "greater" /\ CompareOptional(m, r, path) # "greater"
              => CompareOptional(l, r, path) # "greater"
<1>1. \A x \in {l, m, r} : Has(x, path) => IsPrinted(x[path])
  BY DEF IsTable, Range, Has
<1>2. \A x \in {l, m, r} : Has(x, path) => TextRank[x[path].text] \in Int
  BY <1>1, TextsAssumption DEF IsPrinted
<1>3. CASE \A x \in {l, m, r} :
               Has(x, path) => IsNumber(x[path]) \/ x[path].kind = "null"
  <2>1. \A x \in {l, m, r} : Has(x, path) /\ IsNumber(x[path]) =>
            /\ NumberRank[x[path].text] \in Int
            /\ TextRank[x[path].text] < TextRank["null"]
    BY <1>1, TextsAssumption DEF IsPrinted
  <2>2. \A x \in {l, m, r} : Has(x, path) /\ ~IsNumber(x[path]) =>
            TextRank[x[path].text] = TextRank["null"]
    BY <1>1, <1>3 DEF IsPrinted
  <2>3. TextRank["null"] \in Int
    BY TextsAssumption
  <2> QED
    BY <1>2, <2>1, <2>2, <2>3 DEF CompareOptional, CompareJson, Order
<1>4. CASE \A x \in {l, m, r} : Has(x, path) => ~IsNumber(x[path])
  BY <1>2, <1>4 DEF CompareOptional, CompareJson, Order
<1> QED
  BY <1>3, <1>4, OneKindIs

\* One kind of values in a column makes a total preorder of its rows.
LEMMA ColumnIsTotal ==
    ASSUME NEW rows, IsTable(rows), NEW column, HasOneKind(rows, column.path)
    PROVE  IsTotal(rows, <<column>>)
<1> SUFFICES ASSUME NEW l \in Range(rows), NEW m \in Range(rows), NEW r \in Range(rows)
             PROVE  /\ CompareAt(l, m, column) \in {"less", "equal", "greater"}
                    /\ CompareAt(l, m, column) = "less" <=> CompareAt(m, l, column) = "greater"
                    /\ CompareAt(l, m, column) # "greater" /\ CompareAt(m, r, column) # "greater"
                       => CompareAt(l, r, column) # "greater"
  BY CompareByOne DEF IsTotal
<1>1. \A x, y, z \in {l, m, r} :
          /\ CompareOptional(x, y, column.path) \in {"less", "equal", "greater"}
          /\ CompareOptional(x, y, column.path) = "less"
                 <=> CompareOptional(y, x, column.path) = "greater"
          /\ CompareOptional(x, y, column.path) # "greater"
                 /\ CompareOptional(y, z, column.path) # "greater"
             => CompareOptional(x, z, column.path) # "greater"
  BY OptionalIsTotal
<1> QED
  BY <1>1 DEF CompareAt

\* Without columns nothing moves.
LEMMA UnsortedStays ==
    ASSUME NEW rows, IsList(rows)
    PROVE  IsTotal(rows, <<>>) /\ SortRows(rows, <<>>) = rows
<1> DEFINE D == DOMAIN rows
           f == [k \in D |-> k]
<1>0. Len(rows) \in Nat /\ D = 1..Len(rows)
  BY DEF IsList
<1>1. \A l, r : CompareItems(l, r, <<>>) = "equal"
  <2> TAKE l, r
  <2>1. Len(<<>>) = 0 /\ 1..0 = {}
    OBVIOUS
  <2> QED
    BY <2>1, FirstDecides
<1>2. IsTotal(rows, <<>>)
  BY <1>1 DEF IsTotal
<1>3. \A a, b \in D : a < b => <<f[a], f[b]>> \in PrecedenceOf(rows, <<>>)
  BY <1>1, PrecedenceIs DEF Precedes
<1>4. IsSorting(f, rows, <<>>)
  BY <1>0, <1>3 DEF IsSorting, IsInOrder
<1>5. SortRows(rows, <<>>) = [k \in D |-> rows[f[k]]]
  BY <1>2, <1>4, SortedIs, TotalIsSortable
<1>6. SortRows(rows, <<>>) = [k \in D |-> rows[k]]
  BY <1>5
<1> QED
  BY <1>2, <1>6 DEF IsList, IsFunction

\* Sorting by the columns from the i-th on is sorting by those after it, then by the i-th.
LEMMA SortingFrom ==
    ASSUME NEW rows, IsTable(rows), NEW columns, IsList(columns),
           \A i \in DOMAIN columns : HasOneKind(rows, columns[i].path)
    PROVE  /\ \A i \in 1..Len(columns) + 1 : IsTotal(rows, From(columns, i))
           /\ \A i \in DOMAIN columns :
                  SortRows(rows, From(columns, i))
                      = SortRows(SortRows(rows, From(columns, i + 1)), <<columns[i]>>)
<1> DEFINE n == Len(columns)
<1>0. n \in Nat /\ DOMAIN columns = 1..n /\ IsList(rows)
  BY DEF IsList, IsTable, IsArray
<1>1. ASSUME NEW i \in 1..n, IsTotal(rows, From(columns, i + 1))
      PROVE  /\ IsTotal(rows, From(columns, i))
             /\ SortRows(rows, From(columns, i))
                    = SortRows(SortRows(rows, From(columns, i + 1)), <<columns[i]>>)
  <2>1. IsLexicographic(rows, From(columns, i), columns[i], From(columns, i + 1))
    BY FromIsLexicographic
  <2>2. IsTotal(rows, <<columns[i]>>)
    BY <1>0, ColumnIsTotal
  <2> QED
    BY <1>0, <1>1, <2>1, <2>2, SortingTwice
<1>2. IsTotal(rows, From(columns, n + 1))
  <2>1. From(columns, n + 1) = <<>>
    BY <1>0, SubSeqEmpty DEF From
  <2> QED
    BY <1>0, <2>1, UnsortedStays
<1> DEFINE Bad == {k \in 0..n : ~IsTotal(rows, From(columns, n + 1 - k))}
<1>3. Bad = {}
  <2> SUFFICES ASSUME Bad # {} PROVE FALSE
    OBVIOUS
  <2>1. Bad \in SUBSET Nat
    OBVIOUS
  <2>2. PICK k \in Bad : \A j \in Bad : k <= j
    <3> HIDE DEF Bad
    <3> QED
      BY <2>1, SmallestExists
  <2>3. k \in 0..n /\ ~IsTotal(rows, From(columns, n + 1 - k))
    OBVIOUS
  <2>4. k # 0
    <3>1. k = 0 => n + 1 - k = n + 1
      BY <1>0
    <3> QED
      BY <1>2, <2>3, <3>1
  <2>5. k - 1 \in 0..n /\ ~(k <= k - 1)
    BY <1>0, <2>3, <2>4
  <2>6. IsTotal(rows, From(columns, n + 1 - (k - 1)))
    BY <2>2, <2>5
  <2>7. PICK i \in 1..n : i = n + 1 - k
    BY <1>0, <2>3, <2>4
  <2>8. i + 1 = n + 1 - (k - 1)
    BY <1>0, <2>3, <2>7
  <2>9. IsTotal(rows, From(columns, i + 1))
    BY <2>6, <2>8
  <2>10. IsTotal(rows, From(columns, i))
    BY <1>1, <2>9
  <2> QED
    BY <2>3, <2>7, <2>10
<1>4. ASSUME NEW i \in 1..n + 1 PROVE IsTotal(rows, From(columns, i))
  <2>1. n + 1 - i \in 0..n /\ n + 1 - (n + 1 - i) = i
    BY <1>0
  <2>2. n + 1 - i \notin Bad
    BY <1>3
  <2>3. IsTotal(rows, From(columns, n + 1 - (n + 1 - i)))
    BY <2>1, <2>2
  <2> QED
    BY <2>1, <2>3
<1>5. ASSUME NEW i \in 1..n
      PROVE  SortRows(rows, From(columns, i))
                 = SortRows(SortRows(rows, From(columns, i + 1)), <<columns[i]>>)
  <2>1. i + 1 \in 1..n + 1
    BY <1>0
  <2>2. IsTotal(rows, From(columns, i + 1))
    BY <1>4, <2>1
  <2> QED
    BY <1>1, <2>2
<1> QED
  BY <1>0, <1>4, <1>5
-----------------------------------------------------------------------------
(***************************************************************************)
(* The rows at some places.                                                *)
(***************************************************************************)

UpTo(P, i) == {j \in P : j <= i}

\* A later place has more places up to it.
LEMMA PlacesCount ==
    ASSUME NEW n \in Nat, NEW P \in SUBSET (1..n)
    PROVE  /\ IsFiniteSet(P) /\ Cardinality(P) \in Nat
           /\ \A i \in P : Cardinality(UpTo(P, i)) \in 1..Cardinality(P)
           /\ \A i, j \in P : i < j => Cardinality(UpTo(P, i)) < Cardinality(UpTo(P, j))
<1>0. \A i \in P : i \in Int
  OBVIOUS
<1>1. IsFiniteSet(P) /\ Cardinality(P) \in Nat
  <2>1. IsFiniteSet(1..n)
    BY FS_Interval
  <2>2. IsFiniteSet(P)
    BY <2>1, FS_Subset
  <2> QED
    BY <2>2, FS_CardinalityType
<1>2. ASSUME NEW i \in P
      PROVE  /\ IsFiniteSet(UpTo(P, i)) /\ Cardinality(UpTo(P, i)) \in Nat
             /\ Cardinality(UpTo(P, i)) <= Cardinality(P) /\ Cardinality(UpTo(P, i)) # 0
  <2>1. UpTo(P, i) \subseteq P /\ i \in UpTo(P, i)
    BY <1>0 DEF UpTo
  <2>2. IsFiniteSet(UpTo(P, i)) /\ Cardinality(UpTo(P, i)) <= Cardinality(P)
    BY <1>1, <2>1, FS_Subset
  <2>3. UpTo(P, i) # {}
    BY <2>1
  <2> QED
    BY <2>2, <2>3, FS_CardinalityType, FS_EmptySet
<1>3. ASSUME NEW i \in P, NEW j \in P, i < j
      PROVE  Cardinality(UpTo(P, i)) < Cardinality(UpTo(P, j))
  <2>1. UpTo(P, i) \subseteq UpTo(P, j) /\ j \in UpTo(P, j) /\ j \notin UpTo(P, i)
    <3>1. \A k \in P : k <= i => k <= j
      BY <1>0, <1>3
    <3>2. j <= j /\ ~(j <= i)
      BY <1>0, <1>3
    <3> QED
      BY <3>1, <3>2 DEF UpTo
  <2>2. /\ Cardinality(UpTo(P, i)) <= Cardinality(UpTo(P, j))
        /\ Cardinality(UpTo(P, i)) # Cardinality(UpTo(P, j))
    BY <1>2, <2>1, FS_Subset
  <2> QED
    BY <1>2, <2>2
<1> QED
  BY <1>1, <1>2, <1>3

\* An enumeration of the places.
Enumerates(f, P) ==
    /\ f \in [1..Cardinality(P) -> P]
    /\ \A k \in 1..Cardinality(P) : Cardinality(UpTo(P, f[k])) = k
    /\ \A i \in P : \E k \in 1..Cardinality(P) : f[k] = i

\* Some places can be counted in order.
LEMMA EnumerationExists ==
    ASSUME NEW n \in Nat, NEW P \in SUBSET (1..n)
    PROVE  \E f : Enumerates(f, P)
<1> DEFINE m == Cardinality(P)
           count == [i \in P |-> Cardinality(UpTo(P, i))]
           f == [k \in 1..m |-> CHOOSE i \in P : count[i] = k]
<1>1. /\ IsFiniteSet(P) /\ m \in Nat
      /\ \A i \in P : count[i] \in 1..m
      /\ \A i, j \in P : i < j => count[i] < count[j]
  BY PlacesCount
<1>2. \A i \in P : count[i] = Cardinality(UpTo(P, i))
  OBVIOUS
<1>3. count \in [P -> 1..m]
  BY <1>1
<1> HIDE DEF count, m
<1>4. \A i, j \in P : count[i] = count[j] => i = j
  <2> TAKE i, j \in P
  <2>1. i \in Int /\ j \in Int
    OBVIOUS
  <2>2. count[i] \in Int /\ count[j] \in Int
    BY <1>1
  <2> QED
    BY <1>1, <2>1, <2>2
<1>5. count \in Injection(P, 1..m)
  BY <1>3, <1>4, Fun_IsInj
<1>6. IsFiniteSet(1..m) /\ Cardinality(1..m) = m
  BY <1>1, FS_Interval
<1>7. count \in Surjection(P, 1..m)
  BY <1>5, <1>6, FS_Injection DEF m
<1>8. \A k \in 1..m : \E i \in P : count[i] = k
  BY <1>7 DEF Surjection
<1>9. \A k \in 1..m : f[k] \in P /\ count[f[k]] = k
  BY <1>8
<1>10. f \in [1..m -> P]
  BY <1>9
<1>11. \A i \in P : \E k \in 1..m : f[k] = i
  BY <1>1, <1>4, <1>9
<1> HIDE DEF f
<1>12. \A k \in 1..m : Cardinality(UpTo(P, f[k])) = k
  BY <1>2, <1>9
<1> QED
  BY <1>10, <1>11, <1>12 DEF Enumerates, m

AreRowsAt(s, rows, f, m) ==
    IsFunction(s) /\ DOMAIN s = 1..m /\ \A k \in 1..m : s[k] = rows[f[k]]

\* The rows at some places are those that the count leads to.
LEMMA RowsAtIs ==
    ASSUME NEW n \in Nat, NEW P \in SUBSET (1..n), NEW f, Enumerates(f, P), NEW rows,
           NEW m, m = Cardinality(P)
    PROVE  AreRowsAt(RowsAt(rows, P), rows, f, m)
<1>0. /\ \A i \in P : Cardinality(UpTo(P, i)) \in 1..Cardinality(P)
      /\ \A i, j \in P : i < j => Cardinality(UpTo(P, i)) < Cardinality(UpTo(P, j))
      /\ Cardinality(P) \in Nat
  BY PlacesCount
<1>1. \A i, j \in P : Cardinality(UpTo(P, i)) = Cardinality(UpTo(P, j)) => i = j
  <2> TAKE i, j \in P
  <2>1. i \in Int /\ j \in Int
    OBVIOUS
  <2>2. /\ Cardinality(UpTo(P, i)) \in Int /\ Cardinality(UpTo(P, j)) \in Int
        /\ i < j => Cardinality(UpTo(P, i)) < Cardinality(UpTo(P, j))
        /\ j < i => Cardinality(UpTo(P, j)) < Cardinality(UpTo(P, i))
    BY <1>0
  <2> QED
    BY <2>1, <2>2
<1>2. \A k \in 1..Cardinality(P) :
          (CHOOSE i \in P : Cardinality(UpTo(P, i)) = k) = f[k]
  <2> TAKE k \in 1..Cardinality(P)
  <2>1. f[k] \in P /\ Cardinality(UpTo(P, f[k])) = k
    BY DEF Enumerates
  <2> QED
    BY <1>1, <2>1
<1>3. RowsAt(rows, P)
          = [k \in 1..Cardinality(P) |-> rows[CHOOSE i \in P : Cardinality(UpTo(P, i)) = k]]
  BY DEF RowsAt, UpTo
<1>4. \A k \in 1..Cardinality(P) :
          rows[CHOOSE i \in P : Cardinality(UpTo(P, i)) = k] = rows[f[k]]
  BY <1>2
<1> QED
  BY <1>3, <1>4 DEF IsFunction, AreRowsAt

\* The rows at some places, as many as these.
LEMMA RowsAtIsList ==
    ASSUME NEW rows, IsList(rows), NEW P \in SUBSET DOMAIN rows
    PROVE  /\ IsList(RowsAt(rows, P))
           /\ Len(RowsAt(rows, P)) = Cardinality(P)
           /\ Range(RowsAt(rows, P)) = {rows[i] : i \in P}
<1>1. PICK n : n \in Nat /\ DOMAIN rows = 1..n /\ n = Len(rows)
  BY DEF IsList
<1>2. PICK f : Enumerates(f, P)
  BY <1>1, EnumerationExists
<1>3. PICK m : m = Cardinality(P) /\ m \in Nat
  BY <1>1, PlacesCount
<1> DEFINE s == RowsAt(rows, P)
<1>0. P \in SUBSET (1..n)
  BY <1>1
<1>4. AreRowsAt(s, rows, f, m)
  BY <1>0, <1>1, <1>2, <1>3, RowsAtIs
<1> HIDE DEF s
<1>5. IsList(s) /\ Len(s) = m
  BY <1>3, <1>4 DEF IsList, IsFunction, AreRowsAt
<1>6. Range(s) = {rows[i] : i \in P}
  BY <1>2, <1>3, <1>4 DEF Enumerates, Range, AreRowsAt
<1> QED
  BY <1>3, <1>5, <1>6 DEF s

\* Sequences are functions.
LEMMA SeqIsFunction ==
    ASSUME NEW R, NEW s \in Seq(R)
    PROVE  IsFunction(s)
  BY DEF IsFunction

\* Append, element by element.
LEMMA AppendIs ==
    ASSUME NEW rows, IsList(rows), NEW x
    PROVE  /\ IsList(Append(rows, x)) /\ Len(Append(rows, x)) = Len(rows) + 1
           /\ DOMAIN Append(rows, x) = 1..Len(rows) + 1
           /\ \A i \in 1..Len(rows) : Append(rows, x)[i] = rows[i]
           /\ Append(rows, x)[Len(rows) + 1] = x
           /\ Range(Append(rows, x)) = Range(rows) \cup {x}
<1> DEFINE R == Range(rows) \cup {x}
           new == Append(rows, x)
<1>1. rows \in Seq(R) /\ x \in R /\ Len(rows) \in Nat /\ DOMAIN rows = 1..Len(rows)
  BY DEF IsList, IsFunction, Range
<1> HIDE DEF R
<1>2. /\ new \in Seq(R) /\ Len(new) = Len(rows) + 1 /\ DOMAIN new = 1..Len(rows) + 1
      /\ \A i \in 1..Len(rows) : new[i] = rows[i]
      /\ new[Len(rows) + 1] = x
  BY <1>1
<1> HIDE DEF new
<1>3. IsList(new)
  BY <1>1, <1>2, SeqIsFunction DEF IsList
<1>4. \A i : i \in 1..Len(rows) + 1 <=> i \in 1..Len(rows) \/ i = Len(rows) + 1
  BY <1>1
<1>5. Range(new) = Range(rows) \cup {x}
  BY <1>1, <1>2, <1>4 DEF Range
<1> QED
  BY <1>2, <1>3, <1>5 DEF new

\* Lists with the same elements at the same places are the same.
LEMMA SameList ==
    ASSUME NEW s, IsList(s), NEW t, IsList(t), Len(s) = Len(t),
           \A i \in 1..Len(s) : s[i] = t[i]
    PROVE  s = t
<1>1. DOMAIN s = DOMAIN t /\ \A i \in DOMAIN s : s[i] = t[i]
  BY DEF IsList
<1>2. s = [i \in DOMAIN s |-> s[i]] /\ t = [i \in DOMAIN t |-> t[i]]
  BY DEF IsList, IsFunction
<1> QED
  BY <1>1, <1>2

\* A row at the end is among the rows at some places, last, or is not.
LEMMA RowsAtAppend ==
    ASSUME NEW rows, IsList(rows), NEW x, NEW P \in SUBSET DOMAIN rows
    PROVE  /\ RowsAt(Append(rows, x), P) = RowsAt(rows, P)
           /\ RowsAt(Append(rows, x), P \cup {Len(rows) + 1}) = Append(RowsAt(rows, P), x)
<1>1. PICK n : n \in Nat /\ DOMAIN rows = 1..n /\ n = Len(rows)
  BY DEF IsList
<1>2. PICK f : Enumerates(f, P)
  BY <1>1, EnumerationExists
<1>3. PICK m : m = Cardinality(P) /\ m \in Nat /\ IsFiniteSet(P)
  BY <1>1, PlacesCount
<1>4. PICK new : new = Append(rows, x)
  OBVIOUS
<1>5. /\ IsList(new) /\ Len(new) = n + 1 /\ DOMAIN new = 1..n + 1
      /\ \A i \in 1..n : new[i] = rows[i]
      /\ new[n + 1] = x
  BY <1>1, <1>4, AppendIs
<1>0. PICK l : l = n + 1
  OBVIOUS
<1>6. P \in SUBSET (1..n) /\ P \in SUBSET (1..l) /\ l \in Nat
  BY <1>0, <1>1
<1>7. AreRowsAt(RowsAt(rows, P), rows, f, m)
  BY <1>1, <1>2, <1>3, <1>6, RowsAtIs
<1>8. f \in [1..m -> P] /\ P \subseteq 1..n
  BY <1>1, <1>2, <1>3 DEF Enumerates
<1>9. RowsAt(new, P) = RowsAt(rows, P)
  <2>1. AreRowsAt(RowsAt(new, P), new, f, m)
    BY <1>2, <1>3, <1>6, RowsAtIs
  <2>2. \A k \in 1..m : RowsAt(new, P)[k] = RowsAt(rows, P)[k]
    BY <1>5, <1>7, <1>8, <2>1 DEF AreRowsAt
  <2>3. /\ RowsAt(new, P) = [k \in 1..m |-> RowsAt(new, P)[k]]
        /\ RowsAt(rows, P) = [k \in 1..m |-> RowsAt(rows, P)[k]]
    BY <1>7, <2>1 DEF IsFunction, AreRowsAt
  <2> QED
    BY <2>2, <2>3
<1> DEFINE Q == P \cup {n + 1}
           g == [k \in 1..m + 1 |-> IF k = m + 1 THEN n + 1 ELSE f[k]]
<1>10. n + 1 \notin P /\ Q \in SUBSET (1..l)
  BY <1>0, <1>1, <1>6
<1>11. Cardinality(Q) = m + 1
  BY <1>3, <1>10, FS_AddElement
<1>12. \A k : k \in 1..m + 1 <=> k \in 1..m \/ k = m + 1
  BY <1>3
<1>13. \A k \in 1..m : k # m + 1
  BY <1>3
<1>14. g \in [1..m + 1 -> Q] /\ \A k \in 1..m : g[k] = f[k]
  BY <1>8, <1>12, <1>13
<1>15. g[m + 1] = n + 1
  BY <1>12
<1>16. ASSUME NEW k \in 1..m + 1 PROVE Cardinality(UpTo(Q, g[k])) = k
  <2>1. CASE k \in 1..m
    <3>1. f[k] \in 1..n /\ ~(n + 1 <= f[k])
      BY <1>1, <1>8, <2>1
    <3>2. UpTo(Q, f[k]) = UpTo(P, f[k])
      BY <3>1 DEF UpTo
    <3> HIDE DEF Q, g
    <3> QED
      BY <1>2, <1>3, <1>14, <2>1, <3>2 DEF Enumerates
  <2>2. CASE k = m + 1
    <3>1. \A i \in Q : i <= n + 1
      BY <1>1, <1>10
    <3>2. UpTo(Q, n + 1) = Q
      BY <3>1 DEF UpTo
    <3> HIDE DEF Q, g
    <3> QED
      BY <1>11, <1>15, <2>2, <3>2
  <2> QED
    BY <1>12, <2>1, <2>2
<1>17. ASSUME NEW i \in Q PROVE \E k \in 1..m + 1 : g[k] = i
  <2>1. CASE i = n + 1
    BY <1>12, <1>15, <2>1
  <2>2. CASE i \in P
    <3>1. PICK k \in 1..m : f[k] = i
      BY <1>2, <1>3, <2>2 DEF Enumerates
    <3> QED
      BY <1>12, <1>14, <3>1
  <2> QED
    BY <2>1, <2>2
<1> HIDE DEF g, Q
<1>18. Enumerates(g, Q)
  BY <1>11, <1>14, <1>16, <1>17 DEF Enumerates
<1>19. \A k \in 1..m + 1 : RowsAt(new, Q)[k] = new[g[k]]
  <2>1. PICK p : p = m + 1
    OBVIOUS
  <2>2. p = Cardinality(Q)
    BY <1>11, <2>1
  <2>3. AreRowsAt(RowsAt(new, Q), new, g, p)
    BY <1>6, <1>10, <1>18, <2>2, RowsAtIs
  <2> QED
    BY <2>1, <2>3 DEF AreRowsAt
<1>20. RowsAt(new, Q) = Append(RowsAt(rows, P), x)
  <2>1. PICK s : s = RowsAt(new, Q)
    OBVIOUS
  <2>2. PICK r : r = RowsAt(rows, P)
    OBVIOUS
  <2>3. PICK t : t = Append(r, x)
    OBVIOUS
  <2>4. IsList(s) /\ Len(s) = m + 1 /\ IsList(r) /\ Len(r) = m
    <3>1. Q \in SUBSET DOMAIN new /\ P \in SUBSET DOMAIN rows
      BY <1>0, <1>5, <1>10
    <3> QED
      BY <1>3, <1>5, <1>11, <2>1, <2>2, <3>1, RowsAtIsList
  <2>5. /\ IsList(t) /\ Len(t) = m + 1 /\ t[m + 1] = x
        /\ \A k \in 1..m : t[k] = r[k]
    BY <2>3, <2>4, AppendIs
  <2>6. \A k \in 1..m : s[k] = t[k]
    BY <1>5, <1>7, <1>8, <1>12, <1>14, <1>19, <2>1, <2>2, <2>5 DEF AreRowsAt
  <2>7. s[m + 1] = x
    BY <1>5, <1>12, <1>15, <1>19, <2>1
  <2> QED
    BY <1>12, <2>1, <2>2, <2>3, <2>4, <2>5, <2>6, <2>7, SameList
<1> QED
  BY <1>1, <1>4, <1>9, <1>20 DEF Q

\* A row that is added is selected or not; the others are as before.
LEMMA FilterIsList ==
    ASSUME NEW rows, IsList(rows), NEW conditions, NEW types
    PROVE  /\ IsList(FilterRows(rows, conditions, types))
           /\ Range(FilterRows(rows, conditions, types)) \subseteq Range(rows)
<1> DEFINE P == {i \in DOMAIN rows :
                    \A condition \in Range(conditions) : MatchesFilter(rows[i], condition, types)}
<1>1. P \in SUBSET DOMAIN rows /\ FilterRows(rows, conditions, types) = RowsAt(rows, P)
  BY DEF FilterRows
<1> HIDE DEF P
<1>2. /\ IsList(RowsAt(rows, P))
      /\ Range(RowsAt(rows, P)) = {rows[i] : i \in P}
  BY <1>1, RowsAtIsList
<1> QED
  BY <1>1, <1>2 DEF Range

\* A row that is added is selected, last, or is not.
LEMMA FilterGrows ==
    ASSUME NEW rows, IsList(rows), NEW x, NEW conditions, NEW types
    PROVE  LET before == FilterRows(rows, conditions, types)
               after == FilterRows(Append(rows, x), conditions, types)
           IN  after = before \/ after = Append(before, x)
<1> DEFINE selects(row) ==
               \A condition \in Range(conditions) : MatchesFilter(row, condition, types)
           P == {i \in DOMAIN rows : selects(rows[i])}
<1>1. PICK new : new = Append(rows, x)
  OBVIOUS
<1>2. PICK n : n = Len(rows) /\ n \in Nat /\ DOMAIN rows = 1..n
  BY DEF IsList
<1>3. /\ DOMAIN new = 1..n + 1 /\ \A i \in 1..n : new[i] = rows[i]
      /\ new[n + 1] = x
  BY <1>1, <1>2, AppendIs
<1>4. \A i : i \in 1..n + 1 <=> i \in 1..n \/ i = n + 1
  BY <1>2
<1>5. /\ FilterRows(rows, conditions, types) = RowsAt(rows, P)
      /\ FilterRows(new, conditions, types) = RowsAt(new, {i \in DOMAIN new : selects(new[i])})
  BY DEF FilterRows
<1> HIDE DEF selects
<1>6. {i \in DOMAIN new : selects(new[i])} = IF selects(x) THEN P \cup {n + 1} ELSE P
  BY <1>2, <1>3, <1>4
<1>7. P \in SUBSET DOMAIN rows
  OBVIOUS
<1> HIDE DEF P
<1>8. /\ RowsAt(new, P) = RowsAt(rows, P)
      /\ RowsAt(new, P \cup {n + 1}) = Append(RowsAt(rows, P), x)
  BY <1>1, <1>2, <1>7, RowsAtAppend
<1> QED
  BY <1>1, <1>5, <1>6, <1>8

-----------------------------------------------------------------------------
(***************************************************************************)
(* A row that is added at the end of a selection.                          *)
(***************************************************************************)

\* Sorting keeps the number of rows.
LEMMA SortedIsList ==
    ASSUME NEW rows, IsList(rows), NEW columns
    PROVE  IsList(SortRows(rows, columns)) /\ Len(SortRows(rows, columns)) = Len(rows)
<1> DEFINE e(k) == rows[CHOOSE i \in DOMAIN rows : Position(rows, columns, i) = k]
           s == [k \in DOMAIN rows |-> e(k)]
<1>1. SortRows(rows, columns) = s
  BY DEF SortRows
<1>2. PICK n : n \in Nat /\ DOMAIN rows = 1..n /\ n = Len(rows)
  BY DEF IsList
<1> HIDE DEF e
<1>3. s = [k \in 1..n |-> e(k)]
  BY <1>2
<1>4. DOMAIN s = 1..n /\ Len(s) = n /\ IsFunction(s)
  BY <1>2, <1>3 DEF IsFunction
<1> HIDE DEF s
<1> QED
  BY <1>1, <1>2, <1>4 DEF IsList

\* A part of totally ordered rows is totally ordered.
LEMMA TotalOnPart ==
    ASSUME NEW rows, NEW columns, IsTotal(rows, columns),
           NEW part, Range(part) \subseteq Range(rows)
    PROVE  IsTotal(part, columns)
  BY DEF IsTotal

\* A row that is less than no other one is sorted to the end.
LEMMA SortAppend ==
    ASSUME NEW rows, IsList(rows), NEW x, NEW columns, IsTotal(Append(rows, x), columns),
           \A row \in Range(rows) : CompareItems(x, row, columns) # "less"
    PROVE  SortRows(Append(rows, x), columns) = Append(SortRows(rows, columns), x)
<1>1. PICK new : new = Append(rows, x)
  OBVIOUS
<1>2. PICK n : n = Len(rows) /\ n \in Nat /\ DOMAIN rows = 1..n
  BY DEF IsList
<1>3. /\ IsList(new) /\ Len(new) = n + 1 /\ DOMAIN new = 1..n + 1
      /\ \A i \in 1..n : new[i] = rows[i]
      /\ new[n + 1] = x
      /\ Range(new) = Range(rows) \cup {x}
  BY <1>1, <1>2, AppendIs
<1>4. IsTotal(new, columns) /\ IsTotal(rows, columns)
  BY <1>1, <1>3, TotalOnPart
<1>5. PICK f : IsSorting(f, rows, columns)
  BY <1>4, TotalIsSortable, SortingExists
<1>6. /\ f \in [1..n -> 1..n]
      /\ \A i \in 1..n : \E k \in 1..n : f[k] = i
      /\ \A a, b \in 1..n : a < b => <<f[a], f[b]>> \in PrecedenceOf(rows, columns)
  BY <1>2, <1>5 DEF IsSorting, IsInOrder
<1>7. PICK l : l = n + 1 /\ l \in Nat
  BY <1>2
<1>8. \A i : i \in 1..l <=> i \in 1..n \/ i = l
  BY <1>2, <1>7
<1>9. \A i \in 1..n : i < l /\ ~(l < i) /\ i # l
  BY <1>2, <1>7
<1> DEFINE g == [k \in 1..l |-> IF k = l THEN l ELSE f[k]]
<1>10. g \in [1..l -> 1..l]
  BY <1>6, <1>8
<1>11. g[l] = l /\ \A k \in 1..n : g[k] = f[k] /\ f[k] \in 1..n
  BY <1>6, <1>8, <1>9
<1> HIDE DEF g
<1>12. \A i \in 1..l : \E k \in 1..l : g[k] = i
  BY <1>6, <1>8, <1>11
<1>13. ASSUME NEW a \in 1..l, NEW b \in 1..l, a < b
       PROVE  <<g[a], g[b]>> \in PrecedenceOf(new, columns)
  <2>1. a \in 1..n
    BY <1>8, <1>9, <1>13
  <2>2. CASE b \in 1..n
    <3>1. Precedes(rows, columns, f[a], f[b])
      BY <1>2, <1>6, <1>11, <1>13, <2>1, <2>2, PrecedenceIs
    <3>2. Precedes(new, columns, f[a], f[b])
      BY <1>3, <1>11, <2>1, <2>2, <3>1 DEF Precedes
    <3>3. f[a] \in DOMAIN new /\ f[b] \in DOMAIN new
      BY <1>3, <1>7, <1>8, <1>11, <2>1, <2>2
    <3> QED
      BY <1>11, <2>1, <2>2, <3>2, <3>3, PrecedenceIs
  <2>3. CASE b = l
    <3>1. rows[f[a]] \in Range(rows) /\ new[f[a]] = rows[f[a]] /\ new[l] = x
      BY <1>2, <1>3, <1>7, <1>11, <2>1 DEF Range
    <3>2. CompareItems(x, rows[f[a]], columns) # "less"
      BY <3>1
    <3>3. /\ CompareItems(rows[f[a]], x, columns) # "greater"
          /\ CompareItems(rows[f[a]], x, columns) \in {"less", "equal", "greater"}
      BY <1>3, <1>4, <3>1, <3>2 DEF IsTotal
    <3>4. f[a] < l
      BY <1>9, <1>11, <2>1
    <3>5. Precedes(new, columns, f[a], l)
      BY <3>1, <3>3, <3>4 DEF Precedes
    <3>6. f[a] \in DOMAIN new /\ l \in DOMAIN new
      BY <1>3, <1>7, <1>8, <1>11, <2>1
    <3> QED
      BY <1>11, <2>1, <2>3, <3>5, <3>6, PrecedenceIs
  <2> QED
    BY <1>8, <2>2, <2>3
<1>14. IsSorting(g, new, columns)
  BY <1>3, <1>7, <1>10, <1>12, <1>13 DEF IsSorting, IsInOrder
<1>15. SortRows(rows, columns) = [k \in 1..n |-> rows[f[k]]]
  BY <1>2, <1>4, <1>5, SortedIs, TotalIsSortable
<1>16. SortRows(new, columns) = [k \in 1..l |-> new[g[k]]]
  BY <1>3, <1>4, <1>7, <1>14, SortedIs, TotalIsSortable
<1>17. PICK s, t, r : s = SortRows(new, columns) /\ r = SortRows(rows, columns) /\ t = Append(r, x)
  OBVIOUS
<1>18. IsList(s) /\ Len(s) = l /\ IsList(r) /\ Len(r) = n
  BY <1>2, <1>3, <1>7, <1>17, SortedIsList
<1>19. /\ IsList(t) /\ Len(t) = l /\ t[l] = x
       /\ \A k \in 1..n : t[k] = r[k]
  BY <1>7, <1>17, <1>18, AppendIs
<1>20. \A k \in 1..n : s[k] = t[k]
  <2> TAKE k \in 1..n
  <2>1. s[k] = new[g[k]]
    BY <1>8, <1>16, <1>17
  <2>2. r[k] = rows[f[k]]
    BY <1>15, <1>17
  <2> QED
    BY <1>3, <1>11, <1>19, <2>1, <2>2
<1>21. s[l] = x
  BY <1>3, <1>7, <1>8, <1>11, <1>16, <1>17
<1>22. \A k \in 1..Len(s) : s[k] = t[k]
  BY <1>8, <1>18, <1>19, <1>20, <1>21
<1>23. s = t
  BY <1>18, <1>19, <1>22, SameList
<1> QED
  BY <1>1, <1>17, <1>23

\* What is selected of rows with one more row is what was, or that row after it.
SelectionOf(rows, conditions, types, columns) ==
    SortRows(FilterRows(rows, conditions, types), columns)

\* So a selection grows at its end only.
LEMMA SelectedGrows ==
    ASSUME NEW rows, IsList(rows), NEW x, NEW conditions, NEW types, NEW columns,
           IsTotal(Append(rows, x), columns),
           \A row \in Range(rows) : CompareItems(x, row, columns) # "less"
    PROVE  LET before == SelectionOf(rows, conditions, types, columns)
               after == SelectionOf(Append(rows, x), conditions, types, columns)
           IN  after = before \/ after = Append(before, x)
<1>1. PICK kept : kept = FilterRows(rows, conditions, types)
  OBVIOUS
<1>2. IsList(kept) /\ Range(kept) \subseteq Range(rows)
  BY <1>1, FilterIsList
<1>3. \/ FilterRows(Append(rows, x), conditions, types) = kept
      \/ FilterRows(Append(rows, x), conditions, types) = Append(kept, x)
  BY <1>1, FilterGrows
<1>4. Range(Append(kept, x)) \subseteq Range(Append(rows, x))
  BY <1>2, AppendIs
<1>5. SortRows(Append(kept, x), columns) = Append(SortRows(kept, columns), x)
  BY <1>2, <1>4, TotalOnPart, SortAppend
<1> QED
  BY <1>1, <1>3, <1>5 DEF SelectionOf

\* A selection is a list.
LEMMA SelectedIsList ==
    ASSUME NEW rows, IsList(rows), NEW conditions, NEW types, NEW columns
    PROVE  IsList(SelectionOf(rows, conditions, types, columns))
  BY FilterIsList, SortedIsList DEF SelectionOf
-----------------------------------------------------------------------------
(***************************************************************************)
(* The rows of every table stay printed values.                            *)
(***************************************************************************)

TablesOK ==
    /\ IsFunction(tables) /\ PostTable \in DOMAIN tables
    /\ \A t \in DOMAIN tables : IsTable(tables[t])
    /\ query \in Requests
    /\ {query.table} \cup {join.resource : join \in Range(query.joins)} \subseteq DOMAIN tables
    /\ posted \in 0..Len(NewRows)
    /\ \A i \in posted + 1..Len(NewRows) : \A row \in Range(tables[PostTable]) :
           HasSmallerId(row, NewRows[i])
    /\ \A t \in DOMAIN tables : \A c \in DOMAIN References[t] :
           References[t][c].table \in DOMAIN tables

\* Tables are lists of rows.
LEMMA TableIsList == ASSUME NEW rows, IsTable(rows) PROVE IsList(rows)
  BY DEF IsTable, IsArray, IsList

\* A row that another client adds fits into a table.
LEMMA AppendIsTable ==
    ASSUME NEW rows, IsTable(rows), NEW i \in DOMAIN NewRows
    PROVE  IsTable(Append(rows, NewRows[i]))
<1>1. PICK row : row = NewRows[i]
  OBVIOUS
<1>2. PICK new : new = Append(rows, row)
  OBVIOUS
<1>3. IsRow(row) /\ \A path \in DOMAIN row : IsPath(path) /\ IsPrinted(row[path])
  BY <1>1, RowsAssumption DEF IsTable, IsArray
<1>4. PICK n : n = Len(rows) /\ n \in Nat /\ DOMAIN rows = 1..n
  BY DEF IsTable, IsArray
<1>5. /\ IsList(new) /\ DOMAIN new = 1..n + 1
      /\ \A k \in 1..n : new[k] = rows[k]
      /\ new[n + 1] = row
  BY <1>2, <1>4, TableIsList, AppendIs
<1>6. ASSUME NEW k \in DOMAIN new
      PROVE  IsRow(new[k]) /\ \A path \in DOMAIN new[k] : IsPath(path) /\ IsPrinted(new[k][path])
  <2>1. CASE k = n + 1
    BY <1>3, <1>5, <2>1
  <2>2. CASE k \in 1..n
    BY <1>4, <1>5, <2>2 DEF IsTable, IsArray
  <2> QED
    BY <1>4, <1>5, <2>1, <2>2
<1> QED
  BY <1>1, <1>2, <1>5, <1>6 DEF IsTable, IsArray, IsList

\* The folder at the start is one of tables.
LEMMA TablesInit == Init => TablesOK
<1> SUFFICES ASSUME Init PROVE TablesOK
  OBVIOUS
<1>1. /\ IsFunction(tables) /\ PostTable \in DOMAIN tables
      /\ \A t \in DOMAIN tables : IsTable(tables[t])
  BY RowsAssumption DEF Init
<1>2. /\ query \in Requests
      /\ {query.table} \cup {join.resource : join \in Range(query.joins)} \subseteq DOMAIN tables
  BY RequestsAssumption DEF Init
<1>3. posted = 0 /\ Len(NewRows) \in Nat /\ DOMAIN NewRows = 1..Len(NewRows)
  BY RowsAssumption DEF Init, IsTable, IsArray
<1>4. \A i \in posted + 1..Len(NewRows) : \A row \in Range(tables[PostTable]) :
          HasSmallerId(row, NewRows[i])
  BY <1>3, PostsAssumption DEF Init
<1>5. \A t \in DOMAIN tables : \A c \in DOMAIN References[t] :
          References[t][c].table \in DOMAIN tables
  BY ReferencesAssumption DEF Init
<1> QED
  BY <1>1, <1>2, <1>3, <1>4, <1>5 DEF TablesOK

\* No step of a client changes that.
LEMMA TablesNext == TablesOK /\ [Next]_vars => TablesOK'
<1> SUFFICES ASSUME TablesOK, [Next]_vars PROVE TablesOK'
  OBVIOUS
<1>1. CASE Post
  <2>1. Len(NewRows) \in Nat /\ DOMAIN NewRows = 1..Len(NewRows)
    BY RowsAssumption DEF IsTable, IsArray
  <2>2. posted + 1 \in DOMAIN NewRows /\ posted' \in 0..Len(NewRows)
    BY <1>1, <2>1 DEF Post, TablesOK
  <2>3. IsTable(Append(tables[PostTable], NewRows[posted + 1]))
    BY <2>2, AppendIsTable DEF TablesOK
  <2>4. /\ tables' = [tables EXCEPT ![PostTable] = Append(@, NewRows[posted + 1])]
        /\ UNCHANGED query
    BY <1>1 DEF Post
  <2>5. DOMAIN tables' = DOMAIN tables /\ IsFunction(tables')
    BY <2>4 DEF IsFunction
  <2>6. \A t \in DOMAIN tables' : IsTable(tables'[t])
    BY <2>3, <2>4 DEF TablesOK
  <2>7. ASSUME NEW i \in posted' + 1..Len(NewRows), NEW row \in Range(tables'[PostTable])
        PROVE  HasSmallerId(row, NewRows[i])
    <3>1. i \in DOMAIN NewRows /\ posted + 1 \in 1..i - 1 /\ i \in posted + 1..Len(NewRows)
      BY <1>1, <2>1, <2>2 DEF Post, TablesOK
    <3>2. tables'[PostTable] = Append(tables[PostTable], NewRows[posted + 1])
      BY <2>4 DEF TablesOK
    <3>3. IsList(tables[PostTable])
      BY TableIsList DEF TablesOK
    <3>4. row \in Range(tables[PostTable]) \/ row = NewRows[posted + 1]
      BY <3>2, <3>3, AppendIs
    <3>5. HasSmallerId(NewRows[posted + 1], NewRows[i])
      BY <3>1, PostsAssumption
    <3> QED
      BY <3>1, <3>4, <3>5 DEF TablesOK
  <2>8. \A t \in DOMAIN tables' : \A c \in DOMAIN References[t] :
            References[t][c].table \in DOMAIN tables'
    BY <2>5 DEF TablesOK
  <2> QED
    BY <2>2, <2>4, <2>5, <2>6, <2>7, <2>8 DEF TablesOK
<1>2. CASE UNCHANGED <<tables, query, posted>>
  BY <1>2 DEF TablesOK
<1> QED
  BY <1>1, <1>2 DEF Next, vars, FetchPage, FetchRows, Reject

\* Tables stay tables, and rows to come have greater ids.
LEMMA TablesInvariance == Spec => []TablesOK
  BY TablesInit, TablesNext, PTL DEF Spec

\* On every column whose values have one kind the comparison is a total
\* preorder, and sorting by several columns is sorting by the last, then stably
\* by those before it (compare_items_by_columns, compare_json_values).
THEOREM SortingStaysSound == Spec => []SortingIsSound
<1>1. TablesOK => OrderIsTotal
  <2> SUFFICES ASSUME TablesOK, NEW t \in DOMAIN tables, NEW path \in ProbePaths,
                      HasOneKind(tables[t], path),
                      NEW l \in Range(tables[t]), NEW m \in Range(tables[t]),
                      NEW r \in Range(tables[t])
               PROVE  /\ \/ CompareOptional(l, m, path) # "greater"
                         \/ CompareOptional(m, l, path) # "greater"
                      /\ CompareOptional(l, m, path) # "greater"
                             /\ CompareOptional(m, r, path) # "greater"
                         => CompareOptional(l, r, path) # "greater"
    BY DEF OrderIsTotal
  <2>1. IsTable(tables[t])
    BY DEF TablesOK
  <2> QED
    BY <2>1, OptionalIsTotal
<1>2. TablesOK => SortIsLexicographic
  <2> SUFFICES ASSUME TablesOK, 
                      \A column \in Range(query.sort) :
                          HasOneKind(tables[query.table], column.path)
               PROVE  /\ SortRows(tables[query.table], <<>>) = tables[query.table]
                      /\ \A i \in DOMAIN query.sort :
                             SortRows(tables[query.table], From(query.sort, i))
                                 = SortRows(SortRows(tables[query.table], From(query.sort, i + 1)),
                                            <<query.sort[i]>>)
    BY DEF SortIsLexicographic, From
  <2>1. IsTable(tables[query.table]) /\ IsList(query.sort)
    BY RequestsAssumption DEF TablesOK, IsList
  <2>2. \A i \in DOMAIN query.sort : HasOneKind(tables[query.table], query.sort[i].path)
    BY DEF Range
  <2>3. IsList(tables[query.table])
    BY <2>1 DEF IsTable, IsArray, IsList
  <2> QED
    BY <2>1, <2>2, <2>3, SortingFrom, UnsortedStays
<1> QED
  BY <1>1, <1>2, TablesInvariance, PTL DEF SortingIsSound


-----------------------------------------------------------------------------
(***************************************************************************)
(* Filters.                                                                *)
(***************************************************************************)

\* What a filter compares an untyped value with is of a class that the value has.
LEMMA ParsedIs ==
    ASSUME NEW text, text \in DOMAIN TextRank
    PROVE  /\ text \in DOMAIN NumberRank =>
                  ParseText(text) = Comparable("number", NumberRank[text])
           /\ text \in {"false", "true"} => ParseText(text) = Comparable("bool", TextRank[text])
           /\ ParseText(text).class \in {"number", "bool", "string"}
  BY TextsAssumption DEF ParseText, Comparable

\* Rows of a column that fits its type compare with an operand as if there were no type.
LEMMA ComparesAgree ==
    ASSUME NEW v, IsPrinted(v), NEW type, type # NoType,
           \/ v.kind = "null"
           \/ IsNumber(v) /\ type \in NumericTypes
           \/ v.kind = "bool" /\ type \notin NumericTypes /\ type = "boolean",
           NEW text
    PROVE  CompareComparable(CoerceActual(v, type), CoerceExpected(text, type))
               = CompareComparable(CoerceActual(v, NoType), CoerceExpected(text, NoType))
<1>0. \A class, rank : /\ Comparable(class, rank).class = class
                       /\ Comparable(class, rank).rank = rank
  BY DEF Comparable
<1>1. ParseText(text).class \in {"number", "bool", "string"}
  BY <1>0 DEF ParseText
<1>2. \A t : CoerceText(t, NoType) = ParseText(t)
  BY DEF CoerceText
<1>3. CoerceExpected(text, NoType).class
          = IF text = "null" THEN "null" ELSE ParseText(text).class
  BY <1>0, <1>2 DEF CoerceExpected, NullComparable
<1>4. CASE v.kind = "null"
  <2>1. CoerceActual(v, type) = NullComparable /\ CoerceActual(v, NoType) = NullComparable
    BY <1>4 DEF CoerceActual
  <2>2. CASE text = "null"
    BY <2>1, <2>2 DEF CoerceExpected
  <2>3. CASE text # "null"
    <3>1. CoerceText(text, type).class # "null"
      BY <1>0, <1>1 DEF CoerceText, Incomparable
    <3>2. CoerceExpected(text, type).class # "null"
      BY <2>3, <3>1 DEF CoerceExpected
    <3>3. CoerceExpected(text, NoType).class # "null"
      BY <1>1, <1>3, <2>3
    <3>4. NullComparable.class = "null"
      BY <1>0 DEF NullComparable
    <3> QED
      BY <2>1, <3>2, <3>3, <3>4 DEF CompareComparable
  <2> QED
    BY <2>2, <2>3
<1>5. CASE IsNumber(v) /\ type \in NumericTypes
  <2>1. v.kind # "null" /\ ParseText(v.text).class = "number"
    BY <1>0, <1>5 DEF IsNumber, IsPrinted, ParseText
  <2>2. CoerceActual(v, type) = ParseText(v.text) /\ CoerceActual(v, NoType) = ParseText(v.text)
    BY <1>2, <1>5, <2>1 DEF CoerceActual, CoerceText
  <2>3. CoerceText(text, type)
            = IF ParseText(text).class = "number" THEN ParseText(text) ELSE Incomparable
    BY <1>5 DEF CoerceText
  <2>4. CASE text = "null"
    BY <2>2, <2>4 DEF CoerceExpected
  <2>5. CASE text # "null" /\ ParseText(text).class = "number"
    BY <1>2, <2>2, <2>3, <2>5 DEF CoerceExpected
  <2>6. CASE text # "null" /\ ParseText(text).class # "number"
    <3>1. CoerceExpected(text, type).class = "none"
      BY <1>0, <2>3, <2>6 DEF CoerceExpected, Incomparable
    <3>2. CoerceExpected(text, NoType).class # "number"
      BY <1>3, <2>6
    <3> QED
      BY <2>1, <2>2, <3>1, <3>2 DEF CompareComparable
  <2> QED
    BY <2>4, <2>5, <2>6
<1>6. CASE v.kind = "bool" /\ type \notin NumericTypes /\ type = "boolean"
  <2>1. v.kind # "null" /\ ParseText(v.text).class = "bool"
    BY <1>0, <1>6, TextsAssumption DEF IsPrinted, ParseText
  <2>2. CoerceActual(v, type) = ParseText(v.text) /\ CoerceActual(v, NoType) = ParseText(v.text)
    BY <1>2, <1>6, <2>1 DEF CoerceActual, CoerceText
  <2>3. CoerceText(text, type)
            = IF ParseText(text).class = "bool" THEN ParseText(text) ELSE Incomparable
    BY <1>6 DEF CoerceText
  <2>4. CASE text = "null"
    BY <2>2, <2>4 DEF CoerceExpected
  <2>5. CASE text # "null" /\ ParseText(text).class = "bool"
    BY <1>2, <2>2, <2>3, <2>5 DEF CoerceExpected
  <2>6. CASE text # "null" /\ ParseText(text).class # "bool"
    <3>1. CoerceExpected(text, type).class = "none"
      BY <1>0, <2>3, <2>6 DEF CoerceExpected, Incomparable
    <3>2. CoerceExpected(text, NoType).class # "bool"
      BY <1>3, <2>6
    <3> QED
      BY <2>1, <2>2, <3>1, <3>2 DEF CompareComparable
  <2> QED
    BY <2>4, <2>5, <2>6
<1> QED
  BY <1>4, <1>5, <1>6

\* Of each row of such a column, the value is null or of the type.
LEMMA FittingIs ==
    ASSUME NEW rows, IsTable(rows), NEW path, NEW type, FitsType(rows, path, type),
           NEW row \in Range(rows)
    PROVE  LET v == Field(row, path)
           IN  /\ IsPrinted(v)
               /\ \/ v.kind = "null"
                  \/ IsNumber(v) /\ type \in NumericTypes
                  \/ v.kind = "bool" /\ type \notin NumericTypes /\ type = "boolean"
<1> DEFINE v == Field(row, path)
<1>1. CASE ~Has(row, path)
  <2>1. v = Null /\ Null.kind = "null" /\ Null.text = "null"
    BY <1>1 DEF Field, Null, Json
  <2>2. IsPrinted(Null)
    BY TextsAssumption DEF IsPrinted, IsValue, IsNumber, Null, Json, Kind
  <2> QED
    BY <2>1, <2>2
<1>2. CASE Has(row, path)
  <2>1. v = row[path] /\ IsPrinted(v)
    BY <1>2 DEF Field, IsTable, Range, Has
  <2>2. CASE v.kind = "null"
    BY <2>1, <2>2
  <2>3. CASE v.kind # "null"
    <3> DEFINE kind == IF IsNumber(v) THEN "number" ELSE v.kind
    <3>1. kind \in KindsAt(rows, path)
      BY <1>2, <2>1, <2>3 DEF KindsAt
    <3>2. kind = IF type \in NumericTypes THEN "number"
                 ELSE IF type = "boolean" THEN "bool" ELSE "text"
      BY <3>1 DEF FitsType
    <3>3. v.kind \in Kind
      BY <2>1 DEF IsPrinted, IsValue
    <3> QED
      BY <2>1, <3>2, <3>3 DEF Kind
  <2> QED
    BY <2>2, <2>3
<1> QED
  BY <1>1, <1>2

\* What a filter does with a row, operator by operator.
TypeOf(types, path) == IF path \in DOMAIN types THEN types[path] ELSE NoType

\* What a filter compares.
LEMMA MatchesIs ==
    ASSUME NEW row, NEW condition, NEW types, NEW v, v = Field(row, condition.path)
    PROVE  /\ condition.op \in DOMAIN Outcomes =>
                  (MatchesFilter(row, condition, types)
                       <=> CompareComparable(CoerceActual(v, TypeOf(types, condition.path)),
                               CoerceExpected(condition.value, TypeOf(types, condition.path)))
                           \in Outcomes[condition.op])
           /\ condition.op \in DOMAIN TextMatch =>
                  (MatchesFilter(row, condition, types)
                       <=> /\ v.kind = "string"
                           /\ <<v.text, condition.value>> \in TextMatch[condition.op])
           /\ condition.op = "isNull" =>
                  (MatchesFilter(row, condition, types) <=> v.kind = "null")
<1>1. DOMAIN Outcomes = {"eq", "ne", "lt", "lte", "gt", "gte"}
  BY DEF Outcomes
<1>2. DOMAIN TextMatch = {"contains", "startsWith", "endsWith"}
  BY TextsAssumption
<1> QED
  BY <1>1, <1>2 DEF MatchesFilter, TypeOf

\* A filter that is told the types selects what one without them does.
LEMMA FilterIgnoresType ==
    ASSUME NEW rows, IsTable(rows), NEW types, NEW path \in DOMAIN types,
           FitsType(rows, path, types[path]), NEW row \in Range(rows),
           NEW op \in DOMAIN Outcomes \cup {"isNull", "contains"}, NEW text
    PROVE  MatchesFilter(row, Condition(path, op, text, {}), types)
               <=> MatchesFilter(row, Condition(path, op, text, {}), <<>>)
<1> DEFINE c == Condition(path, op, text, {})
           v == Field(row, path)
           type == types[path]
<1> SUFFICES MatchesFilter(row, c, types) <=> MatchesFilter(row, c, <<>>)
  OBVIOUS
<1>1. c.path = path /\ c.op = op /\ c.value = text /\ c.parts = {}
  BY DEF Condition
<1>2. DOMAIN <<>> = {}
  OBVIOUS
<1>3. CompareComparable(CoerceActual(v, type), CoerceExpected(text, type))
          = CompareComparable(CoerceActual(v, NoType), CoerceExpected(text, NoType))
  BY FittingIs, ComparesAgree
<1>4. TypeOf(types, path) = type /\ TypeOf(<<>>, path) = NoType
  BY <1>2 DEF TypeOf
<1>5. op \in DOMAIN Outcomes \/ op = "isNull" \/ op \in DOMAIN TextMatch
  BY TextsAssumption
<1> HIDE DEF c, v, type
<1>6. v = Field(row, c.path)
  BY <1>1 DEF v
<1>7. CASE op \in DOMAIN Outcomes
  BY <1>1, <1>3, <1>4, <1>6, <1>7, MatchesIs
<1>8. CASE op = "isNull" \/ op \in DOMAIN TextMatch
  BY <1>1, <1>6, <1>8, MatchesIs
<1> QED
  BY <1>5, <1>7, <1>8


\* Between two numbers are the numbers from the one to the other.
LEMMA BetweenIs ==
    ASSUME NEW row, NEW path, IsPrinted(Field(row, path)),
           NEW low \in DOMAIN NumberRank, NEW high \in DOMAIN NumberRank
    PROVE  LET v == Field(row, path)
               number == IsNumber(v) \/ (v.kind \notin {"null", "bool"} /\ v.text \in DOMAIN NumberRank)
           IN  SelectsBetween(row, path, low, high) <=>
                   /\ number
                   /\ NumberRank[low] <= NumberRank[v.text]
                   /\ NumberRank[v.text] <= NumberRank[high]
<1> DEFINE v == Field(row, path)
           c == Condition(path, "gte", low, {})
           d == Condition(path, "lte", high, {})
<1>1. /\ c.path = path /\ c.op = "gte" /\ c.value = low
      /\ d.path = path /\ d.op = "lte" /\ d.value = high
  BY DEF Condition
<1> DEFINE between == ConditionsOf([op |-> "between", path |-> path, low |-> low, high |-> high])
<1>2. Range(between) = {c, d}
  <2> DEFINE b == <<c, d>>
  <2>1. between = b
    BY DEF ConditionsOf
  <2> HIDE DEF c, d
  <2>2. DOMAIN b = {1, 2} /\ b[1] = c /\ b[2] = d
    OBVIOUS
  <2> HIDE DEF b
  <2> QED
    BY <2>1, <2>2 DEF Range
<1>3. \A class, rank : /\ Comparable(class, rank).class = class
                       /\ Comparable(class, rank).rank = rank
  BY DEF Comparable
<1>4. TypeOf(<<>>, path) = NoType
  BY DEF TypeOf
<1>5. \A t : CoerceText(t, NoType) = ParseText(t)
  BY DEF CoerceText
<1>6. low # "null" /\ high # "null"
  BY TextsAssumption
<1>7. /\ CoerceExpected(low, NoType) = Comparable("number", NumberRank[low])
      /\ CoerceExpected(high, NoType) = Comparable("number", NumberRank[high])
  BY <1>5, <1>6 DEF CoerceExpected, ParseText
<1> DEFINE a == CoerceActual(v, NoType)
<1>8. /\ "gte" \in DOMAIN Outcomes /\ Outcomes["gte"] = {"greater", "equal"}
      /\ "lte" \in DOMAIN Outcomes /\ Outcomes["lte"] = {"less", "equal"}
  BY DEF Outcomes
<1> HIDE DEF c, d
<1>9. /\ MatchesFilter(row, c, <<>>) <=>
             CompareComparable(a, Comparable("number", NumberRank[low])) \in {"greater", "equal"}
      /\ MatchesFilter(row, d, <<>>) <=>
             CompareComparable(a, Comparable("number", NumberRank[high])) \in {"less", "equal"}
  <2>1. /\ Field(row, c.path) = v /\ TypeOf(<<>>, c.path) = NoType
        /\ Field(row, d.path) = v /\ TypeOf(<<>>, d.path) = NoType
    BY <1>1, <1>4
  <2>2. MatchesFilter(row, c, <<>>) <=>
            CompareComparable(CoerceActual(Field(row, c.path), TypeOf(<<>>, c.path)),
                CoerceExpected(c.value, TypeOf(<<>>, c.path))) \in Outcomes[c.op]
    BY <1>1, <1>8, MatchesIs
  <2>3. MatchesFilter(row, d, <<>>) <=>
            CompareComparable(CoerceActual(Field(row, d.path), TypeOf(<<>>, d.path)),
                CoerceExpected(d.value, TypeOf(<<>>, d.path))) \in Outcomes[d.op]
    BY <1>1, <1>8, MatchesIs
  <2> HIDE DEF v
  <2> QED
    BY <1>1, <1>7, <1>8, <2>1, <2>2, <2>3
<1>10. SelectsBetween(row, path, low, high) <=>
           MatchesFilter(row, c, <<>>) /\ MatchesFilter(row, d, <<>>)
  BY <1>2 DEF SelectsBetween
<1>11. NumberRank[low] \in Int /\ NumberRank[high] \in Int
  BY TextsAssumption
<1>12. IsPrinted(v)
  OBVIOUS
<1> HIDE DEF v
<1>13. CASE v.text \in DOMAIN NumberRank /\ v.kind # "null"
  <2>1. a = Comparable("number", NumberRank[v.text]) /\ NumberRank[v.text] \in Int
    BY <1>5, <1>13, TextsAssumption DEF CoerceActual, ParseText
  <2>2. v.kind # "bool"
    BY <1>12, <1>13, TextsAssumption DEF IsPrinted
  <2>3. Comparable("number", NumberRank[v.text]) # Incomparable
    BY <1>3 DEF Incomparable
  <2>4. /\ CompareComparable(a, Comparable("number", NumberRank[low]))
               = Order(NumberRank[v.text], NumberRank[low])
        /\ CompareComparable(a, Comparable("number", NumberRank[high]))
               = Order(NumberRank[v.text], NumberRank[high])
    BY <1>3, <2>1, <2>3 DEF CompareComparable
  <2> HIDE DEF a
  <2>5. /\ Order(NumberRank[v.text], NumberRank[low]) \in {"greater", "equal"}
               <=> NumberRank[low] <= NumberRank[v.text]
        /\ Order(NumberRank[v.text], NumberRank[high]) \in {"less", "equal"}
               <=> NumberRank[v.text] <= NumberRank[high]
    BY <1>11, <2>1 DEF Order
  <2> QED
    BY <1>9, <1>10, <1>13, <2>2, <2>4, <2>5 DEF v
<1>14. CASE v.text \notin DOMAIN NumberRank \/ v.kind = "null"
  <2>1. a.class # "number"
    BY <1>3, <1>5, <1>14 DEF CoerceActual, ParseText, NullComparable
  <2>2. \A rank : CompareComparable(a, Comparable("number", rank)) = "none"
    BY <1>3, <2>1 DEF CompareComparable
  <2>3. ~IsNumber(v)
    BY <1>12, <1>14 DEF IsPrinted, IsNumber
  <2>4. ~SelectsBetween(row, path, low, high)
    BY <1>9, <1>10, <2>2
  <2> QED
    BY <1>14, <2>3, <2>4 DEF v
<1> QED
  BY <1>13, <1>14

\* On a column of numbers, rows between two of them follow each other when sorted.
LEMMA BetweenIsInterval ==
    ASSUME NEW rows, IsTable(rows), NEW path, KindsAt(rows, path) \subseteq {"number"},
           NEW low \in DOMAIN NumberRank, NEW high \in DOMAIN NumberRank,
           NEW sorted, sorted = SortRows(rows, <<SortColumn(path, FALSE)>>),
           NEW i \in DOMAIN sorted, NEW j \in DOMAIN sorted, NEW k \in DOMAIN sorted,
           i < j, j < k,
           SelectsBetween(sorted[i], path, low, high),
           SelectsBetween(sorted[k], path, low, high)
    PROVE  SelectsBetween(sorted[j], path, low, high)
<1> DEFINE column == SortColumn(path, FALSE)
<1>1. column.path = path /\ column.descending = FALSE
  BY DEF SortColumn
<1>2. IsList(rows)
  BY DEF IsTable, IsArray, IsList
<1>3. HasOneKind(rows, path)
  BY DEF HasOneKind
<1> HIDE DEF column
<1>4. IsTotal(rows, <<column>>)
  BY <1>1, <1>3, ColumnIsTotal
<1>5. PICK f : IsSorting(f, rows, <<column>>)
  BY <1>2, <1>4, TotalIsSortable, SortingExists
<1>6. sorted = [x \in DOMAIN rows |-> rows[f[x]]]
  BY <1>2, <1>4, <1>5, TotalIsSortable, SortedIs DEF column
<1>7. DOMAIN rows = 1..Len(rows) /\ DOMAIN sorted = DOMAIN rows
  BY <1>2, <1>6 DEF IsList
<1>8. /\ f \in [DOMAIN rows -> DOMAIN rows]
      /\ \A a, b \in DOMAIN rows : a < b => <<f[a], f[b]>> \in PrecedenceOf(rows, <<column>>)
  BY <1>5, <1>7 DEF IsSorting, IsInOrder
<1>9. \A x \in DOMAIN sorted : sorted[x] \in Range(rows)
  BY <1>6, <1>7, <1>8 DEF Range
<1>10. ASSUME NEW a \in DOMAIN sorted, NEW b \in DOMAIN sorted, a < b
       PROVE  CompareOptional(sorted[a], sorted[b], path) # "greater"
  <2>1. Precedes(rows, <<column>>, f[a], f[b])
    BY <1>7, <1>8, <1>10, PrecedenceIs
  <2>2. CompareItems(sorted[a], sorted[b], <<column>>) # "greater"
    BY <1>6, <1>7, <2>1 DEF Precedes
  <2> QED
    BY <1>1, <2>2, CompareByOne DEF CompareAt
<1> DEFINE value(x) == Field(sorted[x], path)
<1>11. \A x \in DOMAIN sorted :
           /\ IsPrinted(value(x))
           /\ IsNumber(value(x)) \/ value(x).kind = "null"
           /\ value(x) = IF Has(sorted[x], path) THEN sorted[x][path] ELSE Null
  <2> TAKE x \in DOMAIN sorted
  <2>1. CASE ~Has(sorted[x], path)
    <3>1. IsPrinted(Null) /\ Null.kind = "null"
      BY TextsAssumption DEF IsPrinted, IsValue, IsNumber, Null, Json, Kind
    <3> QED
      BY <2>1, <3>1 DEF Field
  <2>2. CASE Has(sorted[x], path)
    <3>1. value(x) = sorted[x][path]
      BY <2>2 DEF Field
    <3>2. IsPrinted(sorted[x][path])
      BY <1>9, <2>2 DEF IsTable, Range, Has
    <3>3. sorted[x][path].kind # "null" => IsNumber(sorted[x][path])
      <4> SUFFICES ASSUME sorted[x][path].kind # "null", ~IsNumber(sorted[x][path])
                   PROVE FALSE
        OBVIOUS
      <4>1. sorted[x][path].kind \in KindsAt(rows, path)
        BY <1>9, <2>2 DEF KindsAt
      <4>2. sorted[x][path].kind # "number"
        BY <3>2 DEF IsPrinted, IsValue, Kind
      <4> QED
        BY <4>1, <4>2
    <3> QED
      BY <2>2, <3>1, <3>2, <3>3
  <2> QED
    BY <2>1, <2>2
<1>12. \A x \in DOMAIN sorted :
           SelectsBetween(sorted[x], path, low, high) <=>
               /\ IsNumber(value(x))
               /\ NumberRank[low] <= NumberRank[value(x).text]
               /\ NumberRank[value(x).text] <= NumberRank[high]
  <2> TAKE x \in DOMAIN sorted
  <2>1. PICK row : row = sorted[x]
    OBVIOUS
  <2>2. IsPrinted(Field(row, path))
    BY <1>11, <2>1
  <2>3. ~IsNumber(Field(row, path)) => Field(row, path).kind = "null"
    BY <1>11, <2>1
  <2>4. SelectsBetween(row, path, low, high) <=>
            /\ IsNumber(Field(row, path))
            /\ NumberRank[low] <= NumberRank[Field(row, path).text]
            /\ NumberRank[Field(row, path).text] <= NumberRank[high]
    BY <2>2, <2>3, BetweenIs
  <2> QED
    BY <2>1, <2>4
<1>13. ~IsNumber(Null)
  BY DEF IsNumber, Null, Json
<1>14. Has(sorted[i], path) /\ Has(sorted[k], path) /\ IsNumber(value(i)) /\ IsNumber(value(k))
  BY <1>11, <1>12, <1>13
<1>15. /\ CompareOptional(sorted[i], sorted[j], path) # "greater"
       /\ CompareOptional(sorted[j], sorted[k], path) # "greater"
  BY <1>10
<1>16. Has(sorted[j], path)
  BY <1>14, <1>15 DEF CompareOptional, Order
<1>17. /\ CompareJson(value(i), value(j)) # "greater"
       /\ CompareJson(value(j), value(k)) # "greater"
  BY <1>11, <1>14, <1>15, <1>16 DEF CompareOptional
<1> HIDE DEF value
<1>18. \A x \in {i, j, k} : IsNumber(value(x)) => NumberRank[value(x).text] \in Int
  BY <1>11, TextsAssumption DEF IsPrinted
<1>19. IsNumber(value(j))
  <2> SUFFICES ASSUME ~IsNumber(value(j)) PROVE FALSE
    OBVIOUS
  <2>1. value(j).kind = "null" /\ value(j).text = "null"
    BY <1>11 DEF IsPrinted
  <2>2. TextRank[value(k).text] < TextRank["null"]
    BY <1>11, <1>14 DEF IsPrinted
  <2>3. TextRank[value(k).text] \in Int /\ TextRank["null"] \in Int
    BY <1>11, TextsAssumption DEF IsPrinted
  <2>4. CompareJson(value(j), value(k)) = "greater"
    BY <1>14, <2>1, <2>2, <2>3 DEF CompareJson, Order
  <2> QED
    BY <1>17, <2>4
<1>20. /\ NumberRank[value(i).text] <= NumberRank[value(j).text]
       /\ NumberRank[value(j).text] <= NumberRank[value(k).text]
  BY <1>14, <1>17, <1>18, <1>19 DEF CompareJson, Order
<1>21. NumberRank[low] \in Int /\ NumberRank[high] \in Int
  BY TextsAssumption
<1>22. NumberRank[low] <= NumberRank[value(i).text] /\ NumberRank[value(k).text] <= NumberRank[high]
  BY <1>12
<1>23. NumberRank[low] <= NumberRank[value(j).text] /\ NumberRank[value(j).text] <= NumberRank[high]
  BY <1>14, <1>18, <1>19, <1>20, <1>21, <1>22
<1> QED
  BY <1>12, <1>19, <1>23

\* On numeric and boolean columns, REST and GraphQL filters select the same rows,
\* and BETWEEN selects consecutive rows of ORDER BY (compare_with_prepared_value,
\* compare_json_values).
THEOREM FilteringStaysSound == Spec => []FilteringIsSound
<1>1. TablesOK => FiltersAgree
  <2> SUFFICES ASSUME TablesOK, NEW t \in DOMAIN tables, NEW path \in DOMAIN Types[t],
                      FitsType(tables[t], path, Types[t][path]),
                      NEW op \in DOMAIN Outcomes \cup {"isNull", "contains"},
                      NEW text \in ProbeTexts, NEW row \in Range(tables[t])
               PROVE  MatchesFilter(row, Condition(path, op, text, {}), Types[t])
                          <=> MatchesFilter(row, Condition(path, op, text, {}), <<>>)
    BY DEF FiltersAgree
  <2>1. IsTable(tables[t])
    BY DEF TablesOK
  <2> QED
    BY <2>1, FilterIgnoresType
<1>2. TablesOK => RangeIsInterval
  <2> SUFFICES ASSUME TablesOK, NEW path \in ProbePaths,
                      NEW low \in ProbeTexts \cap DOMAIN NumberRank,
                      NEW high \in ProbeTexts \cap DOMAIN NumberRank
               PROVE  LET rows == tables[query.table]
                          sorted == SortRows(rows, <<SortColumn(path, FALSE)>>)
                      IN  KindsAt(rows, path) \subseteq {"number"} =>
                              \A i, j, k \in DOMAIN sorted :
                                  /\ i < j /\ j < k
                                  /\ SelectsBetween(sorted[i], path, low, high)
                                  /\ SelectsBetween(sorted[k], path, low, high)
                                  => SelectsBetween(sorted[j], path, low, high)
    BY DEF RangeIsInterval
  <2> DEFINE rows == tables[query.table]
             sorted == SortRows(rows, <<SortColumn(path, FALSE)>>)
  <2>1. IsTable(rows)
    BY DEF TablesOK
  <2>2. PICK result : result = sorted
    OBVIOUS
  <2> HIDE DEF rows
  <2>3. SUFFICES ASSUME KindsAt(rows, path) \subseteq {"number"},
                        NEW i \in DOMAIN result, NEW j \in DOMAIN result, NEW k \in DOMAIN result,
                        i < j, j < k,
                        SelectsBetween(result[i], path, low, high),
                        SelectsBetween(result[k], path, low, high)
                 PROVE  SelectsBetween(result[j], path, low, high)
    BY <2>2 DEF rows
  <2> QED
    BY <2>1, <2>2, <2>3, BetweenIsInterval
<1> QED
  BY <1>1, <1>2, TablesInvariance, PTL DEF FilteringIsSound

-----------------------------------------------------------------------------
(***************************************************************************)
(* Joined rows.                                                            *)
(***************************************************************************)

\* Induction from a to b, with a set in place of a predicate.
LEMMA UpwardInduction ==
    ASSUME NEW a \in Nat, NEW b \in Nat, NEW S,
           \A m \in a..b : (m > a => m - 1 \in S) => m \in S
    PROVE  a..b \subseteq S
<1> DEFINE Bad == (a..b) \ S
<1> SUFFICES ASSUME Bad # {} PROVE FALSE
  OBVIOUS
<1>1. Bad \in SUBSET Nat
  OBVIOUS
<1> HIDE DEF Bad
<1>2. PICK m \in Bad : \A k \in Bad : m <= k
  BY <1>1, SmallestExists
<1>3. m \in a..b /\ m \notin S /\ m \in Nat
  BY DEF Bad
<1>4. m > a /\ m - 1 \notin S
  BY <1>3
<1>5. PICK l : l = m - 1
  OBVIOUS
<1>6. l \in a..b /\ ~(m <= l)
  BY <1>3, <1>4, <1>5
<1>7. l \in Bad
  BY <1>4, <1>5, <1>6 DEF Bad
<1> QED
  BY <1>2, <1>6, <1>7

\* Concatenation, element by element.
LEMMA ConcatIs ==
    ASSUME NEW s, IsList(s), NEW t, IsList(t)
    PROVE  /\ IsList(s \o t) /\ Len(s \o t) = Len(s) + Len(t)
           /\ \A i \in 1..Len(s) : (s \o t)[i] = s[i]
           /\ \A i \in 1..Len(t) : (s \o t)[Len(s) + i] = t[i]
           /\ Range(s \o t) = Range(s) \cup Range(t)
<1> DEFINE R == Range(s) \cup Range(t)
           u == s \o t
<1>1. s \in Seq(R) /\ t \in Seq(R)
  BY DEF IsList, IsFunction, Range
<1> HIDE DEF R
<1>2. PICK m, n : m = Len(s) /\ n = Len(t) /\ m \in Nat /\ n \in Nat
  BY DEF IsList
<1>3. DOMAIN s = 1..m /\ DOMAIN t = 1..n
  BY <1>2 DEF IsList
<1>4. /\ u \in Seq(R) /\ Len(u) = m + n /\ DOMAIN u = 1..m + n
      /\ \A i \in 1..m + n : u[i] = IF i <= m THEN s[i] ELSE t[i - m]
  BY <1>1, <1>2
<1> HIDE DEF u
<1>5. IsList(u)
  BY <1>2, <1>4, SeqIsFunction DEF IsList
<1>6. ASSUME NEW i \in 1..m PROVE i \in 1..m + n /\ u[i] = s[i]
  BY <1>2, <1>4
<1>7. ASSUME NEW i \in 1..n PROVE m + i \in 1..m + n /\ u[m + i] = t[i]
  <2>1. PICK k : k = m + i
    OBVIOUS
  <2>2. k \in 1..m + n /\ ~(k <= m) /\ k - m = i
    BY <1>2, <2>1
  <2> QED
    BY <1>4, <2>1, <2>2
<1>8. \A i \in 1..m + n : i \in 1..m \/ (i - m \in 1..n /\ i = m + (i - m))
  BY <1>2
<1>9. Range(u) = Range(s) \cup Range(t)
  <2>1. Range(u) \subseteq Range(s) \cup Range(t)
    BY <1>3, <1>4, <1>6, <1>7, <1>8 DEF Range
  <2>2. Range(s) \subseteq Range(u)
    BY <1>3, <1>4, <1>6 DEF Range
  <2>3. Range(t) \subseteq Range(u)
    BY <1>3, <1>4, <1>7 DEF Range
  <2> QED
    BY <2>1, <2>2, <2>3
<1> QED
  BY <1>2, <1>4, <1>5, <1>6, <1>7, <1>9 DEF u

\* What flattening makes of some first sequences.
IsFlatten(g, seqs, m) == g = [i \in 1..m |-> IF i = 1 THEN seqs[i] ELSE g[i - 1] \o seqs[i]]

\* The function by which FlattenSeq is defined exists.
LEMMA FlattenExists ==
    ASSUME NEW seqs, NEW n \in Nat, n > 0
    PROVE  \E g : IsFlatten(g, seqs, n)
<1> DEFINE S == {m \in 1..n : \E g : IsFlatten(g, seqs, m)}
<1>1. ASSUME NEW m \in 1..n, m > 1 => m - 1 \in S PROVE m \in S
  <2>1. CASE m = 1
    <3> DEFINE g == [i \in 1..1 |-> seqs[i]]
    <3>1. IsFlatten(g, seqs, 1)
      BY DEF IsFlatten
    <3> QED
      BY <2>1, <3>1
  <2>2. CASE m # 1
    <3>1. PICK l : l = m - 1
      OBVIOUS
    <3>2. l \in 1..n /\ l + 1 = m /\ m > 1
      BY <2>2, <3>1
    <3>4. PICK h : IsFlatten(h, seqs, l)
      BY <1>1, <3>1, <3>2
    <3> HIDE DEF S
    <3>5. h = [i \in 1..l |-> IF i = 1 THEN seqs[i] ELSE h[i - 1] \o seqs[i]]
      BY <3>4 DEF IsFlatten
    <3> DEFINE g == [i \in 1..m |-> IF i = m THEN h[l] \o seqs[m] ELSE h[i]]
    <3>6. \A i \in 1..l : i \in 1..m /\ i # m
      BY <3>2
    <3>7. \A i \in 1..l : g[i] = h[i]
      BY <3>6
    <3>8. ASSUME NEW i \in 1..m
          PROVE  g[i] = IF i = 1 THEN seqs[i] ELSE g[i - 1] \o seqs[i]
      <4>1. CASE i = m
        <5>1. l \in 1..l /\ i # 1 /\ i - 1 = l
          BY <2>2, <3>1, <3>2, <4>1
        <5>2. g[i - 1] = h[l]
          BY <3>7, <5>1
        <5>3. g[i] = h[l] \o seqs[m]
          BY <4>1
        <5> QED
          BY <4>1, <5>1, <5>2, <5>3
      <4>2. CASE i # m /\ i = 1
        <5>1. i \in 1..l
          BY <3>2, <4>2
        <5> QED
          BY <3>5, <3>7, <4>2, <5>1
      <4>3. CASE i # m /\ i # 1
        <5>1. i \in 1..l /\ i - 1 \in 1..l
          BY <3>2, <4>3
        <5>2. g[i] = h[i] /\ g[i - 1] = h[i - 1]
          BY <3>7, <5>1
        <5>3. h[i] = h[i - 1] \o seqs[i]
          BY <3>5, <4>3, <5>1
        <5> QED
          BY <4>3, <5>2, <5>3
      <4> QED
        BY <4>1, <4>2, <4>3
    <3>9. g = [i \in 1..m |-> g[i]]
      OBVIOUS
    <3> HIDE DEF g
    <3>10. IsFlatten(g, seqs, m)
      BY <3>8, <3>9 DEF IsFlatten
    <3> QED
      BY <3>10 DEF S
  <2> QED
    BY <2>1, <2>2
<1> HIDE DEF S
<1>2. 1..n \subseteq S
  BY <1>1, UpwardInduction
<1>3. n \in 1..n
  OBVIOUS
<1> QED
  BY <1>2, <1>3 DEF S

\* A flattened list has the elements of its lists.
LEMMA FlattenIs ==
    ASSUME NEW seqs, IsList(seqs), \A i \in DOMAIN seqs : IsList(seqs[i])
    PROVE  /\ IsList(FlattenSeq(seqs))
           /\ Range(FlattenSeq(seqs)) = UNION {Range(seqs[i]) : i \in DOMAIN seqs}
<1>1. PICK n : n = Len(seqs) /\ n \in Nat /\ DOMAIN seqs = 1..n
  BY DEF IsList
<1>2. CASE n = 0
  <2>1. FlattenSeq(seqs) = seqs /\ DOMAIN seqs = {}
    BY <1>1, <1>2 DEF FlattenSeq
  <2> QED
    BY <2>1 DEF Range
<1>3. CASE n # 0
  <2> DEFINE g == CHOOSE f : IsFlatten(f, seqs, n)
  <2>1. IsFlatten(g, seqs, n)
    BY <1>1, <1>3, FlattenExists
  <2>2. FlattenSeq(seqs) = g[n]
    BY <1>1, <1>3 DEF FlattenSeq, IsFlatten
  <2> HIDE DEF g
  <2>3. g = [i \in 1..n |-> IF i = 1 THEN seqs[i] ELSE g[i - 1] \o seqs[i]]
    BY <2>1 DEF IsFlatten
  <2> DEFINE Good(m) == /\ IsList(g[m])
                        /\ Range(g[m]) = UNION {Range(seqs[i]) : i \in 1..m}
             S == {m \in 1..n : Good(m)}
  <2>4. ASSUME NEW m \in 1..n, m > 1 => m - 1 \in S PROVE m \in S
    <3>1. CASE m = 1
      <4>1. g[1] = seqs[1] /\ IsList(seqs[1])
        BY <1>1, <2>3, <3>1
      <4>2. Range(seqs[1]) = UNION {Range(seqs[i]) : i \in 1..1}
        OBVIOUS
      <4> QED
        BY <3>1, <4>1, <4>2
    <3>2. CASE m # 1
      <4>1. PICK l : l = m - 1
        OBVIOUS
      <4>2. l \in 1..n /\ l + 1 = m /\ m > 1
        BY <1>1, <3>2, <4>1
      <4>3. Good(l)
        BY <2>4, <4>1, <4>2
      <4>4. g[m] = g[l] \o seqs[m] /\ IsList(seqs[m])
        BY <1>1, <2>3, <3>2, <4>1
      <4>5. IsList(g[m]) /\ Range(g[m]) = Range(g[l]) \cup Range(seqs[m])
        BY <4>3, <4>4, ConcatIs
      <4>6. \A i : i \in 1..m <=> i \in 1..l \/ i = m
        BY <1>1, <4>2
      <4>7. Range(g[m]) = UNION {Range(seqs[i]) : i \in 1..m}
        BY <4>3, <4>5, <4>6
      <4> QED
        BY <4>5, <4>7
    <3> QED
      BY <3>1, <3>2
  <2> HIDE DEF S, Good
  <2>6. 1..n \subseteq S
    BY <1>1, <2>4, UpwardInduction
  <2>7. Good(n)
    BY <1>1, <1>3, <2>6 DEF S
  <2> QED
    BY <1>1, <2>2, <2>7 DEF Good
<1> QED
  BY <1>2, <1>3

\* What joining makes of a row and the rows that match it is a list.
LEMMA JoinedIsList ==
    ASSUME NEW rows, IsList(rows), NEW join, NEW targets, IsList(targets)
    PROVE  IsList(JoinRows(rows, join, targets))
<1> DEFINE left == ExistingSide(join)
           matches(row) == IF Has(row, left)
                           THEN MatchingRows(targets, JoinedSide(join)[2], LookupKey(row[left]))
                           ELSE <<>>
           extended(row) == [i \in DOMAIN matches(row) |-> Nest(row, join.alias, matches(row)[i])]
           seqs == [i \in DOMAIN rows |-> extended(rows[i])]
<1>1. JoinRows(rows, join, targets) = FlattenSeq(seqs)
  BY DEF JoinRows
<1>2. ASSUME NEW row PROVE IsList(matches(row))
  <2>1. IsList(<<>>)
    BY DEF IsList, IsFunction
  <2>2. ASSUME NEW column, NEW key PROVE IsList(MatchingRows(targets, column, key))
    BY RowsAtIsList DEF MatchingRows
  <2> QED
    BY <2>1, <2>2
<1> HIDE DEF matches
<1>3. ASSUME NEW row PROVE IsList(extended(row))
  <2>1. PICK n : n \in Nat /\ n = Len(matches(row)) /\ DOMAIN matches(row) = 1..n
    BY <1>2 DEF IsList
  <2>2. PICK e : e = extended(row)
    OBVIOUS
  <2>3. e = [i \in 1..n |-> Nest(row, join.alias, matches(row)[i])]
    BY <2>1, <2>2
  <2>4. DOMAIN e = 1..n /\ Len(e) = n /\ IsFunction(e)
    BY <2>1, <2>3 DEF IsFunction
  <2> QED
    BY <2>1, <2>2, <2>4 DEF IsList
<1> HIDE DEF extended
<1>4. PICK n : n \in Nat /\ n = Len(rows) /\ DOMAIN rows = 1..n
  BY DEF IsList
<1>5. seqs = [i \in 1..n |-> extended(rows[i])]
  BY <1>4
<1>6. DOMAIN seqs = 1..n /\ Len(seqs) = n /\ IsFunction(seqs)
  BY <1>4, <1>5 DEF IsFunction
<1>7. IsList(seqs) /\ \A i \in DOMAIN seqs : IsList(seqs[i])
  BY <1>3, <1>4, <1>5, <1>6 DEF IsList
<1> HIDE DEF seqs
<1> QED
  BY <1>1, <1>7, FlattenIs

\* The base rows of a query, and what the first joins make of them.
BaseRows(tabs, q) ==
    [i \in DOMAIN tabs[q.table] |-> BaseRow(q.table, q.alias, tabs[q.table][i])]
JoinStep(rows, tabs, q, i) == JoinRows(rows, q.joins[i], tabs[q.joins[i].resource])
AreJoined(g, tabs, q, m) ==
    g = [i \in 0..m |-> IF i = 0 THEN BaseRows(tabs, q) ELSE JoinStep(g[i - 1], tabs, q, i)]

\* The function by which Materialize is defined exists.
LEMMA JoinedExists ==
    ASSUME NEW tabs, NEW q, NEW n \in Nat
    PROVE  \E g : AreJoined(g, tabs, q, n)
<1> DEFINE base == BaseRows(tabs, q)
           step(rows, i) == JoinStep(rows, tabs, q, i)
           S == {m \in 0..n : \E g : AreJoined(g, tabs, q, m)}
<1>1. \A g, m : AreJoined(g, tabs, q, m)
                    <=> g = [i \in 0..m |-> IF i = 0 THEN base ELSE step(g[i - 1], i)]
  BY DEF AreJoined
<1> HIDE DEF base, step
<1>2. ASSUME NEW m \in 0..n, m > 0 => m - 1 \in S PROVE m \in S
  <2>1. CASE m = 0
    <3> DEFINE g == [i \in 0..0 |-> base]
    <3>1. g = [i \in 0..0 |-> IF i = 0 THEN base ELSE step(g[i - 1], i)]
      OBVIOUS
    <3> HIDE DEF g
    <3>2. AreJoined(g, tabs, q, 0)
      BY <1>1, <3>1
    <3> QED
      BY <2>1, <3>2
  <2>2. CASE m # 0
    <3>1. PICK l : l = m - 1
      OBVIOUS
    <3>2. l \in 0..n /\ l + 1 = m /\ m > 0
      BY <2>2, <3>1
    <3>3. PICK h : AreJoined(h, tabs, q, l)
      BY <1>2, <3>1, <3>2
    <3> HIDE DEF S
    <3>4. h = [i \in 0..l |-> IF i = 0 THEN base ELSE step(h[i - 1], i)]
      BY <1>1, <3>3
    <3> DEFINE g == [i \in 0..m |-> IF i = m THEN step(h[l], m) ELSE h[i]]
    <3>5. \A i \in 0..l : i \in 0..m /\ i # m
      BY <3>2
    <3>6. \A i \in 0..l : g[i] = h[i]
      BY <3>5
    <3>7. ASSUME NEW i \in 0..m PROVE g[i] = IF i = 0 THEN base ELSE step(g[i - 1], i)
      <4>1. CASE i = m
        <5>1. l \in 0..l /\ i # 0 /\ i - 1 = l
          BY <2>2, <3>1, <3>2, <4>1
        <5>2. g[i - 1] = h[l]
          BY <3>6, <5>1
        <5>3. g[i] = step(h[l], m)
          BY <4>1
        <5> QED
          BY <4>1, <5>1, <5>2, <5>3
      <4>2. CASE i # m /\ i = 0
        <5>1. i \in 0..l
          BY <3>2, <4>2
        <5> QED
          BY <3>4, <3>6, <4>2, <5>1
      <4>3. CASE i # m /\ i # 0
        <5>1. i \in 0..l /\ i - 1 \in 0..l
          BY <3>2, <4>3
        <5>2. g[i] = h[i] /\ g[i - 1] = h[i - 1]
          BY <3>6, <5>1
        <5>3. h[i] = step(h[i - 1], i)
          BY <3>4, <4>3, <5>1
        <5> QED
          BY <4>3, <5>2, <5>3
      <4> QED
        BY <4>1, <4>2, <4>3
    <3>8. g = [i \in 0..m |-> g[i]]
      OBVIOUS
    <3> HIDE DEF g
    <3>9. g = [i \in 0..m |-> IF i = 0 THEN base ELSE step(g[i - 1], i)]
      BY <3>7, <3>8
    <3>10. AreJoined(g, tabs, q, m)
      BY <1>1, <3>9
    <3> QED
      BY <3>10 DEF S
  <2> QED
    BY <2>1, <2>2
<1> HIDE DEF S
<1>3. 0..n \subseteq S
  BY <1>2, UpwardInduction
<1>4. n \in 0..n
  OBVIOUS
<1> QED
  BY <1>3, <1>4 DEF S

\* The rows after each join.
AreSteps(g, tabs, q, n) ==
    /\ Materialize(tabs, q) = g[n] /\ g[0] = BaseRows(tabs, q)
    /\ \A i \in 1..n : g[i] = JoinStep(g[i - 1], tabs, q, i)

\* There is such a function, and it leads to what is materialized.
LEMMA MaterializedSteps ==
    ASSUME NEW tabs, NEW q, NEW n \in Nat, n = Len(q.joins)
    PROVE  \E g : AreSteps(g, tabs, q, n)
<1> DEFINE g == CHOOSE f : AreJoined(f, tabs, q, n)
<1>2. AreJoined(g, tabs, q, n)
  BY JoinedExists
<1>3. Materialize(tabs, q) = g[n]
  BY DEF Materialize, AreJoined, BaseRows, JoinStep
<1> HIDE DEF g
<1>4. g = [i \in 0..n |-> IF i = 0 THEN BaseRows(tabs, q) ELSE JoinStep(g[i - 1], tabs, q, i)]
  BY <1>2 DEF AreJoined
<1>5. g[0] = BaseRows(tabs, q) /\ \A i \in 1..n : g[i] = JoinStep(g[i - 1], tabs, q, i)
  BY <1>4
<1> QED
  BY <1>3, <1>5 DEF AreSteps

\* A query without joins has its base rows, every other one a list as well.
LEMMA MaterializedIs ==
    ASSUME NEW tabs, NEW q, IsList(q.joins), IsList(tabs[q.table]),
           \A join \in Range(q.joins) : IsList(tabs[join.resource])
    PROVE  /\ IsList(Materialize(tabs, q))
           /\ q.joins = <<>> => Materialize(tabs, q) = BaseRows(tabs, q)
           /\ IsList(BaseRows(tabs, q))
<1>1. PICK n : n = Len(q.joins) /\ n \in Nat /\ DOMAIN q.joins = 1..n
  BY DEF IsList
<1>2. PICK g : AreSteps(g, tabs, q, n)
  BY <1>1, MaterializedSteps
<1>3. Materialize(tabs, q) = g[n]
  BY <1>2 DEF AreSteps
<1>5. g[0] = BaseRows(tabs, q) /\ \A i \in 1..n : g[i] = JoinStep(g[i - 1], tabs, q, i)
  BY <1>2 DEF AreSteps
<1>6. IsList(BaseRows(tabs, q))
  <2>1. PICK l : l \in Nat /\ l = Len(tabs[q.table]) /\ DOMAIN tabs[q.table] = 1..l
    BY DEF IsList
  <2>2. PICK e : e = BaseRows(tabs, q)
    OBVIOUS
  <2>3. e = [i \in 1..l |-> BaseRow(q.table, q.alias, tabs[q.table][i])]
    BY <2>1, <2>2 DEF BaseRows
  <2>4. DOMAIN e = 1..l /\ Len(e) = l /\ IsFunction(e)
    BY <2>1, <2>3 DEF IsFunction
  <2> QED
    BY <2>1, <2>2, <2>4 DEF IsList
<1> DEFINE S == {m \in 0..n : IsList(g[m])}
<1>7. ASSUME NEW m \in 0..n, m > 0 => m - 1 \in S PROVE m \in S
  <2>1. CASE m = 0
    BY <1>5, <1>6, <2>1
  <2>2. CASE m # 0
    <3>1. m \in 1..n /\ m > 0
      BY <1>1, <2>2
    <3>2. IsList(g[m - 1])
      BY <1>7, <3>1
    <3>3. IsList(tabs[q.joins[m].resource])
      BY <1>1, <3>1 DEF Range
    <3>4. IsList(JoinStep(g[m - 1], tabs, q, m))
      BY <3>2, <3>3, JoinedIsList DEF JoinStep
    <3> QED
      BY <1>5, <3>1, <3>4
  <2> QED
    BY <2>1, <2>2
<1> HIDE DEF S
<1>8. 0..n \subseteq S
  BY <1>1, <1>7, UpwardInduction
<1>9. n \in S
  BY <1>1, <1>8
<1>10. q.joins = <<>> => n = 0
  BY <1>1
<1> QED
  BY <1>3, <1>5, <1>6, <1>9, <1>10 DEF S

-----------------------------------------------------------------------------
(***************************************************************************)
(* Ids of base rows.                                                       *)
(***************************************************************************)

IsPrintedRow(row) ==
    IsFunction(row) /\ \A path \in DOMAIN row : IsPath(path) /\ IsPrinted(row[path])

\* Nesting keeps a row printed, and its id unless it is replaced.
LEMMA NestIs ==
    ASSUME NEW row, IsPrintedRow(row), NEW name, NEW object, IsPrintedRow(object)
    PROVE  /\ IsPrintedRow(Nest(row, name, object))
           /\ Has(Nest(row, name, object), Id) <=> Has(row, Id) /\ name # "id"
           /\ Has(row, Id) /\ name # "id" => Nest(row, name, object)[Id] = row[Id]
<1> DEFINE longer(q) == <<name>> \o q
           inner == [p \in {longer(q) : q \in DOMAIN object} |-> object[Tail(p)]]
           outer == [p \in {p \in DOMAIN row : Head(p) # name} |-> row[p]]
           nested == Nest(row, name, object)
<1>1. nested = [p \in DOMAIN inner \cup DOMAIN outer |->
                   IF p \in DOMAIN inner THEN inner[p] ELSE outer[p]]
  BY DEF Nest, Over
<1>2. ASSUME NEW q, IsPath(q)
      PROVE  IsPath(longer(q)) /\ Tail(longer(q)) = q /\ longer(q) # Id
  <2>1. IsList(<<name>>) /\ Len(<<name>>) = 1
    BY DEF IsList, IsFunction
  <2>2. IsList(q) /\ Len(q) \in Nat /\ Len(q) > 0
    BY <1>2 DEF IsPath, IsList
  <2>3. PICK s : s = longer(q)
    OBVIOUS
  <2>4. /\ IsList(s) /\ Len(s) = 1 + Len(q)
        /\ \A i \in 1..Len(q) : s[1 + i] = q[i]
    BY <2>1, <2>2, <2>3, ConcatIs
  <2>5. IsPath(s)
    BY <2>2, <2>4 DEF IsPath
  <2>6. s # Id
    <3>1. Len(Id) = 1
      BY DEF Id
    <3> QED
      BY <2>2, <2>4, <3>1
  <2>7. Tail(s) = q
    <3>1. s \in Seq(Range(s)) /\ s # <<>>
      BY <2>2, <2>4 DEF IsList, IsFunction, Range
    <3>2. PICK t : t = Tail(s)
      OBVIOUS
    <3>3. /\ t \in Seq(Range(s)) /\ Len(t) = Len(s) - 1
          /\ \A i \in 1..Len(t) : t[i] = s[i + 1]
      BY <3>1, <3>2, HeadTailProperties
    <3>4. IsList(t) /\ Len(t) = Len(q)
      BY <2>2, <2>4, <3>3, SeqIsFunction DEF IsList
    <3>5. \A i \in 1..Len(q) : t[i] = q[i]
      <4> TAKE i \in 1..Len(q)
      <4>1. i + 1 = 1 + i
        BY <2>2
      <4> QED
        BY <2>4, <3>3, <3>4, <4>1
    <3> QED
      BY <2>2, <3>2, <3>4, <3>5, SameList
  <2> QED
    BY <2>3, <2>5, <2>6, <2>7
<1> HIDE DEF longer
<1>3. \A q \in DOMAIN object : IsPath(q) /\ IsPrinted(object[q])
  BY DEF IsPrintedRow
<1>4. ASSUME NEW p \in DOMAIN inner PROVE IsPath(p) /\ IsPrinted(inner[p]) /\ p # Id
  <2>1. PICK q \in DOMAIN object : p = longer(q)
    OBVIOUS
  <2>2. inner[p] = object[q]
    BY <1>2, <1>3, <2>1
  <2> QED
    BY <1>2, <1>3, <2>1, <2>2
<1>5. ASSUME NEW p \in DOMAIN outer PROVE IsPath(p) /\ IsPrinted(outer[p])
  BY DEF IsPrintedRow
<1>6. Id \in DOMAIN outer <=> Has(row, Id) /\ name # "id"
  <2>1. Head(Id) = "id"
    BY DEF Id
  <2> QED
    BY <2>1 DEF Has
<1>7. Id \in DOMAIN outer => outer[Id] = row[Id]
  OBVIOUS
<1> HIDE DEF inner, outer
<1>8. IsPrintedRow(nested)
  BY <1>1, <1>4, <1>5 DEF IsPrintedRow, IsFunction
<1>9. Has(nested, Id) <=> Id \in DOMAIN outer
  BY <1>1, <1>4 DEF Has
<1>10. Id \in DOMAIN outer => nested[Id] = outer[Id]
  BY <1>1, <1>4
<1> QED
  BY <1>6, <1>7, <1>8, <1>9, <1>10

\* A base row keeps its id, unless it is nested under that name.
LEMMA BaseRowIs ==
    ASSUME NEW row, IsPrintedRow(row), NEW resource, NEW alias
    PROVE  /\ IsPrintedRow(BaseRow(resource, alias, row))
           /\ Has(BaseRow(resource, alias, row), Id) <=> Has(row, Id) /\ "id" \notin {resource, alias}
           /\ Has(row, Id) /\ "id" \notin {resource, alias}
                => BaseRow(resource, alias, row)[Id] = row[Id]
<1>1. PICK root : root = Nest(row, resource, row)
  OBVIOUS
<1>2. /\ IsPrintedRow(root)
      /\ Has(root, Id) <=> Has(row, Id) /\ resource # "id"
      /\ Has(row, Id) /\ resource # "id" => root[Id] = row[Id]
  BY <1>1, NestIs
<1>3. /\ IsPrintedRow(Nest(root, alias, row))
      /\ Has(Nest(root, alias, row), Id) <=> Has(root, Id) /\ alias # "id"
      /\ Has(root, Id) /\ alias # "id" => Nest(root, alias, row)[Id] = root[Id]
  BY <1>2, NestIs
<1>4. BaseRow(resource, alias, row) = IF alias = resource THEN root ELSE Nest(root, alias, row)
  BY <1>1 DEF BaseRow
<1> QED
  BY <1>2, <1>3, <1>4

\* Ids that a new row has to come after.
IdsGrow(rows, x) ==
    \A row \in Range(rows) : HasSmallerId(row, x) \/ (~Has(row, Id) /\ ~Has(x, Id))
IsPrintedList(rows) == IsList(rows) /\ \A row \in Range(rows) : IsPrintedRow(row)

\* Tables are lists of printed rows.
LEMMA PrintedIsTable ==
    ASSUME NEW rows
    PROVE  IsPrintedList(rows) <=> IsTable(rows)
<1>1. ASSUME IsPrintedList(rows) PROVE IsTable(rows)
  <2>1. \A i \in DOMAIN rows : IsPrintedRow(rows[i])
    BY <1>1 DEF IsPrintedList, Range
  <2> QED
    BY <1>1, <2>1 DEF IsPrintedList, IsPrintedRow, IsTable, IsArray, IsRow, IsList, IsPrinted
<1>2. ASSUME IsTable(rows) PROVE IsPrintedList(rows)
  <2>1. \A i \in DOMAIN rows : IsPrintedRow(rows[i])
    BY <1>2 DEF IsTable, IsArray, IsRow, IsPrintedRow
  <2> QED
    BY <1>2, <2>1 DEF IsPrintedList, IsTable, IsArray, IsList, Range
<1> QED
  BY <1>1, <1>2

\* A row with a greater id comes last, sorted by id or not at all.
LEMMA AppendedComesLast ==
    ASSUME NEW rows, IsPrintedList(rows), NEW x, IsPrintedRow(x), IdsGrow(rows, x),
           NEW columns \in {<<>>, <<SortColumn(Id, FALSE)>>}
    PROVE  /\ IsTotal(Append(rows, x), columns)
           /\ \A row \in Range(rows) : CompareItems(x, row, columns) # "less"
<1>1. PICK new : new = Append(rows, x)
  OBVIOUS
<1>2. IsList(new) /\ Range(new) = Range(rows) \cup {x}
  BY <1>1, AppendIs DEF IsPrintedList
<1>3. IsPrintedList(new)
  BY <1>2 DEF IsPrintedList
<1>4. CASE columns = <<>>
  <2>1. IsTotal(new, <<>>)
    BY <1>2, UnsortedStays
  <2>2. \A l, r : CompareItems(l, r, <<>>) = "equal"
    <3> TAKE l, r
    <3>1. Len(<<>>) = 0 /\ 1..0 = {}
      OBVIOUS
    <3> QED
      BY <3>1, FirstDecides
  <2> QED
    BY <1>1, <1>4, <2>1, <2>2
<1>5. CASE columns = <<SortColumn(Id, FALSE)>>
  <2>1. PICK column : column = SortColumn(Id, FALSE)
    OBVIOUS
  <2>2. column.path = Id /\ column.descending = FALSE
    BY <2>1 DEF SortColumn
  <2>3. HasOneKind(new, Id)
    <3> DEFINE kind(row) == IF IsNumber(row[Id]) THEN "number" ELSE row[Id].kind
    <3> SUFFICES ASSUME NEW k \in Range(new), Has(k, Id), NEW l \in Range(new), Has(l, Id)
                 PROVE  kind(k) = kind(l)
      BY DEF HasOneKind, KindsAt
    <3>1. \A row \in Range(rows) : Has(row, Id) => IsNumber(row[Id]) /\ IsNumber(x[Id])
      BY DEF IdsGrow, HasSmallerId
    <3> QED
      BY <1>2, <3>1
  <2>4. IsTotal(new, <<column>>)
    BY <1>3, <2>2, <2>3, PrintedIsTable, ColumnIsTotal
  <2>5. ASSUME NEW row \in Range(rows) PROVE CompareItems(x, row, <<column>>) # "less"
    <3>1. CompareItems(x, row, <<column>>) = CompareOptional(x, row, Id)
      BY <2>2, CompareByOne DEF CompareAt
    <3>2. CASE ~Has(row, Id) /\ ~Has(x, Id)
      BY <3>1, <3>2 DEF CompareOptional, Order
    <3>3. CASE HasSmallerId(row, x)
      <4>1. IsPrintedRow(row)
        BY DEF IsPrintedList
      <4>2. NumberRank[row[Id].text] \in Int /\ NumberRank[x[Id].text] \in Int
        BY <3>3, <4>1, TextsAssumption DEF IsPrintedRow, IsPrinted, HasSmallerId, Has
      <4>3. CompareJson(x[Id], row[Id]) = "greater"
        BY <3>3, <4>2 DEF CompareJson, Order, HasSmallerId
      <4> QED
        BY <3>1, <3>3, <4>3 DEF CompareOptional, HasSmallerId
    <3> QED
      BY <3>2, <3>3 DEF IdsGrow
  <2> QED
    BY <1>1, <1>5, <2>1, <2>4, <2>5
<1> QED
  BY <1>4, <1>5

-----------------------------------------------------------------------------
(***************************************************************************)
(* What a query selects.                                                   *)
(***************************************************************************)

Chosen(tabs, q) ==
    IF q.via = "sql" THEN SqlSelection(tabs, q)
    ELSE SelectionOf(tabs[q.table], q.where, FilterTypes(q), q.sort)

\* What SQL selects, in terms of filters and sorting.
LEMMA SqlSelectionIs ==
    ASSUME NEW tabs, NEW q
    PROVE  \E conditions : SqlSelection(tabs, q)
                               = SelectionOf(Materialize(tabs, q), conditions, <<>>, q.sort)
  BY DEF SqlSelection, SelectionOf

\* What a query selects is a list.
LEMMA ChosenIsList ==
    ASSUME NEW tabs, NEW q, IsList(q.joins), IsList(tabs[q.table]),
           \A join \in Range(q.joins) : IsList(tabs[join.resource])
    PROVE  IsList(Chosen(tabs, q))
<1>1. CASE q.via = "sql"
  <2>1. PICK rows : rows = Materialize(tabs, q)
    OBVIOUS
  <2>2. IsList(rows)
    BY <2>1, MaterializedIs
  <2>3. \A conditions : IsList(SelectionOf(rows, conditions, <<>>, q.sort))
    BY <2>2, SelectedIsList
  <2> QED
    BY <1>1, <2>1, <2>3, SqlSelectionIs DEF Chosen
<1>2. CASE q.via # "sql"
  BY <1>2, SelectedIsList DEF Chosen
<1> QED
  BY <1>1, <1>2

\* Of sql, the rows selected from, as any conditions choose them.
LEMMA SqlSelectionGrows ==
    ASSUME NEW tabs, NEW q, q.joins = <<>>, NEW more, NEW x,
           IsList(tabs[q.table]), IsList(more[q.table]),
           NEW rows, rows = Materialize(tabs, q),
           Materialize(more, q) = Append(rows, x),
           IsList(rows), IsTotal(Append(rows, x), q.sort),
           \A row \in Range(rows) : CompareItems(x, row, q.sort) # "less"
    PROVE  SqlSelection(more, q) \in {SqlSelection(tabs, q), Append(SqlSelection(tabs, q), x)}
<1> DEFINE conditions == FlattenSeq([i \in DOMAIN q.where |-> ConditionsOf(q.where[i])])
<1>1. /\ SqlSelection(tabs, q) = SelectionOf(rows, conditions, <<>>, q.sort)
      /\ SqlSelection(more, q) = SelectionOf(Append(rows, x), conditions, <<>>, q.sort)
  BY DEF SqlSelection, SelectionOf
<1> HIDE DEF conditions
<1> QED
  BY <1>1, SelectedGrows

\* Base rows grow with their table, and their ids with its ids.
LEMMA BaseRowsGrow ==
    ASSUME NEW tabs, NEW q, IsPrintedList(tabs[q.table]), NEW more, NEW x, IsPrintedRow(x),
           more[q.table] = Append(tabs[q.table], x), IdsGrow(tabs[q.table], x)
    PROVE  LET base == BaseRows(tabs, q)
               new == BaseRow(q.table, q.alias, x)
           IN  /\ BaseRows(more, q) = Append(base, new)
               /\ IsPrintedList(base) /\ IsPrintedRow(new) /\ IdsGrow(base, new)
<1> DEFINE of(row) == BaseRow(q.table, q.alias, row)
<1>1. PICK rows, all : rows = tabs[q.table] /\ all = Append(rows, x) /\ more[q.table] = all
  OBVIOUS
<1>2. PICK n : n \in Nat /\ n = Len(rows) /\ DOMAIN rows = 1..n
  BY <1>1 DEF IsPrintedList, IsList
<1>3. /\ IsList(rows) /\ IsList(all) /\ Len(all) = n + 1 /\ DOMAIN all = 1..n + 1
      /\ \A i \in 1..n : all[i] = rows[i]
      /\ all[n + 1] = x
  BY <1>1, <1>2, AppendIs DEF IsPrintedList
<1>4. PICK base, grown : base = BaseRows(tabs, q) /\ grown = BaseRows(more, q)
  OBVIOUS
<1>5. PICK new : new = of(x)
  OBVIOUS
<1> HIDE DEF of
<1>6. base = [i \in 1..n |-> of(rows[i])] /\ grown = [i \in 1..n + 1 |-> of(all[i])]
  BY <1>1, <1>2, <1>3, <1>4 DEF BaseRows, of
<1>7. /\ DOMAIN base = 1..n /\ Len(base) = n /\ IsFunction(base)
      /\ DOMAIN grown = 1..n + 1 /\ Len(grown) = n + 1 /\ IsFunction(grown)
  BY <1>2, <1>6 DEF IsFunction
<1>8. IsList(base) /\ IsList(grown)
  BY <1>2, <1>7 DEF IsList
<1>9. grown = Append(base, new)
  <2>1. PICK t : t = Append(base, new)
    OBVIOUS
  <2>2. /\ IsList(t) /\ Len(t) = n + 1 /\ t[n + 1] = new
        /\ \A i \in 1..n : t[i] = base[i]
    BY <1>7, <1>8, <2>1, AppendIs
  <2>3. \A i : i \in 1..n + 1 <=> i \in 1..n \/ i = n + 1
    BY <1>2
  <2>4. \A i \in 1..n + 1 : grown[i] = t[i]
    BY <1>3, <1>5, <1>6, <2>2, <2>3
  <2> QED
    BY <1>7, <1>8, <2>1, <2>2, <2>4, SameList
<1>10. \A row \in Range(base) : \E old \in Range(rows) : row = of(old)
  BY <1>2, <1>6, <1>7 DEF Range
<1>11. \A row \in Range(rows) : IsPrintedRow(row)
  BY <1>1 DEF IsPrintedList
<1>12. IsPrintedList(base) /\ IsPrintedRow(new)
  <2>1. ASSUME NEW row, IsPrintedRow(row) PROVE IsPrintedRow(of(row))
    BY <2>1, BaseRowIs DEF of
  <2> QED
    BY <1>5, <1>8, <1>10, <1>11, <2>1 DEF IsPrintedList
<1>13. ASSUME NEW row \in Range(base)
       PROVE  HasSmallerId(row, new) \/ (~Has(row, Id) /\ ~Has(new, Id))
  <2>1. PICK old \in Range(rows) : row = of(old)
    BY <1>10
  <2>2. /\ Has(row, Id) <=> Has(old, Id) /\ "id" \notin {q.table, q.alias}
        /\ Has(old, Id) /\ "id" \notin {q.table, q.alias} => row[Id] = old[Id]
    BY <1>11, <2>1, BaseRowIs DEF of
  <2>3. /\ Has(new, Id) <=> Has(x, Id) /\ "id" \notin {q.table, q.alias}
        /\ Has(x, Id) /\ "id" \notin {q.table, q.alias} => new[Id] = x[Id]
    BY <1>5, BaseRowIs DEF of
  <2>4. HasSmallerId(old, x) \/ (~Has(old, Id) /\ ~Has(x, Id))
    BY <1>1 DEF IdsGrow
  <2> QED
    BY <2>2, <2>3, <2>4 DEF HasSmallerId
<1>14. IdsGrow(base, new)
  BY <1>13 DEF IdsGrow
<1> QED
  BY <1>4, <1>5, <1>9, <1>12, <1>14 DEF of

\* A stable selection stays, or another row comes at its end.
LEMMA ChosenGrows ==
    ASSUME NEW tabs, PostTable \in DOMAIN tabs, \A t \in DOMAIN tabs : IsTable(tabs[t]),
           NEW x, IsPrintedRow(x), IdsGrow(tabs[PostTable], x),
           NEW more, more[PostTable] = Append(tabs[PostTable], x),
           \A t \in DOMAIN tabs : t # PostTable => more[t] = tabs[t],
           NEW q, IsAppendStable(q), q.table \in DOMAIN tabs
    PROVE  \E new : Chosen(more, q) \in {Chosen(tabs, q), Append(Chosen(tabs, q), new)}
<1>1. q.joins = <<>> /\ q.sort \in {<<>>, <<SortColumn(Id, FALSE)>>}
  BY DEF IsAppendStable
<1>2. IsList(q.joins) /\ Range(q.joins) = {}
  BY <1>1 DEF IsList, IsFunction, Range
<1>3. \A t \in DOMAIN tabs : IsPrintedList(tabs[t]) /\ IsList(tabs[t])
  BY PrintedIsTable, TableIsList
<1>4. CASE q.table # PostTable
  <2>1. more[q.table] = tabs[q.table]
    BY <1>4
  <2>2. IsList(tabs[q.table]) /\ IsList(more[q.table])
    BY <1>3, <2>1
  <2>3. BaseRows(more, q) = BaseRows(tabs, q)
    BY <2>1 DEF BaseRows
  <2>4. Materialize(tabs, q) = BaseRows(tabs, q)
    BY <1>1, <1>2, <2>2, MaterializedIs
  <2>5. Materialize(more, q) = BaseRows(more, q)
    BY <1>1, <1>2, <2>2, MaterializedIs
  <2>6. SqlSelection(more, q) = SqlSelection(tabs, q)
    BY <2>3, <2>4, <2>5 DEF SqlSelection
  <2> QED
    BY <2>1, <2>6 DEF Chosen
<1>5. CASE q.table = PostTable /\ q.via # "sql"
  <2>1. PICK rows : rows = tabs[q.table]
    OBVIOUS
  <2>2. IsPrintedList(rows) /\ IsList(rows) /\ IdsGrow(rows, x) /\ more[q.table] = Append(rows, x)
    BY <1>3, <1>5, <2>1
  <2>3. /\ IsTotal(Append(rows, x), q.sort)
        /\ \A row \in Range(rows) : CompareItems(x, row, q.sort) # "less"
    BY <1>1, <2>2, AppendedComesLast
  <2>4. SelectionOf(Append(rows, x), q.where, FilterTypes(q), q.sort) \in
            {SelectionOf(rows, q.where, FilterTypes(q), q.sort),
             Append(SelectionOf(rows, q.where, FilterTypes(q), q.sort), x)}
    BY <2>2, <2>3, SelectedGrows
  <2> QED
    BY <1>5, <2>1, <2>2, <2>4 DEF Chosen
<1>6. CASE q.table = PostTable /\ q.via = "sql"
  <2>1. PICK base : base = BaseRows(tabs, q)
    OBVIOUS
  <2>2. PICK new : new = BaseRow(q.table, q.alias, x)
    OBVIOUS
  <2>0. /\ IsPrintedList(tabs[q.table]) /\ IsList(tabs[q.table])
        /\ IdsGrow(tabs[q.table], x) /\ more[q.table] = Append(tabs[q.table], x)
    BY <1>3, <1>6
  <2>3. /\ BaseRows(more, q) = Append(base, new)
        /\ IsPrintedList(base) /\ IsPrintedRow(new) /\ IdsGrow(base, new)
    <3>1. /\ BaseRows(more, q) = Append(BaseRows(tabs, q), BaseRow(q.table, q.alias, x))
          /\ IsPrintedList(BaseRows(tabs, q)) /\ IsPrintedRow(BaseRow(q.table, q.alias, x))
          /\ IdsGrow(BaseRows(tabs, q), BaseRow(q.table, q.alias, x))
      BY <2>0, BaseRowsGrow
    <3> QED
      BY <2>1, <2>2, <3>1
  <2>4. IsList(tabs[q.table]) /\ IsList(more[q.table])
    BY <2>0, AppendIs
  <2>5. Materialize(tabs, q) = base
    BY <1>1, <1>2, <2>1, <2>4, MaterializedIs
  <2>6. Materialize(more, q) = Append(base, new)
    BY <1>1, <1>2, <2>3, <2>4, MaterializedIs
  <2>7. /\ IsTotal(Append(base, new), q.sort)
        /\ \A row \in Range(base) : CompareItems(new, row, q.sort) # "less"
    BY <1>1, <2>3, AppendedComesLast
  <2>8. SqlSelection(more, q) \in {SqlSelection(tabs, q), Append(SqlSelection(tabs, q), new)}
    BY <1>1, <2>3, <2>4, <2>5, <2>6, <2>7, SqlSelectionGrows DEF IsPrintedList
  <2> QED
    BY <1>6, <2>8 DEF Chosen
<1> QED
  BY <1>4, <1>5, <1>6

-----------------------------------------------------------------------------
(***************************************************************************)
(* Pages.                                                                  *)
(***************************************************************************)

\* Quotient and remainder.
LEMMA DivisionIs ==
    ASSUME NEW a \in Nat, NEW b \in Nat, b > 0
    PROVE  /\ a \div b \in Nat
           /\ (a \div b) * b <= a
           /\ a < (a \div b) * b + b
  OBVIOUS

\* Products grow with their factors.
LEMMA TimesGrows ==
    ASSUME NEW a \in Nat, NEW b \in Nat, NEW c \in Nat, a <= b
    PROVE  a * c <= b * c
  OBVIOUS

\* The pages of some rows: the last is the first to reach the end of them.
LEMMA PageCountIs ==
    ASSUME NEW total \in Nat, NEW limit \in Nat, limit > 0
    PROVE  LET pages == PageCount(total, limit)
           IN  /\ pages \in Nat /\ pages >= 1
               /\ total <= pages * limit
               /\ total > 0 => (pages - 1) * limit < total
<1>1. CASE total = 0
  <2>1. PageCount(total, limit) = 1 /\ 1 * limit = limit
    BY <1>1 DEF PageCount
  <2> QED
    BY <1>1, <2>1
<1>2. CASE total > 0
  <2>1. PICK a \in Nat : a = total + limit - 1
    BY <1>2
  <2>2. PICK k : k = a \div limit
    OBVIOUS
  <2>3. PageCount(total, limit) = k
    BY <1>2, <2>1, <2>2 DEF PageCount
  <2>4. k \in Nat /\ k * limit <= a /\ a < k * limit + limit
    BY <2>2, DivisionIs
  <2>5. PICK p \in Nat : p = k * limit
    BY <2>4
  <2>6. total <= p /\ p - limit < total
    BY <2>1, <2>4, <2>5
  <2>7. k >= 1
    <3>1. k = 0 => p = 0
      BY <2>5
    <3> QED
      BY <1>2, <2>4, <2>6, <3>1
  <2>8. (k - 1) * limit = p - limit
    BY <2>4, <2>5
  <2> QED
    BY <2>3, <2>4, <2>5, <2>6, <2>7, <2>8
<1> QED
  BY <1>1, <1>2

\* Page c starts after c - 1 full pages, and there is a next one iff rows are left.
LEMMA WindowIs ==
    ASSUME NEW total \in Nat, NEW limit \in Nat, limit > 0, NEW c \in Nat, c >= 1,
           c > 1 => (c - 1) * limit < total
    PROVE  LET window == Window(total, c, limit)
               start == (c - 1) * limit
           IN  /\ window.start = start /\ start \in Nat /\ start <= total
               /\ window.end \in start..total
               /\ window.next = 0 => window.end = total
               /\ window.next # 0 => /\ window.next = c + 1 /\ window.end = c * limit
                                     /\ c * limit < total
<1>1. PICK pages : pages = PageCount(total, limit)
  OBVIOUS
<1>2. /\ pages \in Nat /\ pages >= 1 /\ total <= pages * limit
      /\ total > 0 => (pages - 1) * limit < total
  BY <1>1, PageCountIs
<1>3. PICK d \in Nat : d = c - 1
  OBVIOUS
<1>4. PICK start \in Nat : start = d * limit
  BY <1>3
<1>5. start <= total
  <2>1. c = 1 => d = 0 /\ 0 * limit = 0
    BY <1>3
  <2> QED
    BY <1>3, <1>4, <2>1
<1>6. ~(c > pages)
  <2> SUFFICES ASSUME c > pages PROVE FALSE
    OBVIOUS
  <2>1. c > 1 /\ start < total
    BY <1>2, <1>3, <1>4
  <2>2. pages <= d
    BY <1>2, <1>3
  <2>3. pages * limit <= start
    BY <1>2, <1>4, <2>2, TimesGrows
  <2>4. pages * limit \in Nat
    BY <1>2
  <2> QED
    BY <1>2, <2>1, <2>3, <2>4
<1>7. c * limit = start + limit
  BY <1>3, <1>4
<1> DEFINE window == Window(total, c, limit)
<1>8. /\ window.start = start
      /\ window.next = IF c < pages THEN c + 1 ELSE 0
      /\ window.end = IF start + limit < total THEN start + limit ELSE total
  BY <1>1, <1>3, <1>4, <1>6 DEF Window
<1> HIDE DEF window
<1>9. window.end \in start..total
  BY <1>5, <1>8
<1>10. ASSUME c < pages
       PROVE  window.next = c + 1 /\ window.end = c * limit /\ c * limit < total
  <2>1. PICK e \in Nat : e = pages - 1
    BY <1>2
  <2>2. c <= e /\ e * limit \in Nat /\ c * limit \in Nat
    BY <1>2, <1>10, <2>1
  <2>3. c * limit <= e * limit
    BY <2>2, TimesGrows
  <2>4. total > 0
    <3> SUFFICES ASSUME total = 0 PROVE FALSE
      OBVIOUS
    <3>1. pages = 1
      BY <1>1 DEF PageCount
    <3> QED
      BY <1>10, <3>1
  <2>5. e * limit < total
    BY <1>2, <2>1, <2>4
  <2> QED
    BY <1>7, <1>8, <1>10, <2>2, <2>3, <2>5
<1>11. ASSUME ~(c < pages) PROVE window.next = 0 /\ window.end = total
  <2>1. c = pages
    BY <1>2, <1>6, <1>11
  <2>2. total <= start + limit
    BY <1>2, <1>7, <2>1
  <2> QED
    BY <1>8, <1>11, <2>2
<1> QED
  BY <1>3, <1>4, <1>5, <1>8, <1>9, <1>10, <1>11 DEF window

\* The parts of a list.
LEMMA PartIs ==
    ASSUME NEW s, IsList(s), NEW a \in Nat, NEW b \in Nat, a <= b, a = b \/ b <= Len(s)
    PROVE  /\ IsList(SubSeq(s, a + 1, b)) /\ Len(SubSeq(s, a + 1, b)) = b - a
           /\ \A i \in 1..b - a : SubSeq(s, a + 1, b)[i] = s[a + i]
<1>1. \A i \in a + 1..b : s[i] \in Range(s)
  BY DEF IsList, Range
<1>2. PICK m \in Int : m = a + 1
  OBVIOUS
<1>3. PICK t : t = SubSeq(s, m, b)
  OBVIOUS
<1>4. /\ t \in Seq(Range(s))
      /\ Len(t) = IF m <= b THEN b - m + 1 ELSE 0
      /\ \A i \in 1..b - m + 1 : t[i] = s[m + i - 1]
  BY <1>1, <1>2, <1>3, SubSeqProperties
<1>5. Len(t) = b - a /\ Len(t) \in Nat
  BY <1>2, <1>4
<1>6. IsList(t)
  BY <1>4, <1>5, SeqIsFunction DEF IsList
<1>7. \A i \in 1..b - a : t[i] = s[a + i]
  <2> TAKE i \in 1..b - a
  <2>1. i \in 1..b - m + 1 /\ m + i - 1 = a + i
    BY <1>2
  <2> QED
    BY <1>4, <2>1
<1> QED
  BY <1>2, <1>3, <1>5, <1>6, <1>7

\* Parts that follow each other are one part.
LEMMA PartsJoin ==
    ASSUME NEW s, IsList(s), NEW a \in Nat, NEW b \in Nat, NEW c \in Nat,
           a <= b, b <= c, c <= Len(s)
    PROVE  SubSeq(s, a + 1, b) \o SubSeq(s, b + 1, c) = SubSeq(s, a + 1, c)
<1>1. s \in Seq(Range(s)) /\ Len(s) \in Nat
  BY DEF IsList, IsFunction, Range
<1>2. PICK m : m = a + 1
  OBVIOUS
<1>3. m \in 1..Len(s) + 1 /\ b \in m - 1..Len(s) /\ c \in b..Len(s)
  BY <1>1, <1>2
<1> QED
  BY <1>1, <1>2, <1>3, ConcatAdjacentSubSeq

\* Parts of a list that is longer by one are parts of it.
LEMMA PartStays ==
    ASSUME NEW s, IsList(s), NEW x, NEW a \in Nat, NEW b \in Nat, a <= b, a = b \/ b <= Len(s)
    PROVE  SubSeq(Append(s, x), a + 1, b) = SubSeq(s, a + 1, b)
<1>1. PICK t : t = Append(s, x)
  OBVIOUS
<1>2. /\ IsList(t) /\ Len(t) = Len(s) + 1 /\ Len(s) \in Nat
      /\ \A i \in 1..Len(s) : t[i] = s[i]
  BY <1>1, AppendIs DEF IsList
<1>3. PICK p, q : p = SubSeq(s, a + 1, b) /\ q = SubSeq(t, a + 1, b)
  OBVIOUS
<1>4. /\ IsList(p) /\ Len(p) = b - a /\ \A i \in 1..b - a : p[i] = s[a + i]
  BY <1>3, PartIs
<1>5. /\ IsList(q) /\ Len(q) = b - a /\ \A i \in 1..b - a : q[i] = t[a + i]
  <2>1. a = b \/ b <= Len(t)
    BY <1>2
  <2> QED
    BY <1>2, <1>3, <2>1, PartIs
<1>6. \A i \in 1..b - a : a + i \in 1..Len(s)
  BY <1>2
<1>7. \A i \in 1..b - a : p[i] = q[i]
  BY <1>2, <1>4, <1>5, <1>6
<1> QED
  BY <1>1, <1>3, <1>4, <1>5, <1>7, SameList

-----------------------------------------------------------------------------
(***************************************************************************)
(* The walk of a client.                                                   *)
(***************************************************************************)

Start(q) == IF q.via = "sql" THEN q.offset ELSE 0

\* What a client has of a selection of some length, and where it goes on.
IsAt(total, n, at, phase, q) ==
    /\ n \in Nat
    /\ n > 0 => Start(q) + n <= total
    /\ IF q.via = "sql" THEN at = Start(q) + n
       ELSE /\ at \in Nat /\ at >= 1
            /\ phase = "walking" => /\ n = (at - 1) * q.limit
                                    /\ at > 1 => n < total
    /\ phase = "done" => Start(q) + n >= total
Walked(selected, rows, at, phase, q) ==
    /\ IsList(rows)
    /\ rows = SubSeq(selected, Start(q) + 1, Start(q) + Len(rows))
    /\ IsAt(Len(selected), Len(rows), at, phase, q)

IsQuery(q) == q.limit \in Nat /\ q.offset \in Nat /\ (q.via # "sql" => q.limit > 0)

\* After the next rows of the selection the client has the first ones still.
LEMMA WalkGoesOn ==
    ASSUME NEW selected, IsList(selected), NEW rows, NEW at, NEW phase, NEW q, IsQuery(q),
           Walked(selected, rows, at, phase, q),
           NEW end \in Nat, Start(q) + Len(rows) <= end, end <= Len(selected),
           NEW after, NEW then, IsAt(Len(selected), end - Start(q), after, then, q)
    PROVE  /\ Walked(selected, rows \o SubSeq(selected, Start(q) + Len(rows) + 1, end), after, then, q)
           /\ Len(SubSeq(selected, Start(q) + Len(rows) + 1, end)) = end - (Start(q) + Len(rows))
<1>1. PICK start \in Nat : start = Start(q)
  BY DEF Start, IsQuery
<1>2. PICK b \in Nat : b = start + Len(rows)
  BY <1>1 DEF Walked, IsAt
<1>3. PICK next : next = SubSeq(selected, b + 1, end)
  OBVIOUS
<1>4. Len(rows) \in Nat /\ start <= b /\ b <= end /\ end <= Len(selected)
  BY <1>1, <1>2 DEF Walked, IsAt
<1>5. IsList(next) /\ Len(next) = end - b
  BY <1>3, <1>4, PartIs
<1>6. rows \o next = SubSeq(selected, start + 1, end)
  <2>1. rows = SubSeq(selected, start + 1, b)
    BY <1>1, <1>2 DEF Walked
  <2> QED
    BY <1>3, <1>4, <2>1, PartsJoin
<1>7. IsList(rows \o next) /\ Len(rows \o next) = end - start
  <2>1. IsList(SubSeq(selected, start + 1, end)) /\ Len(SubSeq(selected, start + 1, end)) = end - start
    BY <1>4, PartIs
  <2> QED
    BY <1>6, <2>1
<1>8. PICK all : all = rows \o next
  OBVIOUS
<1>9. start + Len(all) = end
  BY <1>4, <1>7, <1>8
<1>10. Walked(selected, all, after, then, q)
  BY <1>1, <1>6, <1>7, <1>8, <1>9 DEF Walked
<1> QED
  BY <1>1, <1>2, <1>3, <1>5, <1>8, <1>10

\* A page takes a REST or GraphQL client on by one step.
LEMMA PageWalks ==
    ASSUME NEW selected, IsList(selected), NEW rows, NEW at, NEW q, IsQuery(q), q.via # "sql",
           Walked(selected, rows, at, "walking", q),
           NEW after, NEW then,
           LET next == Window(Len(selected), at, q.limit).next
           IN  IF next = 0 THEN then = "done" /\ after = at
               ELSE then = "walking" /\ after = next
    PROVE  Walked(selected, rows \o PageRows(selected, at, q.limit), after, then, q)
<1>1. PICK total \in Nat : total = Len(selected)
  BY DEF IsList
<1>2. PICK n \in Nat : n = Len(rows)
  BY DEF Walked, IsAt
<1>3. Start(q) = 0 /\ q.limit \in Nat /\ q.limit > 0
  BY DEF Start, IsQuery
<1>4. PICK limit \in Nat : limit = q.limit /\ limit > 0
  BY <1>3
<1>5. /\ at \in Nat /\ at >= 1 /\ n = (at - 1) * limit /\ (at > 1 => n < total)
  BY <1>1, <1>2, <1>4 DEF Walked, IsAt
<1>6. PICK window : window = Window(total, at, limit)
  OBVIOUS
<1>7. /\ window.start = n /\ n <= total
      /\ window.end \in n..total
      /\ window.next = 0 => window.end = total
      /\ window.next # 0 => /\ window.next = at + 1 /\ window.end = at * limit
                            /\ at * limit < total
  <2>1. at > 1 => (at - 1) * limit < total
    BY <1>5
  <2>2. LET w == Window(total, at, limit)
            from == (at - 1) * limit
        IN  /\ w.start = from /\ from \in Nat /\ from <= total
            /\ w.end \in from..total
            /\ w.next = 0 => w.end = total
            /\ w.next # 0 => /\ w.next = at + 1 /\ w.end = at * limit
                             /\ at * limit < total
    <3>1. total \in Nat /\ limit \in Nat /\ limit > 0 /\ at \in Nat /\ at >= 1
      BY <1>4, <1>5
    <3> QED
      BY <2>1, <3>1, WindowIs, Zenon
  <2> QED
    BY <1>5, <1>6, <2>2
<1>8. PICK end \in Nat : end = window.end /\ n <= end /\ end <= total
  BY <1>7
<1>9. IsAt(total, end, after, then, q)
  <2>1. IF window.next = 0 THEN then = "done" /\ after = at
        ELSE then = "walking" /\ after = window.next
    BY <1>1, <1>4, <1>6
  <2>2. CASE window.next = 0
    BY <1>3, <1>5, <1>7, <1>8, <2>1, <2>2 DEF IsAt
  <2>3. CASE window.next # 0
    <3>1. after = at + 1 /\ end = at * limit /\ end < total /\ then = "walking"
      BY <1>7, <1>8, <2>1, <2>3
    <3>2. after \in Nat /\ after >= 1 /\ after - 1 = at
      BY <1>5, <3>1
    <3> QED
      BY <1>3, <1>4, <1>8, <3>1, <3>2 DEF IsAt
  <2> QED
    BY <2>2, <2>3
<1>10. PageRows(selected, at, q.limit) = SubSeq(selected, n + 1, end)
  BY <1>1, <1>4, <1>6, <1>7, <1>8 DEF PageRows
<1>11. /\ Start(q) + Len(rows) = n /\ end - Start(q) = end
  BY <1>2, <1>3
<1>12. Walked(selected, rows \o SubSeq(selected, Start(q) + Len(rows) + 1, end), after, then, q)
  BY <1>1, <1>8, <1>9, <1>11, WalkGoesOn
<1> QED
  BY <1>10, <1>11, <1>12

\* A window takes a SQL client on by one step.
LEMMA RowsWalk ==
    ASSUME NEW selected, IsList(selected), NEW rows, NEW at, NEW q, IsQuery(q), q.via = "sql",
           Walked(selected, rows, at, "walking", q),
           NEW then,
           LET next == SqlWindow(selected, at, q.limit)
           IN  then = IF Len(next) < q.limit THEN "done" ELSE "walking"
    PROVE  LET next == SqlWindow(selected, at, q.limit)
           IN  Walked(selected, rows \o next, at + Len(next), then, q)
<1>1. PICK total \in Nat : total = Len(selected)
  BY DEF IsList
<1>2. PICK n \in Nat : n = Len(rows)
  BY DEF Walked, IsAt
<1>3. PICK start, limit \in Nat : start = Start(q) /\ limit = q.limit
  BY DEF Start, IsQuery
<1>4. at = start + n /\ at \in Nat /\ (n > 0 => at <= total) /\ start <= at
  <2>1. IsAt(total, n, at, "walking", q)
    BY <1>1, <1>2 DEF Walked
  <2>2. at = Start(q) + n /\ (n > 0 => Start(q) + n <= total)
    BY <2>1, Zenon DEF IsAt
  <2> QED
    BY <1>3, <2>2
<1>5. PICK end \in Nat : end = IF at + limit < total THEN at + limit ELSE total
  BY <1>4
<1>6. PICK next : next = SubSeq(selected, at + 1, end)
  OBVIOUS
<1>7. SqlWindow(selected, at, q.limit) = next
  BY <1>1, <1>3, <1>5, <1>6 DEF SqlWindow
<1>8. CASE at > total
  <2>1. n = 0 /\ end = total
    BY <1>4, <1>5, <1>8
  <2>2. next = <<>>
    BY <1>4, <1>6, <1>8, <2>1, SubSeqEmpty
  <2>3. rows \o next = rows /\ Len(next) = 0
    <3>1. rows \in Seq(Range(rows))
      BY DEF Walked, IsList, IsFunction, Range
    <3> QED
      BY <2>2, <3>1
  <2>4. IsAt(total, n, at, then, q)
    BY <1>2, <1>3, <1>4, <1>8, <2>1 DEF IsAt
  <2>5. Walked(selected, rows, at, then, q)
    BY <1>1, <1>2, <2>4 DEF Walked
  <2>6. at + Len(next) = at
    BY <1>4, <2>3
  <2> QED
    BY <1>7, <2>3, <2>5, <2>6
<1>9. CASE at <= total
  <2>1. at <= end /\ end <= total
    BY <1>4, <1>5, <1>9
  <2>2. Len(next) = end - at
    BY <1>1, <1>4, <1>6, <2>1, PartIs
  <2>3. at + Len(next) = end /\ start <= end
    BY <1>4, <2>1, <2>2
  <2>4. then = "done" => end = total
    <3>1. then = "done" => Len(next) < limit
      BY <1>3, <1>7
    <3> QED
      BY <1>4, <1>5, <2>2, <3>1
  <2>5. IsAt(total, end - start, end, then, q)
    <3>1. end - start \in Nat /\ start + (end - start) = end
      BY <1>4, <2>3
    <3> QED
      BY <1>3, <2>1, <2>4, <3>1 DEF IsAt
  <2>6. Start(q) + Len(rows) = at /\ end - Start(q) = end - start
    BY <1>2, <1>3, <1>4
  <2>7. Walked(selected, rows \o SubSeq(selected, Start(q) + Len(rows) + 1, end), end, then, q)
    BY <1>1, <2>1, <2>5, <2>6, WalkGoesOn
  <2> QED
    BY <1>6, <1>7, <2>3, <2>6, <2>7
<1> QED
  BY <1>1, <1>4, <1>8, <1>9

\* A row at the end of the selection leaves the walk where it is.
LEMMA WalkStays ==
    ASSUME NEW selected, IsList(selected), NEW rows, NEW at, NEW q, IsQuery(q),
           Walked(selected, rows, at, "walking", q), NEW x
    PROVE  Walked(Append(selected, x), rows, at, "walking", q)
<1>1. PICK more : more = Append(selected, x)
  OBVIOUS
<1>2. IsList(more) /\ Len(more) = Len(selected) + 1 /\ Len(selected) \in Nat
  BY <1>1, AppendIs DEF IsList
<1>3. PICK start, n \in Nat : start = Start(q) /\ n = Len(rows)
  BY DEF Start, IsQuery, Walked, IsAt
<1>4. start + n \in Nat /\ start <= start + n /\ (start = start + n \/ start + n <= Len(selected))
  <2>1. IsAt(Len(selected), n, at, "walking", q)
    BY <1>3 DEF Walked
  <2>2. n > 0 => start + n <= Len(selected)
    BY <1>3, <2>1, Zenon DEF IsAt
  <2> QED
    BY <1>3, <2>2
<1>5. SubSeq(more, start + 1, start + n) = SubSeq(selected, start + 1, start + n)
  <2>1. PICK b \in Nat : b = start + n
    BY <1>4
  <2>2. SubSeq(more, start + 1, b) = SubSeq(selected, start + 1, b)
    BY <1>1, <1>4, <2>1, PartStays
  <2> QED
    BY <2>1, <2>2
<1>6. IsAt(Len(more), Len(rows), at, "walking", q)
  <2>1. IsAt(Len(selected), n, at, "walking", q)
    BY <1>3 DEF Walked
  <2>2. PICK before, after \in Nat : before = Len(selected) /\ after = Len(more) /\ after = before + 1
    BY <1>2
  <2>3. \A k \in Nat : k <= before => k <= after
    BY <2>2
  <2>4. n < before => n < after
    BY <1>3, <2>2
  <2>5. n > 0 => start + n <= after
    BY <1>3, <1>4, <2>1, <2>2, <2>3, Zenon DEF IsAt
  <2>6. /\ q.via = "sql" => at = Start(q) + n
        /\ q.via # "sql" => /\ at \in Nat /\ at >= 1
                            /\ n = (at - 1) * q.limit /\ (at > 1 => n < before)
    BY <2>1, <2>2, Zenon DEF IsAt
  <2>7. IsAt(after, n, at, "walking", q)
    BY <1>3, <2>4, <2>5, <2>6, Zenon DEF IsAt
  <2> QED
    BY <1>3, <2>2, <2>7
<1> QED
  BY <1>1, <1>3, <1>5, <1>6 DEF Walked

\* Where a client is, as long as nobody inserts rows before others.
WalkOK ==
    /\ status \in {"walking", "done", "rejected"}
    /\ status # "rejected" /\ (posted = 0 \/ IsAppendStable(query)) =>
           Walked(Selection(query), received, cursor, status, query)

\* Selections as a function of tables and query.
LEMMA SelectionIsChosen == Selection(query) = Chosen(tables, query)
  BY DEF Selection, Chosen, SelectionOf

\* The selection of the client is a list.
LEMMA SelectionIsList ==
    ASSUME TablesOK
    PROVE  IsList(Selection(query)) /\ IsQuery(query)
<1>1. IsList(query.joins) /\ IsQuery(query)
  BY RequestsAssumption DEF TablesOK, IsQuery
<1>2. \A t \in DOMAIN tables : IsList(tables[t])
  BY TableIsList DEF TablesOK
<1>3. \A join \in Range(query.joins) : IsList(tables[join.resource])
  BY <1>2 DEF TablesOK
<1>4. IsList(tables[query.table])
  BY <1>2 DEF TablesOK
<1>5. IsList(Chosen(tables, query))
  BY <1>1, <1>3, <1>4, ChosenIsList
<1> QED
  BY <1>1, <1>5, SelectionIsChosen

\* At the start nothing is received.
LEMMA WalkInit == Init => WalkOK
<1> SUFFICES ASSUME Init PROVE WalkOK
  OBVIOUS
<1>1. IsQuery(query)
  BY RequestsAssumption DEF Init, IsQuery
<1>2. TablesOK
  BY TablesInit
<1>3. PICK selected : selected = Selection(query)
  OBVIOUS
<1>4. IsList(selected)
  BY <1>2, <1>3, SelectionIsList
<1>5. received = <<>> /\ status = "walking" /\ Len(received) = 0
  BY DEF Init
<1>6. Start(query) \in Nat /\ Start(query) + Len(received) = Start(query)
  BY <1>1, <1>5 DEF Start, IsQuery
<1>7. SubSeq(selected, Start(query) + 1, Start(query) + Len(received)) = <<>>
  <2>1. PICK a \in Nat : a = Start(query)
    BY <1>6
  <2>2. SubSeq(selected, a + 1, a) = <<>>
    BY SubSeqEmpty
  <2> QED
    BY <1>6, <2>1, <2>2
<1>8. IsAt(Len(selected), 0, cursor, "walking", query)
  <2>1. query.via = "sql" => cursor = Start(query) + 0
    BY <1>6 DEF Init, Start
  <2>2. query.via # "sql" => cursor = 1 /\ 0 = (cursor - 1) * query.limit
    BY <1>1 DEF Init, IsQuery
  <2> QED
    BY <2>1, <2>2 DEF IsAt
<1>9. IsList(received)
  BY <1>5 DEF IsList, IsFunction
<1>10. Walked(selected, received, cursor, status, query)
  BY <1>5, <1>7, <1>8, <1>9 DEF Walked
<1> QED
  BY <1>3, <1>5, <1>10 DEF WalkOK

\* Each step of the client goes on in its selection, and rows of others come after it.
LEMMA WalkNext == TablesOK /\ WalkOK /\ [Next]_vars => WalkOK'
<1> SUFFICES ASSUME TablesOK, WalkOK, [Next]_vars PROVE WalkOK'
  OBVIOUS
<1>1. PICK selected : selected = Selection(query)
  OBVIOUS
<1>2. IsList(selected) /\ IsQuery(query)
  BY <1>1, SelectionIsList
<1>3. UNCHANGED <<tables, query>> => Selection(query)' = selected
  BY <1>1 DEF Selection, SqlSelection
<1>4. CASE FetchPage
  <2>1. /\ status = "walking" /\ query.via # "sql"
        /\ UNCHANGED <<tables, query, posted>>
        /\ received' = received \o PageRows(selected, cursor, query.limit)
        /\ LET next == Window(Len(selected), cursor, query.limit).next
           IN  IF next = 0 THEN status' = "done" /\ cursor' = cursor
               ELSE status' = "walking" /\ cursor' = next
    BY <1>1, <1>4 DEF FetchPage
  <2>2. SUFFICES ASSUME posted = 0 \/ IsAppendStable(query)
                 PROVE  /\ status' \in {"walking", "done", "rejected"}
                        /\ Walked(selected, received', cursor', status', query)
    BY <1>3, <2>1 DEF WalkOK
  <2>3. Walked(selected, received, cursor, "walking", query)
    BY <1>1, <2>1, <2>2 DEF WalkOK
  <2>4. status' \in {"walking", "done"}
    BY <2>1
  <2>5. Walked(selected, received \o PageRows(selected, cursor, query.limit), cursor', status', query)
    <3>1. PICK after, then : after = cursor' /\ then = status'
      OBVIOUS
    <3> QED
      BY <1>2, <2>1, <2>3, <3>1, PageWalks
  <2> QED
    BY <2>1, <2>4, <2>5
<1>5. CASE FetchRows
  <2>1. /\ status = "walking" /\ query.via = "sql"
        /\ UNCHANGED <<tables, query, posted>>
        /\ received' = received \o SqlWindow(selected, cursor, query.limit)
        /\ cursor' = cursor + Len(SqlWindow(selected, cursor, query.limit))
        /\ status' = IF Len(SqlWindow(selected, cursor, query.limit)) < query.limit
                     THEN "done" ELSE "walking"
    BY <1>1, <1>5 DEF FetchRows
  <2>2. SUFFICES ASSUME posted = 0 \/ IsAppendStable(query)
                 PROVE  /\ status' \in {"walking", "done", "rejected"}
                        /\ Walked(selected, received', cursor', status', query)
    BY <1>3, <2>1 DEF WalkOK
  <2>3. Walked(selected, received, cursor, "walking", query)
    BY <1>1, <2>1, <2>2 DEF WalkOK
  <2>4. status' \in {"walking", "done"}
    BY <2>1
  <2>5. PICK then : then = status'
    OBVIOUS
  <2>6. LET next == SqlWindow(selected, cursor, query.limit)
        IN  Walked(selected, received \o next, cursor + Len(next), then, query)
    BY <1>2, <2>1, <2>3, <2>5, RowsWalk
  <2> QED
    BY <2>1, <2>4, <2>5, <2>6
<1>6. CASE Reject
  BY <1>6 DEF Reject, WalkOK
<1>7. CASE Post
  <2>1. /\ status = "walking" /\ UNCHANGED <<query, cursor, received, status>>
        /\ posted' = posted + 1 /\ posted < Len(NewRows)
        /\ tables' = [tables EXCEPT ![PostTable] = Append(@, NewRows[posted + 1])]
    BY <1>7 DEF Post
  <2>2. posted \in Nat /\ posted' # 0
    BY <2>1, RowsAssumption DEF TablesOK, IsTable, IsArray
  <2>3. SUFFICES ASSUME IsAppendStable(query)
                 PROVE  Walked(Selection(query)', received, cursor, "walking", query)
    BY <2>1, <2>2 DEF WalkOK
  <2>4. Walked(selected, received, cursor, "walking", query)
    BY <1>1, <2>1, <2>3 DEF WalkOK
  <2>5. PICK x : x = NewRows[posted + 1]
    OBVIOUS
  <2>6. posted + 1 \in DOMAIN NewRows /\ posted + 1 \in posted + 1..Len(NewRows)
    BY <2>1, <2>2, RowsAssumption DEF IsTable, IsArray
  <2>7. IsPrintedRow(x)
    BY <2>5, <2>6, RowsAssumption, PrintedIsTable DEF IsPrintedList, Range
  <2>8. IdsGrow(tables[PostTable], x)
    BY <2>5, <2>6 DEF IdsGrow, TablesOK
  <2>9. PICK more : more = tables'
    OBVIOUS
  <2>10. /\ more[PostTable] = Append(tables[PostTable], x)
         /\ \A t \in DOMAIN tables : t # PostTable => more[t] = tables[t]
    BY <2>1, <2>5, <2>9 DEF TablesOK
  <2>11. PICK q : q = query
    OBVIOUS
  <2>12. /\ PostTable \in DOMAIN tables /\ \A t \in DOMAIN tables : IsTable(tables[t])
         /\ q.table \in DOMAIN tables /\ IsAppendStable(q)
    BY <2>3, <2>11 DEF TablesOK
  <2>13. \E new : Chosen(more, q) \in {Chosen(tables, q), Append(Chosen(tables, q), new)}
    BY <2>7, <2>8, <2>10, <2>12, ChosenGrows
  <2>14. Selection(query)' = Chosen(more, q) /\ selected = Chosen(tables, q)
    <3>1. (Selection(query) = Chosen(tables, query))'
      BY SelectionIsChosen, PTL
    <3> QED
      BY <1>1, <2>1, <2>9, <2>11, <3>1, SelectionIsChosen
  <2>15. \E new : Selection(query)' \in {selected, Append(selected, new)}
    BY <2>13, <2>14
  <2>16. \A new : Walked(Append(selected, new), received, cursor, "walking", query)
    BY <1>2, <2>4, WalkStays
  <2> QED
    BY <2>4, <2>15, <2>16
<1>8. CASE UNCHANGED vars
  BY <1>1, <1>3, <1>8 DEF vars, WalkOK
<1> QED
  BY <1>4, <1>5, <1>6, <1>7, <1>8 DEF Next

\* Following `next`, or going on by the rows received, a client gets each row
\* of its selection once, in order and up to its end, even if rows are added
\* at that end meanwhile (pagination_window, LIMIT and OFFSET).
THEOREM WalksVisitOnce == Spec => []WalkVisitsOnce
<1>1. WalkOK => WalkVisitsOnce
  BY DEF WalkOK, WalkVisitsOnce, Walked, IsAt, Start
<1> QED
  BY <1>1, TablesInvariance, WalkInit, WalkNext, TablesNext, TablesInit, PTL DEF Spec

-----------------------------------------------------------------------------
(***************************************************************************)
(* Rows nested under names.                                                *)
(***************************************************************************)

\* A name before a path.
LEMMA PrefixIs ==
    ASSUME NEW name, NEW q, IsList(q)
    PROVE  /\ IsList(<<name>> \o q) /\ Len(<<name>> \o q) = 1 + Len(q)
           /\ (<<name>> \o q)[1] = name
           /\ \A i \in 1..Len(q) : (<<name>> \o q)[1 + i] = q[i]
<1>1. IsList(<<name>>) /\ Len(<<name>>) = 1
  BY DEF IsList, IsFunction
<1>2. PICK s : s = <<name>> \o q
  OBVIOUS
<1>3. /\ IsList(s) /\ Len(s) = 1 + Len(q)
      /\ \A i \in 1..Len(q) : s[1 + i] = q[i]
  BY <1>1, <1>2, ConcatIs
<1>4. PICK one : one = <<name>>
  OBVIOUS
<1>5. IsList(one) /\ 1 \in 1..Len(one) /\ one[1] = name
  BY <1>1, <1>4
<1>6. \A i \in 1..Len(one) : (one \o q)[i] = one[i]
  BY <1>5, ConcatIs, Zenon
<1>7. s[1] = name
  BY <1>2, <1>4, <1>5, <1>6
<1> QED
  BY <1>2, <1>3, <1>7

\* A path below a name, and its parts.
LEMMA LongerPath ==
    ASSUME NEW q, IsPath(q), NEW name
    PROVE  /\ IsPath(<<name>> \o q) /\ Tail(<<name>> \o q) = q /\ Head(<<name>> \o q) = name
           /\ Len(<<name>> \o q) = Len(q) + 1
<1>2. IsList(q) /\ Len(q) \in Nat /\ Len(q) > 0
  BY DEF IsPath, IsList
<1>3. PICK s : s = <<name>> \o q
  OBVIOUS
<1>4. /\ IsList(s) /\ Len(s) = 1 + Len(q) /\ s[1] = name
      /\ \A i \in 1..Len(q) : s[1 + i] = q[i]
  BY <1>2, <1>3, PrefixIs
<1>5. IsPath(s)
  BY <1>2, <1>4 DEF IsPath
<1>6. s \in Seq(Range(s)) /\ s # <<>>
  BY <1>2, <1>4 DEF IsList, IsFunction, Range
<1>7. PICK t : t = Tail(s)
  OBVIOUS
<1>8. /\ t \in Seq(Range(s)) /\ Len(t) = Len(s) - 1
      /\ \A i \in 1..Len(t) : t[i] = s[i + 1]
  BY <1>6, <1>7, HeadTailProperties
<1>9. IsList(t) /\ Len(t) = Len(q)
  BY <1>2, <1>4, <1>8, SeqIsFunction DEF IsList
<1>10. \A i \in 1..Len(q) : t[i] = q[i]
  <2> TAKE i \in 1..Len(q)
  <2>1. i + 1 = 1 + i
    BY <1>2
  <2> QED
    BY <1>4, <1>8, <1>9, <2>1
<1>11. Tail(s) = q
  BY <1>2, <1>7, <1>9, <1>10, SameList
<1>12. Head(s) = name
  BY <1>4
<1> QED
  BY <1>2, <1>3, <1>4, <1>5, <1>11, <1>12

\* A longer path is a name before a path.
LEMMA PathParts ==
    ASSUME NEW p, IsPath(p), Len(p) > 1
    PROVE  IsPath(Tail(p)) /\ <<Head(p)>> \o Tail(p) = p
<1>1. IsList(p) /\ Len(p) \in Nat
  BY DEF IsPath, IsList
<1>2. p \in Seq(Range(p)) /\ p # <<>>
  BY <1>1 DEF IsList, IsFunction, Range
<1>3. PICK t, h : t = Tail(p) /\ h = Head(p)
  OBVIOUS
<1>4. /\ t \in Seq(Range(p)) /\ Len(t) = Len(p) - 1
      /\ \A i \in 1..Len(t) : t[i] = p[i + 1]
  BY <1>2, <1>3, HeadTailProperties
<1>5. IsList(t) /\ Len(t) \in Nat /\ Len(t) > 0
  BY <1>1, <1>4, SeqIsFunction DEF IsList
<1>6. IsPath(t)
  BY <1>5 DEF IsPath
<1>7. h = p[1]
  BY <1>3
<1>8. PICK s : s = <<h>> \o t
  OBVIOUS
<1>10. /\ IsList(s) /\ Len(s) = 1 + Len(t) /\ s[1] = h
       /\ \A i \in 1..Len(t) : s[1 + i] = t[i]
  BY <1>5, <1>8, PrefixIs
<1>11. ASSUME NEW i \in 1..Len(p) PROVE s[i] = p[i]
  <2>1. CASE i = 1
    BY <1>7, <1>10, <2>1
  <2>2. CASE i # 1
    <3>1. PICK k : k = i - 1
      OBVIOUS
    <3>2. k \in 1..Len(t) /\ 1 + k = i /\ k + 1 = i
      BY <1>1, <1>4, <2>2, <3>1
    <3> QED
      BY <1>4, <1>10, <3>2
  <2> QED
    BY <2>1, <2>2
<1>12. s = p
  BY <1>1, <1>4, <1>5, <1>10, <1>11, SameList
<1> QED
  BY <1>3, <1>6, <1>8, <1>12

\* Nesting puts a row under a name and leaves those under other names.
LEMMA UnderNested ==
    ASSUME NEW row, IsPrintedRow(row), NEW name, NEW object, IsPrintedRow(object)
    PROVE  /\ Under(Nest(row, name, object), name) = object
           /\ \A other : other # name =>
                  Under(Nest(row, name, object), other) = Under(row, other)
<1> DEFINE longer(q) == <<name>> \o q
           inner == [p \in {longer(q) : q \in DOMAIN object} |-> object[Tail(p)]]
           outer == [p \in {p \in DOMAIN row : Head(p) # name} |-> row[p]]
           nested == Nest(row, name, object)
           paths(r, n) == {p \in DOMAIN r : Head(p) = n /\ Len(p) > 1}
<1>1. nested = [p \in DOMAIN inner \cup DOMAIN outer |->
                   IF p \in DOMAIN inner THEN inner[p] ELSE outer[p]]
  BY DEF Nest, Over
<1>2. ASSUME NEW q, IsPath(q)
      PROVE  IsPath(longer(q)) /\ Tail(longer(q)) = q /\ Head(longer(q)) = name /\ Len(longer(q)) > 1
  <2>1. Len(q) \in Nat /\ Len(q) > 0
    BY <1>2 DEF IsPath, IsList
  <2>2. IsPath(longer(q)) /\ Tail(longer(q)) = q /\ Head(longer(q)) = name
        /\ Len(longer(q)) = Len(q) + 1
    BY <1>2, LongerPath
  <2> HIDE DEF longer
  <2> QED
    BY <2>1, <2>2
<1> HIDE DEF longer
<1>3. /\ \A q \in DOMAIN object : IsPath(q)
      /\ \A p \in DOMAIN row : IsPath(p)
      /\ IsFunction(object)
  BY DEF IsPrintedRow
<1>4. ASSUME NEW q \in DOMAIN object
      PROVE  longer(q) \in DOMAIN nested /\ nested[longer(q)] = object[q]
  <2>1. longer(q) \in DOMAIN inner /\ inner[longer(q)] = object[q]
    BY <1>2, <1>3
  <2> HIDE DEF inner, outer
  <2> QED
    BY <1>1, <2>1
<1>5. \A p \in DOMAIN nested : Head(p) = name => \E q \in DOMAIN object : p = longer(q)
  BY <1>1
<1>6. paths(nested, name) = {longer(q) : q \in DOMAIN object}
  BY <1>2, <1>3, <1>4, <1>5
<1>7. \A r, n : Under(r, n) = [q \in {Tail(p) : p \in paths(r, n)} |-> r[<<n>> \o q]]
  BY DEF Under
<1>8. {Tail(p) : p \in paths(nested, name)} = DOMAIN object
  <2> HIDE DEF paths
  <2>1. \A p \in paths(nested, name) : Tail(p) \in DOMAIN object
    BY <1>2, <1>3, <1>6
  <2>2. \A q \in DOMAIN object : longer(q) \in paths(nested, name) /\ Tail(longer(q)) = q
    BY <1>2, <1>3, <1>6
  <2> HIDE DEF nested
  <2>3. ASSUME NEW q \in DOMAIN object PROVE q \in {Tail(p) : p \in paths(nested, name)}
    BY <2>2
  <2> QED
    BY <2>1, <2>3
<1>9. Under(nested, name) = object
  <2>1. Under(nested, name) = [q \in DOMAIN object |-> nested[longer(q)]]
    BY <1>7, <1>8 DEF longer
  <2>2. \A q \in DOMAIN object : nested[longer(q)] = object[q]
    BY <1>4
  <2>3. object = [q \in DOMAIN object |-> object[q]]
    BY <1>3 DEF IsFunction
  <2> QED
    BY <2>1, <2>2, <2>3
<1>10. ASSUME NEW other, other # name PROVE Under(nested, other) = Under(row, other)
  <2>1. ASSUME NEW p, Head(p) = other
        PROVE  /\ p \in DOMAIN nested <=> p \in DOMAIN row
               /\ p \in DOMAIN row => nested[p] = row[p]
    <3>1. p \notin DOMAIN inner
      BY <1>2, <1>3, <1>10, <2>1
    <3>2. p \in DOMAIN outer <=> p \in DOMAIN row
      BY <1>10, <2>1
    <3>3. p \in DOMAIN row => outer[p] = row[p]
      BY <1>10, <2>1
    <3> HIDE DEF inner, outer
    <3> QED
      BY <1>1, <3>1, <3>2, <3>3
  <2>2. paths(nested, other) = paths(row, other)
    BY <2>1
  <2>3. ASSUME NEW p \in paths(row, other)
        PROVE  nested[<<other>> \o Tail(p)] = row[<<other>> \o Tail(p)]
    <3>1. <<other>> \o Tail(p) = p
      BY <1>3, <2>3, PathParts
    <3> QED
      BY <2>1, <2>3, <3>1
  <2>4. \A q \in {Tail(p) : p \in paths(row, other)} :
            nested[<<other>> \o q] = row[<<other>> \o q]
    BY <2>3
  <2> HIDE DEF paths, nested
  <2>5. [q \in {Tail(p) : p \in paths(nested, other)} |-> nested[<<other>> \o q]]
            = [q \in {Tail(p) : p \in paths(row, other)} |-> row[<<other>> \o q]]
    BY <2>2, <2>4
  <2> QED
    BY <1>7, <2>5
<1> QED
  BY <1>9, <1>10

\* A qualified column is the column of the row under its qualifier.
LEMMA QualifiedIs ==
    ASSUME NEW row, IsPrintedRow(row), NEW name, NEW column
    PROVE  /\ Has(row, <<name, column>>) <=> Has(Under(row, name), <<column>>)
           /\ Has(row, <<name, column>>) => row[<<name, column>>] = Under(row, name)[<<column>>]
<1> DEFINE paths == {p \in DOMAIN row : Head(p) = name /\ Len(p) > 1}
           q == <<column>>
           p == <<name, column>>
<1>1. Under(row, name) = [x \in {Tail(y) : y \in paths} |-> row[<<name>> \o x]]
  BY DEF Under
<1>2. IsPath(q)
  BY DEF IsPath, IsList, IsFunction
<1>3. <<name>> \o q = p
  <2>1. PICK s : s = <<name>> \o q
    OBVIOUS
  <2>2. /\ IsList(q) /\ Len(q) = 1 /\ q[1] = column
        /\ IsList(p) /\ Len(p) = 2 /\ p[1] = name /\ p[2] = column
    BY DEF IsList, IsFunction
  <2> HIDE DEF p, q
  <2>3. /\ IsList(s) /\ Len(s) = 1 + Len(q) /\ s[1] = name
        /\ \A i \in 1..Len(q) : s[1 + i] = q[i]
    BY <2>1, <2>2, PrefixIs
  <2>4. Len(s) = 2 /\ s[2] = column
    <3>1. 1 \in 1..1 /\ 1 + 1 = 2
      OBVIOUS
    <3>2. s[1 + 1] = q[1]
      BY <2>2, <2>3, <3>1
    <3> QED
      BY <2>2, <2>3, <3>1, <3>2
  <2>5. \A i \in 1..2 : i = 1 \/ i = 2
    OBVIOUS
  <2> QED
    <3>1. \A i \in 1..Len(p) : s[i] = p[i]
      BY <2>2, <2>3, <2>4, <2>5
    <3>2. s = p
      BY <2>2, <2>3, <2>4, <3>1, SameList
    <3> QED
      BY <2>1, <3>2
<1>4. Tail(p) = q /\ Head(p) = name /\ Len(p) > 1
  <2>1. Len(q) = 1
    OBVIOUS
  <2> QED
    BY <1>2, <1>3, <2>1, LongerPath
<1>5. \A y \in paths : <<name>> \o Tail(y) = y
  BY PathParts DEF IsPrintedRow
<1> HIDE DEF p, q
<1>6. p \in DOMAIN row <=> p \in paths
  BY <1>4
<1> HIDE DEF paths
<1>7. p \in paths <=> q \in {Tail(y) : y \in paths}
  BY <1>3, <1>4, <1>5
<1> QED
  BY <1>1, <1>3, <1>6, <1>7 DEF Has, p, q

-----------------------------------------------------------------------------
(***************************************************************************)
(* The pairs of rows that a join finds.                                    *)
(***************************************************************************)

\* A row and a row of the joined table whose keys have the same text.
AreLinked(row, join, target) ==
    LET left == ExistingSide(join)
        right == <<JoinedSide(join)[2]>>
    IN  Has(row, left) /\ Has(target, right) /\ LookupKey(target[right]) = LookupKey(row[left])
LinkedPlaces(rows, join, targets) ==
    {p \in (DOMAIN rows) \X (DOMAIN targets) : AreLinked(rows[p[1]], join, targets[p[2]])}
PairsFrom(D, a) == {p \in D : p[1] = a}
SecondsOf(D, B, a) == {b \in B : <<a, b>> \in D}
LinkedTo(row, join, targets) == {k \in DOMAIN targets : AreLinked(row, join, targets[k])}

\* What Max chooses.
LEMMA LargestIs ==
    ASSUME NEW n \in Nat, NEW P \in SUBSET (1..n), P # {}
    PROVE  Max(P) \in P /\ \A i \in P : i <= Max(P)
<1> DEFINE Q == {n - i : i \in P}
<1>0. \A i \in P : i \in Nat /\ n - i \in Nat
  OBVIOUS
<1>1. Q \in SUBSET Nat /\ Q # {}
  BY <1>0
<1> HIDE DEF Q
<1>2. PICK q \in Q : \A k \in Q : q <= k
  BY <1>1, SmallestExists
<1> USE DEF Q
<1>3. PICK i \in P : q = n - i
  OBVIOUS
<1>4. \A k \in P : i >= k
  <2> TAKE k \in P
  <2>1. n - k \in Q
    OBVIOUS
  <2>2. n - i <= n - k
    BY <1>2, <1>3, <2>1
  <2>3. i \in Int /\ k \in Int
    OBVIOUS
  <2> QED
    BY <2>2, <2>3
<1>5. Max(P) \in P /\ \A k \in P : Max(P) >= k
  BY <1>4 DEF Max
<1> QED
  BY <1>5

\* As many elements as the lists that are put together have.
LEMMA FlattenLength ==
    ASSUME NEW seqs, IsList(seqs), \A i \in DOMAIN seqs : IsList(seqs[i]),
           NEW D, IsFiniteSet(D), \A p \in D : p[1] \in DOMAIN seqs,
           \A i \in DOMAIN seqs : Len(seqs[i]) = Cardinality(PairsFrom(D, i))
    PROVE  Len(FlattenSeq(seqs)) = Cardinality(D)
<1>1. PICK n : n = Len(seqs) /\ n \in Nat /\ DOMAIN seqs = 1..n
  BY DEF IsList
<1>2. CASE n = 0
  <2>1. FlattenSeq(seqs) = seqs /\ DOMAIN seqs = {}
    BY <1>1, <1>2 DEF FlattenSeq
  <2>2. D = {}
    BY <2>1
  <2> QED
    BY <1>1, <1>2, <2>1, <2>2, FS_EmptySet
<1>3. CASE n # 0
  <2> DEFINE g == CHOOSE f : IsFlatten(f, seqs, n)
  <2>1. IsFlatten(g, seqs, n)
    BY <1>1, <1>3, FlattenExists
  <2>2. FlattenSeq(seqs) = g[n]
    BY <1>1, <1>3 DEF FlattenSeq, IsFlatten
  <2> HIDE DEF g
  <2>3. g = [i \in 1..n |-> IF i = 1 THEN seqs[i] ELSE g[i - 1] \o seqs[i]]
    BY <2>1 DEF IsFlatten
  <2> DEFINE First(m) == {p \in D : p[1] <= m}
             At(m) == {p \in D : p[1] = m}
             Good(m) == IsList(g[m]) /\ Len(g[m]) = Cardinality(First(m))
             S == {m \in 1..n : Good(m)}
  <2>0. \A p \in D : p[1] \in 1..n
    BY <1>1
  <2>00. \A m \in 1..n : IsList(seqs[m]) /\ Len(seqs[m]) = Cardinality(At(m))
    BY <1>1 DEF PairsFrom
  <2>000. \A m : IsFiniteSet(First(m)) /\ IsFiniteSet(At(m))
    BY FS_Subset
  <2>4. ASSUME NEW m \in 1..n, m > 1 => m - 1 \in S PROVE m \in S
    <3>1. CASE m = 1
      <4>1. g[1] = seqs[1] /\ IsList(seqs[1])
        BY <1>1, <2>3, <3>1
      <4>2. First(1) = At(1)
        BY <2>0
      <4> HIDE DEF First, At
      <4>3. Good(1)
        BY <1>1, <2>00, <3>1, <4>1, <4>2
      <4> QED
        BY <3>1, <4>3
    <3>2. CASE m # 1
      <4>1. PICK l : l = m - 1
        OBVIOUS
      <4>2. l \in 1..n /\ l + 1 = m /\ m > 1
        BY <1>1, <3>2, <4>1
      <4>3. Good(l)
        BY <2>4, <4>1, <4>2
      <4>4. g[m] = g[l] \o seqs[m] /\ IsList(seqs[m])
        BY <1>1, <2>3, <3>2, <4>1
      <4>5. \A p \in D : p[1] <= m <=> p[1] <= l \/ p[1] = m
        BY <1>1, <2>0, <4>2
      <4>6. \A p \in D : ~(p[1] <= l /\ p[1] = m)
        BY <1>1, <2>0, <4>2
      <4>7. First(m) = First(l) \cup At(m) /\ First(l) \cap At(m) = {}
        BY <4>5, <4>6
      <4> HIDE DEF First, At
      <4>8. Cardinality(First(m)) = Cardinality(First(l)) + Cardinality(At(m))
        <5>1. Cardinality(First(l)) \in Nat /\ Cardinality(At(m)) \in Nat
          BY <2>000, FS_CardinalityType
        <5>2. Cardinality(First(m)) = Cardinality(First(l)) + Cardinality(At(m)) - Cardinality({})
          BY <2>000, <4>7, FS_Union
        <5> QED
          BY <5>1, <5>2, FS_EmptySet
      <4>9. IsList(g[m]) /\ Len(g[m]) = Len(g[l]) + Len(seqs[m])
        <5>1. PICK u, v : u = g[l] /\ v = seqs[m]
          OBVIOUS
        <5>2. IsList(u) /\ IsList(v)
          BY <4>3, <4>4, <5>1
        <5>3. IsList(u \o v) /\ Len(u \o v) = Len(u) + Len(v)
          BY <5>2, ConcatIs
        <5> QED
          BY <4>4, <5>1, <5>3
      <4>10. Len(g[m]) = Cardinality(First(m))
        <5>1. Len(g[l]) = Cardinality(First(l)) /\ Len(seqs[m]) = Cardinality(At(m))
          BY <2>00, <4>3
        <5> QED
          BY <4>8, <4>9, <5>1
      <4>11. Good(m)
        BY <4>9, <4>10
      <4> QED
        BY <4>11
    <3> QED
      BY <3>1, <3>2
  <2> HIDE DEF S, Good
  <2>6. 1..n \subseteq S
    BY <1>1, <2>4, UpwardInduction
  <2>7. Good(n)
    BY <1>1, <1>3, <2>6 DEF S
  <2>8. First(n) = D
    BY <1>1, <2>0
  <2> HIDE DEF First
  <2> QED
    BY <2>2, <2>7, <2>8 DEF Good
<1> QED
  BY <1>2, <1>3

\* One part of a set of pairs has as many elements as its second components.
LEMMA SecondsCount ==
    ASSUME NEW A, NEW B, IsFiniteSet(B), NEW D \in SUBSET (A \X B), NEW a \in A
    PROVE  Cardinality(PairsFrom(D, a)) = Cardinality(SecondsOf(D, B, a))
<1> DEFINE X == {b \in B : <<a, b>> \in D}
           Y == {p \in D : p[1] = a}
           f == [b \in X |-> <<a, b>>]
<1>1. IsFiniteSet(X)
  BY FS_Subset
<1>2. f \in [X -> Y]
  OBVIOUS
<1>3. \A b, c \in X : f[b] = f[c] => b = c
  OBVIOUS
<1>4. \A p \in Y : \E b \in X : f[b] = p
  <2> TAKE p \in Y
  <2>1. p = <<a, p[2]>> /\ p[2] \in B
    OBVIOUS
  <2>2. p[2] \in X
    BY <2>1
  <2>3. f[p[2]] = p
    BY <2>1, <2>2
  <2> QED
    BY <2>2, <2>3
<1> HIDE DEF X, Y, f
<1>5. f \in Bijection(X, Y)
  BY <1>2, <1>3, <1>4 DEF Bijection, Injection, Surjection, IsInjective
<1>6. ExistsBijection(X, Y)
  BY <1>5 DEF ExistsBijection
<1> QED
  BY <1>1, <1>6, FS_Bijection DEF X, Y, PairsFrom, SecondsOf

\* Each linked pair gives one row, in which the second is nested.
LEMMA JoinedRows ==
    ASSUME NEW rows, IsList(rows), NEW join, NEW targets, IsList(targets)
    PROVE  /\ Range(JoinRows(rows, join, targets))
                  = {Nest(rows[p[1]], join.alias, targets[p[2]]) :
                        p \in LinkedPlaces(rows, join, targets)}
           /\ Len(JoinRows(rows, join, targets)) = Cardinality(LinkedPlaces(rows, join, targets))
<1> DEFINE left == ExistingSide(join)
           column == JoinedSide(join)[2]
           matches(row) == IF Has(row, left)
                           THEN MatchingRows(targets, column, LookupKey(row[left]))
                           ELSE <<>>
           extended(row) == [i \in DOMAIN matches(row) |-> Nest(row, join.alias, matches(row)[i])]
           seqs == [i \in DOMAIN rows |-> extended(rows[i])]
           linked(row) == LinkedTo(row, join, targets)
           D == LinkedPlaces(rows, join, targets)
<1>1. JoinRows(rows, join, targets) = FlattenSeq(seqs)
  BY DEF JoinRows
<1>2. ASSUME NEW row
      PROVE  /\ IsList(matches(row)) /\ Len(matches(row)) = Cardinality(linked(row))
             /\ Range(matches(row)) = {targets[k] : k \in linked(row)}
  <2>1. CASE Has(row, left)
    <3>1. {k \in DOMAIN targets : Has(targets[k], <<column>>)
                /\ LookupKey(targets[k][<<column>>]) = LookupKey(row[left])} = linked(row)
      BY <2>1 DEF LinkedTo, AreLinked
    <3>2. matches(row) = RowsAt(targets, linked(row))
      BY <2>1, <3>1 DEF MatchingRows
    <3>3. linked(row) \in SUBSET DOMAIN targets
      BY DEF LinkedTo
    <3> HIDE DEF linked, matches
    <3> QED
      BY <3>2, <3>3, RowsAtIsList
  <2>2. CASE ~Has(row, left)
    <3>1. linked(row) = {} /\ matches(row) = <<>>
      BY <2>2 DEF LinkedTo, AreLinked
    <3>2. IsList(<<>>) /\ Len(<<>>) = 0 /\ Range(<<>>) = {}
      BY DEF IsList, IsFunction, Range
    <3> HIDE DEF linked, matches
    <3> QED
      BY <3>1, <3>2, FS_EmptySet
  <2> QED
    BY <2>1, <2>2
<1> HIDE DEF matches
<1>3. ASSUME NEW row
      PROVE  /\ IsList(extended(row)) /\ Len(extended(row)) = Cardinality(linked(row))
             /\ Range(extended(row)) = {Nest(row, join.alias, targets[k]) : k \in linked(row)}
  <2>1. PICK n : n \in Nat /\ n = Len(matches(row)) /\ DOMAIN matches(row) = 1..n
    BY <1>2 DEF IsList
  <2>2. PICK e : e = extended(row)
    OBVIOUS
  <2>3. e = [i \in 1..n |-> Nest(row, join.alias, matches(row)[i])]
    BY <2>1, <2>2
  <2>4. DOMAIN e = 1..n /\ Len(e) = n /\ IsFunction(e)
    BY <2>1, <2>3 DEF IsFunction
  <2>5. Range(e) = {Nest(row, join.alias, x) : x \in Range(matches(row))}
    BY <2>1, <2>3 DEF Range
  <2> HIDE DEF linked
  <2>6. Range(e) = {Nest(row, join.alias, targets[k]) : k \in linked(row)}
    BY <1>2, <2>5
  <2> QED
    BY <1>2, <2>1, <2>2, <2>4, <2>6 DEF IsList
<1> HIDE DEF extended
<1>4. PICK n : n \in Nat /\ n = Len(rows) /\ DOMAIN rows = 1..n
  BY DEF IsList
<1>5. seqs = [i \in 1..n |-> extended(rows[i])]
  BY <1>4
<1>6. DOMAIN seqs = 1..n /\ Len(seqs) = n /\ IsFunction(seqs)
  BY <1>4, <1>5 DEF IsFunction
<1>7. IsList(seqs) /\ \A i \in DOMAIN seqs : IsList(seqs[i])
  BY <1>3, <1>4, <1>5, <1>6 DEF IsList
<1>8. /\ D \in SUBSET ((DOMAIN rows) \X (DOMAIN targets))
      /\ \A i \in DOMAIN rows, k \in DOMAIN targets : <<i, k>> \in D <=> k \in linked(rows[i])
  BY DEF LinkedPlaces, LinkedTo
<1>9. \A i \in DOMAIN rows : linked(rows[i]) \subseteq DOMAIN targets
  BY DEF LinkedTo
<1> HIDE DEF seqs, D, linked
<1>10. /\ IsList(FlattenSeq(seqs))
       /\ Range(FlattenSeq(seqs)) = UNION {Range(seqs[i]) : i \in DOMAIN seqs}
  BY <1>7, FlattenIs
<1>11. \A i \in DOMAIN rows :
           Range(seqs[i]) = {Nest(rows[i], join.alias, targets[k]) : k \in linked(rows[i])}
  BY <1>3, <1>4, <1>5
<1>12. Range(FlattenSeq(seqs)) = {Nest(rows[p[1]], join.alias, targets[p[2]]) : p \in D}
  <2> DEFINE made(p) == Nest(rows[p[1]], join.alias, targets[p[2]])
  <2>1. ASSUME NEW x \in Range(FlattenSeq(seqs)) PROVE x \in {made(p) : p \in D}
    <3>1. PICK i \in DOMAIN rows : x \in Range(seqs[i])
      BY <1>4, <1>6, <1>10, <2>1
    <3>2. PICK k \in linked(rows[i]) : x = Nest(rows[i], join.alias, targets[k])
      BY <1>11, <3>1
    <3>3. <<i, k>> \in D
      BY <1>8, <1>9, <3>2
    <3>4. x = made(<<i, k>>)
      BY <3>2
    <3> QED
      BY <3>3, <3>4
  <2>2. ASSUME NEW p \in D PROVE made(p) \in Range(FlattenSeq(seqs))
    <3>1. PICK i \in DOMAIN rows, k \in DOMAIN targets : p = <<i, k>>
      BY <1>8
    <3>2. k \in linked(rows[i])
      BY <1>8, <3>1
    <3>3. made(p) = Nest(rows[i], join.alias, targets[k])
      BY <3>1
    <3>4. made(p) \in Range(seqs[i])
      BY <1>11, <3>2, <3>3
    <3> HIDE DEF made
    <3> QED
      BY <1>4, <1>6, <1>10, <3>4
  <2> QED
    BY <2>1, <2>2
<1>13. Len(FlattenSeq(seqs)) = Cardinality(D)
  <2>1. IsFiniteSet(DOMAIN rows) /\ IsFiniteSet(DOMAIN targets)
    <3>1. \A m \in Nat : IsFiniteSet(1..m)
      BY FS_Interval
    <3> QED
      BY <3>1 DEF IsList
  <2>2. IsFiniteSet(D)
    <3>1. IsFiniteSet((DOMAIN rows) \X (DOMAIN targets))
      BY <2>1, FS_Product
    <3> QED
      BY <1>8, <3>1, FS_Subset
  <2>3. \A p \in D : p[1] \in DOMAIN seqs
    BY <1>4, <1>6, <1>8
  <2>4. \A i \in DOMAIN seqs : Len(seqs[i]) = Cardinality(PairsFrom(D, i))
    <3> TAKE i \in DOMAIN seqs
    <3>1. i \in DOMAIN rows /\ seqs[i] = extended(rows[i])
      BY <1>4, <1>5, <1>6
    <3>2. PICK A, B : A = DOMAIN rows /\ B = DOMAIN targets
      OBVIOUS
    <3>3. Cardinality(PairsFrom(D, i)) = Cardinality(SecondsOf(D, B, i))
      <4>1. IsFiniteSet(B) /\ D \in SUBSET (A \X B) /\ i \in A
        BY <1>8, <2>1, <3>1, <3>2
      <4> QED
        BY <4>1, SecondsCount
    <3>4. SecondsOf(D, B, i) = linked(rows[i])
      BY <1>8, <1>9, <3>1, <3>2 DEF SecondsOf
    <3>5. Len(seqs[i]) = Cardinality(linked(rows[i]))
      BY <1>3, <3>1
    <3> QED
      BY <3>3, <3>4, <3>5
  <2> QED
    BY <1>7, <2>2, <2>3, <2>4, FlattenLength
<1> QED
  BY <1>1, <1>12, <1>13 DEF D

-----------------------------------------------------------------------------
(***************************************************************************)
(* Which rows a materialized row is made of.                               *)
(***************************************************************************)

\* A base row has the row under the name of its resource and its alias.
LEMMA BaseRowUnder ==
    ASSUME NEW row, IsPrintedRow(row), NEW resource, NEW alias, NEW name \in {resource, alias}
    PROVE  Under(BaseRow(resource, alias, row), name) = row
<1>1. PICK root : root = Nest(row, resource, row)
  OBVIOUS
<1>2. IsPrintedRow(root) /\ Under(root, resource) = row
  BY <1>1, NestIs, UnderNested
<1>3. /\ Under(Nest(root, alias, row), alias) = row
      /\ resource # alias => Under(Nest(root, alias, row), resource) = Under(root, resource)
  BY <1>2, UnderNested
<1>4. BaseRow(resource, alias, row) = IF alias = resource THEN root ELSE Nest(root, alias, row)
  BY <1>1 DEF BaseRow
<1> QED
  BY <1>2, <1>3, <1>4

\* What is joined holds the rows that it joins, and nothing else.
LEMMA JoinedHold ==
    ASSUME NEW rows, IsPrintedList(rows), NEW join, NEW targets, IsPrintedList(targets)
    PROVE  /\ IsPrintedList(JoinRows(rows, join, targets))
           /\ \A r \in Range(JoinRows(rows, join, targets)) :
                  \E row \in Range(rows), target \in Range(targets) :
                      /\ AreLinked(row, join, target)
                      /\ Under(r, join.alias) = target
                      /\ \A other : other # join.alias => Under(r, other) = Under(row, other)
           /\ \A row \in Range(rows), target \in Range(targets) :
                  AreLinked(row, join, target) =>
                      \E r \in Range(JoinRows(rows, join, targets)) :
                          /\ Under(r, join.alias) = target
                          /\ \A other : other # join.alias => Under(r, other) = Under(row, other)
<1> DEFINE joined == JoinRows(rows, join, targets)
           D == LinkedPlaces(rows, join, targets)
<1>1. /\ IsList(rows) /\ IsList(targets)
      /\ \A row \in Range(rows) : IsPrintedRow(row)
      /\ \A target \in Range(targets) : IsPrintedRow(target)
  BY DEF IsPrintedList
<1>2. IsList(joined) /\ Range(joined) = {Nest(rows[p[1]], join.alias, targets[p[2]]) : p \in D}
  BY <1>1, JoinedIsList, JoinedRows
<1>3. ASSUME NEW row \in Range(rows), NEW target \in Range(targets)
      PROVE  /\ IsPrintedRow(Nest(row, join.alias, target))
             /\ Under(Nest(row, join.alias, target), join.alias) = target
             /\ \A other : other # join.alias =>
                    Under(Nest(row, join.alias, target), other) = Under(row, other)
  BY <1>1, NestIs, UnderNested
<1>4. ASSUME NEW r \in Range(joined)
      PROVE  \E row \in Range(rows), target \in Range(targets) :
                 AreLinked(row, join, target) /\ r = Nest(row, join.alias, target)
  <2>1. PICK p \in D : r = Nest(rows[p[1]], join.alias, targets[p[2]])
    BY <1>2
  <2>2. p[1] \in DOMAIN rows /\ p[2] \in DOMAIN targets /\ AreLinked(rows[p[1]], join, targets[p[2]])
    BY DEF LinkedPlaces
  <2> QED
    BY <2>1, <2>2 DEF Range
<1>5. ASSUME NEW row \in Range(rows), NEW target \in Range(targets), AreLinked(row, join, target)
      PROVE  Nest(row, join.alias, target) \in Range(joined)
  <2>1. PICK i \in DOMAIN rows, k \in DOMAIN targets : row = rows[i] /\ target = targets[k]
    BY DEF Range
  <2>2. <<i, k>> \in D
    BY <1>5, <2>1 DEF LinkedPlaces
  <2>3. Nest(rows[<<i, k>>[1]], join.alias, targets[<<i, k>>[2]]) \in Range(joined)
    <3> HIDE DEF D, joined
    <3> QED
      BY <1>2, <2>2
  <2> QED
    BY <2>1, <2>3
<1> HIDE DEF joined, D
<1>6. IsPrintedList(joined)
  BY <1>2, <1>3, <1>4 DEF IsPrintedList
<1>7. \A r \in Range(joined) :
          \E row \in Range(rows), target \in Range(targets) :
              /\ AreLinked(row, join, target)
              /\ Under(r, join.alias) = target
              /\ \A other : other # join.alias => Under(r, other) = Under(row, other)
  BY <1>3, <1>4
<1>8. \A row \in Range(rows), target \in Range(targets) :
          AreLinked(row, join, target) =>
              \E r \in Range(joined) :
                  /\ Under(r, join.alias) = target
                  /\ \A other : other # join.alias => Under(r, other) = Under(row, other)
  BY <1>3, <1>5
<1> QED
  BY <1>6, <1>7, <1>8 DEF joined

\* Base rows have the rows of the table under both names.
LEMMA BaseRowsHold ==
    ASSUME NEW tabs, NEW q, IsPrintedList(tabs[q.table])
    PROVE  /\ IsPrintedList(BaseRows(tabs, q)) /\ DOMAIN BaseRows(tabs, q) = DOMAIN tabs[q.table]
           /\ \A i \in DOMAIN tabs[q.table] : \A name \in {q.table, q.alias} :
                  Under(BaseRows(tabs, q)[i], name) = tabs[q.table][i]
<1>1. PICK rows : rows = tabs[q.table]
  OBVIOUS
<1>2. IsList(rows) /\ \A i \in DOMAIN rows : IsPrintedRow(rows[i])
  BY <1>1 DEF IsPrintedList, Range
<1>3. PICK n : n \in Nat /\ DOMAIN rows = 1..n
  BY <1>2 DEF IsList
<1>4. PICK e : e = BaseRows(tabs, q)
  OBVIOUS
<1>5. e = [i \in 1..n |-> BaseRow(q.table, q.alias, rows[i])]
  BY <1>1, <1>3, <1>4 DEF BaseRows
<1>6. DOMAIN e = 1..n /\ Len(e) = n /\ IsFunction(e)
  BY <1>3, <1>5 DEF IsFunction
<1>7. \A i \in 1..n : IsPrintedRow(e[i])
  BY <1>2, <1>3, <1>5, BaseRowIs
<1>8. \A i \in 1..n : \A name \in {q.table, q.alias} : Under(e[i], name) = rows[i]
  BY <1>2, <1>3, <1>5, BaseRowUnder
<1>9. IsPrintedList(e)
  BY <1>3, <1>6, <1>7 DEF IsPrintedList, IsList, Range
<1> QED
  BY <1>1, <1>3, <1>4, <1>6, <1>8, <1>9

\* Under the name of a table there is a row of the table that was joined last
\* under this name, or else of the first one.
LEMMA NamesLead ==
    ASSUME NEW tabs, NEW q, IsList(q.joins), IsPrintedList(tabs[q.table]),
           \A join \in Range(q.joins) : IsPrintedList(tabs[join.resource]),
           NEW name, NEW m \in 0..Len(q.joins),
           \A i \in DOMAIN q.joins : q.joins[i].alias = name <=> i = m,
           m = 0 => name \in {q.table, q.alias}
    PROVE  \A row \in Range(Materialize(tabs, q)) :
               Under(row, name) \in Range(tabs[IF m = 0 THEN q.table ELSE q.joins[m].resource])
<1>1. PICK n : n = Len(q.joins) /\ n \in Nat /\ DOMAIN q.joins = 1..n
  BY DEF IsList
<1>2. PICK g : AreSteps(g, tabs, q, n)
  BY <1>1, MaterializedSteps
<1>3. PICK T : T = Range(tabs[IF m = 0 THEN q.table ELSE q.joins[m].resource])
  OBVIOUS
<1> DEFINE Good(i) == /\ IsPrintedList(g[i])
                      /\ m <= i => \A row \in Range(g[i]) : Under(row, name) \in T
           S == {i \in 0..n : Good(i)}
<1>4. m \in 0..n
  BY <1>1
<1>5. ASSUME NEW i \in 0..n, i > 0 => i - 1 \in S PROVE i \in S
  <2>1. CASE i = 0
    <3>1. /\ IsPrintedList(BaseRows(tabs, q)) /\ DOMAIN BaseRows(tabs, q) = DOMAIN tabs[q.table]
          /\ \A k \in DOMAIN tabs[q.table] : \A nm \in {q.table, q.alias} :
                 Under(BaseRows(tabs, q)[k], nm) = tabs[q.table][k]
      BY BaseRowsHold
    <3>2. m <= 0 => m = 0
      BY <1>4
    <3>3. m = 0 => \A row \in Range(BaseRows(tabs, q)) : Under(row, name) \in T
      BY <1>3, <3>1 DEF Range
    <3> QED
      BY <1>2, <2>1, <3>1, <3>2, <3>3 DEF AreSteps
  <2>2. CASE i # 0
    <3>1. PICK l, join : l = i - 1 /\ join = q.joins[i]
      OBVIOUS
    <3>2. l \in 0..n /\ i \in 1..n /\ i > 0 /\ (m <= i => m <= l \/ m = i)
      BY <1>1, <1>4, <2>2, <3>1
    <3>3. Good(l)
      BY <1>5, <3>1, <3>2
    <3>4. PICK targets : targets = tabs[join.resource]
      OBVIOUS
    <3>5. g[i] = JoinRows(g[l], join, targets)
      BY <1>2, <3>1, <3>2, <3>4 DEF JoinStep, AreSteps
    <3>6. IsPrintedList(targets) /\ (join.alias = name <=> i = m)
      BY <1>1, <3>1, <3>2, <3>4 DEF Range
    <3>7. /\ IsPrintedList(g[i])
          /\ \A r \in Range(g[i]) :
                 \E row \in Range(g[l]), target \in Range(targets) :
                     /\ AreLinked(row, join, target)
                     /\ Under(r, join.alias) = target
                     /\ \A other : other # join.alias => Under(r, other) = Under(row, other)
      <4>1. PICK rows : rows = g[l]
        OBVIOUS
      <4>2. IsPrintedList(rows)
        BY <3>3, <4>1
      <4> QED
        BY <3>5, <3>6, <4>1, <4>2, JoinedHold
    <3>8. ASSUME NEW r \in Range(g[i]), m <= i PROVE Under(r, name) \in T
      <4>1. PICK row \in Range(g[l]), target \in Range(targets) :
                     /\ Under(r, join.alias) = target
                     /\ \A other : other # join.alias => Under(r, other) = Under(row, other)
        BY <3>7
      <4>2. CASE i = m
        <5>1. Range(targets) = T
          BY <1>3, <2>2, <3>1, <3>4, <4>2
        <5> QED
          BY <3>6, <4>1, <4>2, <5>1
      <4>3. CASE i # m
        <5>1. m <= l
          BY <3>2, <3>8, <4>3
        <5>2. Under(row, name) \in T
          BY <3>3, <4>1, <5>1
        <5> QED
          BY <3>6, <4>1, <4>3, <5>2
      <4> QED
        BY <4>2, <4>3
    <3>9. Good(i)
      BY <3>7, <3>8
    <3> QED
      BY <3>9
  <2> QED
    BY <2>1, <2>2
<1> HIDE DEF S, Good
<1>6. 0..n \subseteq S
  BY <1>1, <1>5, UpwardInduction
<1>7. Good(n)
  <2>1. n \in 0..n
    BY <1>1
  <2> QED
    BY <1>6, <2>1 DEF S
<1>8. \A row \in Range(g[n]) : Under(row, name) \in T
  BY <1>1, <1>4, <1>7 DEF Good
<1> QED
  BY <1>2, <1>3, <1>8 DEF AreSteps

\* Validation takes a name for the same table.
LEMMA TargetIs ==
    ASSUME NEW q, IsList(q.joins), NEW name, NEW m \in 0..Len(q.joins),
           \A i \in DOMAIN q.joins : q.joins[i].alias = name <=> i = m,
           m = 0 => name \in {q.table, q.alias},
           \A join \in Range(q.joins) : join.resource = name => join.alias = name
    PROVE  TargetOf(q, <<name, "id">>) = IF m = 0 THEN q.table ELSE q.joins[m].resource
<1> DEFINE path == <<name, "id">>
           I == {i \in 1..Len(q.joins) : path[1] \in {q.joins[i].alias, q.joins[i].resource}}
           last == SelectLastInSeq(q.joins, LAMBDA join : path[1] \in {join.alias, join.resource})
<1>1. PICK n : n = Len(q.joins) /\ n \in Nat /\ DOMAIN q.joins = 1..n
  BY DEF IsList
<1>2. last = IF I # {} THEN Max(I) ELSE 0
  BY DEF SelectLastInSeq
<1>3. path[1] = name /\ Len(path) = 2
  OBVIOUS
<1>4. \A i \in 1..n : q.joins[i].resource = name => q.joins[i].alias = name
  BY <1>1 DEF Range
<1>5. I = {i \in 1..n : i = m}
  BY <1>1, <1>3, <1>4
<1>6. TargetOf(q, path) = IF Len(path) = 1 THEN q.table
                          ELSE IF last # 0 THEN q.joins[last].resource
                          ELSE IF path[1] \in {q.alias, q.table} THEN q.table ELSE NoType
  BY DEF TargetOf
<1> HIDE DEF last, I, path
<1>7. last = m
  <2>1. CASE m = 0
    <3>1. I = {}
      BY <1>1, <1>5, <2>1
    <3> QED
      BY <1>2, <2>1, <3>1
  <2>2. CASE m # 0
    <3>1. I \in SUBSET (1..n) /\ m \in I /\ \A i \in I : i = m
      BY <1>1, <1>5, <2>2
    <3>2. Max(I) \in I
      BY <1>1, <3>1, LargestIs
    <3> QED
      BY <1>2, <3>1, <3>2
  <2> QED
    BY <2>1, <2>2
<1>8. TargetOf(q, path) = IF m = 0 THEN q.table ELSE q.joins[m].resource
  BY <1>3, <1>6, <1>7
<1> QED
  BY <1>8 DEF path

\* A name that validation takes for a table leads to a row of that table
\* (resolve_sql_field_target, build_base_sql_row, parse_sql_joins).
THEOREM NamesResolve == Spec => []FieldsResolve
<1>1. TablesOK => FieldsResolve
  <2> SUFFICES ASSUME TablesOK, AreValidJoins(query),
                      NEW name \in {query.table, query.alias}
                                       \cup {join.alias : join \in Range(query.joins)},
                      \A join \in Range(query.joins) : join.resource = name => join.alias = name
               PROVE  \A row \in Range(Materialize(tables, query)) :
                          Under(row, name) \in Range(tables[TargetOf(query, <<name, "id">>)])
    BY DEF FieldsResolve
  <2>1. IsList(query.joins)
    BY RequestsAssumption DEF TablesOK
  <2>2. PICK n : n = Len(query.joins) /\ n \in Nat /\ DOMAIN query.joins = 1..n
    BY <2>1 DEF IsList
  <2>3. /\ IsPrintedList(tables[query.table])
        /\ \A join \in Range(query.joins) : IsPrintedList(tables[join.resource])
    BY PrintedIsTable DEF TablesOK
  <2>4. \A i \in 1..n : \A k \in 1..i - 1 : query.joins[i].alias # query.joins[k].alias
    BY <2>2 DEF AreValidJoins
  <2>5. \A i, k \in 1..n : query.joins[i].alias = query.joins[k].alias => i = k
    <3> TAKE i, k \in 1..n
    <3>1. i < k => i \in 1..k - 1
      BY <2>2
    <3>2. k < i => k \in 1..i - 1
      BY <2>2
    <3>3. i = k \/ i < k \/ k < i
      BY <2>2
    <3> QED
      BY <2>4, <3>1, <3>2, <3>3
  <2>6. \E m \in 0..n : /\ \A i \in 1..n : query.joins[i].alias = name <=> i = m
                        /\ m = 0 => name \in {query.table, query.alias}
    <3>1. CASE \E m \in 1..n : query.joins[m].alias = name
      <4>1. PICK m \in 1..n : query.joins[m].alias = name
        BY <3>1
      <4>2. m \in 0..n /\ m # 0
        BY <2>2
      <4> QED
        BY <2>5, <4>1, <4>2
    <3>2. CASE \A m \in 1..n : query.joins[m].alias # name
      <4>1. name \in {query.table, query.alias}
        BY <2>2, <3>2 DEF Range
      <4>2. 0 \in 0..n /\ \A i \in 1..n : i # 0
        BY <2>2
      <4> QED
        BY <3>2, <4>1, <4>2
    <3> QED
      BY <3>1, <3>2
  <2>7. PICK m \in 0..n : /\ \A i \in 1..n : query.joins[i].alias = name <=> i = m
                          /\ m = 0 => name \in {query.table, query.alias}
    BY <2>6
  <2>8. /\ m \in 0..Len(query.joins)
        /\ \A i \in DOMAIN query.joins : query.joins[i].alias = name <=> i = m
    BY <2>2, <2>7
  <2>9. TargetOf(query, <<name, "id">>)
            = IF m = 0 THEN query.table ELSE query.joins[m].resource
    BY <2>1, <2>7, <2>8, TargetIs
  <2>10. \A row \in Range(Materialize(tables, query)) :
             Under(row, name)
                 \in Range(tables[IF m = 0 THEN query.table ELSE query.joins[m].resource])
    BY <2>1, <2>3, <2>7, <2>8, NamesLead
  <2> QED
    BY <2>9, <2>10
<1> QED
  BY <1>1, TablesInvariance, PTL

-----------------------------------------------------------------------------
(***************************************************************************)
(* Embedding, GraphQL relations and joins look keys up alike.              *)
(***************************************************************************)

KeysMeet(row, column, target, key) ==
    /\ Has(row, <<column>>) /\ Has(target, <<key>>)
    /\ LookupKey(target[<<key>>]) = LookupKey(row[<<column>>])

\* A link compares the key below the name of the left table.
LEMMA LinkedIs ==
    ASSUME NEW row, IsPrintedRow(row), NEW join, NEW name, NEW column, NEW key,
           ExistingSide(join) = <<name, column>>, JoinedSide(join)[2] = key, NEW target
    PROVE  AreLinked(row, join, target) <=> KeysMeet(Under(row, name), column, target, key)
<1>1. /\ Has(row, <<name, column>>) <=> Has(Under(row, name), <<column>>)
      /\ Has(row, <<name, column>>) => row[<<name, column>>] = Under(row, name)[<<column>>]
  BY QualifiedIs
<1> QED
  BY <1>1 DEF AreLinked, KeysMeet

\* Scalars are neither null nor nested.
LEMMA ScalarIs ==
    ASSUME NEW v, IsValue(v)
    PROVE  IsScalar(v) <=> v.kind \notin {"null", "json"}
  BY DEF IsScalar, IsValue, Kind

\* The first element, if there is one.
LEMMA FirstOfList ==
    ASSUME NEW s, IsList(s)
    PROVE  s # <<>> => s[1] \in Range(s)
<1>1. PICK n : n \in Nat /\ n = Len(s) /\ DOMAIN s = 1..n
  BY DEF IsList
<1>2. n = 0 => s = <<>>
  BY <1>1
<1> QED
  BY <1>1, <1>2 DEF Range

\* A joined row holds what embedding finds.
LEMMA EmbeddedIsJoined ==
    ASSUME TablesOK, NEW t \in DOMAIN tables, NEW c \in DOMAIN References[t], NEW fk,
           fk = References[t][c], fk.table # t,
           KeysUnique(fk.table, fk.column), KeysTell(t, c, fk),
           NEW row \in Range(tables[t]), NEW join,
           join = [resource |-> fk.table, alias |-> fk.table,
                   on |-> <<<<t, c>>, <<fk.table, fk.column>>>>],
           NEW joined, joined = JoinRows(<<BaseRow(t, t, row)>>, join, tables[fk.table])
    PROVE  EmbeddedRow(tables, row, c, fk)
               = IF joined = <<>> THEN NoRow ELSE Under(joined[1], fk.table)
<1> DEFINE column == <<c>>
           keyPath == <<fk.column>>
           key == Field(row, column)
<1>1. PICK T : T = tables[fk.table]
  OBVIOUS
<1>2. IsPrintedList(T) /\ IsPrintedList(tables[t])
  BY <1>1, PrintedIsTable DEF TablesOK
<1>3. PICK n : n \in Nat /\ Len(T) = n /\ DOMAIN T = 1..n
  BY <1>2 DEF IsPrintedList, IsList
<1>4. IsPrintedRow(row)
  BY <1>2 DEF IsPrintedList
<1>5. PICK b : b = BaseRow(t, t, row)
  OBVIOUS
<1>6. IsPrintedRow(b) /\ Under(b, t) = row
  BY <1>4, <1>5, BaseRowIs, BaseRowUnder
<1>7. PICK one : one = <<b>>
  OBVIOUS
<1>8. IsPrintedList(one) /\ Range(one) = {b}
  BY <1>6, <1>7 DEF IsPrintedList, IsList, IsFunction, Range
<1>9. join.alias = fk.table /\ ExistingSide(join) = <<t, c>> /\ JoinedSide(join)[2] = fk.column
  BY DEF ExistingSide, JoinedSide
<1>10. \A target : AreLinked(b, join, target) <=> KeysMeet(row, c, target, fk.column)
  BY <1>6, <1>9, LinkedIs
<1>11. joined = JoinRows(one, join, T)
  BY <1>1, <1>5, <1>7
<1>12. /\ IsPrintedList(joined)
       /\ \A r \in Range(joined) :
              \E x \in Range(one), target \in Range(T) :
                  /\ AreLinked(x, join, target)
                  /\ Under(r, join.alias) = target
       /\ \A x \in Range(one), target \in Range(T) :
              AreLinked(x, join, target) => \E r \in Range(joined) : Under(r, join.alias) = target
  BY <1>2, <1>8, <1>11, JoinedHold
<1> DEFINE P == {i \in 1..Len(T) : Has(T[i], keyPath) /\ LookupKey(T[i][keyPath]) = LookupKey(key)}
           hit == SelectLastInSeq(T, LAMBDA target :
                      Has(target, keyPath) /\ LookupKey(target[keyPath]) = LookupKey(key))
<1>13. hit = IF P # {} THEN Max(P) ELSE 0
  BY DEF SelectLastInSeq
<1>14. EmbeddedRow(tables, row, c, fk)
           = IF key.kind \in {"null", "json"} \/ hit = 0 THEN NoRow ELSE T[hit]
  BY <1>1 DEF EmbeddedRow
<1> HIDE DEF hit
<1>15. P \in SUBSET (1..n) /\ (P # {} => Max(P) \in P)
  <2>1. P \in SUBSET (1..n)
    BY <1>3
  <2> HIDE DEF P
  <2> QED
    BY <1>3, <2>1, LargestIs
<1>16. CASE joined # <<>>
  <2>1. joined[1] \in Range(joined)
    BY <1>12, <1>16, FirstOfList DEF IsPrintedList
  <2>2. PICK target \in Range(T) : AreLinked(b, join, target) /\ Under(joined[1], fk.table) = target
    <3>1. PICK r : r = joined[1]
      OBVIOUS
    <3>2. PICK x \in Range(one), target \in Range(T) :
              AreLinked(x, join, target) /\ Under(r, join.alias) = target
      <4>1. r \in Range(joined)
        BY <2>1, <3>1
      <4> QED
        BY <1>12, <4>1, Zenon
    <3>3. x = b
      BY <1>8, <3>2
    <3> QED
      BY <1>9, <3>1, <3>2, <3>3
  <2>3. KeysMeet(row, c, target, fk.column)
    BY <1>10, <2>2
  <2>4. PICK i \in 1..n : target = T[i]
    BY <1>3 DEF Range
  <2>5. key = row[column] /\ Field(target, keyPath) = target[keyPath]
        /\ LookupKey(target[keyPath]) = LookupKey(key) /\ Has(target, keyPath)
    BY <2>3 DEF KeysMeet, Field
  <2>6. key.kind \notin {"null", "json"}
    BY <1>1, <2>2, <2>5 DEF KeysTell
  <2>7. i \in P
    BY <1>3, <2>4, <2>5
  <2>8. hit = Max(P) /\ hit \in P
    BY <1>13, <1>15, <2>7
  <2>9. hit = i
    <3>1. hit \in DOMAIN T /\ i \in DOMAIN T
      BY <1>3, <1>15, <2>4, <2>8
    <3>2. Field(T[hit], keyPath) = T[hit][keyPath] /\ LookupKey(T[hit][keyPath]) = LookupKey(key)
      BY <2>8 DEF Field
    <3>3. LookupKey(Field(T[hit], keyPath)) = LookupKey(Field(T[i], keyPath))
      BY <2>4, <2>5, <3>2
    <3> HIDE DEF P
    <3> QED
      BY <1>1, <3>1, <3>3 DEF KeysUnique
  <2>10. hit # 0
    BY <1>3, <2>4, <2>9
  <2> HIDE DEF P
  <2> QED
    BY <1>14, <1>16, <2>2, <2>4, <2>6, <2>9, <2>10
<1>17. CASE joined = <<>>
  <2>1. Range(joined) = {}
    BY <1>17 DEF Range
  <2>2. \A target \in Range(T) : ~KeysMeet(row, c, target, fk.column)
    BY <1>8, <1>10, <1>12, <2>1
  <2>3. Has(row, column) => P = {}
    <3> SUFFICES ASSUME Has(row, column), NEW i \in P PROVE FALSE
      OBVIOUS
    <3>1. T[i] \in Range(T)
      BY <1>3 DEF Range
    <3>2. KeysMeet(row, c, T[i], fk.column)
      BY DEF KeysMeet, Field
    <3> QED
      BY <2>2, <3>1, <3>2
  <2>4. ~Has(row, column) => key.kind = "null"
    BY DEF Field, Null, Json
  <2> HIDE DEF P
  <2> QED
    BY <1>13, <1>14, <1>17, <2>3, <2>4
<1> QED
  BY <1>16, <1>17

\* The two joins of a relation.
AreTogether(rows, n0, a, n2, b) == \E r \in Range(rows) : Under(r, n0) = a /\ Under(r, n2) = b
MeetAcross(a, k0, L, k1, l1, b, k2) ==
    \E l \in Range(L) : KeysMeet(a, k0, l, k1) /\ KeysMeet(l, l1, b, k2)

\* A junction row that meets both ends puts these together.
LEMMA TwoJoins ==
    ASSUME NEW tabs, NEW q, NEW j1, NEW j2, q.joins = <<j1, j2>>,
           NEW A, A = tabs[q.table], IsPrintedList(A),
           NEW L, L = tabs[j1.resource], IsPrintedList(L),
           NEW B, B = tabs[j2.resource], IsPrintedList(B),
           NEW n0, n0 \in {q.table, q.alias}, NEW n1, n1 = j1.alias, NEW n2, n2 = j2.alias,
           n0 # n1, n0 # n2, n1 # n2,
           NEW k0, NEW k1, NEW l1, NEW k2,
           ExistingSide(j1) = <<n0, k0>>, JoinedSide(j1)[2] = k1,
           ExistingSide(j2) = <<n1, l1>>, JoinedSide(j2)[2] = k2,
           NEW a \in Range(A), NEW b
    PROVE  AreTogether(Materialize(tabs, q), n0, a, n2, b)
               <=> b \in Range(B) /\ MeetAcross(a, k0, L, k1, l1, b, k2)
<1>1. PICK g : AreSteps(g, tabs, q, 2)
  <2>1. Len(q.joins) = 2 /\ 2 \in Nat
    OBVIOUS
  <2> QED
    BY <2>1, MaterializedSteps
<1>2. PICK g0, g1, g2 : g0 = g[0] /\ g1 = g[1] /\ g2 = g[2]
  OBVIOUS
<1>3. /\ Materialize(tabs, q) = g2 /\ g0 = BaseRows(tabs, q)
      /\ g1 = JoinRows(g0, j1, L) /\ g2 = JoinRows(g1, j2, B)
  <2>1. 1 \in 1..2 /\ 2 \in 1..2 /\ 1 - 1 = 0 /\ 2 - 1 = 1
    OBVIOUS
  <2>2. g[1] = JoinStep(g[1 - 1], tabs, q, 1) /\ g[2] = JoinStep(g[2 - 1], tabs, q, 2)
    BY <1>1, <2>1 DEF AreSteps
  <2>3. q.joins[1] = j1 /\ q.joins[2] = j2
    OBVIOUS
  <2> QED
    BY <1>1, <1>2, <2>1, <2>2, <2>3 DEF AreSteps, JoinStep
<1>4. /\ IsPrintedList(g0)
      /\ \A x \in Range(g0) : Under(x, n0) \in Range(A)
      /\ \A y \in Range(A) : \E x \in Range(g0) : Under(x, n0) = y
  <2>1. /\ IsPrintedList(g0) /\ DOMAIN g0 = DOMAIN A
        /\ \A i \in DOMAIN A : Under(g0[i], n0) = A[i]
    BY <1>3, BaseRowsHold
  <2> QED
    BY <2>1 DEF Range
<1>5. /\ IsPrintedList(g1)
      /\ \A r \in Range(g1) : \E x \in Range(g0), l \in Range(L) :
             KeysMeet(Under(x, n0), k0, l, k1) /\ Under(r, n1) = l /\ Under(r, n0) = Under(x, n0)
      /\ \A x \in Range(g0), l \in Range(L) : KeysMeet(Under(x, n0), k0, l, k1) =>
             \E r \in Range(g1) : Under(r, n1) = l /\ Under(r, n0) = Under(x, n0)
  <2>1. \A x \in Range(g0), l \in Range(L) :
            AreLinked(x, j1, l) <=> KeysMeet(Under(x, n0), k0, l, k1)
    BY <1>4, LinkedIs DEF IsPrintedList
  <2>2. /\ IsPrintedList(g1)
        /\ \A r \in Range(g1) : \E x \in Range(g0), l \in Range(L) :
               /\ AreLinked(x, j1, l) /\ Under(r, j1.alias) = l
               /\ \A other : other # j1.alias => Under(r, other) = Under(x, other)
        /\ \A x \in Range(g0), l \in Range(L) : AreLinked(x, j1, l) =>
               \E r \in Range(g1) :
                   /\ Under(r, j1.alias) = l
                   /\ \A other : other # j1.alias => Under(r, other) = Under(x, other)
    BY <1>3, <1>4, JoinedHold
  <2>3. ASSUME NEW r \in Range(g1)
        PROVE  \E x \in Range(g0), l \in Range(L) :
                   /\ KeysMeet(Under(x, n0), k0, l, k1)
                   /\ Under(r, n1) = l /\ Under(r, n0) = Under(x, n0)
    BY <2>1, <2>2
  <2>4. ASSUME NEW x \in Range(g0), NEW l \in Range(L), KeysMeet(Under(x, n0), k0, l, k1)
        PROVE  \E r \in Range(g1) : Under(r, n1) = l /\ Under(r, n0) = Under(x, n0)
    BY <2>1, <2>2, <2>4
  <2> QED
    BY <2>2, <2>3, <2>4
<1>6. /\ \A r \in Range(g2) : \E x \in Range(g1), y \in Range(B) :
             KeysMeet(Under(x, n1), l1, y, k2) /\ Under(r, n2) = y /\ Under(r, n0) = Under(x, n0)
      /\ \A x \in Range(g1), y \in Range(B) : KeysMeet(Under(x, n1), l1, y, k2) =>
             \E r \in Range(g2) : Under(r, n2) = y /\ Under(r, n0) = Under(x, n0)
  <2>1. \A x \in Range(g1), y \in Range(B) :
            AreLinked(x, j2, y) <=> KeysMeet(Under(x, n1), l1, y, k2)
    BY <1>5, LinkedIs DEF IsPrintedList
  <2>2. /\ \A r \in Range(g2) : \E x \in Range(g1), y \in Range(B) :
               /\ AreLinked(x, j2, y) /\ Under(r, j2.alias) = y
               /\ \A other : other # j2.alias => Under(r, other) = Under(x, other)
        /\ \A x \in Range(g1), y \in Range(B) : AreLinked(x, j2, y) =>
               \E r \in Range(g2) :
                   /\ Under(r, j2.alias) = y
                   /\ \A other : other # j2.alias => Under(r, other) = Under(x, other)
    BY <1>3, <1>5, JoinedHold
  <2>3. ASSUME NEW r \in Range(g2)
        PROVE  \E x \in Range(g1), y \in Range(B) :
                   /\ KeysMeet(Under(x, n1), l1, y, k2)
                   /\ Under(r, n2) = y /\ Under(r, n0) = Under(x, n0)
    BY <2>1, <2>2
  <2>4. ASSUME NEW x \in Range(g1), NEW y \in Range(B), KeysMeet(Under(x, n1), l1, y, k2)
        PROVE  \E r \in Range(g2) : Under(r, n2) = y /\ Under(r, n0) = Under(x, n0)
    BY <2>1, <2>2, <2>4
  <2> QED
    BY <2>3, <2>4
<1>7. ASSUME NEW r \in Range(g2), Under(r, n0) = a, Under(r, n2) = b
      PROVE  /\ b \in Range(B)
             /\ \E l \in Range(L) : KeysMeet(a, k0, l, k1) /\ KeysMeet(l, l1, b, k2)
  <2>1. PICK x \in Range(g1), y \in Range(B) :
             KeysMeet(Under(x, n1), l1, y, k2) /\ Under(r, n2) = y /\ Under(r, n0) = Under(x, n0)
    BY <1>6
  <2>2. PICK z \in Range(g0), l \in Range(L) :
             KeysMeet(Under(z, n0), k0, l, k1) /\ Under(x, n1) = l /\ Under(x, n0) = Under(z, n0)
    BY <1>5
  <2> QED
    BY <1>7, <2>1, <2>2
<1>8. ASSUME b \in Range(B), NEW l \in Range(L), KeysMeet(a, k0, l, k1), KeysMeet(l, l1, b, k2)
      PROVE  \E r \in Range(g2) : Under(r, n0) = a /\ Under(r, n2) = b
  <2>1. PICK z \in Range(g0) : Under(z, n0) = a
    BY <1>4
  <2>2. PICK x \in Range(g1) : Under(x, n1) = l /\ Under(x, n0) = a
    BY <1>5, <1>8, <2>1
  <2> QED
    BY <1>6, <1>8, <2>2
<1> QED
  BY <1>3, <1>7, <1>8 DEF AreTogether, MeetAcross

\* Rows at different places come from different places.
LEMMA RowsAtInjective ==
    ASSUME NEW rows, IsList(rows), NEW P \in SUBSET DOMAIN rows,
           \A i, j \in P : rows[i] = rows[j] => i = j
    PROVE  IsInjective(RowsAt(rows, P))
<1>1. PICK n : n \in Nat /\ DOMAIN rows = 1..n
  BY DEF IsList
<1>2. PICK f : Enumerates(f, P)
  BY <1>1, EnumerationExists
<1>3. PICK m : m = Cardinality(P) /\ m \in Nat
  BY <1>1, PlacesCount
<1>4. AreRowsAt(RowsAt(rows, P), rows, f, m)
  <2>1. P \in SUBSET (1..n)
    BY <1>1
  <2> QED
    BY <1>1, <1>2, <1>3, <2>1, RowsAtIs
<1>5. PICK s : s = RowsAt(rows, P)
  OBVIOUS
<1>6. DOMAIN s = 1..m /\ \A k \in 1..m : s[k] = rows[f[k]]
  BY <1>4, <1>5 DEF AreRowsAt
<1>7. /\ \A k \in 1..m : f[k] \in P
      /\ \A k \in 1..m : Cardinality(UpTo(P, f[k])) = k
  BY <1>2, <1>3 DEF Enumerates
<1>8. \A k, l \in DOMAIN s : s[k] = s[l] => k = l
  <2> SUFFICES ASSUME NEW k \in 1..m, NEW l \in 1..m, s[k] = s[l] PROVE k = l
    BY <1>6
  <2>1. f[k] = f[l]
    BY <1>6, <1>7
  <2> QED
    BY <1>7, <2>1
<1> QED
  BY <1>5, <1>8 DEF IsInjective

\* A relation lists each row once that two joins lead to.
LEMMA RelatedAreJoined ==
    ASSUME TablesOK, NEW through \in DOMAIN tables,
           NEW c \in DOMAIN References[through], NEW d \in DOMAIN References[through],
           NEW from, from = References[through][c], NEW to, to = References[through][d],
           from.table # to.table, through \notin {from.table, to.table},
           KeysUnique(from.table, from.column), KeysUnique(to.table, to.column),
           KeysTell(through, c, from), KeysTell(through, d, to),
           NEW row \in Range(tables[from.table]),
           NEW related, related = RelatedRows(tables, row, through,
                                      [column |-> c, key |-> from.column],
                                      [column |-> d, key |-> to.column, table |-> to.table])
    PROVE  /\ IsInjective(related)
           /\ \A b : b \in Range(related)
                  <=> /\ b \in Range(tables[to.table])
                      /\ \E l \in Range(tables[through]) :
                             KeysMeet(row, from.column, l, c) /\ KeysMeet(l, d, b, to.column)
<1> DEFINE scalar(r, path) == Has(r, path) /\ IsScalar(r[path])
           A == tables[from.table]
           L == tables[through]
           B == tables[to.table]
           links == {l \in Range(L) :
                        /\ scalar(row, <<from.column>>) /\ scalar(l, <<c>>)
                        /\ LookupKey(l[<<c>>]) = LookupKey(row[<<from.column>>])
                        /\ scalar(l, <<d>>)}
           keys == {LookupKey(l[<<d>>]) : l \in links}
           P == {i \in DOMAIN B : scalar(B[i], <<to.column>>)
                                  /\ LookupKey(B[i][<<to.column>>]) \in keys}
<1>1. from.table \in DOMAIN tables /\ to.table \in DOMAIN tables
  BY DEF TablesOK
<1>2. IsPrintedList(A) /\ IsPrintedList(L) /\ IsPrintedList(B)
  BY <1>1, PrintedIsTable DEF TablesOK
<1>3. IsList(B) /\ P \in SUBSET DOMAIN B
  BY <1>2 DEF IsPrintedList
<1>4. related = RowsAt(B, P)
  BY DEF RelatedRows
<1>5. \A r, path : IsPrintedRow(r) /\ Has(r, path) =>
          (IsScalar(r[path]) <=> r[path].kind \notin {"null", "json"})
  BY ScalarIs DEF IsPrintedRow, IsPrinted, Has
<1>6. \A r \in Range(L) : IsPrintedRow(r)
  BY <1>2 DEF IsPrintedList
<1>7. \A r \in Range(A) : scalar(r, <<from.column>>)
  <2>1. \A i \in DOMAIN A : IsScalar(Field(A[i], <<from.column>>))
    BY DEF KeysUnique
  <2>2. ~IsScalar(Null)
    BY DEF IsScalar, Null, Json
  <2> QED
    BY <2>1, <2>2 DEF Field, Range
<1>8. \A i, j \in DOMAIN B :
          /\ scalar(B[i], <<to.column>>)
          /\ LookupKey(B[i][<<to.column>>]) = LookupKey(B[j][<<to.column>>]) => i = j
  <2>1. \A i, j \in DOMAIN B :
            /\ IsScalar(Field(B[i], <<to.column>>))
            /\ LookupKey(Field(B[i], <<to.column>>)) = LookupKey(Field(B[j], <<to.column>>)) => i = j
    BY DEF KeysUnique
  <2>2. ~IsScalar(Null)
    BY DEF IsScalar, Null, Json
  <2>3. \A i \in DOMAIN B : /\ Has(B[i], <<to.column>>)
                            /\ Field(B[i], <<to.column>>) = B[i][<<to.column>>]
    BY <2>1, <2>2 DEF Field
  <2> TAKE i, j \in DOMAIN B
  <2>4. PICK x, y : x = B[i][<<to.column>>] /\ y = B[j][<<to.column>>]
    OBVIOUS
  <2>5. Has(B[i], <<to.column>>) /\ Field(B[i], <<to.column>>) = x /\ Field(B[j], <<to.column>>) = y
    BY <2>3, <2>4
  <2>6. IsScalar(x) /\ (LookupKey(x) = LookupKey(y) => i = j)
    BY <2>1, <2>5
  <2> QED
    BY <2>4, <2>5, <2>6
<1>9. IsInjective(related)
  <2>1. \A i, j \in P : B[i] = B[j] => i = j
    BY <1>8
  <2> HIDE DEF P, B
  <2> QED
    BY <1>3, <1>4, <2>1, RowsAtInjective
<1>10. Range(related) = {B[i] : i \in P}
  <2> HIDE DEF P, B
  <2> QED
    BY <1>3, <1>4, RowsAtIsList
<1>11. ASSUME NEW i \in DOMAIN B
       PROVE  i \in P <=> \E l \in Range(L) :
                              KeysMeet(row, from.column, l, c) /\ KeysMeet(l, d, B[i], to.column)
  <2>1. ASSUME i \in P
        PROVE  \E l \in Range(L) :
                   KeysMeet(row, from.column, l, c) /\ KeysMeet(l, d, B[i], to.column)
    BY <2>1 DEF KeysMeet
  <2>2. ASSUME NEW l \in Range(L), KeysMeet(row, from.column, l, c),
               KeysMeet(l, d, B[i], to.column)
        PROVE  i \in P
    <3>1. scalar(row, <<from.column>>) /\ scalar(B[i], <<to.column>>)
      BY <1>7, <1>8
    <3>2. l[<<c>>].kind \notin {"null", "json"}
      BY <2>2 DEF KeysMeet, KeysTell, Field
    <3>3. l[<<d>>].kind \notin {"null", "json"}
      <4>1. B[i] \in Range(B)
        BY DEF Range
      <4> QED
        BY <2>2, <4>1 DEF KeysMeet, KeysTell, Field
    <3>4. scalar(l, <<c>>) /\ scalar(l, <<d>>)
      BY <1>5, <1>6, <2>2, <3>2, <3>3 DEF KeysMeet
    <3>5. l \in links /\ LookupKey(B[i][<<to.column>>]) = LookupKey(l[<<d>>])
      BY <2>2, <3>1, <3>4 DEF KeysMeet
    <3> QED
      BY <3>1, <3>5
  <2> QED
    BY <2>1, <2>2
<1> HIDE DEF P
<1>12. ASSUME NEW b
       PROVE  b \in Range(related)
                  <=> /\ b \in Range(B)
                      /\ \E l \in Range(L) :
                             KeysMeet(row, from.column, l, c) /\ KeysMeet(l, d, b, to.column)
  <2>1. b \in Range(B) <=> \E i \in DOMAIN B : b = B[i]
    BY DEF Range
  <2>2. b \in Range(related) <=> \E i \in P : b = B[i]
    BY <1>10
  <2> HIDE DEF B, L
  <2> QED
    BY <1>3, <1>11, <2>1, <2>2
<1> QED
  BY <1>9, <1>12

\* What a relation lists is what the two joins lead to.
LEMMA RelatedAreTwoJoins ==
    ASSUME TablesOK, NEW through \in DOMAIN tables,
           NEW c \in DOMAIN References[through], NEW d \in DOMAIN References[through],
           NEW from, from = References[through][c], NEW to, to = References[through][d],
           from.table # to.table, through \notin {from.table, to.table},
           KeysUnique(from.table, from.column), KeysUnique(to.table, to.column),
           KeysTell(through, c, from), KeysTell(through, d, to)
    PROVE  IsTwoJoins(through, c, from, d, to)
<1> SUFFICES ASSUME NEW row \in Range(tables[from.table])
             PROVE  LET rows == Materialize(tables, JunctionQuery(through, c, from, d, to))
                        related == RelatedRows(tables, row, through,
                                       [column |-> c, key |-> from.column],
                                       [column |-> d, key |-> to.column, table |-> to.table])
                    IN  /\ IsInjective(related)
                        /\ Range(related) =
                               {Under(r, to.table) :
                                   r \in {r \in Range(rows) : Under(r, from.table) = row}}
  BY DEF IsTwoJoins
<1>1. PICK related : related = RelatedRows(tables, row, through,
                                   [column |-> c, key |-> from.column],
                                   [column |-> d, key |-> to.column, table |-> to.table])
  OBVIOUS
<1>2. PICK j1 : j1 = [resource |-> through, alias |-> through,
                      on |-> <<<<through, c>>, <<from.table, from.column>>>>]
  OBVIOUS
<1>3. PICK j2 : j2 = [resource |-> to.table, alias |-> to.table,
                      on |-> <<<<through, d>>, <<to.table, to.column>>>>]
  OBVIOUS
<1>4. PICK q : q = [table |-> from.table, alias |-> from.table, joins |-> <<j1, j2>>]
  OBVIOUS
<1>5. PICK rows : rows = Materialize(tables, JunctionQuery(through, c, from, d, to))
  OBVIOUS
<1>6. /\ IsInjective(related)
      /\ \A b : b \in Range(related)
             <=> /\ b \in Range(tables[to.table])
                 /\ \E l \in Range(tables[through]) :
                        KeysMeet(row, from.column, l, c) /\ KeysMeet(l, d, b, to.column)
  BY <1>1, RelatedAreJoined
<1>7. /\ j1.alias = through /\ ExistingSide(j1) = <<from.table, from.column>>
      /\ JoinedSide(j1)[2] = c /\ j1.resource = through
  BY <1>2 DEF ExistingSide, JoinedSide
<1>8. /\ j2.alias = to.table /\ ExistingSide(j2) = <<through, d>>
      /\ JoinedSide(j2)[2] = to.column /\ j2.resource = to.table
  BY <1>3 DEF ExistingSide, JoinedSide
<1>9. PICK A, L, B : A = tables[from.table] /\ L = tables[through] /\ B = tables[to.table]
  OBVIOUS
<1>10. IsPrintedList(A) /\ IsPrintedList(L) /\ IsPrintedList(B)
  <2>1. from.table \in DOMAIN tables /\ to.table \in DOMAIN tables
    BY DEF TablesOK
  <2> QED
    BY <1>9, <2>1, PrintedIsTable DEF TablesOK
<1>11. ASSUME NEW b
       PROVE  (\E r \in Range(rows) : Under(r, from.table) = row /\ Under(r, to.table) = b)
                  <=> /\ b \in Range(B)
                      /\ \E l \in Range(L) :
                             KeysMeet(row, from.column, l, c) /\ KeysMeet(l, d, b, to.column)
  <2>1. PICK n0, n1, n2 : n0 = from.table /\ n1 = through /\ n2 = to.table
    OBVIOUS
  <2>2. /\ q.joins = <<j1, j2>> /\ n0 \in {q.table, q.alias} /\ A = tables[q.table]
        /\ L = tables[j1.resource] /\ B = tables[j2.resource]
        /\ n1 = j1.alias /\ n2 = j2.alias
        /\ n0 # n1 /\ n0 # n2 /\ n1 # n2
    BY <1>4, <1>7, <1>8, <1>9, <2>1
  <2>3. /\ ExistingSide(j1) = <<n0, from.column>> /\ JoinedSide(j1)[2] = c
        /\ ExistingSide(j2) = <<n1, d>> /\ JoinedSide(j2)[2] = to.column
        /\ row \in Range(A)
    BY <1>7, <1>8, <1>9, <2>1
  <2>4. AreTogether(Materialize(tables, q), n0, row, n2, b)
            <=> b \in Range(B) /\ MeetAcross(row, from.column, L, c, d, b, to.column)
    BY <1>10, <2>2, <2>3, TwoJoins
  <2> QED
    BY <1>2, <1>3, <1>4, <1>5, <2>1, <2>4 DEF AreTogether, JunctionQuery, MeetAcross
<1>12. \A b : b \in Range(related)
           <=> \E r \in Range(rows) : Under(r, from.table) = row /\ Under(r, to.table) = b
  BY <1>6, <1>9, <1>11
<1>13. Range(related) = {Under(r, to.table) :
                            r \in {r \in Range(rows) : Under(r, from.table) = row}}
  BY <1>12
<1> QED
  BY <1>1, <1>5, <1>6, <1>13

\* Embedding, the relations of GraphQL and SQL joins find the same rows where
\* keys are unique and tell values apart (resolve_related_row_in_lookup,
\* resolve_graphql_many_to_many_rows, materialize_sql_rows).
THEOREM LookupsJoin == Spec => []LookupsAreJoins
<1>1. TablesOK => EmbedsJoinedRow
  <2> SUFFICES ASSUME TablesOK, NEW t \in DOMAIN tables, NEW c \in DOMAIN References[t],
                      References[t][c].table # t,
                      KeysUnique(References[t][c].table, References[t][c].column),
                      KeysTell(t, c, References[t][c]), NEW row \in Range(tables[t])
               PROVE  LET fk == References[t][c]
                          join == [resource |-> fk.table, alias |-> fk.table,
                                   on |-> <<<<t, c>>, <<fk.table, fk.column>>>>]
                          joined == JoinRows(<<BaseRow(t, t, row)>>, join, tables[fk.table])
                      IN  EmbeddedRow(tables, row, c, fk)
                              = IF joined = <<>> THEN NoRow ELSE Under(joined[1], fk.table)
    BY DEF EmbedsJoinedRow
  <2>1. PICK fk : fk = References[t][c]
    OBVIOUS
  <2>2. PICK join : join = [resource |-> fk.table, alias |-> fk.table,
                            on |-> <<<<t, c>>, <<fk.table, fk.column>>>>]
    OBVIOUS
  <2>3. PICK joined : joined = JoinRows(<<BaseRow(t, t, row)>>, join, tables[fk.table])
    OBVIOUS
  <2>4. fk.table # t /\ KeysUnique(fk.table, fk.column) /\ KeysTell(t, c, fk)
    BY <2>1
  <2>5. EmbeddedRow(tables, row, c, fk) = IF joined = <<>> THEN NoRow ELSE Under(joined[1], fk.table)
    BY <2>1, <2>2, <2>3, <2>4, EmbeddedIsJoined
  <2> QED
    BY <2>1, <2>2, <2>3, <2>5
<1>2. TablesOK => RelationIsTwoJoins
  <2> SUFFICES ASSUME TablesOK, NEW through \in DOMAIN tables,
                      NEW c \in DOMAIN References[through], NEW d \in DOMAIN References[through],
                      NEW from, from = References[through][c], NEW to, to = References[through][d],
                      from.table # to.table, through \notin {from.table, to.table},
                      KeysUnique(from.table, from.column), KeysUnique(to.table, to.column),
                      KeysTell(through, c, from), KeysTell(through, d, to)
               PROVE  IsTwoJoins(through, c, from, d, to)
    BY DEF RelationIsTwoJoins
  <2> QED
    BY RelatedAreTwoJoins
<1> QED
  BY <1>1, <1>2, TablesInvariance, PTL DEF LookupsAreJoins

-----------------------------------------------------------------------------
(***************************************************************************)
(* A join from its other side.                                             *)
(***************************************************************************)

MeetPlaces(A, k0, B, k1) ==
    {p \in (DOMAIN A) \X (DOMAIN B) : KeysMeet(A[p[1]], k0, B[p[2]], k1)}

\* As many pairs one way round as the other.
LEMMA MeetPlacesCount ==
    ASSUME NEW A, IsList(A), NEW B, IsList(B), NEW k0, NEW k1
    PROVE  Cardinality(MeetPlaces(A, k0, B, k1)) = Cardinality(MeetPlaces(B, k1, A, k0))
<1> DEFINE X == MeetPlaces(A, k0, B, k1)
           Y == MeetPlaces(B, k1, A, k0)
           f == [p \in X |-> <<p[2], p[1]>>]
<1>1. IsFiniteSet(X)
  <2>1. IsFiniteSet(DOMAIN A) /\ IsFiniteSet(DOMAIN B)
    <3>1. \A m \in Nat : IsFiniteSet(1..m)
      BY FS_Interval
    <3> QED
      BY <3>1 DEF IsList
  <2>2. IsFiniteSet((DOMAIN A) \X (DOMAIN B))
    BY <2>1, FS_Product
  <2>3. X \in SUBSET ((DOMAIN A) \X (DOMAIN B))
    BY DEF MeetPlaces
  <2> HIDE DEF X
  <2> QED
    BY <2>2, <2>3, FS_Subset
<1>2. \A i, k : <<i, k>> \in X <=> <<k, i>> \in Y
  BY DEF MeetPlaces, KeysMeet
<1>3. /\ \A p \in X : p = <<p[1], p[2]>>
      /\ \A p \in Y : p = <<p[1], p[2]>>
  BY DEF MeetPlaces
<1> HIDE DEF X, Y
<1>4. f \in [X -> Y]
  <2>1. \A p \in X : <<p[2], p[1]>> \in Y
    BY <1>2, <1>3
  <2> QED
    BY <2>1
<1>5. \A p, q \in X : f[p] = f[q] => p = q
  <2> TAKE p, q \in X
  <2>1. f[p] = <<p[2], p[1]>> /\ f[q] = <<q[2], q[1]>>
    OBVIOUS
  <2> QED
    BY <1>3, <2>1
<1>6. \A p \in Y : \E q \in X : f[q] = p
  <2> TAKE p \in Y
  <2>1. <<p[2], p[1]>> \in X
    BY <1>2, <1>3
  <2>2. f[<<p[2], p[1]>>] = <<p[1], p[2]>>
    BY <2>1
  <2> QED
    BY <1>3, <2>1, <2>2
<1> HIDE DEF f
<1>7. f \in Bijection(X, Y)
  BY <1>4, <1>5, <1>6 DEF Bijection, Injection, Surjection, IsInjective
<1>8. ExistsBijection(X, Y)
  BY <1>7 DEF ExistsBijection
<1> QED
  BY <1>1, <1>8, FS_Bijection DEF X, Y

\* What one join makes of two tables.
JoinsTo(rows, n0, A, k0, n1, B, k1) ==
    /\ IsList(rows) /\ Len(rows) = Cardinality(MeetPlaces(A, k0, B, k1))
    /\ \A a, b : AreTogether(rows, n0, a, n1, b)
                     <=> a \in Range(A) /\ b \in Range(B) /\ KeysMeet(a, k0, b, k1)

\* Two rows are together as often as their keys meet.
LEMMA OneJoin ==
    ASSUME NEW tabs, NEW q, NEW join, q.joins = <<join>>,
           NEW A, A = tabs[q.table], IsPrintedList(A),
           NEW B, B = tabs[join.resource], IsPrintedList(B),
           NEW n0, n0 = q.alias, NEW n1, n1 = join.alias, n0 # n1,
           NEW k0, NEW k1, ExistingSide(join) = <<n0, k0>>, JoinedSide(join)[2] = k1
    PROVE  JoinsTo(Materialize(tabs, q), n0, A, k0, n1, B, k1)
<1>1. PICK g : AreSteps(g, tabs, q, 1)
  <2>1. Len(q.joins) = 1 /\ 1 \in Nat
    OBVIOUS
  <2> QED
    BY <2>1, MaterializedSteps
<1>2. PICK g0, g1 : g0 = g[0] /\ g1 = g[1]
  OBVIOUS
<1>3. Materialize(tabs, q) = g1 /\ g0 = BaseRows(tabs, q) /\ g1 = JoinRows(g0, join, B)
  <2>1. 1 \in 1..1 /\ 1 - 1 = 0
    OBVIOUS
  <2>2. g[1] = JoinStep(g[1 - 1], tabs, q, 1)
    BY <1>1, <2>1 DEF AreSteps
  <2>3. q.joins[1] = join
    OBVIOUS
  <2> QED
    BY <1>1, <1>2, <2>1, <2>2, <2>3 DEF AreSteps, JoinStep
<1>4. /\ IsPrintedList(g0) /\ DOMAIN g0 = DOMAIN A
      /\ \A i \in DOMAIN A : Under(g0[i], n0) = A[i]
  BY <1>3, BaseRowsHold
<1>5. \A x \in Range(g0) : \A y : AreLinked(x, join, y) <=> KeysMeet(Under(x, n0), k0, y, k1)
  BY <1>4, LinkedIs DEF IsPrintedList
<1>6. IsList(g0) /\ IsList(B)
  BY <1>4 DEF IsPrintedList
<1>7. IsList(g1) /\ Len(g1) = Cardinality(LinkedPlaces(g0, join, B))
  BY <1>3, <1>6, JoinedIsList, JoinedRows
<1>8. LinkedPlaces(g0, join, B) = MeetPlaces(A, k0, B, k1)
  <2>1. \A p \in (DOMAIN A) \X (DOMAIN B) :
            AreLinked(g0[p[1]], join, B[p[2]]) <=> KeysMeet(A[p[1]], k0, B[p[2]], k1)
    <3> TAKE p \in (DOMAIN A) \X (DOMAIN B)
    <3>1. p[1] \in DOMAIN A
      OBVIOUS
    <3>2. g0[p[1]] \in Range(g0) /\ Under(g0[p[1]], n0) = A[p[1]]
      BY <1>4, <3>1 DEF Range
    <3> QED
      BY <1>5, <3>2
  <2> QED
    BY <1>4, <2>1 DEF LinkedPlaces, MeetPlaces
<1>9. /\ \A r \in Range(g1) : \E x \in Range(g0), y \in Range(B) :
             AreLinked(x, join, y) /\ Under(r, n1) = y /\ Under(r, n0) = Under(x, n0)
      /\ \A x \in Range(g0), y \in Range(B) : AreLinked(x, join, y) =>
             \E r \in Range(g1) : Under(r, n1) = y /\ Under(r, n0) = Under(x, n0)
  <2>1. /\ \A r \in Range(g1) : \E x \in Range(g0), y \in Range(B) :
               /\ AreLinked(x, join, y) /\ Under(r, join.alias) = y
               /\ \A other : other # join.alias => Under(r, other) = Under(x, other)
        /\ \A x \in Range(g0), y \in Range(B) : AreLinked(x, join, y) =>
               \E r \in Range(g1) :
                   /\ Under(r, join.alias) = y
                   /\ \A other : other # join.alias => Under(r, other) = Under(x, other)
    BY <1>3, <1>4, JoinedHold
  <2> QED
    BY <2>1
<1>10. /\ \A x \in Range(g0) : Under(x, n0) \in Range(A)
       /\ \A y \in Range(A) : \E x \in Range(g0) : Under(x, n0) = y
  BY <1>4 DEF Range
<1>11. ASSUME NEW a, NEW b
       PROVE  AreTogether(g1, n0, a, n1, b)
                  <=> a \in Range(A) /\ b \in Range(B) /\ KeysMeet(a, k0, b, k1)
  <2>1. ASSUME AreTogether(g1, n0, a, n1, b)
        PROVE  a \in Range(A) /\ b \in Range(B) /\ KeysMeet(a, k0, b, k1)
    BY <1>5, <1>9, <1>10, <2>1 DEF AreTogether
  <2>2. ASSUME a \in Range(A), b \in Range(B), KeysMeet(a, k0, b, k1)
        PROVE  AreTogether(g1, n0, a, n1, b)
    BY <1>5, <1>9, <1>10, <2>2 DEF AreTogether
  <2> QED
    BY <2>1, <2>2
<1> QED
  BY <1>3, <1>7, <1>8, <1>11 DEF JoinsTo

ArePairs(pairs, rows, left, right) ==
    /\ Len(pairs) = Len(rows)
    /\ \A p : p \in Range(pairs)
                  <=> \E a, b : p = <<a, b>> /\ AreTogether(rows, left, a, right, b)

\* The pairs that are looked at are the rows that are together.
LEMMA PairsAre ==
    ASSUME NEW rows, IsList(rows), NEW left, NEW right, NEW pairs,
           pairs = [i \in DOMAIN rows |-> <<Under(rows[i], left), Under(rows[i], right)>>]
    PROVE  ArePairs(pairs, rows, left, right)
<1>1. PICK n : n \in Nat /\ n = Len(rows) /\ DOMAIN rows = 1..n
  BY DEF IsList
<1>2. pairs = [i \in 1..n |-> <<Under(rows[i], left), Under(rows[i], right)>>]
  BY <1>1
<1>3. Len(pairs) = n /\ DOMAIN pairs = 1..n
  BY <1>1, <1>2
<1>4. ASSUME NEW p \in Range(pairs)
      PROVE  \E a, b : p = <<a, b>> /\ AreTogether(rows, left, a, right, b)
  <2>1. PICK i \in 1..n : p = <<Under(rows[i], left), Under(rows[i], right)>>
    BY <1>2, <1>3 DEF Range
  <2>2. rows[i] \in Range(rows)
    BY <1>1 DEF Range
  <2>3. AreTogether(rows, left, Under(rows[i], left), right, Under(rows[i], right))
    BY <2>2 DEF AreTogether
  <2> QED
    BY <2>1, <2>3
<1>5. ASSUME NEW a, NEW b, AreTogether(rows, left, a, right, b)
      PROVE  <<a, b>> \in Range(pairs)
  <2>1. PICK r \in Range(rows) : Under(r, left) = a /\ Under(r, right) = b
    BY <1>5 DEF AreTogether
  <2>2. PICK i \in 1..n : r = rows[i]
    BY <1>1 DEF Range
  <2>3. pairs[i] = <<a, b>>
    BY <1>2, <2>1, <2>2
  <2> QED
    BY <1>3, <2>3 DEF Range
<1> QED
  BY <1>1, <1>3, <1>4, <1>5 DEF ArePairs

\* Both ways round, ON relates the column of one table to that of the other.
LEMMA SidesOfJoin ==
    ASSUME NEW on, NEW n0, NEW n1, n0 # n1,
           \A side \in {1, 2} : on[side] = <<on[side][1], on[side][2]>>,
           NEW r0, NEW r1, NEW join, join = [resource |-> r1, alias |-> n1, on |-> on],
           NEW back, back = [resource |-> r0, alias |-> n0, on |-> <<on[2], on[1]>>],
           ExistingSide(join)[1] = n0, JoinedSide(join)[1] = n1
    PROVE  \E k0, k1 : /\ ExistingSide(join) = <<n0, k0>> /\ JoinedSide(join)[2] = k1
                       /\ ExistingSide(back) = <<n1, k1>> /\ JoinedSide(back)[2] = k0
<1>1. PICK x, y : x = on[1] /\ y = on[2]
  OBVIOUS
<1>2. x = <<x[1], x[2]>> /\ y = <<y[1], y[2]>>
  BY <1>1
<1>3. /\ ExistingSide(join) = IF x[1] = n1 THEN y ELSE x
      /\ JoinedSide(join) = IF y[1] = n1 THEN y ELSE x
      /\ ExistingSide(back) = IF y[1] = n0 THEN x ELSE y
      /\ JoinedSide(back) = IF x[1] = n0 THEN x ELSE y
  BY <1>1 DEF ExistingSide, JoinedSide
<1>4. CASE x[1] = n1
  <2>1. y[1] = n0
    BY <1>3, <1>4
  <2>2. /\ ExistingSide(join) = y /\ JoinedSide(join) = x
        /\ ExistingSide(back) = x /\ JoinedSide(back) = y
    BY <1>3, <1>4, <2>1
  <2> QED
    BY <1>2, <1>4, <2>1, <2>2
<1>5. CASE x[1] # n1
  <2>1. x[1] = n0 /\ y[1] = n1
    BY <1>3, <1>5
  <2>2. /\ ExistingSide(join) = x /\ JoinedSide(join) = y
        /\ ExistingSide(back) = y /\ JoinedSide(back) = x
    BY <1>3, <2>1
  <2> QED
    BY <1>2, <2>1, <2>2
<1> QED
  BY <1>4, <1>5

\* A join of two tables finds the same pairs, as often, from either table and
\* with ON either way round (parse_sql_joins, materialize_sql_rows).
THEOREM JoinsCommute == Spec => []JoinCommutes
<1>1. TablesOK => JoinCommutes
  <2> SUFFICES ASSUME TablesOK, Len(query.joins) = 1, AreValidJoins(query)
               PROVE  LET join == query.joins[1]
                          swapped == [table |-> join.resource, alias |-> join.alias,
                                      joins |-> <<[resource |-> query.table, alias |-> query.alias,
                                                   on |-> <<join.on[2], join.on[1]>>]>>]
                          there == Pairs(query, query.alias, join.alias)
                          back == Pairs(swapped, query.alias, join.alias)
                      IN  Len(there) = Len(back) /\ Range(there) = Range(back)
    BY DEF JoinCommutes
  <2>1. PICK given : given = query.joins[1]
    OBVIOUS
  <2>2. PICK r0, r1, n0, n1, on : /\ r0 = query.table /\ n0 = query.alias
                                  /\ r1 = given.resource /\ n1 = given.alias /\ on = given.on
    OBVIOUS
  <2>3. IsList(query.joins) /\ DOMAIN query.joins = 1..1
    BY RequestsAssumption DEF TablesOK, IsList
  <2>4. given \in Range(query.joins)
    BY <2>1, <2>3 DEF Range
  <2>5. \A side \in {1, 2} : on[side] = <<on[side][1], on[side][2]>>
    BY <2>2, <2>4, RequestsAssumption DEF TablesOK
  <2>6. PICK join, return : /\ join = [resource |-> r1, alias |-> n1, on |-> on]
                            /\ return = [resource |-> r0, alias |-> n0, on |-> <<on[2], on[1]>>]
    OBVIOUS
  <2>7. ExistingSide(given) = ExistingSide(join) /\ JoinedSide(given) = JoinedSide(join)
    BY <2>2, <2>6 DEF ExistingSide, JoinedSide
  <2>8. n0 # n1 /\ ExistingSide(given)[1] = n0 /\ JoinedSide(given)[1] = n1
    <3>1. 1 \in DOMAIN query.joins /\ {query.joins[k].alias : k \in 1..1 - 1} = {}
      BY <2>3
    <3>2. given.alias \notin {query.alias} /\ ExistingSide(given)[1] \in {query.alias}
          /\ JoinedSide(given)[1] = given.alias
      BY <2>1, <3>1 DEF AreValidJoins
    <3> QED
      BY <2>2, <3>2
  <2>9. PICK k0, k1 : /\ ExistingSide(join) = <<n0, k0>> /\ JoinedSide(join)[2] = k1
                      /\ ExistingSide(return) = <<n1, k1>> /\ JoinedSide(return)[2] = k0
    BY <2>5, <2>6, <2>7, <2>8, SidesOfJoin
  <2>10. PICK A, B : A = tables[r0] /\ B = tables[r1]
    OBVIOUS
  <2>11. IsPrintedList(A) /\ IsPrintedList(B)
    <3>1. r0 \in DOMAIN tables /\ r1 \in DOMAIN tables
      BY <2>2, <2>4 DEF TablesOK
    <3> QED
      BY <2>10, <3>1, PrintedIsTable DEF TablesOK
  <2>12. PICK swapped : swapped = [table |-> r1, alias |-> n1, joins |-> <<return>>]
    OBVIOUS
  <2>13. PICK rows, others : rows = Materialize(tables, query) /\ others = Materialize(tables, swapped)
    OBVIOUS
  <2>14. JoinsTo(rows, n0, A, k0, n1, B, k1)
    <3>1. query.joins = <<given>>
      <4>1. IsList(<<given>>) /\ Len(<<given>>) = 1 /\ <<given>>[1] = given
        BY DEF IsList, IsFunction
      <4>2. \A i \in 1..1 : i = 1
        OBVIOUS
      <4>3. PICK one : one = <<given>>
        OBVIOUS
      <4>4. \A i \in 1..Len(query.joins) : query.joins[i] = one[i]
        BY <2>1, <4>1, <4>2, <4>3
      <4> QED
        BY <2>3, <4>1, <4>3, <4>4, SameList
    <3>2. ExistingSide(given) = <<n0, k0>> /\ JoinedSide(given)[2] = k1
      BY <2>7, <2>9
    <3>3. A = tables[query.table] /\ B = tables[given.resource]
      BY <2>2, <2>10
    <3>4. n0 = query.alias /\ n1 = given.alias
      BY <2>2
    <3> QED
      BY <2>8, <2>11, <2>13, <3>1, <3>2, <3>3, <3>4, OneJoin
  <2>15. JoinsTo(others, n1, B, k1, n0, A, k0)
    <3>1. /\ swapped.joins = <<return>> /\ B = tables[swapped.table]
          /\ A = tables[return.resource] /\ n1 = swapped.alias /\ n0 = return.alias
      BY <2>6, <2>10, <2>12
    <3> QED
      BY <2>8, <2>9, <2>11, <2>13, <3>1, OneJoin
  <2>16. Len(rows) = Len(others)
    <3>1. IsList(A) /\ IsList(B)
      BY <2>11 DEF IsPrintedList
    <3> QED
      BY <2>14, <2>15, <3>1, MeetPlacesCount DEF JoinsTo
  <2>17. \A a, b : AreTogether(rows, n0, a, n1, b) <=> AreTogether(others, n0, a, n1, b)
    <3> TAKE a, b
    <3>1. KeysMeet(a, k0, b, k1) <=> KeysMeet(b, k1, a, k0)
      BY DEF KeysMeet
    <3>2. AreTogether(others, n0, a, n1, b) <=> AreTogether(others, n1, b, n0, a)
      BY DEF AreTogether
    <3> QED
      BY <2>14, <2>15, <3>1, <3>2 DEF JoinsTo
  <2>18. PICK there, back : there = Pairs(query, n0, n1) /\ back = Pairs(swapped, n0, n1)
    OBVIOUS
  <2>19. /\ there = [i \in DOMAIN rows |-> <<Under(rows[i], n0), Under(rows[i], n1)>>]
         /\ back = [i \in DOMAIN others |-> <<Under(others[i], n0), Under(others[i], n1)>>]
    BY <2>13, <2>18 DEF Pairs
  <2>20. ArePairs(there, rows, n0, n1) /\ ArePairs(back, others, n0, n1)
    <3>1. IsList(rows) /\ IsList(others)
      BY <2>14, <2>15 DEF JoinsTo
    <3> QED
      BY <2>19, <3>1, PairsAre
  <2>21. Len(there) = Len(back) /\ Range(there) = Range(back)
    <3>1. \A p : p \in Range(there) <=> p \in Range(back)
      BY <2>17, <2>20 DEF ArePairs
    <3> QED
      BY <2>16, <2>20, <3>1 DEF ArePairs
  <2> QED
    BY <2>1, <2>2, <2>6, <2>12, <2>18, <2>21
<1> QED
  BY <1>1, TablesInvariance, PTL
=============================================================================
