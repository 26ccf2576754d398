---------------------------- MODULE Dashboard_proofs ----------------------------
(***************************************************************************)
(* What is proved of Dashboard and its table and charts, for every set of  *)
(* rows, answers and columns, every chunk size and every bound.            *)
(***************************************************************************)
EXTENDS Dashboard, SequenceTheorems, FiniteSetTheorems, FunctionTheorems, WellFoundedInduction, TLAPS

----------------------------------------------------------------------------
(* Ordering a finite set.                                                  *)

Orders(order, I) ==
    /\ \A i \in I : <<i, i>> \notin order
    /\ \A i, j, k \in I : <<i, j>> \in order /\ <<j, k>> \in order => <<i, k>> \in order
    /\ \A i, j \in I : i = j \/ <<i, j>> \in order \/ <<j, i>> \in order

Earlier(i, I, order) == {j \in I : <<j, i>> \in order}

\* As many come before each member as there are numbers below its place: the ranks are
\* different numbers below the size of the set, hence all of them.
LEMMA InOrderFacts ==
    ASSUME NEW I, IsFiniteSet(I), NEW order, Orders(order, I)
    PROVE  /\ Cardinality(I) \in Nat
           /\ InOrder(I, order) \in [1 .. Cardinality(I) -> I]
           /\ \A k \in 1 .. Cardinality(I) :
                 Cardinality(Earlier(InOrder(I, order)[k], I, order)) = k - 1
           /\ \A i, j \in 1 .. Cardinality(I) :
                 i < j => <<InOrder(I, order)[i], InOrder(I, order)[j]>> \in order
           /\ \A x \in I : \E k \in 1 .. Cardinality(I) : InOrder(I, order)[k] = x
  <1> DEFINE n == Cardinality(I)
             rank == [i \in I |-> Cardinality(Earlier(i, I, order))]
             p == InOrder(I, order)
  <1>1. n \in Nat
    BY FS_CardinalityType
  <1>2. ASSUME NEW i \in I
        PROVE  /\ IsFiniteSet(Earlier(i, I, order)) /\ Cardinality(Earlier(i, I, order)) \in 0 .. n - 1
               /\ i \notin Earlier(i, I, order)
    <2>1. Earlier(i, I, order) \subseteq I /\ i \notin Earlier(i, I, order)
      BY DEF Earlier, Orders
    <2>2. IsFiniteSet(Earlier(i, I, order)) /\ Cardinality(Earlier(i, I, order)) < n
      BY <1>1, <2>1, FS_Subset, FS_CardinalityType
    <2>3. Cardinality(Earlier(i, I, order)) \in Nat
      BY <2>2, FS_CardinalityType
    <2> QED BY <1>1, <2>1, <2>2, <2>3
  <1>3. ASSUME NEW i \in I, NEW j \in I, <<i, j>> \in order
        PROVE  rank[i] < rank[j]
    <2>1. Earlier(i, I, order) \subseteq Earlier(j, I, order)
      BY <1>3 DEF Earlier, Orders
    <2>2. i \in Earlier(j, I, order)
      BY <1>3 DEF Earlier
    <2>3. Cardinality(Earlier(i, I, order)) < Cardinality(Earlier(j, I, order))
      BY <1>2, <2>1, <2>2, FS_Subset
    <2> QED BY <2>3
  <1>4. rank \in [I -> 0 .. n - 1] /\ DOMAIN rank = I
    BY <1>2
  <1> HIDE DEF rank
  <1>5. \A i, j \in I : rank[i] = rank[j] => i = j
    <2> SUFFICES ASSUME NEW i \in I, NEW j \in I, rank[i] = rank[j], i # j
                 PROVE  FALSE
      OBVIOUS
    <2>1. rank[i] \in Int /\ rank[j] \in Int
      BY <1>4
    <2>2. <<i, j>> \in order \/ <<j, i>> \in order
      BY DEF Orders
    <2> QED BY <1>3, <2>1, <2>2
  <1>6. rank \in Injection(I, 0 .. n - 1)
    BY <1>4, <1>5 DEF Injection, IsInjective
  <1>7. IsFiniteSet(0 .. n - 1) /\ Cardinality(0 .. n - 1) = n
    <2>1. 0 \in Int /\ n - 1 \in Int
      BY <1>1
    <2>2. /\ IsFiniteSet(0 .. n - 1)
          /\ Cardinality(0 .. n - 1) = IF 0 > n - 1 THEN 0 ELSE n - 1 - 0 + 1
      BY <2>1, FS_Interval
    <2> QED BY <1>1, <2>2
  <1>8. rank \in Surjection(I, 0 .. n - 1)
    BY <1>6, <1>7, FS_Injection
  <1>9. \A m \in 0 .. n - 1 : \E i \in I : rank[i] = m
    BY <1>8 DEF Surjection
  <1>10. \A k \in 1 .. n : p[k] \in I /\ rank[p[k]] = k - 1
    <2> SUFFICES ASSUME NEW k \in 1 .. n
                 PROVE  p[k] \in I /\ rank[p[k]] = k - 1
      OBVIOUS
    <2>1. k - 1 \in 0 .. n - 1
      BY <1>1
    <2>2. \E i \in I : rank[i] = k - 1
      BY <1>9, <2>1
    <2>3. \A i \in I : rank[i] = Cardinality({j \in I : <<j, i>> \in order})
      BY DEF rank, Earlier
    <2>4. p[k] = CHOOSE i \in I : Cardinality({j \in I : <<j, i>> \in order}) = k - 1
      BY DEF InOrder
    <2> HIDE DEF p
    <2> QED BY <2>2, <2>3, <2>4
  <1>11. p \in [1 .. n -> I]
    <2>1. DOMAIN p = 1 .. n /\ p = [k \in DOMAIN p |-> p[k]]
      <3>1. InOrder(I, order) = [k \in 1 .. n |->
                CHOOSE i \in I : Cardinality({j \in I : <<j, i>> \in order}) = k - 1]
        BY DEF InOrder
      <3> QED BY <3>1
    <2> HIDE DEF p
    <2> QED BY <1>10, <2>1
  <1> HIDE DEF p
  <1>12. ASSUME NEW i \in 1 .. n, NEW j \in 1 .. n, i < j
         PROVE  <<p[i], p[j]>> \in order
    <2>1. p[i] \in I /\ p[j] \in I /\ rank[p[i]] = i - 1 /\ rank[p[j]] = j - 1
      BY <1>10
    <2>2. ~(rank[p[j]] < rank[p[i]]) /\ p[i] # p[j]
      BY <1>1, <1>12, <2>1
    <2>3. <<p[j], p[i]>> \notin order
      BY <1>3, <2>1, <2>2
    <2> QED BY <2>1, <2>2, <2>3 DEF Orders
  <1>13. ASSUME NEW x \in I
         PROVE  \E k \in 1 .. n : p[k] = x
    <2>1. rank[x] \in 0 .. n - 1
      BY <1>4
    <2>2. PICK k \in 1 .. n : k - 1 = rank[x]
      <3>1. PICK m \in 0 .. n - 1 : m = rank[x]
        BY <2>1
      <3>2. m + 1 \in 1 .. n /\ m + 1 - 1 = m
        BY <1>1
      <3> QED BY <3>1, <3>2
    <2>3. p[k] \in I /\ rank[p[k]] = rank[x]
      BY <1>10, <2>2
    <2> QED BY <1>5, <2>2, <2>3
  <1>14. \A k \in 1 .. n : Cardinality(Earlier(p[k], I, order)) = k - 1
    BY <1>10 DEF rank
  <1> QED BY <1>1, <1>11, <1>12, <1>13, <1>14 DEF n, p


\* Numbers in their usual order stay where they are.
LEMMA InOrderOfNumbers ==
    ASSUME NEW n \in Nat, NEW order,
           \A i, j \in 1 .. n : <<i, j>> \in order <=> i < j
    PROVE  /\ Orders(order, 1 .. n) /\ IsFiniteSet(1 .. n) /\ Cardinality(1 .. n) = n
           /\ \A k \in 1 .. n : InOrder(1 .. n, order)[k] = k
  <1> DEFINE p == InOrder(1 .. n, order)
  <1>1. IsFiniteSet(1 .. n) /\ Cardinality(1 .. n) = n
    BY FS_Interval
  <1>2. Orders(order, 1 .. n)
    BY DEF Orders
  <1>3. /\ p \in [1 .. n -> 1 .. n]
        /\ \A k \in 1 .. n : Cardinality(Earlier(p[k], 1 .. n, order)) = k - 1
    BY <1>1, <1>2, InOrderFacts
  <1>4. ASSUME NEW m \in 1 .. n
        PROVE  Cardinality(Earlier(m, 1 .. n, order)) = m - 1
    <2>1. Earlier(m, 1 .. n, order) = 1 .. m - 1
      BY DEF Earlier
    <2>2. Cardinality(1 .. m - 1) = IF 1 > m - 1 THEN 0 ELSE m - 1 - 1 + 1
      BY FS_Interval
    <2> QED BY <2>1, <2>2
  <1> HIDE DEF p
  <1>5. \A k \in 1 .. n : p[k] = k
    <2> SUFFICES ASSUME NEW k \in 1 .. n
                 PROVE  p[k] = k
      OBVIOUS
    <2>1. p[k] \in 1 .. n
      BY <1>3
    <2>2. p[k] - 1 = k - 1
      BY <1>3, <1>4, <2>1
    <2> QED BY <2>1, <2>2
  <1> QED BY <1>1, <1>2, <1>5 DEF p

----------------------------------------------------------------------------
(* Sorting.                                                                *)

AllColumns == UNION {Columns[m] : m \in Modes}

\* The same rows in another order.
Rearranges(s, t) ==
    \E p \in Bijection(DOMAIN s, DOMAIN t) : \A i \in DOMAIN s : s[i] = t[p[i]]

LEMMA ValueTyped ==
    ASSUME NEW row \in Rows, NEW column \in AllColumns
    PROVE  Value(row, column) \in Int
  BY StatsTableAssumption DEF StatsTableAssumption, AllColumns, Value

LEMMA BeforeOrders ==
    ASSUME NEW data \in Seq(Rows), NEW column \in AllColumns, NEW direction \in {"asc", "desc"}
    PROVE  Orders(Before(data, column, direction), DOMAIN data)
  <1> DEFINE v == [i \in DOMAIN data |-> IF direction = "asc" THEN Value(data[i], column)
                                                            ELSE 0 - Value(data[i], column)]
             order == Before(data, column, direction)
  <1>1. DOMAIN data = 1 .. Len(data) /\ Len(data) \in Nat /\ \A i \in DOMAIN data : data[i] \in Rows
    BY LenProperties, ElementOfSeq
  <1>2. \A i \in DOMAIN data : v[i] \in Int
    <2>1. \A i \in DOMAIN data : Value(data[i], column) \in Int
      BY <1>1, ValueTyped
    <2> QED BY <2>1
  <1>3. ASSUME NEW i \in DOMAIN data, NEW j \in DOMAIN data
        PROVE  Comes(data[i], data[j], column, direction) <=> v[i] < v[j]
    <2>1. Value(data[i], column) \in Int /\ Value(data[j], column) \in Int
      BY <1>1, ValueTyped
    <2> QED BY <2>1 DEF Comes
  <1>4. ASSUME NEW i \in DOMAIN data, NEW j \in DOMAIN data
        PROVE  <<i, j>> \in order <=> v[i] < v[j] \/ (~(v[j] < v[i]) /\ i < j)
    <2>1. <<i, j>> \in order
             <=> \/ Comes(data[i], data[j], column, direction)
                 \/ ~Comes(data[j], data[i], column, direction) /\ i < j
      BY DEF Before
    <2> HIDE DEF order, v
    <2> QED BY <1>3, <2>1
  <1>5. \A i \in DOMAIN data : i \in Int
    BY <1>1
  <1> HIDE DEF order, v
  <1>6. \A i \in DOMAIN data : <<i, i>> \notin order
    BY <1>2, <1>4, <1>5
  <1>7. ASSUME NEW i \in DOMAIN data, NEW j \in DOMAIN data, NEW k \in DOMAIN data,
               <<i, j>> \in order, <<j, k>> \in order
        PROVE  <<i, k>> \in order
    <2>1. v[i] \in Int /\ v[j] \in Int /\ v[k] \in Int /\ i \in Int /\ j \in Int /\ k \in Int
      BY <1>2, <1>5
    <2>2. /\ v[i] < v[j] \/ (~(v[j] < v[i]) /\ i < j)
          /\ v[j] < v[k] \/ (~(v[k] < v[j]) /\ j < k)
      BY <1>4, <1>7
    <2>3. v[i] < v[k] \/ (~(v[k] < v[i]) /\ i < k)
      BY <2>1, <2>2
    <2> QED BY <1>4, <2>3
  <1>8. ASSUME NEW i \in DOMAIN data, NEW j \in DOMAIN data
        PROVE  i = j \/ <<i, j>> \in order \/ <<j, i>> \in order
    <2>1. v[i] \in Int /\ v[j] \in Int /\ i \in Int /\ j \in Int
      BY <1>2, <1>5
    <2>2. \/ i = j
          \/ v[i] < v[j] \/ (~(v[j] < v[i]) /\ i < j)
          \/ v[j] < v[i] \/ (~(v[i] < v[j]) /\ j < i)
      BY <2>1
    <2> QED BY <1>4, <2>2
  <1> QED BY <1>6, <1>7, <1>8 DEF Orders, order

\* Sorting loses no row and adds none, and sorts once and for all.
LEMMA SortedFacts ==
    ASSUME NEW data \in Seq(Rows), NEW column \in AllColumns \cup {NoColumn},
           NEW direction \in {"asc", "desc"}
    PROVE  /\ Sorted(data, column, direction) \in Seq(Rows)
           /\ Rearranges(Sorted(data, column, direction), data)
           /\ Sorted(Sorted(data, column, direction), column, direction)
                 = Sorted(data, column, direction)
  <1> DEFINE n == Len(data)
             order == Before(data, column, direction)
             p == InOrder(1 .. n, order)
             s == Sorted(data, column, direction)
             again == Before(s, column, direction)
             q == InOrder(1 .. n, again)
  <1>0. DOMAIN data = 1 .. n /\ n \in Nat /\ \A i \in 1 .. n : data[i] \in Rows
    BY LenProperties, ElementOfSeq
  <1>1. CASE column = NoColumn
    <2>1. s = data
      BY <1>1 DEF Sorted
    <2> DEFINE id == [i \in DOMAIN data |-> i]
    <2>2. id \in Bijection(DOMAIN data, DOMAIN data)
      BY DEF Bijection, Injection, Surjection, IsInjective
    <2>3. Rearranges(data, data)
      BY <2>2 DEF Rearranges
    <2> QED BY <2>1, <2>3
  <1>2. CASE column # NoColumn
    <2>t. column \in AllColumns
      BY <1>2
    <2>1. Orders(order, 1 .. n) /\ IsFiniteSet(1 .. n) /\ Cardinality(1 .. n) = n
      <3>1. Orders(order, DOMAIN data)
        BY <2>t, BeforeOrders
      <3> HIDE DEF order, n
      <3>2. IsFiniteSet(1 .. n) /\ Cardinality(1 .. n) = IF 1 > n THEN 0 ELSE n - 1 + 1
        BY <1>0, FS_Interval
      <3> QED BY <1>0, <3>1, <3>2
    <2>2. /\ p \in [1 .. n -> 1 .. n]
          /\ \A i, j \in 1 .. n : i < j => <<p[i], p[j]>> \in order
          /\ \A x \in 1 .. n : \E k \in 1 .. n : p[k] = x
      <3>1. Orders(order, 1 .. n)
        BY <2>1
      <3>2. IsFiniteSet(1 .. n)
        BY <2>1
      <3>3. Cardinality(1 .. n) = n
        BY <2>1
      <3> HIDE DEF order, n
      <3> QED BY <3>1, <3>2, <3>3, InOrderFacts
    <2>3. s = [i \in 1 .. n |-> data[p[i]]]
      BY <1>0, <1>2 DEF Sorted
    <2>o. \A i, j \in 1 .. n : <<i, j>> \in order
              <=> \/ Comes(data[i], data[j], column, direction)
                  \/ ~Comes(data[j], data[i], column, direction) /\ i < j
      BY <1>0 DEF Before
    <2> HIDE DEF p, s, order
    <2>4. s \in Seq(Rows) /\ Len(s) = n /\ DOMAIN s = 1 .. n
      <3>1. \A i \in 1 .. n : data[p[i]] \in Rows
        BY <1>0, <2>2
      <3> HIDE DEF n
      <3> QED BY <1>0, <2>3, <3>1
    <2>5. p \in Bijection(1 .. n, 1 .. n)
      <3>1. \A i, j \in 1 .. n : i < j => p[i] # p[j]
        BY <2>1, <2>2 DEF Orders
      <3>2. \A i, j \in 1 .. n : p[i] = p[j] => i = j
        BY <1>0, <3>1
      <3>3. DOMAIN p = 1 .. n
        BY <2>2
      <3> QED BY <2>2, <3>2, <3>3 DEF Bijection, Injection, Surjection, IsInjective
    <2>6. Rearranges(s, data)
      BY <1>0, <2>3, <2>4, <2>5 DEF Rearranges
    <2>7. Orders(again, 1 .. n)
      BY <2>t, <2>4, BeforeOrders
    <2>8. ASSUME NEW i \in 1 .. n, NEW j \in 1 .. n, i < j
          PROVE  <<i, j>> \in again
      <3>1. <<p[i], p[j]>> \in order /\ p[i] \in 1 .. n /\ p[j] \in 1 .. n
        BY <2>2, <2>8
      <3>2. s[i] = data[p[i]] /\ s[j] = data[p[j]] /\ s[i] \in Rows /\ s[j] \in Rows
        BY <1>0, <2>3, <3>1
      <3>3. \/ Comes(s[i], s[j], column, direction)
            \/ ~Comes(s[j], s[i], column, direction)
        BY <2>o, <3>1, <3>2
      <3> QED BY <2>4, <2>8, <3>3 DEF Before
    <2>9. \A i, j \in 1 .. n : <<i, j>> \in again <=> i < j
      <3> SUFFICES ASSUME NEW i \in 1 .. n, NEW j \in 1 .. n, <<i, j>> \in again
                   PROVE  i < j
        BY <2>8
      <3>1. i # j /\ <<j, i>> \notin again
        BY <2>7 DEF Orders
      <3>2. ~(j < i)
        BY <2>8, <3>1
      <3> QED BY <1>0, <3>1, <3>2
    <2>10. \A k \in 1 .. n : q[k] = k
      <3> HIDE DEF again, n
      <3> QED BY <1>0, <2>9, InOrderOfNumbers
    <2>11. Sorted(s, column, direction) = [i \in 1 .. n |-> s[q[i]]]
      BY <1>2, <2>4 DEF Sorted
    <2> HIDE DEF q
    <2>12. Sorted(s, column, direction) = [i \in 1 .. n |-> s[i]]
      BY <2>10, <2>11
    <2>13. [i \in 1 .. n |-> s[i]] = s
      BY <2>3
    <2> QED BY <2>4, <2>6, <2>12, <2>13 DEF s
  <1> QED BY <1>1, <1>2

----------------------------------------------------------------------------
(* Rows at some places.                                                    *)

LEMMA RowsAtFacts ==
    ASSUME NEW S, NEW s \in Seq(S), NEW I \in SUBSET (DOMAIN s)
    PROVE  /\ RowsAt(s, I) \in Seq(S)
           /\ \A k \in DOMAIN RowsAt(s, I) : \E i \in I : RowsAt(s, I)[k] = s[i]
           /\ I = DOMAIN s => RowsAt(s, I) = s
           /\ I = {} => RowsAt(s, I) = <<>>
           /\ I # {} => RowsAt(s, I) # <<>>
           /\ Len(s) \in I => RowsAt(s, I)[Len(RowsAt(s, I))] = s[Len(s)]
  <1> DEFINE order == {e \in I \X I : e[1] < e[2]}
             n == Cardinality(I)
             p == InOrder(I, order)
             t == RowsAt(s, I)
  <1>0. DOMAIN s = 1 .. Len(s) /\ Len(s) \in Nat /\ \A i \in DOMAIN s : s[i] \in S
    BY LenProperties, ElementOfSeq
  <1>1. \A i, j \in I : <<i, j>> \in order <=> i < j
    OBVIOUS
  <1>2. \A i \in I : i \in 1 .. Len(s) /\ i \in Int
    BY <1>0
  <1>3. Orders(order, I)
    <2> HIDE DEF order
    <2> QED BY <1>1, <1>2 DEF Orders
  <1>4. IsFiniteSet(I)
    <2>1. IsFiniteSet(1 .. Len(s))
      BY <1>0, FS_Interval
    <2> QED BY <1>0, <2>1, FS_Subset
  <1>5. /\ n \in Nat
        /\ p \in [1 .. n -> I]
        /\ \A i, j \in 1 .. n : i < j => <<p[i], p[j]>> \in order
        /\ \A x \in I : \E k \in 1 .. n : p[k] = x
    <2> HIDE DEF order
    <2> QED BY <1>3, <1>4, InOrderFacts
  <1>6. DOMAIN p = 1 .. n
    BY <1>5
  <1>7. t = [k \in 1 .. n |-> s[p[k]]]
    BY <1>6 DEF RowsAt
  <1>8. \A k \in 1 .. n : p[k] \in I /\ s[p[k]] \in S
    BY <1>0, <1>2, <1>5
  <1> HIDE DEF t, p, order
  <1>9. t \in Seq(S) /\ Len(t) = n /\ DOMAIN t = 1 .. n
    <2> HIDE DEF n
    <2> QED BY <1>5, <1>7, <1>8
  <1>10. \A k \in DOMAIN t : \E i \in I : t[k] = s[i]
    BY <1>7, <1>8, <1>9
  <1>11. ASSUME I = DOMAIN s
         PROVE  t = s
    <2>1. n = Len(s)
      <3>1. Cardinality(1 .. Len(s)) = IF 1 > Len(s) THEN 0 ELSE Len(s) - 1 + 1
        BY <1>0, FS_Interval
      <3> QED BY <1>0, <1>11, <3>1
    <2>2. \A k \in 1 .. Len(s) : p[k] = k
      <3>1. \A i, j \in 1 .. Len(s) : <<i, j>> \in order <=> i < j
        BY <1>0, <1>1, <1>11
      <3>2. I = 1 .. Len(s)
        BY <1>0, <1>11
      <3> QED BY <1>0, <3>1, <3>2, InOrderOfNumbers DEF p
    <2>3. \A k \in 1 .. Len(s) : t[k] = s[k]
      BY <1>7, <2>1, <2>2
    <2> QED BY <1>0, <1>9, <2>1, <2>3, SeqEqual
  <1>12. ASSUME I = {}
         PROVE  t = <<>>
    <2>1. n = 0
      BY <1>12, FS_EmptySet
    <2> QED BY <1>9, <2>1, EmptySeq
  <1>13. ASSUME I # {}
         PROVE  t # <<>>
    <2>1. n # 0
      BY <1>5, <1>13
    <2> QED BY <1>9, <2>1, EmptySeq
  <1>14. ASSUME Len(s) \in I
         PROVE  t[Len(t)] = s[Len(s)]
    <2>1. PICK k \in 1 .. n : p[k] = Len(s)
      BY <1>5, <1>14
    <2>2. k = n
      <3> SUFFICES ASSUME k # n
                   PROVE  FALSE
        OBVIOUS
      <3>1. k + 1 \in 1 .. n /\ k < k + 1
        BY <1>5
      <3>2. <<p[k], p[k + 1]>> \in order /\ p[k] \in I /\ p[k + 1] \in I
        BY <1>5, <1>8, <3>1
      <3>3. p[k] < p[k + 1]
        BY <1>1, <3>2
      <3>4. p[k + 1] \in 1 .. Len(s)
        BY <1>2, <3>2
      <3> QED BY <1>0, <2>1, <3>3, <3>4
    <2> QED BY <1>7, <1>9, <2>1, <2>2
  <1> QED BY <1>9, <1>10, <1>11, <1>12, <1>13, <1>14 DEF t

----------------------------------------------------------------------------
(* The chunks of an animation frame.  They are a fold, hence a recursion   *)
(* over the subsets of a set.  Inclusion of finite sets is well founded,   *)
(* so that there is a smallest counterexample to what is to be proved.     *)

LEMMA SmallestOfSets ==
    ASSUME NEW S, NEW T \in SUBSET (SUBSET S), IsFiniteSet(S), T # {}
    PROVE  \E U \in T : \A V \in T : V \subseteq U => V = U
  <1>1. T \subseteq FiniteSubsetsOf(S)
    BY FS_Subset DEF FiniteSubsetsOf
  <1>3. PICK U \in T : \A V \in T : <<V, U>> \notin StrictSubsetOrdering(S)
    BY <1>1, FS_StrictSubsetOrderingWellFounded, WFMin
  <1> QED BY <1>3 DEF StrictSubsetOrdering

SetsFrom(T, S) == IsFiniteSet(S) /\ T \subseteq SUBSET S /\ T # {}

LEMMA SmallestSet ==
    ASSUME NEW S, NEW T, SetsFrom(T, S)
    PROVE  \E U \in T : \A V \in T : V \subseteq U => V = U
  <1>1. T \in SUBSET (SUBSET S)
    BY DEF SetsFrom
  <1>2. IsFiniteSet(S)
    BY DEF SetsFrom
  <1>3. T # {}
    BY DEF SetsFrom
  <1> QED BY <1>1, <1>2, <1>3, SmallestOfSets

\* A finite set of numbers has a maximum: of the sets of what is larger than one of its
\* members, a minimal one is empty.
LEMMA MaxIsLargest ==
    ASSUME NEW S \in SUBSET Nat, IsFiniteSet(S), S # {}
    PROVE  Max(S) \in S /\ \A y \in S : Max(S) >= y
  <1> DEFINE Above(x) == {y \in S : y > x}
             T == {Above(x) : x \in S}
  <1>1. T \subseteq FiniteSubsetsOf(S) /\ T # {}
    <2>1. \A x \in S : Above(x) \in SUBSET S
      OBVIOUS
    <2>2. \A U \in SUBSET S : IsFiniteSet(U)
      BY FS_Subset
    <2> QED BY <2>1, <2>2 DEF FiniteSubsetsOf
  <1>2. PICK U \in T : \A V \in T : <<V, U>> \notin StrictSubsetOrdering(S)
    BY <1>1, FS_StrictSubsetOrderingWellFounded, WFMin
  <1>3. PICK x \in S : U = Above(x)
    BY <1>2
  <1>4. ASSUME NEW y \in S, y > x PROVE FALSE
    <2>n. x \in Nat /\ y \in Nat /\ \A z \in S : z \in Nat
      OBVIOUS
    <2>a. Above(y) \subseteq Above(x)
      <3>1. ASSUME NEW z \in S, z > y PROVE z > x
        BY <1>4, <2>n, <3>1
      <3> QED BY <3>1
    <2>1. Above(y) \subseteq Above(x) /\ y \in Above(x) /\ y \notin Above(y)
      BY <1>4, <2>n, <2>a
    <2>2. <<Above(y), U>> \in StrictSubsetOrdering(S)
      BY <1>3, <2>1 DEF StrictSubsetOrdering
    <2> QED BY <1>2, <1>4, <2>2
  <1>5. x \in S /\ \A y \in S : x >= y
    BY <1>4
  <1> QED BY <1>5 DEF Max

\* g is the recursive function of an animation frame's fold, on the sets of places in q.
Folds(g, S, base, q) ==
    g = [s \in SUBSET S |-> IF s = {} THEN base ELSE AppendChunk(g[s \ {Max(s)}], q[Max(s)])]

\* S is a finite set of numbers inside both.
Common(S, S1, S2) == S \subseteq Nat /\ IsFiniteSet(S) /\ S \subseteq S1 /\ S \subseteq S2

LEMMA FoldsAgree ==
    ASSUME NEW base, NEW q, NEW g, NEW h, NEW S1, NEW S2,
           Folds(g, S1, base, q), Folds(h, S2, base, q),
           NEW S, Common(S, S1, S2)
    PROVE  g[S] = h[S]
  <1>s. S \subseteq Nat /\ IsFiniteSet(S) /\ S \subseteq S1 /\ S \subseteq S2
    BY DEF Common
  <1> DEFINE T == {U \in SUBSET S : g[U] # h[U]}
  <1> SUFFICES ASSUME T # {} PROVE FALSE
    OBVIOUS
  <1>0. SetsFrom(T, S)
    BY <1>s DEF SetsFrom
  <1>m. \A s \in SUBSET S : s # {} => Max(s) \in s
    BY <1>s, MaxIsLargest, FS_Subset
  <1>1. PICK U \in T : \A V \in T : V \subseteq U => V = U
    <2> HIDE DEF T
    <2> QED BY <1>0, SmallestSet
  <1>2. U \in SUBSET S1 /\ U \in SUBSET S2 /\ U \in SUBSET S
    BY <1>s
  <1>3. /\ g[U] = IF U = {} THEN base ELSE AppendChunk(g[U \ {Max(U)}], q[Max(U)])
        /\ h[U] = IF U = {} THEN base ELSE AppendChunk(h[U \ {Max(U)}], q[Max(U)])
    BY <1>2 DEF Folds
  <1>4. CASE U = {}
    BY <1>3, <1>4
  <1>5. CASE U # {}
    <2>1. Max(U) \in U
      BY <1>m, <1>5
    <2>2. U \ {Max(U)} \notin T
      BY <1>1, <2>1
    <2> QED BY <1>2, <1>3, <1>5, <2>2
  <1> QED BY <1>4, <1>5

LEMMA FoldsExist ==
    ASSUME NEW base, NEW q, NEW S, S \subseteq Nat, IsFiniteSet(S)
    PROVE  \E g : Folds(g, S, base, q)
  <1> DEFINE T == {U \in SUBSET S : ~ \E g : Folds(g, U, base, q)}
             G(s) == CHOOSE g : Folds(g, s, base, q)
  <1> SUFFICES ASSUME T # {} PROVE FALSE
    OBVIOUS
  <1>0. SetsFrom(T, S)
    BY DEF SetsFrom
  <1>m. \A s \in SUBSET S : s # {} => Max(s) \in s
    BY MaxIsLargest, FS_Subset
  <1>1. PICK U \in T : \A V \in T : V \subseteq U => V = U
    <2> HIDE DEF T
    <2> QED BY <1>0, SmallestSet
  <1>2. \A s \in SUBSET U : s # U => Folds(G(s), s, base, q)
    <2>1. ASSUME NEW s \in SUBSET U, s # U PROVE \E g : Folds(g, s, base, q)
      BY <1>1, <2>1
    <2> QED BY <2>1
  <1> DEFINE h == [s \in SUBSET U |-> IF s = {} THEN base
                      ELSE AppendChunk(G(s \ {Max(s)})[s \ {Max(s)}], q[Max(s)])]
  <1>3. ASSUME NEW s \in SUBSET U, s # {}
        PROVE  G(s \ {Max(s)})[s \ {Max(s)}] = h[s \ {Max(s)}]
    <2> DEFINE t == s \ {Max(s)}
    <2>1. t \in SUBSET U /\ t # U
      <3>1. Max(s) \in s
        BY <1>m, <1>3
      <3> QED BY <3>1
    <2> HIDE DEF t
    <2>2. Folds(G(t), t, base, q)
      BY <1>2, <2>1
    <2> HIDE DEF G
    <2>3. G(t)[t] = IF t = {} THEN base ELSE AppendChunk(G(t)[t \ {Max(t)}], q[Max(t)])
      BY <2>2 DEF Folds
    <2>4. h[t] = IF t = {} THEN base ELSE AppendChunk(G(t \ {Max(t)})[t \ {Max(t)}], q[Max(t)])
      BY <2>1
    <2> HIDE DEF h
    <2>5. ASSUME t = {} PROVE G(t)[t] = h[t]
      BY <2>3, <2>4, <2>5
    <2>6. ASSUME t # {} PROVE G(t)[t] = h[t]
      <3> DEFINE v == t \ {Max(t)}
      <3>1. v \in SUBSET U /\ v # U /\ v \subseteq t
        <4>1. Max(t) \in t
          BY <1>m, <2>1, <2>6
        <4> QED BY <2>1, <4>1
      <3>2. Folds(G(v), v, base, q)
        BY <1>2, <3>1
      <3>3. IsFiniteSet(v) /\ v \subseteq Nat
        BY <3>1, FS_Subset
      <3> DEFINE a == G(t)
                 b == G(v)
      <3>4. Folds(a, t, base, q)
        BY <2>2
      <3>5. Folds(b, v, base, q)
        BY <3>2
      <3> HIDE DEF v, a, b
      <3>6. a[v] = b[v]
        <4>1. v \subseteq t /\ v \subseteq v
          BY <3>1
        <4>2. Common(v, t, v)
          BY <3>3, <4>1 DEF Common
        <4> QED BY <3>4, <3>5, <4>2, FoldsAgree
      <3>7. G(t)[v] = G(v)[v]
        BY <3>6 DEF a, b
      <3> QED BY <2>3, <2>4, <2>6, <3>7 DEF v
    <2>7. G(t)[t] = h[t]
      BY <2>5, <2>6
    <2> QED BY <2>7 DEF t
  <1>4. Folds(h, U, base, q)
    <2>1. \A s \in SUBSET U : h[s] = IF s = {} THEN base ELSE AppendChunk(h[s \ {Max(s)}], q[Max(s)])
      <3>1. ASSUME NEW s \in SUBSET U
            PROVE  h[s] = IF s = {} THEN base ELSE AppendChunk(G(s \ {Max(s)})[s \ {Max(s)}], q[Max(s)])
        <4> HIDE DEF G
        <4> QED OBVIOUS
      <3> HIDE DEF G, h
      <3> QED BY <1>3, <3>1
    <2>2. h = [s \in SUBSET U |-> h[s]]
      OBVIOUS
    <2> HIDE DEF h
    <2>3. h = [s \in SUBSET U |-> IF s = {} THEN base ELSE AppendChunk(h[s \ {Max(s)}], q[Max(s)])]
      BY <2>1, <2>2
    <2> QED BY <2>3 DEF Folds
  <1> QED BY <1>1, <1>4


\* What the chunks of a frame make of the body.
FrameOf(base, q) == FoldLeft(AppendChunk, base, q)

\* One chunk after the other, from the earliest rendering to the last.
LEMMA FrameUnfolds ==
    ASSUME NEW base, NEW q, NEW S, NEW s \in Seq(S), q = s
    PROVE  \E body : /\ body[0] = base
                     /\ \A k \in 1 .. Len(q) : body[k] = AppendChunk(body[k - 1], q[k])
                     /\ FrameOf(base, q) = body[Len(q)]
  <1> DEFINE n == Len(q)
             G(x) == CHOOSE g : Folds(g, x, base, q)
             body == [k \in 0 .. n |-> G(1 .. k)[1 .. k]]
  <1>1. DOMAIN q = 1 .. n /\ n \in Nat
    BY LenProperties
  <1>2. FrameOf(base, q) = G(1 .. n)[1 .. n]
    BY <1>1 DEF FrameOf, FoldLeft, MapThenFoldSet, Folds
  <1>3. ASSUME NEW k \in 0 .. n
        PROVE  Folds(G(1 .. k), 1 .. k, base, q)
    <2>1. 1 .. k \in SUBSET Nat /\ IsFiniteSet(1 .. k)
      BY <1>1, FS_Interval
    <2>2. \E g : Folds(g, 1 .. k, base, q)
      BY <2>1, FoldsExist
    <2> QED BY <2>2
  <1>4. body[0] = base
    <2>1. 0 \in 0 .. n /\ 1 .. 0 = {}
      BY <1>1
    <2>2. Folds(G(1 .. 0), 1 .. 0, base, q)
      BY <1>3, <2>1
    <2> HIDE DEF G
    <2>3. G(1 .. 0)[1 .. 0] = base
      BY <2>1, <2>2 DEF Folds
    <2> QED BY <2>1, <2>3
  <1>5. ASSUME NEW k \in 1 .. n
        PROVE  body[k] = AppendChunk(body[k - 1], q[k])
    <2>1. k \in 0 .. n /\ k - 1 \in 0 .. n /\ k \in Nat /\ 1 .. k - 1 \subseteq 1 .. k
      BY <1>1
    <2>2. Max(1 .. k) = k /\ 1 .. k # {} /\ (1 .. k) \ {k} = 1 .. k - 1
      <3>1. 1 .. k \in SUBSET Nat /\ IsFiniteSet(1 .. k) /\ k \in 1 .. k
        BY <1>1, FS_Interval
      <3>2. Max(1 .. k) \in 1 .. k /\ Max(1 .. k) >= k
        BY <3>1, MaxIsLargest
      <3>3. Max(1 .. k) = k
        BY <2>1, <3>2
      <3>4. (1 .. k) \ {k} = 1 .. k - 1
        BY <2>1
      <3> QED BY <3>1, <3>3, <3>4
    <2>3. Folds(G(1 .. k), 1 .. k, base, q) /\ Folds(G(1 .. k - 1), 1 .. k - 1, base, q)
      BY <1>3, <2>1
    <2>4. 1 .. k - 1 \subseteq Nat /\ IsFiniteSet(1 .. k - 1)
      <3>1. k - 1 \in Int /\ 1 \in Int
        BY <2>1
      <3> QED BY <3>1, FS_Interval
    <2> HIDE DEF G
    <2>5. G(1 .. k)[1 .. k] = AppendChunk(G(1 .. k)[1 .. k - 1], q[k])
      BY <2>2, <2>3 DEF Folds
    <2>6. G(1 .. k)[1 .. k - 1] = G(1 .. k - 1)[1 .. k - 1]
      <3>1. Common(1 .. k - 1, 1 .. k, 1 .. k - 1)
        BY <2>1, <2>4 DEF Common
      <3> QED BY <2>3, <3>1, FoldsAgree
    <2>7. body[k] = G(1 .. k)[1 .. k] /\ body[k - 1] = G(1 .. k - 1)[1 .. k - 1]
      BY <2>1
    <2> QED BY <2>5, <2>6, <2>7
  <1>6. body[n] = G(1 .. n)[1 .. n]
    BY <1>1
  <1> HIDE DEF body
  <1> QED BY <1>2, <1>4, <1>5, <1>6

----------------------------------------------------------------------------
(* Sums, folds as well.                                                    *)

Sum(f, S) == SumFunctionOnSet(f, S)

One(S) == CHOOSE x \in S : TRUE

\* g is the recursive function of the fold, on the subsets of S.
Sums(g, f, S) ==
    g = [s \in SUBSET S |-> IF s = {} THEN 0 ELSE f[One(s)] + g[s \ {One(s)}]]

LEMMA SumsAgree ==
    ASSUME NEW f, NEW g, NEW h, NEW S1, NEW S2, Sums(g, f, S1), Sums(h, f, S2),
           NEW S, IsFiniteSet(S), S \subseteq S1, S \subseteq S2
    PROVE  g[S] = h[S]
  <1> DEFINE T == {U \in SUBSET S : g[U] # h[U]}
  <1> SUFFICES ASSUME T # {} PROVE FALSE
    OBVIOUS
  <1>0. SetsFrom(T, S)
    BY DEF SetsFrom
  <1>1. PICK U \in T : \A V \in T : V \subseteq U => V = U
    <2> HIDE DEF T
    <2> QED BY <1>0, SmallestSet
  <1>2. U \in SUBSET S1 /\ U \in SUBSET S2 /\ U \in SUBSET S
    OBVIOUS
  <1>3. /\ g[U] = IF U = {} THEN 0 ELSE f[One(U)] + g[U \ {One(U)}]
        /\ h[U] = IF U = {} THEN 0 ELSE f[One(U)] + h[U \ {One(U)}]
    BY <1>2 DEF Sums
  <1>4. CASE U = {}
    BY <1>3, <1>4
  <1>5. CASE U # {}
    <2>1. One(U) \in U
      BY <1>5 DEF One
    <2>2. U \ {One(U)} \notin T
      BY <1>1, <2>1
    <2> QED BY <1>2, <1>3, <1>5, <2>2
  <1> QED BY <1>4, <1>5

LEMMA SumsExist ==
    ASSUME NEW f, NEW S, IsFiniteSet(S)
    PROVE  \E g : Sums(g, f, S)
  <1> DEFINE T == {U \in SUBSET S : ~ \E g : Sums(g, f, U)}
             G(s) == CHOOSE g : Sums(g, f, s)
  <1> SUFFICES ASSUME T # {} PROVE FALSE
    OBVIOUS
  <1>0. SetsFrom(T, S)
    BY DEF SetsFrom
  <1>1. PICK U \in T : \A V \in T : V \subseteq U => V = U
    <2> HIDE DEF T
    <2> QED BY <1>0, SmallestSet
  <1>2. \A s \in SUBSET U : s # U => Sums(G(s), f, s)
    <2>1. ASSUME NEW s \in SUBSET U, s # U PROVE \E g : Sums(g, f, s)
      BY <1>1, <2>1
    <2> QED BY <2>1
  <1> DEFINE h == [s \in SUBSET U |-> IF s = {} THEN 0
                      ELSE f[One(s)] + G(s \ {One(s)})[s \ {One(s)}]]
  <1>3. ASSUME NEW s \in SUBSET U, s # {}
        PROVE  G(s \ {One(s)})[s \ {One(s)}] = h[s \ {One(s)}]
    <2> DEFINE t == s \ {One(s)}
    <2>1. t \in SUBSET U /\ t # U
      <3>1. One(s) \in s
        BY <1>3 DEF One
      <3> QED BY <3>1
    <2> HIDE DEF t
    <2>2. Sums(G(t), f, t)
      BY <1>2, <2>1
    <2> HIDE DEF G
    <2>3. G(t)[t] = IF t = {} THEN 0 ELSE f[One(t)] + G(t)[t \ {One(t)}]
      BY <2>2 DEF Sums
    <2>4. h[t] = IF t = {} THEN 0 ELSE f[One(t)] + G(t \ {One(t)})[t \ {One(t)}]
      BY <2>1
    <2> HIDE DEF h
    <2>5. ASSUME t = {} PROVE G(t)[t] = h[t]
      BY <2>3, <2>4, <2>5
    <2>6. ASSUME t # {} PROVE G(t)[t] = h[t]
      <3> DEFINE v == t \ {One(t)}
      <3>1. v \in SUBSET U /\ v # U /\ v \subseteq t
        <4>1. One(t) \in t
          BY <2>6 DEF One
        <4> QED BY <2>1, <4>1
      <3>2. Sums(G(v), f, v)
        BY <1>2, <3>1
      <3>3. IsFiniteSet(v)
        BY <3>1, FS_Subset
      <3> DEFINE a == G(t)
                 b == G(v)
      <3>4. Sums(a, f, t)
        BY <2>2
      <3>5. Sums(b, f, v)
        BY <3>2
      <3> HIDE DEF v, a, b
      <3>6. a[v] = b[v]
        BY <3>1, <3>3, <3>4, <3>5, SumsAgree
      <3>7. G(t)[v] = G(v)[v]
        BY <3>6 DEF a, b
      <3> QED BY <2>3, <2>4, <2>6, <3>7 DEF v
    <2>7. G(t)[t] = h[t]
      BY <2>5, <2>6
    <2> QED BY <2>7 DEF t
  <1>4. Sums(h, f, U)
    <2>1. \A s \in SUBSET U : h[s] = IF s = {} THEN 0 ELSE f[One(s)] + h[s \ {One(s)}]
      <3>1. ASSUME NEW s \in SUBSET U
            PROVE  h[s] = IF s = {} THEN 0 ELSE f[One(s)] + G(s \ {One(s)})[s \ {One(s)}]
        <4> HIDE DEF G
        <4> QED OBVIOUS
      <3> HIDE DEF G, h
      <3> QED BY <1>3, <3>1
    <2>2. h = [s \in SUBSET U |-> h[s]]
      OBVIOUS
    <2> HIDE DEF h
    <2>3. h = [s \in SUBSET U |-> IF s = {} THEN 0 ELSE f[One(s)] + h[s \ {One(s)}]]
      BY <2>1, <2>2
    <2> QED BY <2>3 DEF Sums
  <1> QED BY <1>1, <1>4

LEMMA SumUnfolds ==
    ASSUME NEW f, NEW S, IsFiniteSet(S)
    PROVE  Sum(f, S) = IF S = {} THEN 0 ELSE f[One(S)] + Sum(f, S \ {One(S)})
  <1> DEFINE G(s) == CHOOSE g : Sums(g, f, s)
  <1>1. \A s : Sum(f, s) = G(s)[s]
    BY DEF Sum, SumFunctionOnSet, FoldFunctionOnSet, MapThenFoldSet, Sums, One
  <1>2. Sums(G(S), f, S)
    BY SumsExist
  <1>3. CASE S = {}
    <2> HIDE DEF G
    <2>1. S \in SUBSET S
      OBVIOUS
    <2>2. G(S)[S] = 0
      BY <1>2, <1>3, <2>1 DEF Sums
    <2> QED BY <1>1, <1>3, <2>2
  <1>4. CASE S # {}
    <2> DEFINE V == S \ {One(S)}
    <2>1. V \subseteq S /\ IsFiniteSet(V)
      BY FS_Subset
    <2>2. Sums(G(V), f, V)
      BY <2>1, SumsExist
    <2> HIDE DEF G
    <2>3. G(S)[V] = G(V)[V]
      BY <1>2, <2>1, <2>2, SumsAgree
    <2>4. G(S)[S] = f[One(S)] + G(S)[V]
      BY <1>2, <1>4 DEF Sums
    <2> QED BY <1>1, <1>4, <2>3, <2>4
  <1> QED BY <1>3, <1>4

\* The order in which a sum is taken does not matter.
LEMMA SumOf ==
    ASSUME NEW f, NEW S, IsFiniteSet(S), \A r \in S : f[r] \in Nat
    PROVE  /\ Sum(f, S) \in Nat
           /\ \A r \in S : Sum(f, S) = f[r] + Sum(f, S \ {r})
  <1> DEFINE T == {U \in SUBSET S : ~(/\ Sum(f, U) \in Nat
                                      /\ \A r \in U : Sum(f, U) = f[r] + Sum(f, U \ {r}))}
  <1> SUFFICES ASSUME T # {} PROVE FALSE
    OBVIOUS
  <1>0. SetsFrom(T, S)
    BY DEF SetsFrom
  <1>1. PICK U \in T : \A V \in T : V \subseteq U => V = U
    <2> HIDE DEF T
    <2> QED BY <1>0, SmallestSet
  <1>2. \A V \in SUBSET U : V # U => /\ Sum(f, V) \in Nat
                                     /\ \A r \in V : Sum(f, V) = f[r] + Sum(f, V \ {r})
    BY <1>1
  <1>3. Sum(f, U) = IF U = {} THEN 0 ELSE f[One(U)] + Sum(f, U \ {One(U)})
    <2>1. IsFiniteSet(U)
      BY FS_Subset
    <2> QED BY <2>1, SumUnfolds
  <1>4. CASE U = {}
    BY <1>3, <1>4
  <1>5. CASE U # {}
    <2> DEFINE y == One(U)
               W == U \ {y}
    <2>1. y \in U /\ f[y] \in Nat
      BY <1>5 DEF One
    <2>2. Sum(f, U) = f[y] + Sum(f, W)
      BY <1>3, <1>5
    <2> HIDE DEF y
    <2>3. W \in SUBSET U /\ W # U
      BY <2>1
    <2>4. Sum(f, W) \in Nat
      BY <1>2, <2>3
    <2>5. ASSUME NEW r \in U PROVE Sum(f, U) = f[r] + Sum(f, U \ {r})
      <3>1. CASE r = y
        BY <2>2, <3>1
      <3>2. CASE r # y
        <4> DEFINE X == U \ {r}
        <4>1. X \in SUBSET U /\ X # U /\ y \in X /\ r \in W /\ X \ {y} = W \ {r}
          BY <2>1, <3>2
        <4>2. W \ {r} \in SUBSET U /\ W \ {r} # U
          BY <2>1
        <4> HIDE DEF X, W
        <4>3. Sum(f, X) = f[y] + Sum(f, W \ {r})
          BY <1>2, <4>1
        <4>4. Sum(f, W) = f[r] + Sum(f, W \ {r})
          BY <1>2, <2>3, <4>1
        <4>5. Sum(f, W \ {r}) \in Nat /\ f[r] \in Nat
          BY <1>2, <4>2
        <4>6. Sum(f, U) = f[r] + Sum(f, X)
          BY <2>1, <2>2, <4>3, <4>4, <4>5
        <4> QED BY <4>6 DEF X
      <3> QED BY <3>1, <3>2
    <2> QED BY <2>1, <2>2, <2>4, <2>5
  <1> QED BY <1>4, <1>5

LEMMA SumOfUnion ==
    ASSUME NEW f, NEW A, NEW B, IsFiniteSet(A), IsFiniteSet(B), A \cap B = {},
           \A r \in A \cup B : f[r] \in Nat
    PROVE  Sum(f, A \cup B) = Sum(f, A) + Sum(f, B)
  <1> DEFINE T == {U \in SUBSET B : Sum(f, A \cup U) # Sum(f, A) + Sum(f, U)}
  <1> SUFFICES ASSUME T # {} PROVE FALSE
    OBVIOUS
  <1>0. SetsFrom(T, B)
    BY DEF SetsFrom
  <1>1. PICK U \in T : \A V \in T : V \subseteq U => V = U
    <2> HIDE DEF T
    <2> QED BY <1>0, SmallestSet
  <1>2. IsFiniteSet(U) /\ U \in SUBSET B /\ IsFiniteSet(A \cup U)
    BY FS_Subset, FS_Union
  <1>3. CASE U = {}
    <2>1. Sum(f, U) = 0
      BY <1>2, <1>3, SumUnfolds
    <2>2. Sum(f, A) \in Nat
      BY SumOf
    <2>3. A \cup U = A
      BY <1>3
    <2>4. Sum(f, A \cup U) = Sum(f, A)
      BY <2>3
    <2>5. Sum(f, A \cup U) # Sum(f, A) + Sum(f, U)
      BY <1>1
    <2> QED BY <2>1, <2>2, <2>4, <2>5
  <1>4. CASE U # {}
    <2>1. PICK r \in U : TRUE
      BY <1>4
    <2> DEFINE V == U \ {r}
    <2>2. Sum(f, A \cup V) = Sum(f, A) + Sum(f, V)
      BY <1>1, <1>2, <2>1
    <2>3. (A \cup U) \ {r} = A \cup V
      BY <1>2
    <2>4. /\ Sum(f, U) = f[r] + Sum(f, V)
          /\ Sum(f, A \cup U) = f[r] + Sum(f, A \cup V)
      BY <1>2, <2>3, SumOf
    <2>5. f[r] \in Nat /\ Sum(f, A) \in Nat /\ Sum(f, V) \in Nat
      <3>1. IsFiniteSet(V) /\ \A q \in V : f[q] \in Nat
        BY <1>2, FS_Subset
      <3> QED BY <1>2, <3>1, SumOf
    <2> HIDE DEF V
    <2> QED BY <2>2, <2>4, <2>5
  <1> QED BY <1>3, <1>4

----------------------------------------------------------------------------
(* Type correctness.                                                       *)

Shown == [row : Rows, cells : Modes]
Notices == {"", "rendering", "nothing matches", "no statistics"}

\* What the browser shows of the table.
DisplayTyped ==
    /\ notice \in Notices /\ shown \in Seq(Shown) /\ frames \in Seq(Rendering)
    /\ drawn \in {"alone", "after others", "over others"} /\ cleared \in BOOLEAN

LEMMA LeastNumber ==
    ASSUME NEW T, T \subseteq Nat, IsFiniteSet(T), T # {}
    PROVE  \E m \in T : \A k \in T : m <= k
  <1> DEFINE Below(x) == {y \in T : y < x}
             B == {Below(x) : x \in T}
  <1>1. SetsFrom(B, T)
    BY DEF SetsFrom
  <1>2. PICK U \in B : \A V \in B : V \subseteq U => V = U
    <2> HIDE DEF B
    <2> QED BY <1>1, SmallestSet
  <1>3. PICK x \in T : U = Below(x)
    BY <1>2
  <1>4. ASSUME NEW y \in T, y < x PROVE FALSE
    <2>1. x \in Nat /\ y \in Nat /\ \A z \in T : z \in Nat
      OBVIOUS
    <2>2. Below(y) \subseteq Below(x)
      <3>1. ASSUME NEW z \in T, z < y PROVE z < x
        BY <1>4, <2>1, <3>1
      <3> QED BY <3>1
    <2>3. y \in Below(x) /\ y \notin Below(y)
      BY <1>4, <2>1
    <2>4. Below(y) \in B
      OBVIOUS
    <2> HIDE DEF Below
    <2> QED BY <1>2, <1>3, <2>2, <2>3, <2>4
  <1>5. \A k \in T : x <= k
    BY <1>4
  <1> QED BY <1>5

\* A chunk ends inside the data, and after its beginning while there are rows left.
LEMMA ChunkEndFacts ==
    ASSUME NEW f \in Rendering
    PROVE  /\ ChunkEnd(f) \in Nat /\ ChunkEnd(f) <= Len(f.data) /\ ChunkEnd(f) <= f.index + ChunkSize
           /\ ChunkEnd(f) = f.index + ChunkSize \/ ChunkEnd(f) = Len(f.data)
           /\ f.index < Len(f.data) => f.index < ChunkEnd(f)
           /\ Len(f.data) = 0 => ChunkEnd(f) = 0
  <1>1. /\ f.index \in Nat /\ f.data \in Seq(Rows) /\ Len(f.data) \in Nat
        /\ ChunkSize \in Nat /\ ChunkSize > 0
    BY StatsTableAssumption, LenProperties DEF Rendering, StatsTableAssumption
  <1> DEFINE a == f.index + ChunkSize
             b == Len(f.data)
  <1>2. a \in Nat /\ b \in Nat /\ f.index < a
    BY <1>1
  <1>3. ChunkEnd(f) = CHOOSE x \in {a, b} : \A y \in {a, b} : x <= y
    BY DEF ChunkEnd, Min
  <1> HIDE DEF a, b
  <1>4. \E x \in {a, b} : \A y \in {a, b} : x <= y
    BY <1>2
  <1>5. ChunkEnd(f) \in {a, b} /\ \A y \in {a, b} : ChunkEnd(f) <= y
    BY <1>3, <1>4
  <1>6. /\ ChunkEnd(f) \in Nat /\ ChunkEnd(f) <= a /\ ChunkEnd(f) <= b
        /\ ChunkEnd(f) = a \/ ChunkEnd(f) = b
        /\ f.index < b => f.index < ChunkEnd(f)
        /\ b = 0 => ChunkEnd(f) = 0
    BY <1>1, <1>2, <1>5
  <1> QED BY <1>6 DEF a, b

LEMMA CellsFacts ==
    ASSUME NEW data \in Seq(Rows), NEW mode \in Modes
    PROVE  /\ Cells(data, mode) \in Seq(Shown)
           /\ Len(Cells(data, mode)) = Len(data)
           /\ DOMAIN Cells(data, mode) = DOMAIN data
           /\ \A i \in DOMAIN data : Cells(data, mode)[i] = [row |-> data[i], cells |-> mode]
  <1>1. DOMAIN data = 1 .. Len(data) /\ Len(data) \in Nat /\ \A i \in DOMAIN data : data[i] \in Rows
    BY LenProperties, ElementOfSeq
  <1>2. Cells(data, mode) = [i \in 1 .. Len(data) |-> [row |-> data[i], cells |-> mode]]
    BY <1>1 DEF Cells
  <1>3. \A i \in 1 .. Len(data) : [row |-> data[i], cells |-> mode] \in Shown
    BY <1>1 DEF Shown
  <1> QED BY <1>1, <1>2, <1>3

\* The rows of a chunk, as they are drawn.
Chunk(f) == Cells(SubSeq(f.data, f.index + 1, ChunkEnd(f)), "detailed")

LEMMA ChunkFacts ==
    ASSUME NEW f \in Rendering
    PROVE  /\ SubSeq(f.data, f.index + 1, ChunkEnd(f)) \in Seq(Rows)
           /\ Chunk(f) \in Seq(Shown)
           /\ \A i \in DOMAIN Chunk(f) :
                 Chunk(f)[i].cells = "detailed" /\ \E j \in DOMAIN f.data : Chunk(f)[i].row = f.data[j]
  <1> DEFINE s == SubSeq(f.data, f.index + 1, ChunkEnd(f))
  <1>1. /\ f.index \in Nat /\ f.data \in Seq(Rows) /\ Len(f.data) \in Nat
        /\ DOMAIN f.data = 1 .. Len(f.data)
    BY LenProperties DEF Rendering
  <1>2. ChunkEnd(f) \in Nat /\ ChunkEnd(f) <= Len(f.data)
    BY ChunkEndFacts
  <1>3. \A i \in f.index + 1 .. ChunkEnd(f) : i \in DOMAIN f.data /\ f.data[i] \in Rows
    <2>1. \A i \in f.index + 1 .. ChunkEnd(f) : i \in 1 .. Len(f.data)
      BY <1>1, <1>2
    <2> QED BY <1>1, <2>1, ElementOfSeq
  <1>4. /\ s \in Seq(Rows)
        /\ Len(s) = IF f.index + 1 <= ChunkEnd(f) THEN ChunkEnd(f) - (f.index + 1) + 1 ELSE 0
        /\ \A i \in 1 .. ChunkEnd(f) - (f.index + 1) + 1 : s[i] = f.data[f.index + 1 + i - 1]
    <2>1. f.index + 1 \in Int /\ ChunkEnd(f) \in Int
      BY <1>1, <1>2
    <2> QED BY <1>3, <2>1, SubSeqProperties
  <1>5. \A i \in DOMAIN s : \E j \in DOMAIN f.data : s[i] = f.data[j]
    <2> SUFFICES ASSUME NEW i \in DOMAIN s
                 PROVE  \E j \in DOMAIN f.data : s[i] = f.data[j]
      OBVIOUS
    <2>1. i \in 1 .. Len(s)
      BY <1>4, LenProperties
    <2> HIDE DEF s
    <2>2. i \in 1 .. ChunkEnd(f) - (f.index + 1) + 1 /\ f.index + 1 + i - 1 \in f.index + 1 .. ChunkEnd(f)
      BY <1>1, <1>2, <1>4, <2>1
    <2> QED BY <1>3, <1>4, <2>2
  <1> HIDE DEF s
  <1>6. /\ Cells(s, "detailed") \in Seq(Shown) /\ DOMAIN Cells(s, "detailed") = DOMAIN s
        /\ \A i \in DOMAIN s : Cells(s, "detailed")[i] = [row |-> s[i], cells |-> "detailed"]
    BY <1>4, CellsFacts DEF Modes
  <1>7. Chunk(f) = Cells(s, "detailed")
    BY DEF Chunk, s
  <1>8. ASSUME NEW i \in DOMAIN Chunk(f)
        PROVE  Chunk(f)[i].cells = "detailed" /\ \E j \in DOMAIN f.data : Chunk(f)[i].row = f.data[j]
    <2>1. i \in DOMAIN s /\ Chunk(f)[i] = [row |-> s[i], cells |-> "detailed"]
      BY <1>6, <1>7
    <2>2. Chunk(f)[i].cells = "detailed" /\ Chunk(f)[i].row = s[i]
      BY <2>1
    <2> QED BY <1>5, <2>1, <2>2
  <1>9. Chunk(f) \in Seq(Shown)
    BY <1>6, <1>7
  <1>10. SubSeq(f.data, f.index + 1, ChunkEnd(f)) \in Seq(Rows)
    BY <1>4 DEF s
  <1> QED BY <1>8, <1>9, <1>10

\* What holds before the first chunk and is kept by each holds after the last: the
\* smallest chunk after which it does not would have one before it.
LEMMA FrameInvariant ==
    ASSUME NEW base, NEW S, NEW q, NEW s \in Seq(S), q = s, NEW I, base \in I[0],
           \A k \in 1 .. Len(q) : \A b \in I[k - 1] : AppendChunk(b, q[k]) \in I[k]
    PROVE  FrameOf(base, q) \in I[Len(q)]
  <1>1. PICK body : /\ body[0] = base
                    /\ \A k \in 1 .. Len(q) : body[k] = AppendChunk(body[k - 1], q[k])
                    /\ FrameOf(base, q) = body[Len(q)]
    BY FrameUnfolds
  <1> DEFINE n == Len(q)
             Bad == {k \in 0 .. n : body[k] \notin I[k]}
  <1>2. n \in Nat
    BY LenProperties
  <1>3. ASSUME Bad # {} PROVE FALSE
    <2>1. Bad \subseteq Nat /\ IsFiniteSet(Bad)
      <3>1. IsFiniteSet(0 .. n)
        BY <1>2, FS_Interval
      <3> QED BY <1>2, <3>1, FS_Subset
    <2>2. PICK m \in Bad : \A k \in Bad : m <= k
      <3> HIDE DEF Bad
      <3> QED BY <1>3, <2>1, LeastNumber
    <2>3. m \in 0 .. n /\ body[m] \notin I[m]
      OBVIOUS
    <2>4. m # 0
      BY <1>1, <2>3
    <2>5. m \in 1 .. n /\ m - 1 \in 0 .. n /\ m - 1 < m
      BY <1>2, <2>3, <2>4
    <2>6. body[m - 1] \in I[m - 1]
      <3>1. m - 1 \notin Bad
        BY <1>2, <2>2, <2>5
      <3> QED BY <2>5, <3>1
    <2>7. body[m] = AppendChunk(body[m - 1], q[m])
      BY <1>1, <2>5
    <2>8. AppendChunk(body[m - 1], q[m]) \in I[m]
      BY <2>5, <2>6
    <2> QED BY <2>3, <2>7, <2>8
  <1>4. body[n] \in I[n]
    BY <1>2, <1>3
  <1> QED BY <1>1, <1>4

\* What the chunks of a frame make of the table's body.
Body == [notice : Notices, rows : Seq(Shown)]

LEMMA AppendChunkTyped ==
    ASSUME NEW b \in Body, NEW f \in Rendering
    PROVE  AppendChunk(b, f) \in Body
  <1> DEFINE c == Chunk(f)
  <1>1. c \in Seq(Shown)
    BY ChunkFacts
  <1>2. AppendChunk(b, f) = IF f.index = 0 THEN [notice |-> "", rows |-> c]
                            ELSE [b EXCEPT !.rows = b.rows \o c]
    BY DEF AppendChunk, Chunk
  <1> HIDE DEF c
  <1>3. b.rows \o c \in Seq(Shown)
    <2>1. b.rows \in Seq(Shown)
      BY DEF Body
    <2> HIDE DEF Shown
    <2> QED BY <1>1, <2>1, ConcatProperties
  <1>4. [notice |-> "", rows |-> c] \in Body /\ [b EXCEPT !.rows = b.rows \o c] \in Body
    BY <1>1, <1>3 DEF Body, Notices
  <1> QED BY <1>2, <1>4

\* A rendering with its index moved to the end of its chunk is one still.
LEMMA FrameMoves ==
    ASSUME frames \in Seq(Rendering)
    PROVE  /\ [i \in DOMAIN frames |-> [frames[i] EXCEPT !.index = ChunkEnd(frames[i])]] \in Seq(Rendering)
           /\ \A i \in DOMAIN frames : frames[i] \in Rendering
           /\ DOMAIN frames = 1 .. Len(frames) /\ Len(frames) \in Nat
  <1>1. /\ DOMAIN frames = 1 .. Len(frames) /\ Len(frames) \in Nat
        /\ \A i \in DOMAIN frames : frames[i] \in Rendering
    BY LenProperties, ElementOfSeq
  <1>2. \A i \in DOMAIN frames : [frames[i] EXCEPT !.index = ChunkEnd(frames[i])] \in Rendering
    <2> SUFFICES ASSUME NEW i \in DOMAIN frames
                 PROVE  [frames[i] EXCEPT !.index = ChunkEnd(frames[i])] \in Rendering
      OBVIOUS
    <2>1. frames[i] \in Rendering /\ ChunkEnd(frames[i]) \in Nat
      BY <1>1, ChunkEndFacts
    <2> QED BY <2>1 DEF Rendering
  <1> QED BY <1>1, <1>2

LEMMA FrameTyped ==
    ASSUME DisplayTyped, AnimationFrame
    PROVE  DisplayTyped'
  <1> DEFINE base == [notice |-> notice, rows |-> shown]
             moved == [i \in DOMAIN frames |-> [frames[i] EXCEPT !.index = ChunkEnd(frames[i])]]
             left == {i \in DOMAIN frames : ChunkEnd(frames[i]) < Len(frames[i].data)}
             I == [k \in 0 .. Len(frames) |-> Body]
  <1>1. /\ frames \in Seq(Rendering) /\ notice \in Notices /\ shown \in Seq(Shown)
        /\ notice' = FrameOf(base, frames).notice /\ shown' = FrameOf(base, frames).rows
        /\ frames' = RowsAt(moved, left)
        /\ UNCHANGED <<drawn, cleared>>
    BY DEF DisplayTyped, AnimationFrame, FrameOf
  <1>2. FrameOf(base, frames) \in Body
    <2>1. base \in Body
      BY <1>1 DEF Body
    <2>2. Len(frames) \in Nat /\ \A k \in 1 .. Len(frames) : frames[k] \in Rendering
      BY <1>1, FrameMoves
    <2>3. \A k \in 1 .. Len(frames) : \A b \in Body : AppendChunk(b, frames[k]) \in Body
      BY <2>2, AppendChunkTyped
    <2>4. \A k \in 0 .. Len(frames) : I[k] = Body
      OBVIOUS
    <2> HIDE DEF I, base
    <2>5. base \in I[0] /\ I[Len(frames)] = Body
      BY <2>1, <2>2, <2>4
    <2>6. \A k \in 1 .. Len(frames) : k \in 0 .. Len(frames) /\ k - 1 \in 0 .. Len(frames)
      BY <2>2
    <2>7. \A k \in 1 .. Len(frames) : \A b \in I[k - 1] : AppendChunk(b, frames[k]) \in I[k]
      BY <2>3, <2>4, <2>6
    <2>8. FrameOf(base, frames) \in I[Len(frames)]
      BY <1>1, <2>5, <2>7, FrameInvariant
    <2> QED BY <2>5, <2>8
  <1>3. RowsAt(moved, left) \in Seq(Rendering)
    <2>1. moved \in Seq(Rendering)
      BY <1>1, FrameMoves
    <2>2. left \in SUBSET (DOMAIN moved)
      OBVIOUS
    <2> HIDE DEF moved, left
    <2> QED BY <2>1, <2>2, RowsAtFacts
  <1> HIDE DEF base, moved, left
  <1>4. notice' \in Notices /\ shown' \in Seq(Shown)
    BY <1>1, <1>2 DEF Body
  <1>5. drawn' \in {"alone", "after others", "over others"} /\ cleared' \in BOOLEAN
    BY <1>1 DEF DisplayTyped
  <1>6. frames' \in Seq(Rendering)
    BY <1>1, <1>3
  <1> QED BY <1>4, <1>5, <1>6 DEF DisplayTyped

LEMMA DetachedTyped ==
    ASSUME frames \in Seq(Rendering)
    PROVE  /\ Detached \in Seq(Rendering)
           /\ DOMAIN Detached = DOMAIN frames
           /\ \A i \in DOMAIN frames :
                 Detached[i].data = frames[i].data /\ Detached[i].index = frames[i].index
           /\ frames = <<>> => Detached = <<>>
  <1>1. /\ \A i \in DOMAIN frames : frames[i] \in Rendering
        /\ DOMAIN frames = 1 .. Len(frames) /\ Len(frames) \in Nat
    BY FrameMoves
  <1>2. \A i \in DOMAIN frames : [frames[i] EXCEPT !.live = FALSE] \in Rendering
    BY <1>1 DEF Rendering
  <1>3. \A i \in DOMAIN frames : Detached[i] = [frames[i] EXCEPT !.live = FALSE]
    BY DEF Detached
  <1>4. DOMAIN Detached = 1 .. Len(frames)
    BY <1>1 DEF Detached
  <1>5. Detached \in Seq(Rendering)
    BY <1>1, <1>2 DEF Detached
  <1>6. \A i \in DOMAIN frames :
           Detached[i].data = frames[i].data /\ Detached[i].index = frames[i].index
    BY <1>1, <1>3 DEF Rendering
  <1>7. ASSUME frames = <<>> PROVE Detached = <<>>
    <2>1. Len(Detached) = 0
      BY <1>1, <1>4, <1>5, <1>7, LenProperties
    <2> HIDE DEF Rendering
    <2> QED BY <1>5, <2>1, EmptySeq
  <1> QED BY <1>1, <1>4, <1>5, <1>6, <1>7

LEMMA RenderTyped ==
    ASSUME DisplayTyped, NEW mode \in Modes, NEW data \in Seq(Rows), NEW live \in BOOLEAN,
           NEW others \in Seq(Rendering), RenderTableData(mode, data, live, others)
    PROVE  DisplayTyped'
  <1>1. drawn' \in {"alone", "after others", "over others"} /\ cleared' = FALSE
    BY DEF RenderTableData, Meets
  <1>2. CASE mode = "aggregated"
    <2>1. Cells(data, "aggregated") \in Seq(Shown)
      BY CellsFacts DEF Modes
    <2>2. notice' = "" /\ shown' = Cells(data, "aggregated") /\ frames' = others
      BY <1>2 DEF RenderTableData, RenderAggregated
    <2> QED BY <1>1, <2>1, <2>2 DEF DisplayTyped, Notices
  <1>3. CASE mode # "aggregated"
    <2> DEFINE f == [data |-> data, index |-> 0, live |-> live]
    <2>1. notice' = "rendering" /\ shown' = <<>> /\ frames' = Append(others, f)
      BY <1>3 DEF RenderTableData, RenderDetailed
    <2>2. f \in Rendering
      BY DEF Rendering
    <2> HIDE DEF f
    <2>3. Append(others, f) \in Seq(Rendering)
      BY <2>2, AppendProperties
    <2>4. shown' \in Seq(Shown)
      BY <2>1, EmptySeq
    <2> QED BY <1>1, <2>1, <2>3, <2>4 DEF DisplayTyped, Notices
  <1> QED BY <1>2, <1>3

LEMMA FilteredFacts ==
    ASSUME NEW data \in Seq(Rows), NEW text \in Texts, NEW level
    PROVE  /\ Filtered(data, text, level) \in Seq(Rows)
           /\ \A k \in DOMAIN Filtered(data, text, level) :
                 \E i \in DOMAIN data : Filtered(data, text, level)[k] = data[i]
           /\ text = NoText /\ level = NoLevel => Filtered(data, text, level) = data
  <1> DEFINE I == {i \in DOMAIN data : data[i] \in Found[text] /\ (level = NoLevel \/ data[i].Level = level)}
  <1>1. Filtered(data, text, level) = RowsAt(data, I)
    BY DEF Filtered
  <1>2. I \in SUBSET (DOMAIN data)
    OBVIOUS
  <1>3. ASSUME text = NoText, level = NoLevel PROVE I = DOMAIN data
    <2>1. Found[text] = Rows /\ \A i \in DOMAIN data : data[i] \in Rows
      BY <1>3, StatsTableAssumption, LenProperties, ElementOfSeq DEF StatsTableAssumption
    <2> QED BY <1>3, <2>1
  <1> HIDE DEF I
  <1>4. /\ RowsAt(data, I) \in Seq(Rows)
        /\ \A k \in DOMAIN RowsAt(data, I) : \E i \in I : RowsAt(data, I)[k] = data[i]
        /\ I = DOMAIN data => RowsAt(data, I) = data
    BY <1>2, RowsAtFacts
  <1> QED BY <1>1, <1>2, <1>3, <1>4

\* What the table is made from, and the user's settings of it.
DataTyped ==
    /\ currentData \in Seq(Rows) /\ filteredData \in Seq(Rows)
    /\ sortColumn \in AllColumns \cup {NoColumn} /\ sortDirection \in {"asc", "desc"}
    /\ quickFilterText \in Texts /\ quickFilterLevel \in Levels \cup {NoLevel}
    /\ currentViewMode \in Modes

LEMMA TableParts == TableTypeOK <=> DataTyped /\ DisplayTyped
  <1>1. Shown = [row : Rows, cells : Modes]
    BY DEF Shown
  <1>2. Notices = {"", "rendering", "nothing matches", "no statistics"}
    BY DEF Notices
  <1>3. ASSUME TableTypeOK PROVE DataTyped /\ DisplayTyped
    BY <1>1, <1>2, <1>3 DEF TableTypeOK, DataTyped, DisplayTyped, AllColumns
  <1>4. ASSUME DataTyped, DisplayTyped PROVE TableTypeOK
    BY <1>1, <1>2, <1>4 DEF TableTypeOK, DataTyped, DisplayTyped, AllColumns
  <1> QED BY <1>3, <1>4

LEMMA AnimationFrameTyped ==
    ASSUME TableTypeOK, AnimationFrame
    PROVE  TableTypeOK'
  <1>1. DataTyped /\ DisplayTyped
    BY TableParts
  <1>2. DisplayTyped'
    BY <1>1, FrameTyped
  <1>3. DataTyped'
    BY <1>1 DEF DataTyped, AnimationFrame
  <1> QED BY <1>2, <1>3, TableParts, PTL

LEMMA SortTableTyped ==
    ASSUME TableTypeOK, NEW column \in AllColumns, SortTable(column)
    PROVE  TableTypeOK'
  <1>1. DataTyped /\ DisplayTyped
    BY TableParts
  <1> DEFINE direction == IF column = sortColumn /\ sortDirection = "asc" THEN "desc" ELSE "asc"
             data == Sorted(filteredData, column, direction)
             others == [i \in DOMAIN frames |->
                           IF frames[i].live THEN [frames[i] EXCEPT !.data = data] ELSE frames[i]]
  <1>2. /\ sortColumn' = column /\ sortDirection' = direction /\ filteredData' = data
        /\ RenderTableData(currentViewMode, data, TRUE, others)
        /\ UNCHANGED <<currentData, quickFilterText, quickFilterLevel, currentViewMode>>
    BY DEF SortTable
  <1>3. direction \in {"asc", "desc"}
    OBVIOUS
  <1>4. data \in Seq(Rows)
    <2> HIDE DEF direction
    <2> QED BY <1>1, <1>3, SortedFacts DEF DataTyped
  <1> HIDE DEF direction, data
  <1>5. others \in Seq(Rendering)
    <2>1. /\ \A i \in DOMAIN frames : frames[i] \in Rendering
          /\ DOMAIN frames = 1 .. Len(frames) /\ Len(frames) \in Nat
      BY <1>1, FrameMoves DEF DisplayTyped
    <2>2. \A i \in DOMAIN frames :
             (IF frames[i].live THEN [frames[i] EXCEPT !.data = data] ELSE frames[i]) \in Rendering
      BY <1>4, <2>1 DEF Rendering
    <2> HIDE DEF Rendering
    <2> QED BY <2>1, <2>2
  <1> HIDE DEF others
  <1>6. DisplayTyped'
    BY <1>1, <1>2, <1>4, <1>5, RenderTyped DEF DataTyped
  <1>7. DataTyped'
    BY <1>1, <1>2, <1>3, <1>4 DEF DataTyped
  <1> QED BY <1>6, <1>7, TableParts, PTL

LEMMA FilterTableTyped ==
    ASSUME TableTypeOK, NEW text \in Texts, NEW level \in Levels \cup {NoLevel}, FilterTable(text, level)
    PROVE  TableTypeOK'
  <1>1. DataTyped /\ DisplayTyped
    BY TableParts
  <1> DEFINE data == Sorted(Filtered(currentData, text, level), sortColumn, sortDirection)
  <1>2. /\ quickFilterText' = text /\ quickFilterLevel' = level /\ filteredData' = data
        /\ UNCHANGED <<currentData, sortColumn, sortDirection, currentViewMode>>
    BY DEF FilterTable
  <1>3. data \in Seq(Rows)
    <2>1. Filtered(currentData, text, level) \in Seq(Rows)
      BY <1>1, FilteredFacts DEF DataTyped
    <2> QED BY <1>1, <2>1, SortedFacts DEF DataTyped
  <1>4. Detached \in Seq(Rendering)
    BY <1>1, DetachedTyped DEF DisplayTyped
  <1>5. \/ RenderTableData(currentViewMode, data, TRUE, Detached)
        \/ /\ notice' = "nothing matches" /\ shown' = <<>>
           /\ frames' = IF currentViewMode = "aggregated" THEN Detached
                        ELSE Append(Detached, [data |-> data, index |-> 0, live |-> TRUE])
           /\ Meets(currentViewMode) /\ cleared' = FALSE
    BY DEF FilterTable
  <1> HIDE DEF data
  <1>6. DisplayTyped'
    <2>1. CASE RenderTableData(currentViewMode, data, TRUE, Detached)
      BY <1>1, <1>3, <1>4, <2>1, RenderTyped DEF DataTyped
    <2>2. CASE /\ notice' = "nothing matches" /\ shown' = <<>>
               /\ frames' = IF currentViewMode = "aggregated" THEN Detached
                            ELSE Append(Detached, [data |-> data, index |-> 0, live |-> TRUE])
               /\ Meets(currentViewMode) /\ cleared' = FALSE
      <3> DEFINE f == [data |-> data, index |-> 0, live |-> TRUE]
      <3>1. f \in Rendering
        BY <1>3 DEF Rendering
      <3>2. frames' = Detached \/ frames' = Append(Detached, f)
        BY <2>2
      <3> HIDE DEF f, Rendering
      <3>3. Append(Detached, f) \in Seq(Rendering)
        BY <1>4, <3>1, AppendProperties
      <3>4. frames' \in Seq(Rendering)
        BY <1>4, <3>2, <3>3
      <3>5. shown' \in Seq(Shown)
        BY <2>2, EmptySeq
      <3>6. drawn' \in {"alone", "after others", "over others"} /\ cleared' = FALSE
            /\ notice' = "nothing matches"
        BY <2>2 DEF Meets
      <3> QED BY <3>4, <3>5, <3>6 DEF DisplayTyped, Notices
    <2> QED BY <1>5, <2>1, <2>2
  <1>7. DataTyped'
    BY <1>1, <1>2, <1>3 DEF DataTyped
  <1> QED BY <1>6, <1>7, TableParts, PTL

\* The part of a response's handler that concerns the table.
LEMMA LoadedTyped ==
    ASSUME TableTypeOK, NEW r, r.viewMode \in Modes, NEW answer \in Seq(Rows), Loaded(r, answer)
    PROVE  TableTypeOK'
  <1>1. DataTyped /\ DisplayTyped
    BY TableParts
  <1>2. /\ currentData' = Sorted(answer, sortColumn, sortDirection) /\ filteredData' = answer
        /\ quickFilterText' = NoText /\ quickFilterLevel' = NoLevel
        /\ UNCHANGED <<sortColumn, sortDirection, currentViewMode>>
    BY DEF Loaded, ResetQuickFilter
  <1>3. Sorted(answer, sortColumn, sortDirection) \in Seq(Rows)
    BY <1>1, SortedFacts DEF DataTyped
  <1>4. DataTyped'
    BY <1>1, <1>2, <1>3, StatsTableAssumption DEF DataTyped, StatsTableAssumption
  <1>5. Detached \in Seq(Rendering)
    BY <1>1, DetachedTyped DEF DisplayTyped
  <1>6. \/ RenderTableData(r.viewMode, Sorted(answer, sortColumn, sortDirection), FALSE, Detached)
        \/ /\ notice' = "no statistics" /\ shown' = <<>>
           /\ frames' = Detached /\ Meets("aggregated") /\ cleared' = FALSE
    BY <1>2 DEF Loaded, ShowNothing
  <1>7. DisplayTyped'
    <2>1. CASE RenderTableData(r.viewMode, Sorted(answer, sortColumn, sortDirection), FALSE, Detached)
      BY <1>1, <1>3, <1>5, <2>1, RenderTyped
    <2>2. CASE /\ notice' = "no statistics" /\ shown' = <<>>
               /\ frames' = Detached /\ Meets("aggregated") /\ cleared' = FALSE
      <3>1. shown' \in Seq(Shown) /\ frames' \in Seq(Rendering)
        BY <1>5, <2>2, EmptySeq
      <3>2. drawn' \in {"alone", "after others", "over others"}
        BY <2>2 DEF Meets
      <3> QED BY <2>2, <3>1, <3>2 DEF DisplayTyped, Notices
    <2> QED BY <1>6, <2>1, <2>2
  <1> QED BY <1>4, <1>7, TableParts, PTL

\* The part of every load, up to the request, that concerns the table and the requests.
LEMMA BeginLoadTyped ==
    ASSUME DashboardTypeOK, NEW mode \in Modes, BeginLoad(mode), currentViewMode' \in Modes
    PROVE  /\ TableTypeOK'
           /\ inflight' \in SUBSET [id : 1 .. MaxLoads, viewMode : Modes]
           /\ loads' \in 0 .. MaxLoads /\ thead' \in Modes
           /\ newest' \in BOOLEAN /\ loading' \in BOOLEAN /\ errorShown' \in BOOLEAN
  <1>1. DataTyped /\ DisplayTyped
    BY TableParts DEF DashboardTypeOK
  <1>2. DataTyped'
    BY <1>1 DEF DataTyped, BeginLoad
  <1>3. DisplayTyped'
    <2>1. shown' \in Seq(Shown)
      BY EmptySeq DEF BeginLoad
    <2> QED BY <1>1, <2>1 DEF DisplayTyped, BeginLoad, Notices
  <1>4. TableTypeOK'
    BY <1>2, <1>3, TableParts, PTL
  <1>5. loads' \in 1 .. MaxLoads /\ loads' \in 0 .. MaxLoads
    <2>1. loads \in 0 .. MaxLoads /\ loads < MaxLoads /\ loads' = loads + 1
      BY DEF DashboardTypeOK, BeginLoad
    <2>2. MaxLoads \in Nat
      BY DashboardAssumption DEF DashboardAssumption
    <2> QED BY <2>1, <2>2
  <1>6. inflight' \in SUBSET [id : 1 .. MaxLoads, viewMode : Modes]
    <2>1. inflight \in SUBSET [id : 1 .. MaxLoads, viewMode : Modes]
      BY DEF DashboardTypeOK
    <2>2. inflight' = inflight \cup {[id |-> loads', viewMode |-> mode]}
      BY DEF BeginLoad, Request
    <2> QED BY <1>5, <2>1, <2>2
  <1>7. thead' = mode /\ newest' = FALSE /\ loading' = TRUE /\ errorShown' = FALSE
    BY DEF BeginLoad
  <1> QED BY <1>4, <1>5, <1>6, <1>7

----------------------------------------------------------------------------
(* Every step keeps the types.                                             *)

\* What a step that leaves the loads alone has to show.
OthersTyped ==
    /\ viewMode \in Modes /\ thead \in Modes
    /\ inflight \in SUBSET [id : 1 .. MaxLoads, viewMode : Modes] /\ loads \in 0 .. MaxLoads
    /\ newest \in BOOLEAN /\ loading \in BOOLEAN /\ errorShown \in BOOLEAN
    /\ searchInput \in Texts /\ searchTimer \in BOOLEAN
    /\ selectedLevels \in SUBSET Levels
    /\ autoRefresh \in BOOLEAN
    /\ panels \in [Panels -> {"", "loading", "shown", "error"}]
    /\ fetches \in [DOMAIN Fills -> Nat]
    /\ acts \in 0 .. MaxActs

LEMMA TypeParts == DashboardTypeOK <=> TableTypeOK /\ OthersTyped
  BY DEF DashboardTypeOK, OthersTyped

LEMMA ActTyped ==
    ASSUME OthersTyped, Act
    PROVE  acts' \in 0 .. MaxActs
  <1>1. acts \in 0 .. MaxActs /\ acts < MaxActs /\ acts' = acts + 1 /\ MaxActs \in Nat
    BY DashboardAssumption DEF OthersTyped, Act, DashboardAssumption
  <1> QED BY <1>1

LEMMA TableKept ==
    ASSUME TableTypeOK, UNCHANGED tableVars
    PROVE  TableTypeOK'
  BY DEF TableTypeOK, tableVars, Rendering

LEMMA ModesAre == "detailed" \in Modes /\ "aggregated" \in Modes
  BY DEF Modes

\* What a load begun in a mode leaves: the other variables are for its caller to set.
LEMMA LoadBegun ==
    ASSUME DashboardTypeOK, NEW mode \in Modes, BeginLoad(mode), currentViewMode' \in Modes,
           viewMode' \in Modes, UNCHANGED <<searchVars, chartVars, autoRefresh>>,
           panels' \in [Panels -> {"", "loading", "shown", "error"}],
           fetches' \in [DOMAIN Fills -> Nat], acts' \in 0 .. MaxActs
    PROVE  DashboardTypeOK'
  <1>1. TableTypeOK /\ OthersTyped
    BY TypeParts
  <1>2. /\ TableTypeOK'
        /\ inflight' \in SUBSET [id : 1 .. MaxLoads, viewMode : Modes]
        /\ loads' \in 0 .. MaxLoads /\ thead' \in Modes
        /\ newest' \in BOOLEAN /\ loading' \in BOOLEAN /\ errorShown' \in BOOLEAN
    BY BeginLoadTyped
  <1>3. OthersTyped'
    BY <1>1, <1>2 DEF OthersTyped, searchVars, chartVars
  <1> QED BY <1>2, <1>3, TypeParts, PTL

\* A load begun by Apply, a refresh, or the form.
LEMMA LoadActs ==
    ASSUME DashboardTypeOK, Act, NEW mode \in Modes, BeginLoad(mode), currentViewMode' \in Modes,
           viewMode' \in Modes, UNCHANGED <<searchVars, chartVars, pageVars, autoRefresh>>
    PROVE  DashboardTypeOK'
  <1>1. OthersTyped
    BY TypeParts
  <1>2. /\ panels' \in [Panels -> {"", "loading", "shown", "error"}]
        /\ fetches' \in [DOMAIN Fills -> Nat] /\ acts' \in 0 .. MaxActs
    BY <1>1, ActTyped DEF OthersTyped, pageVars
  <1> QED BY <1>2, LoadBegun

LEMMA NavigateTyped ==
    ASSUME DashboardTypeOK, NEW p \in Pages, Navigate(p)
    PROVE  DashboardTypeOK'
  <1>1. TableTypeOK /\ OthersTyped
    BY TypeParts
  <1>2. panels' \in [Panels -> {"", "loading", "shown", "error"}]
    <2>1. panels' = [x \in Panels |-> IF x \in Filled(p) THEN "loading" ELSE panels[x]]
      BY DEF Navigate
    <2>2. \A x \in Panels : panels[x] \in {"", "loading", "shown", "error"}
      BY <1>1 DEF OthersTyped
    <2> QED BY <2>1, <2>2
  <1>3. fetches' \in [DOMAIN Fills -> Nat]
    <2>1. fetches' = [e \in DOMAIN Fills |-> IF e \in Asked(p) THEN fetches[e] + 1 ELSE fetches[e]]
      BY DEF Navigate
    <2>2. \A e \in DOMAIN Fills : fetches[e] \in Nat
      BY <1>1 DEF OthersTyped
    <2> QED BY <2>1, <2>2
  <1>4. acts' \in 0 .. MaxActs
    BY <1>1, ActTyped DEF Navigate
  <1>5. CASE BeginLoad(viewMode) /\ UNCHANGED <<currentViewMode, viewMode>>
    <2>1. viewMode \in Modes /\ viewMode' \in Modes
      BY <1>1, <1>5 DEF OthersTyped
    <2>2. currentViewMode' \in Modes
      BY <1>1, <1>5, TableParts DEF DataTyped
    <2>3. UNCHANGED <<searchVars, chartVars, autoRefresh>>
      BY DEF Navigate
    <2> QED BY <1>2, <1>3, <1>4, <1>5, <2>1, <2>2, <2>3, LoadBegun
  <1>6. CASE UNCHANGED <<tableVars, loadVars>>
    <2>1. TableTypeOK'
      BY <1>1, <1>6, TableKept
    <2>2. OthersTyped'
      BY <1>1, <1>2, <1>3, <1>4, <1>6 DEF OthersTyped, Navigate, loadVars, searchVars, chartVars
    <2> QED BY <2>1, <2>2, TypeParts, PTL
  <1> QED BY <1>5, <1>6 DEF Navigate

LEMMA FilterTyped ==
    ASSUME DashboardTypeOK, NEW text \in Texts, NEW level \in Levels \cup {NoLevel},
           ApplyQuickFilter(text, level), searchInput' \in Texts, searchTimer' \in BOOLEAN,
           acts' \in 0 .. MaxActs
    PROVE  DashboardTypeOK'
  <1>1. TableTypeOK /\ OthersTyped
    BY TypeParts
  <1>2. TableTypeOK'
    BY <1>1, FilterTableTyped DEF ApplyQuickFilter
  <1>3. OthersTyped'
    BY <1>1 DEF OthersTyped, ApplyQuickFilter, loadVars, pageVars
  <1> QED BY <1>2, <1>3, TypeParts, PTL

LEMMA SeriesTyped ==
    ASSUME DashboardTypeOK, Act, NEW loggers, NEW levels \in SUBSET Levels, DrawSeries(loggers, levels)
    PROVE  DashboardTypeOK'
  <1>1. TableTypeOK /\ OthersTyped
    BY TypeParts
  <1>2. TableTypeOK'
    BY <1>1, TableKept DEF DrawSeries
  <1>3. acts' \in 0 .. MaxActs
    BY <1>1, ActTyped
  <1>4. OthersTyped'
    BY <1>1, <1>3 DEF OthersTyped, DrawSeries, loadVars, searchVars, pageVars
  <1> QED BY <1>2, <1>4, TypeParts, PTL

LEMMA TypeInit == DashboardInit => DashboardTypeOK
  <1> SUFFICES ASSUME DashboardInit PROVE DashboardTypeOK
    OBVIOUS
  <1>1. TableTypeOK
    <2>1. DataTyped
      BY EmptySeq, StatsTableAssumption DEF DashboardInit, TableInit, DataTyped, StatsTableAssumption, Modes
    <2>2. DisplayTyped
      BY EmptySeq DEF DashboardInit, TableInit, DisplayTyped, Notices
    <2> QED BY <2>1, <2>2, TableParts
  <1>2. PICK p \in StartPages :
          /\ loads = IF p = "dashboard" THEN 2 ELSE 1
          /\ panels = [x \in Panels |-> IF x \in Filled(p) THEN "loading" ELSE ""]
          /\ fetches = [e \in DOMAIN Fills |-> IF e \in Asked(p) THEN 1 ELSE 0]
    BY DEF DashboardInit
  <1>3. loads \in 0 .. MaxLoads
    <2>1. MaxLoads \in Nat /\ MaxLoads >= 2
      BY DashboardAssumption DEF DashboardAssumption
    <2>2. loads = 1 \/ loads = 2
      BY <1>2
    <2> QED BY <2>1, <2>2
  <1>4. inflight \in SUBSET [id : 1 .. MaxLoads, viewMode : Modes]
    <2>1. inflight = [id : 1 .. loads, viewMode : {"detailed"}]
      BY DEF DashboardInit
    <2>2. 1 .. loads \subseteq 1 .. MaxLoads
      <3>1. MaxLoads \in Nat
        BY DashboardAssumption DEF DashboardAssumption
      <3> QED BY <1>3, <3>1
    <2> QED BY <2>1, <2>2, ModesAre
  <1>5. /\ viewMode = "detailed" /\ thead = "detailed" /\ newest = FALSE /\ loading = TRUE
        /\ errorShown = FALSE /\ searchInput = NoText /\ searchTimer = FALSE
        /\ selectedLevels = {DefaultLevel} /\ autoRefresh = FALSE /\ acts = 0
    BY DEF DashboardInit
  <1>6. NoText \in Texts /\ DefaultLevel \in Levels /\ MaxActs \in Nat
    BY StatsTableAssumption, DashboardAssumption DEF StatsTableAssumption, DashboardAssumption
  <1>7. panels \in [Panels -> {"", "loading", "shown", "error"}]
    BY <1>2
  <1>8. fetches \in [DOMAIN Fills -> Nat]
    BY <1>2
  <1>9. OthersTyped
    <2>1. viewMode \in Modes /\ thead \in Modes /\ selectedLevels \in SUBSET Levels
      BY <1>5, <1>6, ModesAre
    <2>2. /\ newest \in BOOLEAN /\ loading \in BOOLEAN /\ errorShown \in BOOLEAN
          /\ searchTimer \in BOOLEAN /\ autoRefresh \in BOOLEAN
      BY <1>5
    <2>3. searchInput \in Texts
      BY <1>5, <1>6
    <2>4. acts \in 0 .. MaxActs
      BY <1>5, <1>6
    <2> QED BY <1>3, <1>4, <1>7, <1>8, <2>1, <2>2, <2>3, <2>4 DEF OthersTyped
  <1> QED BY <1>1, <1>9, TypeParts

LEMMA TypeStep == DashboardTypeOK /\ [DashboardNext]_dashboardVars => DashboardTypeOK'
  <1> SUFFICES ASSUME DashboardTypeOK, [DashboardNext]_dashboardVars
               PROVE  DashboardTypeOK'
    OBVIOUS
  <1>1. TableTypeOK /\ OthersTyped
    BY TypeParts
  <1>2. DataTyped /\ DisplayTyped
    BY <1>1, TableParts
  <1>3. /\ inflight \in SUBSET [id : 1 .. MaxLoads, viewMode : Modes]
        /\ viewMode \in Modes /\ currentViewMode \in Modes /\ thead \in Modes
        /\ searchInput \in Texts /\ quickFilterText \in Texts
        /\ quickFilterLevel \in Levels \cup {NoLevel} /\ NoText \in Texts
        /\ selectedLevels \in SUBSET Levels /\ acts \in 0 .. MaxActs
    BY <1>1, <1>2, StatsTableAssumption DEF OthersTyped, DataTyped, StatsTableAssumption
  <1>4. ASSUME NEW r \in inflight, NEW answer \in Answers[r.viewMode], Loaded(r, answer)
        PROVE  DashboardTypeOK'
    <2>1. r.viewMode \in Modes
      BY <1>3
    <2>2. answer \in Seq(Rows)
      BY <2>1, DashboardAssumption DEF DashboardAssumption
    <2>3. TableTypeOK'
      BY <1>1, <1>4, <2>1, <2>2, LoadedTyped
    <2>4. OthersTyped'
      <3>1. /\ inflight' = inflight \ {r} /\ loading' = FALSE /\ newest' \in BOOLEAN
            /\ searchInput' = NoText
            /\ UNCHANGED <<viewMode, thead, loads, errorShown, searchTimer, selectedLevels,
                           pageVars, autoRefresh, acts>>
        BY <1>4 DEF Loaded, ResetQuickFilter
      <3> QED BY <1>1, <1>3, <3>1 DEF OthersTyped, pageVars
    <2> QED BY <2>3, <2>4, TypeParts, PTL
  <1>5. ASSUME NEW r \in inflight, LoadFails(r)
        PROVE  DashboardTypeOK'
    <2>1. TableTypeOK'
      BY <1>1, <1>5, TableKept DEF LoadFails
    <2>2. OthersTyped'
      BY <1>1, <1>5 DEF OthersTyped, LoadFails, searchVars, chartVars, pageVars
    <2> QED BY <2>1, <2>2, TypeParts, PTL
  <1>6. CASE Frame
    <2>1. TableTypeOK'
      BY <1>1, <1>6, AnimationFrameTyped DEF Frame
    <2>2. OthersTyped'
      BY <1>1, <1>6 DEF OthersTyped, Frame, loadVars, searchVars, chartVars, pageVars
    <2> QED BY <2>1, <2>2, TypeParts, PTL
  <1>7. CASE SearchTimerFires
    <2>1. /\ searchTimer' \in BOOLEAN /\ searchInput' \in Texts /\ acts' \in 0 .. MaxActs
          /\ ApplyQuickFilter(searchInput, quickFilterLevel)
      BY <1>3, <1>7 DEF SearchTimerFires
    <2> QED BY <1>3, <2>1, FilterTyped
  <1>8. CASE AutoRefreshFires
    <2>1. Act /\ BeginLoad(viewMode)
          /\ UNCHANGED <<currentViewMode, viewMode, searchVars, chartVars, pageVars, autoRefresh>>
      BY <1>8 DEF AutoRefreshFires
    <2> QED BY <1>3, <2>1, LoadActs
  <1>9. ASSUME NEW e \in DOMAIN Fills, InfoResponse(e)
        PROVE  DashboardTypeOK'
    <2>1. PICK outcome \in {"shown", "error"} : InfoAnswered(e, outcome)
      BY <1>9 DEF InfoResponse
    <2>2. TableTypeOK'
      BY <1>1, <2>1, TableKept DEF InfoAnswered
    <2>3. fetches' \in [DOMAIN Fills -> Nat]
      <3>1. fetches[e] > 0 /\ fetches' = [fetches EXCEPT ![e] = fetches[e] - 1]
            /\ fetches \in [DOMAIN Fills -> Nat]
        BY <1>1, <2>1 DEF InfoAnswered, OthersTyped
      <3> HIDE DEF Fills
      <3>2. fetches[e] - 1 \in Nat
        BY <3>1
      <3> QED BY <3>1, <3>2
    <2>4. panels' \in [Panels -> {"", "loading", "shown", "error"}]
      <3>1. panels' = [x \in Panels |-> IF x \in Fills[e] THEN outcome ELSE panels[x]]
        BY <2>1 DEF InfoAnswered
      <3>2. \A x \in Panels : panels[x] \in {"", "loading", "shown", "error"}
        BY <1>1 DEF OthersTyped
      <3> QED BY <3>1, <3>2
    <2>5. OthersTyped'
      BY <1>1, <2>1, <2>3, <2>4 DEF OthersTyped, InfoAnswered, loadVars, searchVars, chartVars
    <2> QED BY <2>2, <2>5, TypeParts, PTL
  <1>10. CASE Refresh
    <2>1. Act /\ BeginLoad(viewMode)
          /\ UNCHANGED <<currentViewMode, viewMode, searchVars, chartVars, pageVars, autoRefresh>>
      BY <1>10 DEF Refresh
    <2> QED BY <1>3, <2>1, LoadActs
  <1>11. CASE ClearFilters
    <2>1. Act /\ BeginLoad("detailed") /\ viewMode' = "detailed"
          /\ UNCHANGED <<currentViewMode, searchVars, chartVars, pageVars, autoRefresh>>
      BY <1>11 DEF ClearFilters
    <2> QED BY <1>3, <2>1, LoadActs, ModesAre
  <1>12. CASE ToggleAutoRefresh
    <2>1. TableTypeOK'
      BY <1>1, <1>12, TableKept DEF ToggleAutoRefresh
    <2>2. acts' \in 0 .. MaxActs
      BY <1>1, <1>12, ActTyped DEF ToggleAutoRefresh
    <2>3. autoRefresh' \in BOOLEAN
      BY <1>1, <1>12 DEF ToggleAutoRefresh, OthersTyped
    <2>4. OthersTyped'
      BY <1>1, <1>12, <2>2, <2>3 DEF OthersTyped, ToggleAutoRefresh, loadVars, searchVars, chartVars, pageVars
    <2> QED BY <2>1, <2>4, TypeParts, PTL
  <1>13. CASE ClearQuickFilter
    <2>1. acts' \in 0 .. MaxActs
      BY <1>1, <1>13, ActTyped DEF ClearQuickFilter
    <2>2. /\ searchInput' = NoText /\ searchTimer' \in BOOLEAN
          /\ ApplyQuickFilter(NoText, NoLevel) /\ NoLevel \in Levels \cup {NoLevel}
      BY <1>1, <1>13 DEF ClearQuickFilter, OthersTyped
    <2> QED BY <1>3, <2>1, <2>2, FilterTyped
  <1>14. CASE SelectTopLoggers
    <2>1. PICK top \in TopLoggers(filteredData) : DrawSeries(top, selectedLevels)
      BY <1>14 DEF SelectTopLoggers
    <2> QED BY <1>3, <1>14, <2>1, SeriesTyped DEF SelectTopLoggers
  <1>15. ASSUME NEW mode \in Modes, ChangeViewMode(mode)
         PROVE  DashboardTypeOK'
    <2>1. Act /\ BeginLoad(mode) /\ viewMode' = mode /\ currentViewMode' = mode
          /\ UNCHANGED <<searchVars, chartVars, pageVars, autoRefresh>>
      BY <1>15 DEF ChangeViewMode
    <2> QED BY <2>1, LoadActs
  <1>16. ASSUME NEW text \in Texts, Type(text)
         PROVE  DashboardTypeOK'
    <2>1. TableTypeOK'
      BY <1>1, <1>16, TableKept DEF Type
    <2>2. acts' \in 0 .. MaxActs
      BY <1>1, <1>16, ActTyped DEF Type
    <2>3. OthersTyped'
      BY <1>1, <1>16, <2>2 DEF OthersTyped, Type, loadVars, chartVars, pageVars
    <2> QED BY <2>1, <2>3, TypeParts, PTL
  <1>17. ASSUME NEW level \in Levels \cup {NoLevel}, PickLevel(level)
         PROVE  DashboardTypeOK'
    <2>1. acts' \in 0 .. MaxActs
      BY <1>1, <1>17, ActTyped DEF PickLevel
    <2>2. searchInput' \in Texts /\ searchTimer' \in BOOLEAN /\ ApplyQuickFilter(quickFilterText, level)
      BY <1>1, <1>17 DEF PickLevel, searchVars, OthersTyped
    <2> QED BY <1>3, <2>1, <2>2, FilterTyped
  <1>18. ASSUME NEW column \in Columns[thead], ClickHeader(column)
         PROVE  DashboardTypeOK'
    <2>1. column \in AllColumns
      BY <1>3 DEF AllColumns
    <2>2. TableTypeOK'
      BY <1>1, <1>18, <2>1, SortTableTyped DEF ClickHeader
    <2>3. acts' \in 0 .. MaxActs
      BY <1>1, <1>18, ActTyped DEF ClickHeader
    <2>4. OthersTyped'
      BY <1>1, <1>18, <2>3 DEF OthersTyped, ClickHeader, loadVars, searchVars, chartVars, pageVars
    <2> QED BY <2>2, <2>4, TypeParts, PTL
  <1>19. ASSUME NEW loggers, SelectLoggers(loggers)
         PROVE  DashboardTypeOK'
    BY <1>3, <1>19, SeriesTyped DEF SelectLoggers
  <1>20. ASSUME NEW levels \in SUBSET Levels, SelectLevels(levels)
         PROVE  DashboardTypeOK'
    BY <1>20, SeriesTyped DEF SelectLevels
  <1>21. CASE UNCHANGED dashboardVars
    <2>1. TableTypeOK'
      BY <1>1, <1>21, TableKept DEF dashboardVars
    <2>2. OthersTyped'
      BY <1>1, <1>21 DEF OthersTyped, dashboardVars, loadVars, searchVars, chartVars, pageVars
    <2> QED BY <2>1, <2>2, TypeParts, PTL
  <1>22. ASSUME LoadAnswered PROVE DashboardTypeOK'
    BY <1>4, <1>5, <1>22 DEF LoadAnswered
  <1>23. ASSUME NEW p \in Pages, Navigate(p) PROVE DashboardTypeOK'
    BY <1>23, NavigateTyped
  <1> HIDE DEF DashboardTypeOK
  <1> QED
    BY <1>6, <1>7, <1>8, <1>9, <1>10, <1>11, <1>12, <1>13, <1>14, <1>15, <1>16, <1>17,
       <1>18, <1>19, <1>20, <1>21, <1>22, <1>23 DEF DashboardNext

\* The table, the charts, the form and the panels hold what they are meant to hold.
THEOREM DashboardTyped == DashboardSpec => []DashboardTypeOK
  <1>1. DashboardInit => DashboardTypeOK
    BY TypeInit
  <1>2. DashboardTypeOK /\ [DashboardNext]_dashboardVars => DashboardTypeOK'
    BY TypeStep
  <1> QED BY <1>1, <1>2, PTL DEF DashboardSpec

----------------------------------------------------------------------------
(* The filter in force.                                                    *)

\* A sort keeps every row as often as it is there.
LEMMA SameBag ==
    ASSUME NEW s \in Seq(Rows), NEW t \in Seq(Rows), Rearranges(s, t)
    PROVE  ToBag(s) = ToBag(t)
  <1>1. PICK p \in Bijection(DOMAIN s, DOMAIN t) : \A i \in DOMAIN s : s[i] = t[p[i]]
    BY DEF Rearranges
  <1>2. /\ p \in [DOMAIN s -> DOMAIN t]
        /\ \A a, b \in DOMAIN s : p[a] = p[b] => a = b
        /\ \A j \in DOMAIN t : \E i \in DOMAIN s : p[i] = j
    BY <1>1, Fun_BijectionProperties
  <1> DEFINE At(u, x) == {i \in DOMAIN u : u[i] = x}
  <1>3. Range(s) = Range(t)
    BY <1>1, <1>2 DEF Range
  <1>4. ASSUME NEW x PROVE Cardinality(At(s, x)) = Cardinality(At(t, x))
    <2> DEFINE h == [i \in At(s, x) |-> p[i]]
    <2>1. h \in [At(s, x) -> At(t, x)] /\ \A a, b \in At(s, x) : h[a] = h[b] => a = b
      BY <1>1, <1>2
    <2>2. \A j \in At(t, x) : \E i \in At(s, x) : h[i] = j
      BY <1>1, <1>2
    <2>3. IsFiniteSet(At(s, x))
      <3>1. IsFiniteSet(DOMAIN s)
        <4>1. DOMAIN s = 1 .. Len(s) /\ Len(s) \in Nat
          BY LenProperties
        <4> QED BY <4>1, FS_Interval
      <3> QED BY <3>1, FS_Subset
    <2> HIDE DEF At, h
    <2>4. h \in Bijection(At(s, x), At(t, x))
      BY <2>1, <2>2 DEF Bijection, Injection, Surjection, IsInjective
    <2>5. ExistsBijection(At(s, x), At(t, x))
      BY <2>4 DEF ExistsBijection
    <2> QED BY <2>3, <2>5, FS_Bijection
  <1>5. ToBag(s) = [x \in Range(s) |-> Cardinality(At(s, x))]
        /\ ToBag(t) = [x \in Range(t) |-> Cardinality(At(t, x))]
    BY DEF ToBag
  <1> HIDE DEF At
  <1> QED BY <1>3, <1>4, <1>5

FilteredIsMeant == ToBag(filteredData) = ToBag(Filtered(currentData, quickFilterText, quickFilterLevel))
SearchIsMeant == ~searchTimer => quickFilterText = searchInput

LEMMA SortedBag ==
    ASSUME NEW data \in Seq(Rows), NEW column \in AllColumns \cup {NoColumn},
           NEW direction \in {"asc", "desc"}
    PROVE  ToBag(Sorted(data, column, direction)) = ToBag(data)
  BY SortedFacts, SameBag

LEMMA FilterTableMeant ==
    ASSUME DataTyped, NEW text \in Texts, NEW level, FilterTable(text, level)
    PROVE  FilteredIsMeant'
  <1>1. /\ filteredData' = Sorted(Filtered(currentData, text, level), sortColumn, sortDirection)
        /\ quickFilterText' = text /\ quickFilterLevel' = level /\ currentData' = currentData
    BY DEF FilterTable
  <1>2. Filtered(currentData, text, level) \in Seq(Rows)
    BY FilteredFacts DEF DataTyped
  <1>3. ToBag(filteredData') = ToBag(Filtered(currentData, text, level))
    BY <1>1, <1>2, SortedBag DEF DataTyped
  <1> QED BY <1>1, <1>3 DEF FilteredIsMeant

LEMMA FilterInit == DashboardInit => FilterInForce
  <1> SUFFICES ASSUME DashboardInit PROVE FilterInForce
    OBVIOUS
  <1>1. /\ currentData = <<>> /\ filteredData = <<>> /\ quickFilterText = NoText
        /\ quickFilterLevel = NoLevel /\ searchInput = NoText
    BY DEF DashboardInit, TableInit
  <1>2. <<>> \in Seq(Rows) /\ NoText \in Texts
    BY EmptySeq, StatsTableAssumption DEF StatsTableAssumption
  <1>3. Filtered(<<>>, NoText, NoLevel) = <<>>
    BY <1>2, FilteredFacts
  <1> QED BY <1>1, <1>3 DEF FilterInForce

LEMMA FilterStep ==
    ASSUME DashboardTypeOK, FilterInForce, [DashboardNext]_dashboardVars
    PROVE  FilterInForce'
  <1>1. TableTypeOK /\ OthersTyped
    BY TypeParts
  <1>2. DataTyped
    BY <1>1, TableParts
  <1>3. FilteredIsMeant /\ SearchIsMeant
    BY DEF FilterInForce, FilteredIsMeant, SearchIsMeant
  <1>4. ASSUME UNCHANGED <<currentData, filteredData, quickFilterText, quickFilterLevel>>
        PROVE  FilteredIsMeant'
    BY <1>3, <1>4 DEF FilteredIsMeant
  <1>5. ASSUME UNCHANGED <<quickFilterText, searchInput, searchTimer>>
        PROVE  SearchIsMeant'
    BY <1>3, <1>5 DEF SearchIsMeant
  <1>6. ASSUME UNCHANGED tableVars
        PROVE  /\ UNCHANGED <<currentData, filteredData, quickFilterText, quickFilterLevel>>
               /\ UNCHANGED quickFilterText
    BY <1>6 DEF tableVars
  <1>7. ASSUME NEW mode, BeginLoad(mode)
        PROVE  UNCHANGED <<currentData, filteredData, quickFilterText, quickFilterLevel>>
    BY <1>7 DEF BeginLoad
  <1> DEFINE Goal == FilteredIsMeant' /\ SearchIsMeant'
  <1>8. ASSUME LoadAnswered PROVE Goal
    <2>1. ASSUME NEW r \in inflight, NEW answer \in Answers[r.viewMode], Loaded(r, answer)
          PROVE  Goal
      <3>1. /\ currentData' = Sorted(answer, sortColumn, sortDirection) /\ filteredData' = answer
            /\ quickFilterText' = NoText /\ quickFilterLevel' = NoLevel /\ searchInput' = NoText
        BY <2>1 DEF Loaded, ResetQuickFilter
      <3>2. answer \in Seq(Rows)
        <4>1. r.viewMode \in Modes
          BY <1>1 DEF OthersTyped
        <4> QED BY <4>1, DashboardAssumption DEF DashboardAssumption
      <3>3. Sorted(answer, sortColumn, sortDirection) \in Seq(Rows)
            /\ ToBag(Sorted(answer, sortColumn, sortDirection)) = ToBag(answer)
        BY <1>2, <3>2, SortedFacts, SortedBag DEF DataTyped
      <3>4. Filtered(currentData', NoText, NoLevel) = currentData'
        BY <3>1, <3>3, FilteredFacts, StatsTableAssumption DEF StatsTableAssumption
      <3>5. FilteredIsMeant'
        BY <3>1, <3>3, <3>4 DEF FilteredIsMeant
      <3>6. SearchIsMeant'
        BY <3>1 DEF SearchIsMeant
      <3> QED BY <3>5, <3>6
    <2>2. ASSUME NEW r \in inflight, LoadFails(r)
          PROVE  Goal
      BY <1>4, <1>5, <1>6, <2>2 DEF LoadFails, searchVars
    <2> QED BY <1>8, <2>1, <2>2 DEF LoadAnswered
  <1>9. ASSUME Frame PROVE Goal
    BY <1>4, <1>5, <1>9 DEF Frame, AnimationFrame, searchVars
  <1>10. ASSUME SearchTimerFires PROVE Goal
    <2>1. ApplyQuickFilter(searchInput, quickFilterLevel) /\ searchInput' = searchInput
      BY <1>10 DEF SearchTimerFires
    <2>2. FilterTable(searchInput, quickFilterLevel) /\ searchInput \in Texts
      BY <1>1, <2>1 DEF ApplyQuickFilter, OthersTyped
    <2>3. FilteredIsMeant'
      BY <1>2, <2>2, FilterTableMeant
    <2>4. SearchIsMeant'
      BY <2>1, <2>2 DEF FilterTable, SearchIsMeant
    <2> QED BY <2>3, <2>4
  <1>11. ASSUME AutoRefreshFires \/ Refresh \/ ClearFilters PROVE Goal
    <2>1. (\E mode \in Modes : BeginLoad(mode)) /\ UNCHANGED searchVars
      BY <1>1, <1>11, ModesAre DEF AutoRefreshFires, Refresh, ClearFilters, OthersTyped
    <2> QED BY <1>4, <1>5, <1>7, <2>1 DEF searchVars
  <1>12. ASSUME NEW e, InfoResponse(e) PROVE Goal
    <2>1. UNCHANGED <<tableVars, searchVars>>
      BY <1>12 DEF InfoResponse, InfoAnswered
    <2> QED BY <1>4, <1>5, <1>6, <2>1 DEF searchVars
  <1>13. ASSUME ToggleAutoRefresh PROVE Goal
    BY <1>4, <1>5, <1>6, <1>13 DEF ToggleAutoRefresh, searchVars
  <1>14. ASSUME ClearQuickFilter PROVE Goal
    <2>1. FilterTable(NoText, NoLevel) /\ searchInput' = NoText /\ NoText \in Texts
      BY <1>14, StatsTableAssumption DEF ClearQuickFilter, ApplyQuickFilter, StatsTableAssumption
    <2>2. FilteredIsMeant'
      BY <1>2, <2>1, FilterTableMeant
    <2>3. SearchIsMeant'
      BY <2>1 DEF FilterTable, SearchIsMeant
    <2> QED BY <2>2, <2>3
  <1>15. ASSUME NEW loggers, NEW levels, DrawSeries(loggers, levels) PROVE Goal
    BY <1>4, <1>5, <1>6, <1>15 DEF DrawSeries, searchVars
  <1>16. ASSUME NEW mode \in Modes, ChangeViewMode(mode) PROVE Goal
    <2>1. BeginLoad(mode) /\ UNCHANGED searchVars
      BY <1>16 DEF ChangeViewMode
    <2> QED BY <1>4, <1>5, <1>7, <2>1 DEF searchVars
  <1>17. ASSUME NEW p \in Pages, Navigate(p) PROVE Goal
    <2>1. BeginLoad(viewMode) \/ UNCHANGED tableVars
      BY <1>17 DEF Navigate
    <2>2. UNCHANGED searchVars
      BY <1>17 DEF Navigate
    <2>3. UNCHANGED <<currentData, filteredData, quickFilterText, quickFilterLevel>>
      BY <1>6, <1>7, <2>1
    <2> QED BY <1>4, <1>5, <2>2, <2>3 DEF searchVars
  <1>18. ASSUME NEW text \in Texts, Type(text) PROVE Goal
    <2>1. UNCHANGED tableVars /\ searchTimer' = TRUE
      BY <1>18 DEF Type
    <2>2. SearchIsMeant'
      BY <2>1 DEF SearchIsMeant
    <2> QED BY <1>4, <1>6, <2>1, <2>2
  <1>19. ASSUME NEW level, PickLevel(level) PROVE Goal
    <2>1. FilterTable(quickFilterText, level) /\ UNCHANGED searchVars
      BY <1>19 DEF PickLevel, ApplyQuickFilter
    <2>2. FilteredIsMeant'
      BY <1>2, <2>1, FilterTableMeant DEF DataTyped
    <2>3. quickFilterText' = quickFilterText
      BY <2>1 DEF FilterTable
    <2> QED BY <1>5, <2>1, <2>2, <2>3 DEF searchVars
  <1>20. ASSUME NEW column \in Columns[thead], ClickHeader(column) PROVE Goal
    <2>1. SortTable(column) /\ UNCHANGED searchVars
      BY <1>20 DEF ClickHeader
    <2> DEFINE direction == IF column = sortColumn /\ sortDirection = "asc" THEN "desc" ELSE "asc"
    <2>2. /\ filteredData' = Sorted(filteredData, column, direction)
          /\ UNCHANGED <<currentData, quickFilterText, quickFilterLevel>>
      BY <2>1 DEF SortTable
    <2>3. column \in AllColumns /\ direction \in {"asc", "desc"}
      BY <1>1 DEF AllColumns, OthersTyped
    <2> HIDE DEF direction
    <2>4. ToBag(filteredData') = ToBag(filteredData)
      BY <1>2, <2>2, <2>3, SortedBag DEF DataTyped
    <2>5. FilteredIsMeant'
      BY <1>3, <2>2, <2>4 DEF FilteredIsMeant
    <2> QED BY <1>5, <2>1, <2>2, <2>5 DEF searchVars
  <1>21. ASSUME UNCHANGED dashboardVars PROVE Goal
    BY <1>4, <1>5, <1>6, <1>21 DEF dashboardVars, searchVars
  <1> HIDE DEF Goal
  <1>22. ASSUME SelectTopLoggers \/ (\E loggers \in SUBSET availableLoggers : SelectLoggers(loggers))
                  \/ (\E levels \in SUBSET Levels : SelectLevels(levels))
         PROVE  Goal
    BY <1>15, <1>22 DEF SelectTopLoggers, SelectLoggers, SelectLevels
  <1>23. Goal
    BY <1>8, <1>9, <1>10, <1>11, <1>12, <1>13, <1>14, <1>16, <1>17, <1>18, <1>19, <1>20,
       <1>21, <1>22 DEF DashboardNext
  <1> QED BY <1>23 DEF Goal, FilterInForce, FilteredIsMeant, SearchIsMeant

\* filteredData is what the quick filter in force leaves of currentData, whatever loads,
\* clears and late timers came in between, and that filter is the one in the search
\* field unless a keystroke waits for its timer (applyQuickFilter, loadStats).
THEOREM FilterIsInForce == DashboardSpec => []FilterInForce
  <1>1. DashboardInit => DashboardTypeOK /\ FilterInForce
    BY TypeInit, FilterInit
  <1>2. DashboardTypeOK /\ FilterInForce /\ [DashboardNext]_dashboardVars
           => (DashboardTypeOK /\ FilterInForce)'
    BY TypeStep, FilterStep
  <1> QED BY <1>1, <1>2, PTL DEF DashboardSpec

----------------------------------------------------------------------------
(* The cells fit the head.                                                 *)

Fits(row) == \E answer \in Answers[thead] : Contains(answer, row)
AllFit(data) == \A i \in DOMAIN data : Fits(data[i])

\* The head is made for the mode of the form, and so is the newest request.
AskedFor ==
    /\ thead = viewMode
    /\ \A r \in inflight : r.id <= loads /\ (r.id = loads => r.viewMode = thead)

NewestFits == newest => AllFit(currentData) /\ AllFit(filteredData)

\* The rows drawn fit the head, and the renderings under way will draw nothing else.
SameView == currentViewMode = viewMode

DrawnFit ==
    /\ \A i \in DOMAIN shown : Fits(shown[i].row) /\ (SameView => shown[i].cells = thead)
    /\ \A k \in DOMAIN frames : AllFit(frames[k].data) /\ (SameView => thead = "detailed")

ShownFit == newest /\ drawn = "alone" => DrawnFit

HeadInv == AskedFor /\ NewestFits /\ ShownFit

LEMMA SortedElements ==
    ASSUME NEW data \in Seq(Rows), NEW column \in AllColumns \cup {NoColumn},
           NEW direction \in {"asc", "desc"}
    PROVE  \A i \in DOMAIN Sorted(data, column, direction) :
              \E j \in DOMAIN data : Sorted(data, column, direction)[i] = data[j]
  <1> DEFINE s == Sorted(data, column, direction)
  <1>1. Rearranges(s, data)
    BY SortedFacts
  <1> HIDE DEF s
  <1>2. PICK p \in Bijection(DOMAIN s, DOMAIN data) : \A i \in DOMAIN s : s[i] = data[p[i]]
    BY <1>1 DEF Rearranges
  <1>3. p \in [DOMAIN s -> DOMAIN data]
    BY <1>2, Fun_BijectionProperties
  <1>4. \A i \in DOMAIN s : \E j \in DOMAIN data : s[i] = data[j]
    BY <1>2, <1>3
  <1> QED BY <1>4 DEF s

\* A sequence followed by another.
Joins(c, s, t) ==
    /\ DOMAIN c = 1 .. Len(s) + Len(t) /\ Len(s) \in Nat /\ Len(t) \in Nat
    /\ DOMAIN s = 1 .. Len(s) /\ DOMAIN t = 1 .. Len(t)
    /\ \A i \in DOMAIN c : c[i] = IF i <= Len(s) THEN s[i] ELSE t[i - Len(s)]

MadeOf(c, s, t) ==
    \A i \in DOMAIN c : (\E j \in DOMAIN s : c[i] = s[j]) \/ (\E j \in DOMAIN t : c[i] = t[j])

LEMMA ConcatElements ==
    ASSUME NEW S, NEW s \in Seq(S), NEW t \in Seq(S)
    PROVE  s \o t \in Seq(S) /\ Joins(s \o t, s, t) /\ MadeOf(s \o t, s, t)
  <1> DEFINE c == s \o t
  <1>1. /\ c \in Seq(S) /\ Len(c) = Len(s) + Len(t)
        /\ \A i \in 1 .. Len(s) + Len(t) : c[i] = IF i <= Len(s) THEN s[i] ELSE t[i - Len(s)]
    BY ConcatProperties
  <1> HIDE DEF c
  <1>2. /\ DOMAIN s = 1 .. Len(s) /\ DOMAIN t = 1 .. Len(t) /\ Len(s) \in Nat /\ Len(t) \in Nat
        /\ DOMAIN c = 1 .. Len(s) + Len(t)
    BY <1>1, LenProperties
  <1>3. ASSUME NEW i \in DOMAIN c
        PROVE  (\E j \in DOMAIN s : c[i] = s[j]) \/ (\E j \in DOMAIN t : c[i] = t[j])
    <2>1. CASE i <= Len(s)
      <3>1. i \in DOMAIN s /\ c[i] = s[i]
        BY <1>1, <1>2, <2>1
      <3> QED BY <3>1
    <2>2. CASE ~(i <= Len(s))
      <3>1. i - Len(s) \in DOMAIN t /\ c[i] = t[i - Len(s)]
        BY <1>1, <1>2, <2>2
      <3> QED BY <3>1
    <2> QED BY <2>1, <2>2
  <1>4. Joins(c, s, t) /\ MadeOf(c, s, t)
    BY <1>1, <1>2, <1>3 DEF Joins, MadeOf
  <1> QED BY <1>1, <1>4 DEF c

\* The body after a chunk, as a record.
LEMMA AppendChunkIs ==
    ASSUME NEW b \in Body, NEW f \in Rendering
    PROVE  /\ AppendChunk(b, f) \in Body
           /\ AppendChunk(b, f).rows = IF f.index = 0 THEN Chunk(f) ELSE b.rows \o Chunk(f)
           /\ b.rows \in Seq(Shown)
  <1>1. AppendChunk(b, f) \in Body
    BY AppendChunkTyped
  <1> DEFINE c == Chunk(f)
  <1>2. AppendChunk(b, f) = IF f.index = 0 THEN [notice |-> "", rows |-> c]
                            ELSE [b EXCEPT !.rows = b.rows \o c]
    BY DEF AppendChunk, Chunk
  <1> HIDE DEF c
  <1>3. AppendChunk(b, f).rows = IF f.index = 0 THEN c ELSE b.rows \o c
    <2> DEFINE d == b.rows \o c
    <2>1. AppendChunk(b, f) = IF f.index = 0 THEN [notice |-> "", rows |-> c] ELSE [b EXCEPT !.rows = d]
      BY <1>2
    <2> HIDE DEF d
    <2>2. [b EXCEPT !.rows = d].rows = d
      BY DEF Body
    <2>3. ASSUME f.index = 0 PROVE AppendChunk(b, f).rows = c
      <3>1. AppendChunk(b, f) = [notice |-> "", rows |-> c]
        BY <2>1, <2>3
      <3>2. [notice |-> "", rows |-> c].rows = c
        OBVIOUS
      <3> QED BY <3>1, <3>2, Zenon
    <2>4. ASSUME f.index # 0 PROVE AppendChunk(b, f).rows = d
      BY <2>1, <2>2, <2>4
    <2> QED BY <2>3, <2>4 DEF d
  <1>4. b.rows \in Seq(Shown)
    BY DEF Body
  <1> QED BY <1>1, <1>3, <1>4 DEF c

LEMMA FrameFits ==
    ASSUME DisplayTyped, AnimationFrame, UNCHANGED thead, NEW same \in BOOLEAN,
           \A i \in DOMAIN shown : Fits(shown[i].row) /\ (same => shown[i].cells = thead),
           \A k \in DOMAIN frames : AllFit(frames[k].data) /\ (same => thead = "detailed")
    PROVE  /\ \A i \in DOMAIN shown' : Fits(shown'[i].row) /\ (same => shown'[i].cells = thead)
           /\ \A k \in DOMAIN frames' : AllFit(frames'[k].data) /\ (same => thead = "detailed")
  <1> DEFINE base == [notice |-> notice, rows |-> shown]
             moved == [i \in DOMAIN frames |-> [frames[i] EXCEPT !.index = ChunkEnd(frames[i])]]
             left == {i \in DOMAIN frames : ChunkEnd(frames[i]) < Len(frames[i].data)}
             Good == {b \in Body : \A i \in DOMAIN b.rows : Fits(b.rows[i].row) /\ (same => b.rows[i].cells = thead)}
             I == [k \in 0 .. Len(frames) |-> Good]
  <1>1. /\ frames \in Seq(Rendering) /\ notice \in Notices /\ shown \in Seq(Shown)
        /\ shown' = FrameOf(base, frames).rows /\ frames' = RowsAt(moved, left)
    BY DEF DisplayTyped, AnimationFrame, FrameOf
  <1>2. /\ moved \in Seq(Rendering) /\ left \in SUBSET (DOMAIN moved)
        /\ \A i \in DOMAIN frames : frames[i] \in Rendering
        /\ DOMAIN frames = 1 .. Len(frames) /\ Len(frames) \in Nat /\ DOMAIN moved = DOMAIN frames
    BY <1>1, FrameMoves
  <1>3. \A b \in Good : b \in Body
    OBVIOUS
  <1>4. base \in Good
    <2>1. base \in Body /\ base.rows = shown
      BY <1>1 DEF Body
    <2> QED BY <2>1
  <1>5. ASSUME NEW k \in 1 .. Len(frames), NEW b \in Good
        PROVE  AppendChunk(b, frames[k]) \in Good
    <2> DEFINE f == frames[k]
               c == Chunk(f)
               r == AppendChunk(b, f).rows
    <2>1. f \in Rendering /\ AllFit(f.data) /\ (same => thead = "detailed")
      BY <1>2
    <2>2. AppendChunk(b, f) \in Body /\ r = (IF f.index = 0 THEN c ELSE b.rows \o c) /\ b.rows \in Seq(Shown)
      BY <1>3, <2>1, AppendChunkIs
    <2>3. c \in Seq(Shown) /\ \A i \in DOMAIN c : Fits(c[i].row) /\ (same => c[i].cells = thead)
      <3>1. /\ c \in Seq(Shown)
            /\ \A i \in DOMAIN c : c[i].cells = "detailed" /\ \E j \in DOMAIN f.data : c[i].row = f.data[j]
        BY <2>1, ChunkFacts
      <3> HIDE DEF c, f
      <3> QED BY <2>1, <3>1 DEF AllFit
    <2>4. \A i \in DOMAIN b.rows : Fits(b.rows[i].row) /\ (same => b.rows[i].cells = thead)
      OBVIOUS
    <2> HIDE DEF c, f
    <2> DEFINE e == b.rows \o c
    <2>5. \A i \in DOMAIN e : (\E j \in DOMAIN b.rows : e[i] = b.rows[j]) \/ (\E j \in DOMAIN c : e[i] = c[j])
      <3> DEFINE d == b.rows
      <3>1. d \in Seq(Shown) /\ c \in Seq(Shown) /\ e = d \o c
        BY <2>2, <2>3
      <3> HIDE DEF d, e
      <3>2. d \in Seq(Shown)
        BY <3>1
      <3>3. c \in Seq(Shown)
        BY <3>1
      <3>4. MadeOf(d \o c, d, c)
        BY <3>2, <3>3, ConcatElements
      <3>5. MadeOf(e, d, c)
        BY <3>1, <3>4
      <3> QED BY <3>5 DEF d, MadeOf
    <2>6. r = IF f.index = 0 THEN c ELSE e
      BY <2>2
    <2>7. \A i \in DOMAIN r : Fits(r[i].row) /\ (same => r[i].cells = thead)
      <3> HIDE DEF r, e, Good
      <3> QED BY <2>3, <2>4, <2>5, <2>6
    <2> QED BY <2>2, <2>7 DEF f
  <1>6. FrameOf(base, frames) \in Good
    <2>1. \A k \in 0 .. Len(frames) : I[k] = Good
      OBVIOUS
    <2> HIDE DEF I, base, Good
    <2>2. base \in I[0] /\ I[Len(frames)] = Good
      BY <1>2, <1>4, <2>1
    <2>3. \A k \in 1 .. Len(frames) : k \in 0 .. Len(frames) /\ k - 1 \in 0 .. Len(frames)
      BY <1>2
    <2>4. \A k \in 1 .. Len(frames) : \A b \in I[k - 1] : AppendChunk(b, frames[k]) \in I[k]
      BY <1>5, <2>1, <2>3
    <2>5. FrameOf(base, frames) \in I[Len(frames)]
      BY <1>1, <2>2, <2>4, FrameInvariant
    <2> QED BY <2>2, <2>5
  <1>7. \A i \in DOMAIN shown' : Fits(shown'[i].row) /\ (same => shown'[i].cells = thead)
    BY <1>1, <1>6
  <1>8. ASSUME NEW k \in DOMAIN frames' PROVE AllFit(frames'[k].data) /\ (same => thead = "detailed")
    <2>1. PICK i \in left : RowsAt(moved, left)[k] = moved[i]
      <3> HIDE DEF moved, left
      <3> QED BY <1>1, <1>2, <1>8, RowsAtFacts
    <2>2. i \in DOMAIN frames /\ moved[i].data = frames[i].data
      BY <1>2 DEF Rendering
    <2>3. frames'[k].data = frames[i].data
      BY <1>1, <2>1, <2>2
    <2> QED BY <2>2, <2>3
  <1> QED BY <1>7, <1>8

LEMMA RenderFits ==
    ASSUME NEW data \in Seq(Rows), AllFit(data), NEW mode, mode \in Modes, SameView' => mode = thead,
           NEW live, NEW others, frames = <<>> => others = <<>>,
           RenderTableData(mode, data, live, others), UNCHANGED thead, drawn' = "alone"
    PROVE  DrawnFit'
  <1>1. others = <<>>
    BY DEF RenderTableData, Meets
  <1>2. CASE mode = "aggregated"
    <2> DEFINE c == Cells(data, "aggregated")
    <2>1. shown' = c /\ frames' = <<>> /\ (SameView' => thead' = "aggregated")
      BY <1>1, <1>2 DEF RenderTableData, RenderAggregated
    <2>2. DOMAIN c = DOMAIN data /\ \A i \in DOMAIN data : c[i] = [row |-> data[i], cells |-> "aggregated"]
      BY CellsFacts DEF Modes
    <2> HIDE DEF c
    <2>3. \A i \in DOMAIN c : c[i].cells = "aggregated" /\ Fits(c[i].row)
      BY <2>2 DEF AllFit
    <2>4. \A i \in DOMAIN shown' : Fits(shown'[i].row) /\ (SameView' => shown'[i].cells = thead')
      BY <2>1, <2>3
    <2>5. \A k \in DOMAIN frames' : FALSE
      BY <2>1
    <2> QED BY <2>4, <2>5 DEF DrawnFit, Fits
  <1>3. CASE mode # "aggregated"
    <2> DEFINE f == [data |-> data, index |-> 0, live |-> live]
    <2>1. shown' = <<>> /\ frames' = <<f>> /\ (SameView' => thead' = "detailed")
      BY <1>1, <1>3 DEF RenderTableData, RenderDetailed, Modes
    <2>2. f.data = data
      OBVIOUS
    <2> HIDE DEF f
    <2>3. \A k \in DOMAIN frames' : frames'[k] = f
      BY <2>1
    <2>4. \A k \in DOMAIN frames' : AllFit(frames'[k].data)
      BY <2>2, <2>3
    <2>5. \A i \in DOMAIN shown' : FALSE
      BY <2>1
    <2> QED BY <2>1, <2>4, <2>5 DEF DrawnFit, AllFit, Fits
  <1> QED BY <1>2, <1>3

LEMMA EmptyFits ==
    ASSUME shown' = <<>>, frames' = <<>>
    PROVE  DrawnFit'
  BY DEF DrawnFit

LEMMA HeadInit == DashboardInit => HeadInv
  <1> SUFFICES ASSUME DashboardInit PROVE HeadInv
    OBVIOUS
  <1>1. /\ viewMode = "detailed" /\ thead = "detailed" /\ newest = FALSE
        /\ inflight = [id : 1 .. loads, viewMode : {"detailed"}]
    BY DEF DashboardInit
  <1>2. \A r \in inflight : r.id <= loads /\ r.viewMode = thead
    BY <1>1
  <1> QED BY <1>1, <1>2 DEF HeadInv, AskedFor, NewestFits, ShownFit

\* A load begun makes the head for the mode it asks for.
LEMMA HeadOfLoad ==
    ASSUME DashboardTypeOK, HeadInv, NEW mode, BeginLoad(mode), viewMode' = mode
    PROVE  HeadInv'
  <1>1. /\ loads \in Nat /\ loads' = loads + 1 /\ thead' = mode /\ newest' = FALSE
        /\ inflight' = inflight \cup {[id |-> loads', viewMode |-> mode]}
    <2>1. loads \in 0 .. MaxLoads /\ MaxLoads \in Nat
      BY DashboardAssumption DEF DashboardTypeOK, DashboardAssumption
    <2>2. /\ loads' = loads + 1 /\ thead' = mode /\ newest' = FALSE
          /\ inflight' = inflight \cup {[id |-> loads', viewMode |-> mode]}
      BY DEF BeginLoad, Request
    <2> QED BY <2>1, <2>2
  <1>2. \A r \in inflight : r.id \in Nat /\ r.id <= loads
    <2>1. inflight \in SUBSET [id : 1 .. MaxLoads, viewMode : Modes] /\ MaxLoads \in Nat
      BY DashboardAssumption DEF DashboardTypeOK, DashboardAssumption
    <2>2. \A r \in inflight : r.id \in 1 .. MaxLoads
      BY <2>1
    <2> QED BY <2>1, <2>2 DEF HeadInv, AskedFor
  <1>3. \A r \in inflight' : r.id <= loads' /\ (r.id = loads' => r.viewMode = thead')
    BY <1>1, <1>2
  <1> QED BY <1>1, <1>3 DEF HeadInv, AskedFor, NewestFits, ShownFit

\* Steps that leave the head, the requests and the rows alone.
LEMMA HeadKept ==
    ASSUME HeadInv, UNCHANGED <<loadVars, tableVars>>
    PROVE  HeadInv'
  BY DEF HeadInv, AskedFor, NewestFits, ShownFit, DrawnFit, SameView, AllFit, Fits, loadVars, tableVars

LEMMA HeadLoaded ==
    ASSUME DashboardTypeOK, HeadInv, NEW r \in inflight, NEW answer \in Answers[r.viewMode],
           Loaded(r, answer)
    PROVE  HeadInv'
  <1> DEFINE data == Sorted(answer, sortColumn, sortDirection)
  <1>1. TableTypeOK /\ OthersTyped /\ DataTyped /\ DisplayTyped
    BY TypeParts, TableParts
  <1>2. /\ inflight' = inflight \ {r} /\ newest' = (r.id = loads)
        /\ currentData' = data /\ filteredData' = answer
        /\ UNCHANGED <<viewMode, thead, loads, currentViewMode>>
    BY DEF Loaded
  <1>3. r.viewMode \in Modes /\ thead \in Modes
    BY <1>1 DEF OthersTyped
  <1>4. answer \in Seq(Rows)
    BY <1>3, DashboardAssumption DEF DashboardAssumption
  <1>5. data \in Seq(Rows) /\ \A i \in DOMAIN data : \E j \in DOMAIN answer : data[i] = answer[j]
    BY <1>1, <1>4, SortedFacts, SortedElements DEF DataTyped
  <1>6. AskedFor'
    BY <1>2 DEF HeadInv, AskedFor
  <1>7. ASSUME newest' PROVE r.viewMode = thead /\ AllFit(answer) /\ AllFit(data)
    <2>1. r.viewMode = thead
      BY <1>2, <1>7 DEF HeadInv, AskedFor
    <2>2. \A i \in DOMAIN answer : Contains(answer, answer[i])
      BY <1>4, LenProperties DEF Contains
    <2>3. AllFit(answer)
      BY <2>1, <2>2 DEF AllFit, Fits
    <2> HIDE DEF data
    <2>4. AllFit(data)
      BY <1>5, <2>3 DEF AllFit
    <2> QED BY <2>1, <2>3, <2>4
  <1>8. NewestFits'
    BY <1>2, <1>7 DEF NewestFits, AllFit, Fits
  <1>9. frames = <<>> => Detached = <<>>
    BY <1>1, DetachedTyped DEF DisplayTyped
  <1>10. \/ RenderTableData(r.viewMode, data, FALSE, Detached)
         \/ shown' = <<>> /\ frames' = Detached /\ (drawn' = "alone" => frames = <<>>)
    BY <1>2 DEF Loaded, ShowNothing, Meets
  <1> HIDE DEF data
  <1>11. ASSUME newest', drawn' = "alone" PROVE DrawnFit'
    <2>1. CASE RenderTableData(r.viewMode, data, FALSE, Detached)
      BY <1>2, <1>3, <1>5, <1>7, <1>9, <1>11, <2>1, RenderFits
    <2>2. CASE shown' = <<>> /\ frames' = Detached /\ (drawn' = "alone" => frames = <<>>)
      BY <1>9, <1>11, <2>2, EmptyFits
    <2> QED BY <1>10, <2>1, <2>2
  <1>12. ShownFit'
    BY <1>11 DEF ShownFit
  <1> QED BY <1>6, <1>8, <1>12 DEF HeadInv

LEMMA HeadFiltered ==
    ASSUME DashboardTypeOK, HeadInv, NEW text \in Texts, NEW level, FilterTable(text, level),
           UNCHANGED loadVars
    PROVE  HeadInv'
  <1> DEFINE g == Filtered(currentData, text, level)
             data == Sorted(g, sortColumn, sortDirection)
  <1>1. TableTypeOK /\ OthersTyped /\ DataTyped /\ DisplayTyped
    BY TypeParts, TableParts
  <1>2. /\ filteredData' = data
        /\ UNCHANGED <<viewMode, thead, loads, inflight, newest, currentViewMode, currentData>>
    BY DEF FilterTable, loadVars
  <1>3. g \in Seq(Rows) /\ \A k \in DOMAIN g : \E i \in DOMAIN currentData : g[k] = currentData[i]
    BY <1>1, FilteredFacts DEF DataTyped
  <1>4. AskedFor'
    BY <1>2 DEF HeadInv, AskedFor
  <1>5. /\ \/ RenderTableData(currentViewMode, data, TRUE, Detached)
           \/ /\ data = <<>> /\ shown' = <<>>
              /\ frames' = IF currentViewMode = "aggregated" THEN Detached
                           ELSE Append(Detached, [data |-> data, index |-> 0, live |-> TRUE])
        /\ drawn' = "alone" => frames = <<>>
    BY DEF FilterTable, RenderTableData, Meets
  <1> HIDE DEF g
  <1>6. data \in Seq(Rows) /\ \A i \in DOMAIN data : \E j \in DOMAIN g : data[i] = g[j]
    BY <1>1, <1>3, SortedFacts, SortedElements DEF DataTyped
  <1> HIDE DEF data
  <1>7. ASSUME newest PROVE AllFit(currentData) /\ AllFit(data)
    <2>1. AllFit(currentData)
      BY <1>7 DEF HeadInv, NewestFits
    <2> QED BY <1>3, <1>6, <2>1 DEF AllFit
  <1>8. NewestFits'
    BY <1>2, <1>7 DEF NewestFits, AllFit, Fits
  <1>9. frames = <<>> => Detached = <<>>
    BY <1>1, DetachedTyped DEF DisplayTyped
  <1>10. ASSUME newest, drawn' = "alone" PROVE DrawnFit'
    <2>1. (SameView' => currentViewMode = thead) /\ currentViewMode \in Modes /\ thead' = thead
      BY <1>1, <1>2, <1>10 DEF HeadInv, AskedFor, SameView, DataTyped
    <2>2. CASE RenderTableData(currentViewMode, data, TRUE, Detached)
      BY <1>6, <1>7, <1>9, <1>10, <2>1, <2>2, RenderFits
    <2>3. CASE /\ data = <<>> /\ shown' = <<>>
               /\ frames' = IF currentViewMode = "aggregated" THEN Detached
                            ELSE Append(Detached, [data |-> data, index |-> 0, live |-> TRUE])
      <3>1. Detached = <<>>
        BY <1>5, <1>9, <1>10
      <3>2. CASE currentViewMode = "aggregated"
        BY <2>3, <3>1, <3>2, EmptyFits
      <3>3. CASE currentViewMode # "aggregated"
        <4> DEFINE f == [data |-> data, index |-> 0, live |-> TRUE]
        <4>0. frames' = Append(Detached, f)
          BY <2>3, <3>3
        <4>1. f.data = <<>> /\ (SameView' => thead' = "detailed")
          BY <2>1, <2>3, <3>3 DEF Modes
        <4> HIDE DEF f
        <4>2. \A k \in DOMAIN frames' : frames'[k].data = <<>>
          <5>1. frames' = <<f>>
            BY <3>1, <4>0
          <5> QED BY <4>1, <5>1
        <4>3. \A i \in DOMAIN shown' : FALSE
          BY <2>3
        <4> QED BY <4>1, <4>2, <4>3 DEF DrawnFit, AllFit
      <3> QED BY <3>2, <3>3
    <2> QED BY <1>5, <2>2, <2>3
  <1>11. ShownFit'
    BY <1>2, <1>10 DEF ShownFit
  <1> QED BY <1>4, <1>8, <1>11 DEF HeadInv

LEMMA HeadSorted ==
    ASSUME DashboardTypeOK, HeadInv, NEW column \in AllColumns, SortTable(column), UNCHANGED loadVars
    PROVE  HeadInv'
  <1> DEFINE direction == IF column = sortColumn /\ sortDirection = "asc" THEN "desc" ELSE "asc"
             data == Sorted(filteredData, column, direction)
             others == [i \in DOMAIN frames |->
                           IF frames[i].live THEN [frames[i] EXCEPT !.data = data] ELSE frames[i]]
  <1>1. TableTypeOK /\ OthersTyped /\ DataTyped /\ DisplayTyped
    BY TypeParts, TableParts
  <1>2. /\ filteredData' = data /\ RenderTableData(currentViewMode, data, TRUE, others)
        /\ UNCHANGED <<viewMode, thead, loads, inflight, newest, currentViewMode, currentData>>
    BY DEF SortTable, loadVars
  <1>3. direction \in {"asc", "desc"}
    OBVIOUS
  <1>4. AskedFor'
    BY <1>2 DEF HeadInv, AskedFor
  <1> HIDE DEF direction
  <1>5. data \in Seq(Rows) /\ \A i \in DOMAIN data : \E j \in DOMAIN filteredData : data[i] = filteredData[j]
    BY <1>1, <1>3, SortedFacts, SortedElements DEF DataTyped
  <1> HIDE DEF data
  <1>6. ASSUME newest PROVE AllFit(currentData) /\ AllFit(data)
    <2>1. AllFit(currentData) /\ AllFit(filteredData)
      BY <1>6 DEF HeadInv, NewestFits
    <2> QED BY <1>5, <2>1 DEF AllFit
  <1>7. NewestFits'
    BY <1>2, <1>6 DEF NewestFits, AllFit, Fits
  <1>8. frames = <<>> => others = <<>>
    OBVIOUS
  <1> HIDE DEF others
  <1>9. ASSUME newest, drawn' = "alone" PROVE DrawnFit'
    <2>1. (SameView' => currentViewMode = thead) /\ currentViewMode \in Modes /\ thead' = thead
      BY <1>1, <1>2, <1>9 DEF HeadInv, AskedFor, SameView, DataTyped
    <2> QED BY <1>2, <1>5, <1>6, <1>8, <1>9, <2>1, RenderFits
  <1>10. ShownFit'
    BY <1>2, <1>9 DEF ShownFit
  <1> QED BY <1>4, <1>7, <1>10 DEF HeadInv

LEMMA HeadStep ==
    ASSUME DashboardTypeOK, HeadInv, [DashboardNext]_dashboardVars
    PROVE  HeadInv'
  <1>1. TableTypeOK /\ OthersTyped /\ DataTyped /\ DisplayTyped
    BY TypeParts, TableParts
  <1>2. thead = viewMode
    BY DEF HeadInv, AskedFor
  <1>3. ASSUME NEW r \in inflight, LoadFails(r) PROVE HeadInv'
    <2>1. /\ inflight' = inflight \ {r}
          /\ UNCHANGED <<tableVars, viewMode, thead, loads, newest>>
      BY <1>3 DEF LoadFails
    <2>2. AskedFor'
      BY <2>1 DEF HeadInv, AskedFor
    <2>3. NewestFits'
      BY <2>1 DEF HeadInv, NewestFits, AllFit, Fits, tableVars
    <2>4. ShownFit'
      BY <2>1 DEF HeadInv, ShownFit, DrawnFit, SameView, AllFit, Fits, tableVars
    <2> QED BY <2>2, <2>3, <2>4 DEF HeadInv
  <1>4. ASSUME Frame PROVE HeadInv'
    <2>1. AnimationFrame /\ UNCHANGED loadVars
      BY <1>4 DEF Frame
    <2>2. UNCHANGED <<viewMode, thead, inflight, loads, newest, currentData, filteredData,
                      currentViewMode, drawn>>
      BY <2>1 DEF AnimationFrame, loadVars
    <2>3. AskedFor'
      BY <2>2 DEF HeadInv, AskedFor
    <2>4. NewestFits'
      BY <2>2 DEF HeadInv, NewestFits, AllFit, Fits
    <2>5. ASSUME DrawnFit PROVE DrawnFit'
      <3> DEFINE same == SameView
      <3>1. /\ \A i \in DOMAIN shown : Fits(shown[i].row) /\ (same => shown[i].cells = thead)
            /\ \A k \in DOMAIN frames : AllFit(frames[k].data) /\ (same => thead = "detailed")
        BY <2>5 DEF DrawnFit
      <3>2. same \in BOOLEAN /\ SameView' = same
        BY <2>2 DEF SameView
      <3> HIDE DEF same
      <3>3. /\ \A i \in DOMAIN shown' : Fits(shown'[i].row) /\ (same => shown'[i].cells = thead)
            /\ \A k \in DOMAIN frames' : AllFit(frames'[k].data) /\ (same => thead = "detailed")
        BY <1>1, <2>1, <2>2, <3>1, <3>2, FrameFits
      <3> QED BY <2>2, <3>2, <3>3 DEF DrawnFit, AllFit, Fits
    <2>6. ShownFit'
      BY <2>2, <2>5 DEF HeadInv, ShownFit
    <2> QED BY <2>3, <2>4, <2>6 DEF HeadInv
  <1>5. ASSUME NEW text \in Texts, NEW level, ApplyQuickFilter(text, level) PROVE HeadInv'
    BY <1>5, HeadFiltered DEF ApplyQuickFilter
  <1>6. ASSUME SearchTimerFires PROVE HeadInv'
    <2>1. ApplyQuickFilter(searchInput, quickFilterLevel) /\ searchInput \in Texts
      BY <1>1, <1>6 DEF SearchTimerFires, OthersTyped
    <2> QED BY <1>5, <2>1
  <1>7. ASSUME ClearQuickFilter PROVE HeadInv'
    <2>1. ApplyQuickFilter(NoText, NoLevel) /\ NoText \in Texts
      BY <1>7, StatsTableAssumption DEF ClearQuickFilter, StatsTableAssumption
    <2> QED BY <1>5, <2>1
  <1>8. ASSUME NEW level, PickLevel(level) PROVE HeadInv'
    <2>1. ApplyQuickFilter(quickFilterText, level) /\ quickFilterText \in Texts
      BY <1>1, <1>8 DEF PickLevel, DataTyped
    <2> QED BY <1>5, <2>1
  <1>9. ASSUME AutoRefreshFires \/ Refresh PROVE HeadInv'
    <2>1. BeginLoad(viewMode) /\ viewMode' = viewMode
      BY <1>9 DEF AutoRefreshFires, Refresh
    <2> QED BY <2>1, HeadOfLoad
  <1>10. ASSUME ClearFilters PROVE HeadInv'
    <2>1. BeginLoad("detailed") /\ viewMode' = "detailed"
      BY <1>10 DEF ClearFilters
    <2> QED BY <2>1, HeadOfLoad
  <1>11. ASSUME NEW mode, ChangeViewMode(mode) PROVE HeadInv'
    <2>1. BeginLoad(mode) /\ viewMode' = mode
      BY <1>11 DEF ChangeViewMode
    <2> QED BY <2>1, HeadOfLoad
  <1>12. ASSUME NEW p, Navigate(p) PROVE HeadInv'
    <2>1. \/ BeginLoad(viewMode) /\ viewMode' = viewMode
          \/ UNCHANGED <<tableVars, loadVars>>
      BY <1>12 DEF Navigate
    <2>2. CASE BeginLoad(viewMode) /\ viewMode' = viewMode
      BY <2>2, HeadOfLoad
    <2>3. CASE UNCHANGED <<tableVars, loadVars>>
      BY <2>3, HeadKept
    <2> QED BY <2>1, <2>2, <2>3
  <1>13. ASSUME NEW column \in Columns[thead], ClickHeader(column) PROVE HeadInv'
    <2>1. column \in AllColumns
      BY <1>1 DEF AllColumns, OthersTyped
    <2> QED BY <1>13, <2>1, HeadSorted DEF ClickHeader
  <1>14. ASSUME \/ UNCHANGED dashboardVars \/ ToggleAutoRefresh
                \/ (\E e \in DOMAIN Fills : InfoResponse(e)) \/ (\E text \in Texts : Type(text))
                \/ SelectTopLoggers
                \/ (\E loggers \in SUBSET availableLoggers : SelectLoggers(loggers))
                \/ (\E levels \in SUBSET Levels : SelectLevels(levels))
         PROVE  HeadInv'
    <2>1. UNCHANGED <<tableVars, loadVars>>
      BY <1>14 DEF dashboardVars, ToggleAutoRefresh, InfoResponse, InfoAnswered, Type,
                   SelectTopLoggers, SelectLoggers, SelectLevels, DrawSeries
    <2> QED BY <2>1, HeadKept
  <1>15. ASSUME LoadAnswered PROVE HeadInv'
    BY <1>3, <1>15, HeadLoaded DEF LoadAnswered
  <1> HIDE DEF HeadInv
  <1> QED
    BY <1>4, <1>6, <1>7, <1>8, <1>9, <1>10, <1>11, <1>12, <1>13, <1>14, <1>15 DEF DashboardNext

\* If the response drawn last is the newest request's and its rendering met no other, the rows
\* come from an answer in the head's view, and are drawn in it as long as the form and
\* currentViewMode agree, through sorts, quick filters and frames.  Nothing is said of a
\* table that an older response was drawn into later (loadStats, updateTableHeaders).
THEOREM RowsFit == DashboardSpec => []RowsFitHeaders
  <1>1. DashboardInit => DashboardTypeOK /\ HeadInv
    BY TypeInit, HeadInit
  <1>2. DashboardTypeOK /\ HeadInv /\ [DashboardNext]_dashboardVars => (DashboardTypeOK /\ HeadInv)'
    BY TypeStep, HeadStep
  <1>3. HeadInv => RowsFitHeaders
    <2> SUFFICES ASSUME HeadInv, newest, drawn = "alone",
                        NEW i \in DOMAIN shown
                 PROVE  /\ \E answer \in Answers[thead] : Contains(answer, shown[i].row)
                        /\ currentViewMode = viewMode => shown[i].cells = thead
      BY DEF RowsFitHeaders
    <2> QED BY DEF HeadInv, ShownFit, DrawnFit, SameView, Fits
  <1> QED BY <1>1, <1>2, <1>3, PTL DEF DashboardSpec

----------------------------------------------------------------------------
(* The table is complete.                                                  *)

\* The first k rows of s are among those of t, in their order.
Has(s, k, t) ==
    \E p \in [1 .. k -> DOMAIN t] :
        /\ \A i, j \in 1 .. k : i < j => p[i] < p[j]
        /\ \A i \in 1 .. k : t[p[i]].row = s[i]

\* The last rendering has drawn k rows; if it was alone, there are no others.
DrawnUpTo(k) ==
    /\ Has(SortedRows, k, shown)
    /\ drawn = "alone" => Len(shown) = k /\ \A i \in 1 .. k : shown[i].row = SortedRows[i]

\* Each rendering under way has drawn its first chunk: the body is not cleared again.
Started == \A k \in DOMAIN frames : frames[k].index > 0

LastFrame == frames[Len(frames)]

\* The last rendering is the last under way: not begun, or so far along.
InProgress ==
    /\ frames # <<>> /\ LastFrame.data = SortedRows /\ LastFrame.index <= Len(SortedRows)
    /\ drawn = "alone" => Len(frames) = 1
    /\ LastFrame.index = 0 \/ (Started /\ DrawnUpTo(LastFrame.index))

\* The last rendering is over; renderings before it may go on appending.
Finished == Started /\ DrawnUpTo(Len(SortedRows)) /\ (drawn = "alone" => frames = <<>>)

TableInv == ~cleared /\ drawn # "over others" => InProgress \/ Finished

LEMMA HasNothing ==
    ASSUME NEW s, NEW t
    PROVE  Has(s, 0, t)
  <1> DEFINE p == [i \in 1 .. 0 |-> 0]
  <1>1. p \in [1 .. 0 -> DOMAIN t] /\ \A i \in 1 .. 0 : FALSE
    OBVIOUS
  <1> HIDE DEF p
  <1> QED BY <1>1 DEF Has

LEMMA HasStill ==
    ASSUME NEW s, NEW k \in Nat, NEW t \in Seq(Shown), NEW u \in Seq(Shown), Has(s, k, t)
    PROVE  Has(s, k, t \o u)
  <1>1. PICK p \in [1 .. k -> DOMAIN t] :
           /\ \A i, j \in 1 .. k : i < j => p[i] < p[j]
           /\ \A i \in 1 .. k : t[p[i]].row = s[i]
    BY DEF Has
  <1> DEFINE c == t \o u
  <1>2. Joins(c, t, u)
    BY ConcatElements
  <1> HIDE DEF c
  <1>3. \A i \in DOMAIN t : i \in DOMAIN c /\ c[i] = t[i]
    BY <1>2 DEF Joins
  <1>4. p \in [1 .. k -> DOMAIN c] /\ \A i \in 1 .. k : c[p[i]].row = s[i]
    BY <1>1, <1>3
  <1> QED BY <1>1, <1>4 DEF Has, c

\* The rows that follow continue what is there.
LEMMA HasMore ==
    ASSUME NEW s, NEW k \in Nat, NEW m \in Nat, k <= m, NEW t \in Seq(Shown), NEW u \in Seq(Shown),
           Has(s, k, t), Len(u) = m - k, \A i \in 1 .. m - k : u[i].row = s[k + i]
    PROVE  Has(s, m, t \o u)
  <1>1. PICK p \in [1 .. k -> DOMAIN t] :
           /\ \A i, j \in 1 .. k : i < j => p[i] < p[j]
           /\ \A i \in 1 .. k : t[p[i]].row = s[i]
    BY DEF Has
  <1> DEFINE c == t \o u
             n == Len(t)
             q == [i \in 1 .. m |-> IF i <= k THEN p[i] ELSE n + (i - k)]
  <1>2. Joins(c, t, u)
    BY ConcatElements
  <1> HIDE DEF c
  <1>3. /\ n \in Nat /\ DOMAIN t = 1 .. n /\ DOMAIN c = 1 .. n + (m - k)
        /\ \A i \in DOMAIN c : c[i] = IF i <= n THEN t[i] ELSE u[i - n]
    BY <1>2 DEF Joins
  <1>4. \A i \in 1 .. k : p[i] \in 1 .. n
    BY <1>1, <1>3
  <1> HIDE DEF n
  <1>5. ASSUME NEW i \in 1 .. m, i <= k
        PROVE  q[i] = p[i] /\ q[i] \in 1 .. n /\ q[i] \in DOMAIN c /\ c[q[i]].row = s[i]
    <2>1. i \in 1 .. k /\ q[i] = p[i]
      BY <1>5
    <2> HIDE DEF q
    <2>2. PICK x \in 1 .. n : x = p[i]
      BY <1>4, <2>1
    <2>3. x \in DOMAIN c /\ c[x] = t[x]
      <3>1. m - k \in Nat /\ x <= n /\ x \in 1 .. n + (m - k)
        BY <1>3
      <3> QED BY <1>3, <3>1
    <2>4. t[x].row = s[i]
      BY <1>1, <2>1, <2>2
    <2> QED BY <2>1, <2>2, <2>3, <2>4
  <1>6. ASSUME NEW i \in 1 .. m, ~(i <= k)
        PROVE  q[i] = n + (i - k) /\ q[i] \in DOMAIN c /\ c[q[i]].row = s[i]
    <2>1. q[i] = n + (i - k)
      BY <1>6
    <2> HIDE DEF q
    <2> DEFINE x == n + (i - k)
    <2>2. x \in DOMAIN c /\ ~(x <= n) /\ x - n = i - k /\ i - k \in 1 .. m - k /\ k + (i - k) = i
      BY <1>3, <1>6
    <2> HIDE DEF x
    <2>3. c[x] = u[i - k] /\ u[i - k].row = s[i]
      BY <1>3, <2>2
    <2> QED BY <2>1, <2>2, <2>3 DEF x
  <1>7. q \in [1 .. m -> DOMAIN c]
    <2>1. \A i \in 1 .. m : q[i] \in DOMAIN c
      BY <1>5, <1>6
    <2> QED BY <2>1
  <1>8. \A i \in 1 .. m : c[q[i]].row = s[i]
    BY <1>5, <1>6
  <1>9. ASSUME NEW i \in 1 .. m, NEW j \in 1 .. m, i < j
        PROVE  q[i] < q[j]
    <2> HIDE DEF q
    <2>1. CASE j <= k
      <3>1. i \in 1 .. k /\ j \in 1 .. k /\ i <= k
        BY <1>9, <2>1
      <3> QED BY <1>1, <1>5, <1>9, <2>1, <3>1
    <2>2. CASE ~(j <= k) /\ i <= k
      <3>1. q[i] \in 1 .. n /\ q[j] = n + (j - k)
        BY <1>5, <1>6, <2>2
      <3>2. PICK x \in 1 .. n : x = q[i]
        BY <3>1
      <3>3. x < n + (j - k)
        BY <1>3, <2>2
      <3> QED BY <3>1, <3>2, <3>3
    <2>3. CASE ~(j <= k) /\ ~(i <= k)
      <3>1. q[i] = n + (i - k) /\ q[j] = n + (j - k)
        BY <1>6, <2>3
      <3> QED BY <1>3, <1>9, <3>1
    <2> QED BY <2>1, <2>2, <2>3
  <1> HIDE DEF q
  <1>10. Has(s, m, c)
    BY <1>7, <1>8, <1>9 DEF Has
  <1> QED BY <1>10 DEF c

\* The rows of a chunk, place by place.
LEMMA ChunkRows ==
    ASSUME NEW f \in Rendering, f.index <= Len(f.data)
    PROVE  /\ Chunk(f) \in Seq(Shown) /\ f.index \in Nat /\ ChunkEnd(f) \in Nat /\ f.index <= ChunkEnd(f)
           /\ Len(Chunk(f)) = ChunkEnd(f) - f.index
           /\ \A i \in 1 .. ChunkEnd(f) - f.index : Chunk(f)[i].row = f.data[f.index + i]
  <1> DEFINE a == f.index
             e == ChunkEnd(f)
             s == SubSeq(f.data, a + 1, e)
  <1>1. /\ a \in Nat /\ f.data \in Seq(Rows) /\ Len(f.data) \in Nat
        /\ DOMAIN f.data = 1 .. Len(f.data)
    BY LenProperties DEF Rendering
  <1>2. e \in Nat /\ e <= Len(f.data) /\ (a < Len(f.data) => a < e) /\ (e = a + ChunkSize \/ e = Len(f.data))
    BY ChunkEndFacts
  <1>3. a <= e
    <2>1. ChunkSize \in Nat
      BY StatsTableAssumption DEF StatsTableAssumption
    <2> DEFINE l == Len(f.data)
    <2>2. l \in Nat /\ a <= l
      BY <1>1
    <2> HIDE DEF l, e, a
    <2> QED BY <1>1, <1>2, <2>1, <2>2 DEF l
  <1> HIDE DEF a, e
  <1>4. \A i \in a + 1 .. e : f.data[i] \in Rows
    <2>1. \A i \in a + 1 .. e : i \in 1 .. Len(f.data)
      BY <1>1, <1>2
    <2> QED BY <1>1, <2>1, ElementOfSeq
  <1>5. /\ s \in Seq(Rows) /\ Len(s) = IF a + 1 <= e THEN e - (a + 1) + 1 ELSE 0
        /\ \A i \in 1 .. e - (a + 1) + 1 : s[i] = f.data[a + 1 + i - 1]
    <2>1. a + 1 \in Int /\ e \in Int
      BY <1>1, <1>2
    <2> QED BY <1>4, <2>1, SubSeqProperties
  <1>6. Len(s) = e - a /\ \A i \in 1 .. e - a : s[i] = f.data[a + i]
    <2>1. Len(s) = e - a /\ e - (a + 1) + 1 = e - a
      BY <1>1, <1>2, <1>3, <1>5
    <2>2. \A i \in 1 .. e - a : a + 1 + i - 1 = a + i
      BY <1>1, <1>2
    <2> HIDE DEF s
    <2> QED BY <1>5, <2>1, <2>2
  <1>7. Chunk(f) = Cells(s, "detailed")
    BY DEF Chunk, a, e
  <1> HIDE DEF s
  <1>8. /\ Cells(s, "detailed") \in Seq(Shown) /\ Len(Cells(s, "detailed")) = Len(s)
        /\ \A i \in DOMAIN s : Cells(s, "detailed")[i] = [row |-> s[i], cells |-> "detailed"]
    BY <1>5, CellsFacts DEF Modes
  <1>9. DOMAIN s = 1 .. e - a
    BY <1>5, <1>6, LenProperties
  <1>10. ASSUME NEW i \in 1 .. e - a PROVE Chunk(f)[i].row = f.data[a + i]
    <2>1. i \in DOMAIN s /\ s[i] = f.data[a + i]
      BY <1>6, <1>9
    <2>2. Chunk(f)[i] = [row |-> s[i], cells |-> "detailed"]
      BY <1>7, <1>8, <2>1
    <2>3. Chunk(f)[i].row = s[i]
      BY <2>2
    <2> QED BY <2>1, <2>3
  <1> QED BY <1>1, <1>2, <1>3, <1>6, <1>7, <1>8, <1>10 DEF a, e

\* What the chunks before the last keep, and the last one turns into its result.
LEMMA FrameEnds ==
    ASSUME frames \in Seq(Rendering), frames # <<>>, NEW base, NEW Good, NEW Final, base \in Good,
           \A k \in 1 .. Len(frames) : \A b \in Good :
              IF k < Len(frames) THEN AppendChunk(b, frames[k]) \in Good
                                 ELSE AppendChunk(b, frames[k]) \in Final
    PROVE  FrameOf(base, frames) \in Final
  <1> DEFINE n == Len(frames)
             I == [k \in 0 .. n |-> IF k < n THEN Good ELSE Final]
  <1>1. n \in Nat /\ n # 0
    BY LenProperties, EmptySeq
  <1>2. I[0] = Good /\ I[n] = Final /\ \A k \in 1 .. n : I[k - 1] = Good
    BY <1>1
  <1>3. \A k \in 1 .. n : I[k] = IF k < n THEN Good ELSE Final
    BY <1>1
  <1> HIDE DEF I
  <1>4. \A k \in 1 .. n : \A b \in I[k - 1] : AppendChunk(b, frames[k]) \in I[k]
    BY <1>2, <1>3
  <1>5. base \in I[0]
    BY <1>2
  <1>6. FrameOf(base, frames) \in I[n]
    BY <1>4, <1>5, FrameInvariant
  <1> QED BY <1>2, <1>6

\* The renderings left after a frame have all begun; the last one is left if it has
\* rows to draw.
LEMMA FramesLeft ==
    ASSUME frames \in Seq(Rendering), AnimationFrame
    PROVE  /\ Started'
           /\ ChunkEnd(LastFrame) < Len(LastFrame.data) =>
                 /\ frames' # <<>> /\ LastFrame'.data = LastFrame.data
                 /\ LastFrame'.index = ChunkEnd(LastFrame)
                 /\ Len(frames) = 1 => Len(frames') = 1
           /\ Len(frames) = 1 /\ ~(ChunkEnd(LastFrame) < Len(LastFrame.data)) => frames' = <<>>
  <1> DEFINE n == Len(frames)
             moved == [i \in DOMAIN frames |-> [frames[i] EXCEPT !.index = ChunkEnd(frames[i])]]
             left == {i \in DOMAIN frames : ChunkEnd(frames[i]) < Len(frames[i].data)}
  <1>1. frames' = RowsAt(moved, left) /\ frames # <<>>
    BY DEF AnimationFrame
  <1>2. /\ moved \in Seq(Rendering) /\ left \in SUBSET (DOMAIN moved)
        /\ \A i \in DOMAIN frames : frames[i] \in Rendering
        /\ DOMAIN frames = 1 .. n /\ n \in Nat /\ DOMAIN moved = 1 .. n
    BY FrameMoves
  <1>3. n \in 1 .. n /\ Len(moved) = n
    BY <1>1, <1>2, EmptySeq, LenProperties
  <1>4. \A i \in DOMAIN frames : moved[i].data = frames[i].data /\ moved[i].index = ChunkEnd(frames[i])
    BY <1>2 DEF Rendering
  <1>5. \A i \in left : ChunkEnd(frames[i]) > 0
    <2> SUFFICES ASSUME NEW i \in left PROVE ChunkEnd(frames[i]) > 0
      OBVIOUS
    <2> DEFINE f == frames[i]
    <2>1. f \in Rendering /\ ChunkEnd(f) < Len(f.data)
      BY <1>2
    <2>2. /\ ChunkEnd(f) \in Nat /\ (ChunkEnd(f) = f.index + ChunkSize \/ ChunkEnd(f) = Len(f.data))
          /\ f.index \in Nat /\ ChunkSize \in Nat /\ ChunkSize > 0 /\ Len(f.data) \in Nat
      BY <2>1, ChunkEndFacts, StatsTableAssumption, LenProperties DEF Rendering, StatsTableAssumption
    <2> HIDE DEF f
    <2> QED BY <2>1, <2>2 DEF f
  <1> HIDE DEF moved
  <1>6. \A i \in left : i \in DOMAIN frames
    OBVIOUS
  <1>7. n \in left <=> ChunkEnd(LastFrame) < Len(LastFrame.data)
    BY <1>2, <1>3 DEF LastFrame
  <1> HIDE DEF left
  <1>8. /\ RowsAt(moved, left) \in Seq(Rendering)
        /\ \A k \in DOMAIN RowsAt(moved, left) : \E i \in left : RowsAt(moved, left)[k] = moved[i]
        /\ left = DOMAIN moved => RowsAt(moved, left) = moved
        /\ left = {} => RowsAt(moved, left) = <<>>
        /\ left # {} => RowsAt(moved, left) # <<>>
        /\ Len(moved) \in left => RowsAt(moved, left)[Len(RowsAt(moved, left))] = moved[Len(moved)]
    BY <1>2, RowsAtFacts
  <1>9. Started'
    <2> SUFFICES ASSUME NEW k \in DOMAIN frames' PROVE frames'[k].index > 0
      BY DEF Started
    <2>1. PICK i \in left : frames'[k] = moved[i]
      BY <1>1, <1>8
    <2> QED BY <1>4, <1>5, <1>6, <2>1
  <1>10. ASSUME n \in left
         PROVE  /\ frames' # <<>> /\ LastFrame'.data = LastFrame.data
                /\ LastFrame'.index = ChunkEnd(LastFrame) /\ (n = 1 => Len(frames') = 1)
    <2>1. frames' # <<>>
      BY <1>1, <1>8, <1>10
    <2>2. LastFrame' = moved[n]
      BY <1>1, <1>3, <1>8, <1>10 DEF LastFrame
    <2>3. LastFrame = frames[n] /\ n \in DOMAIN frames
      BY <1>2, <1>3 DEF LastFrame
    <2>4. ASSUME n = 1 PROVE Len(frames') = 1
      <3>1. left = DOMAIN moved
        BY <1>2, <1>10, <2>4
      <3> QED BY <1>1, <1>3, <1>8, <2>4, <3>1
    <2> QED BY <1>4, <2>1, <2>2, <2>3, <2>4
  <1>11. ASSUME n = 1, n \notin left PROVE frames' = <<>>
    <2>1. left = {}
      BY <1>2, <1>11
    <2> QED BY <1>1, <1>8, <2>1
  <1> QED BY <1>7, <1>9, <1>10, <1>11

\* A chunk of the rendering that draws the sorted rows, after so many of them.
LEMMA ChunkContinues ==
    ASSUME NEW s, NEW f \in Rendering, f.data = s, f.index <= Len(s),
           NEW t \in Seq(Shown), Has(s, f.index, t)
    PROVE  Has(s, ChunkEnd(f), t \o Chunk(f))
  <1> DEFINE c == Chunk(f)
             k == f.index
             m == ChunkEnd(f)
  <1>1. /\ c \in Seq(Shown) /\ k \in Nat /\ m \in Nat /\ k <= m /\ Len(c) = m - k
        /\ \A i \in 1 .. m - k : c[i].row = s[k + i]
    BY ChunkRows
  <1>2. Has(s, k, t)
    OBVIOUS
  <1> HIDE DEF c, k, m
  <1>3. Has(s, m, t \o c)
    BY <1>1, <1>2, HasMore
  <1> QED BY <1>3 DEF c, m

\* The body at the end of a frame in which the last rendering goes on.
LEMMA LastGoesOn ==
    ASSUME DisplayTyped, AnimationFrame, NEW s, LastFrame.data = s, LastFrame.index <= Len(s),
           drawn = "alone" => Len(frames) = 1,
           \/ LastFrame.index = 0
           \/ /\ Started /\ Has(s, LastFrame.index, shown)
    PROVE  /\ Has(s, ChunkEnd(LastFrame), shown')
           /\ LastFrame.index = 0 => shown' = Chunk(LastFrame)
           /\ LastFrame.index # 0 /\ drawn = "alone" => shown' = shown \o Chunk(LastFrame)
  <1> DEFINE n == Len(frames)
             f == frames[n]
             c == Chunk(f)
             base == [notice |-> notice, rows |-> shown]
  <1>1. /\ frames \in Seq(Rendering) /\ notice \in Notices /\ shown \in Seq(Shown) /\ frames # <<>>
        /\ shown' = FrameOf(base, frames).rows
    BY DEF DisplayTyped, AnimationFrame, FrameOf
  <1>2. base \in Body /\ base.rows = shown
    BY <1>1 DEF Body
  <1>3. /\ \A i \in DOMAIN frames : frames[i] \in Rendering
        /\ DOMAIN frames = 1 .. n /\ n \in Nat /\ n \in 1 .. n
    BY <1>1, FrameMoves, EmptySeq
  <1>4. f \in Rendering /\ LastFrame = f
    BY <1>3 DEF LastFrame
  <1>5. c \in Seq(Shown) /\ f.index \in Nat
    BY <1>4, ChunkFacts DEF Rendering
  <1>6. \A k \in 1 .. n : k < n \/ k = n
    <2>1. \A m \in Nat : \A k \in 1 .. m : k < m \/ k = m
      OBVIOUS
    <2> QED BY <1>3, <2>1
  <1>7. ASSUME NEW k \in 1 .. n, NEW b \in Body
        PROVE  /\ AppendChunk(b, frames[k]) \in Body
               /\ AppendChunk(b, frames[k]).rows =
                     IF frames[k].index = 0 THEN Chunk(frames[k]) ELSE b.rows \o Chunk(frames[k])
               /\ b.rows \in Seq(Shown)
    BY <1>3, AppendChunkIs
  <1>8. CASE f.index = 0
    <2> DEFINE Final == {b \in Body : b.rows = c}
    <2>1. \A k \in 1 .. n : \A b \in Body :
             IF k < n THEN AppendChunk(b, frames[k]) \in Body ELSE AppendChunk(b, frames[k]) \in Final
      <3> SUFFICES ASSUME NEW k \in 1 .. n, NEW b \in Body
                   PROVE  /\ AppendChunk(b, frames[k]) \in Body
                          /\ k = n => AppendChunk(b, frames[k]) \in Final
        BY <1>6
      <3>1. AppendChunk(b, frames[k]) \in Body
        BY <1>7
      <3>2. ASSUME k = n PROVE AppendChunk(b, frames[k]).rows = c
        BY <1>7, <1>8, <3>2
      <3> QED BY <3>1, <3>2
    <2> HIDE DEF Final, base
    <2>2. FrameOf(base, frames) \in Final
      BY <1>1, <1>2, <2>1, FrameEnds
    <2>3. shown' = c
      BY <1>1, <2>2 DEF Final
    <2>4. Has(s, ChunkEnd(f), <<>> \o c)
      <3>1. <<>> \in Seq(Shown) /\ Has(s, f.index, <<>>)
        BY <1>8, EmptySeq, HasNothing
      <3>2. f.data = s /\ f.index <= Len(s)
        BY <1>4
      <3> QED BY <1>4, <3>1, <3>2, ChunkContinues
    <2>5. <<>> \o c = c
      BY <1>5, ConcatEmptySeq
    <2> QED BY <1>4, <1>8, <2>3, <2>4, <2>5
  <1>9. CASE f.index # 0
    <2> DEFINE Good == {b \in Body : Has(s, f.index, b.rows) /\ (drawn = "alone" => b.rows = shown)}
               Final == {b \in Body : Has(s, ChunkEnd(f), b.rows) /\ (drawn = "alone" => b.rows = shown \o c)}
    <2>1. Started /\ Has(s, f.index, shown)
      BY <1>4, <1>9
    <2>2. base \in Good
      BY <1>2, <2>1
    <2>3. ASSUME NEW k \in 1 .. n, NEW b \in Good
          PROVE  IF k < n THEN AppendChunk(b, frames[k]) \in Good
                          ELSE AppendChunk(b, frames[k]) \in Final
      <3> DEFINE d == AppendChunk(b, frames[k])
                 r == b.rows
                 u == Chunk(frames[k])
      <3>1. b \in Body /\ Has(s, f.index, r) /\ (drawn = "alone" => r = shown)
        OBVIOUS
      <3>2. frames[k].index # 0
        BY <1>3, <2>1 DEF Started
      <3>3. d \in Body /\ d.rows = r \o u /\ r \in Seq(Shown)
        BY <1>7, <3>1, <3>2
      <3>4. u \in Seq(Shown)
        BY <1>3, ChunkFacts
      <3> HIDE DEF d, r
      <3>5. CASE k < n
        <4>1. Has(s, f.index, r \o u)
          <5> HIDE DEF u
          <5> QED BY <1>5, <3>1, <3>3, <3>4, HasStill
        <4>2. drawn # "alone"
          BY <1>3, <3>5
        <4>3. d \in Good
          BY <3>3, <4>1, <4>2
        <4> QED BY <3>5, <4>3 DEF d
      <3>6. CASE ~(k < n)
        <4>1. k = n /\ u = c
          BY <1>6, <3>6
        <4>2. Has(s, ChunkEnd(f), r \o c)
          <5>1. f.data = s /\ f.index <= Len(s)
            BY <1>4
          <5> QED BY <1>4, <3>1, <3>3, <5>1, ChunkContinues
        <4>3. d \in Final
          <5> HIDE DEF c, u
          <5> QED BY <3>1, <3>3, <4>1, <4>2
        <4> QED BY <3>6, <4>3 DEF d
      <3> QED BY <3>5, <3>6
    <2> HIDE DEF Good, Final, base
    <2>4. FrameOf(base, frames) \in Final
      BY <1>1, <2>2, <2>3, FrameEnds
    <2>5. Has(s, ChunkEnd(f), shown') /\ (drawn = "alone" => shown' = shown \o c)
      BY <1>1, <2>4 DEF Final
    <2> QED BY <1>4, <1>9, <2>5
  <1> QED BY <1>8, <1>9

\* A frame while the last rendering is under way.
LEMMA FrameGoesOn ==
    ASSUME DataTyped, DisplayTyped, AnimationFrame, InProgress
    PROVE  InProgress' \/ Finished'
  <1> DEFINE f == LastFrame
             s == SortedRows
             m == ChunkEnd(f)
  <1>1. /\ frames \in Seq(Rendering) /\ shown \in Seq(Shown) /\ frames # <<>>
        /\ UNCHANGED <<drawn, filteredData, sortColumn, sortDirection>>
    BY DEF DisplayTyped, AnimationFrame
  <1>2. SortedRows' = SortedRows
    BY <1>1 DEF SortedRows
  <1>3. /\ f.data = s /\ f.index <= Len(s) /\ (drawn = "alone" => Len(frames) = 1)
        /\ f.index = 0 \/ (Started /\ DrawnUpTo(f.index))
    BY DEF InProgress
  <1>4. f \in Rendering
    <2>1. Len(frames) \in DOMAIN frames
      BY <1>1, LenProperties, EmptySeq
    <2> QED BY <1>1, <2>1, FrameMoves DEF LastFrame
  <1>5. /\ Chunk(f) \in Seq(Shown) /\ f.index \in Nat /\ m \in Nat /\ f.index <= m
        /\ Len(Chunk(f)) = m - f.index
        /\ \A i \in 1 .. m - f.index : Chunk(f)[i].row = s[f.index + i]
    BY <1>3, <1>4, ChunkRows
  <1>6. m <= Len(s) /\ Len(s) \in Nat
    BY <1>3, <1>4, ChunkEndFacts, LenProperties DEF Rendering
  <1>7. /\ Has(s, m, shown')
        /\ f.index = 0 => shown' = Chunk(f)
        /\ f.index # 0 /\ drawn = "alone" => shown' = shown \o Chunk(f)
    BY <1>3, LastGoesOn DEF DrawnUpTo
  <1>8. ASSUME drawn = "alone" PROVE Len(shown') = m /\ \A i \in 1 .. m : shown'[i].row = s[i]
    <2>1. CASE f.index = 0
      <3> DEFINE c == Chunk(f)
      <3>1. Len(c) = m /\ shown' = c /\ \A i \in 1 .. m : c[i].row = s[0 + i]
        BY <1>5, <1>7, <2>1
      <3> HIDE DEF c, m, s
      <3>2. \A i \in 1 .. m : 0 + i = i
        BY <1>5
      <3> QED BY <3>1, <3>2
    <2>2. CASE f.index # 0
      <3> DEFINE c == Chunk(f)
                 k == f.index
                 e == shown \o c
      <3>1. Len(shown) = k /\ (\A i \in 1 .. k : shown[i].row = s[i]) /\ shown' = e
        BY <1>3, <1>7, <1>8, <2>2 DEF DrawnUpTo
      <3>2. Joins(e, shown, c) /\ e \in Seq(Shown)
        BY <1>1, <1>5, ConcatElements
      <3>3. k \in Nat /\ m \in Nat /\ k <= m /\ Len(c) = m - k /\ \A i \in 1 .. m - k : c[i].row = s[k + i]
        BY <1>5
      <3> HIDE DEF c, k, e, m, s
      <3>4. DOMAIN e = 1 .. m /\ \A i \in 1 .. m : e[i] = IF i <= k THEN shown[i] ELSE c[i - k]
        <4>1. k + (m - k) = m
          BY <3>3
        <4>2. DOMAIN e = 1 .. Len(shown) + Len(c)
              /\ \A i \in DOMAIN e : e[i] = IF i <= Len(shown) THEN shown[i] ELSE c[i - Len(shown)]
          BY <3>2 DEF Joins
        <4>3. DOMAIN e = 1 .. m
          BY <3>1, <3>3, <4>1, <4>2
        <4> QED BY <3>1, <4>2, <4>3
      <3>5. Len(e) = m
        BY <3>2, <3>3, <3>4, LenProperties
      <3>6. ASSUME NEW i \in 1 .. m PROVE e[i].row = s[i]
        <4>1. CASE i <= k
          BY <3>1, <3>3, <3>4, <4>1
        <4>2. CASE ~(i <= k)
          <5>1. i - k \in 1 .. m - k /\ k + (i - k) = i
            BY <3>3, <4>2
          <5>2. c[i - k].row = s[i]
            BY <3>3, <5>1
          <5> QED BY <3>4, <4>2, <5>2
        <4> QED BY <4>1, <4>2
      <3> QED BY <3>1, <3>5, <3>6
    <2> QED BY <2>1, <2>2
  <1>9. Started'
        /\ (m < Len(s) => /\ frames' # <<>> /\ LastFrame'.data = s /\ LastFrame'.index = m
                          /\ (Len(frames) = 1 => Len(frames') = 1))
        /\ (Len(frames) = 1 /\ ~(m < Len(s)) => frames' = <<>>)
    BY <1>1, <1>3, FramesLeft
  <1> HIDE DEF f, s, m
  <1>10. CASE m < Len(s)
    <2>1. /\ frames' # <<>> /\ LastFrame'.data = s /\ LastFrame'.index = m
          /\ (Len(frames) = 1 => Len(frames') = 1) /\ Started'
      BY <1>9, <1>10
    <2>2. SortedRows' = s /\ drawn' = drawn
      BY <1>1, <1>2 DEF s
    <2>3. DrawnUpTo(LastFrame.index)'
      BY <1>7, <1>8, <2>1, <2>2 DEF DrawnUpTo
    <2>4. LastFrame'.index <= Len(SortedRows')
      BY <1>6, <1>10, <2>1, <2>2
    <2>5. drawn' = "alone" => Len(frames') = 1
      BY <1>3, <2>1, <2>2
    <2> QED BY <2>1, <2>2, <2>3, <2>4, <2>5 DEF InProgress
  <1>11. CASE ~(m < Len(s))
    <2>1. m = Len(s)
      BY <1>5, <1>6, <1>11
    <2>2. Finished'
      BY <1>1, <1>2, <1>3, <1>7, <1>8, <1>9, <1>11, <2>1 DEF Finished, DrawnUpTo, s
    <2> QED BY <2>2
  <1> QED BY <1>10, <1>11

\* A frame when the last rendering is over: the earlier ones append to it.
LEMMA FrameAppends ==
    ASSUME DataTyped, DisplayTyped, AnimationFrame, Finished
    PROVE  Finished'
  <1> DEFINE n == Len(frames)
             s == SortedRows
             m == Len(s)
             base == [notice |-> notice, rows |-> shown]
             Good == {b \in Body : Has(s, m, b.rows)}
  <1>1. /\ frames \in Seq(Rendering) /\ shown \in Seq(Shown) /\ notice \in Notices /\ frames # <<>>
        /\ UNCHANGED <<drawn, filteredData, sortColumn, sortDirection>>
        /\ shown' = FrameOf(base, frames).rows
    BY DEF DisplayTyped, AnimationFrame, FrameOf
  <1>2. SortedRows' = s
    BY <1>1 DEF SortedRows
  <1>3. m \in Nat
    <2>1. s \in Seq(Rows)
      BY SortedFacts DEF DataTyped, SortedRows
    <2> QED BY <2>1, LenProperties
  <1>4. Started /\ Has(s, m, shown) /\ drawn # "alone"
    BY <1>1 DEF Finished, DrawnUpTo
  <1>5. \A i \in DOMAIN frames : frames[i] \in Rendering /\ frames[i].index # 0
    BY <1>1, <1>4, FrameMoves DEF Started
  <1>6. DOMAIN frames = 1 .. n
    BY <1>1, FrameMoves
  <1>7. base \in Good
    <2>1. base \in Body /\ base.rows = shown
      BY <1>1 DEF Body
    <2> QED BY <1>4, <2>1
  <1>8. ASSUME NEW k \in 1 .. n, NEW b \in Good PROVE AppendChunk(b, frames[k]) \in Good
    <2> DEFINE d == AppendChunk(b, frames[k])
               r == b.rows
               u == Chunk(frames[k])
    <2>1. b \in Body /\ Has(s, m, r)
      OBVIOUS
    <2>2. d \in Body /\ d.rows = r \o u /\ r \in Seq(Shown)
      BY <1>5, <1>6, <2>1, AppendChunkIs
    <2>3. u \in Seq(Shown)
      BY <1>5, <1>6, ChunkFacts
    <2> HIDE DEF d, r, u, s, m
    <2>4. Has(s, m, r \o u)
      BY <1>3, <2>1, <2>2, <2>3, HasStill
    <2>5. d \in Good
      BY <2>2, <2>4
    <2> QED BY <2>5 DEF d
  <1> HIDE DEF Good, base
  <1>9. FrameOf(base, frames) \in Good
    BY <1>1, <1>7, <1>8, FrameEnds
  <1>10. Has(s, m, shown')
    BY <1>1, <1>9 DEF Good
  <1>11. Started'
    BY <1>1, FramesLeft
  <1> QED BY <1>1, <1>2, <1>4, <1>10, <1>11 DEF Finished, DrawnUpTo

\* A rendering begins, or is over at once.
LEMMA RenderComplete ==
    ASSUME NEW mode \in Modes, NEW data \in Seq(Rows), NEW live \in BOOLEAN,
           NEW others \in Seq(Rendering), frames = <<>> => others = <<>>,
           RenderTableData(mode, data, live, others), SortedRows' = data
    PROVE  TableInv'
  <1> DEFINE NotOver == drawn' # "over others"
  <1> SUFFICES ASSUME NotOver
               PROVE  InProgress' \/ Finished'
    BY DEF TableInv
  <1> HIDE DEF NotOver
  <1>0. PICK m \in Nat : m = Len(data) /\ DOMAIN data = 1 .. m
    BY LenProperties
  <1>1. CASE mode = "aggregated"
    <2> DEFINE c == Cells(data, "aggregated")
    <2>1. frames = <<>> /\ drawn' = "alone"
      BY <1>1 DEF RenderTableData, Meets, NotOver
    <2>2. frames' = <<>> /\ shown' = c
      BY <1>1, <2>1 DEF RenderTableData, RenderAggregated
    <2>3. /\ c \in Seq(Shown) /\ Len(c) = Len(data)
          /\ \A i \in DOMAIN data : c[i] = [row |-> data[i], cells |-> "aggregated"]
      BY CellsFacts DEF Modes
    <2> HIDE DEF c
    <2>4. ASSUME NEW i \in 1 .. m PROVE c[i].row = data[i]
      <3>1. c[i] = [row |-> data[i], cells |-> "aggregated"]
        BY <1>0, <2>3
      <3> QED BY <3>1
    <2>5. Has(data, m, <<>> \o c)
      <3>1. Has(data, 0, <<>>) /\ <<>> \in Seq(Shown)
        BY EmptySeq, HasNothing
      <3>2. 0 \in Nat /\ m \in Nat /\ 0 <= m /\ Len(c) = m - 0
        BY <1>0, <2>3
      <3>3. \A i \in 1 .. m - 0 : c[i].row = data[0 + i]
        <4>1. m - 0 = m /\ \A i \in 1 .. m : 0 + i = i
          BY <1>0
        <4> QED BY <2>4, <4>1
      <3> QED BY <2>3, <3>1, <3>2, <3>3, HasMore
    <2>6. <<>> \o c = c
      BY <2>3, ConcatEmptySeq
    <2>7. Has(data, m, c)
      BY <2>5, <2>6
    <2>8. DrawnUpTo(Len(SortedRows))'
      BY <1>0, <2>2, <2>3, <2>4, <2>7 DEF DrawnUpTo
    <2>9. Started'
      <3>1. \A k \in DOMAIN frames' : FALSE
        BY <2>2
      <3> QED BY <3>1 DEF Started
    <2> QED BY <2>2, <2>8, <2>9 DEF Finished
  <1>2. CASE mode # "aggregated"
    <2> DEFINE f == [data |-> data, index |-> 0, live |-> live]
    <2>1. frames' = Append(others, f) /\ (drawn' = "alone" => others = <<>>)
      BY <1>2 DEF RenderTableData, RenderDetailed, Meets
    <2>2. f.data = data /\ f.index = 0 /\ f \in Rendering
      BY DEF Rendering
    <2> HIDE DEF f
    <2>3. /\ Len(frames') = Len(others) + 1 /\ Len(others) \in Nat
          /\ frames'[Len(frames')] = f
      <3> HIDE DEF Rendering
      <3>1. /\ Append(others, f) \in Seq(Rendering) /\ Len(Append(others, f)) = Len(others) + 1
            /\ Append(others, f)[Len(others) + 1] = f
        BY <2>2, AppendProperties
      <3> QED BY <2>1, <3>1, LenProperties
    <2>4. frames' # <<>>
      <3>1. Len(others) + 1 # 0
        BY <2>3
      <3> QED BY <2>3, <3>1
    <2>5. LastFrame' = f
      BY <2>3 DEF LastFrame
    <2>6. drawn' = "alone" => Len(frames') = 1
      BY <2>1, <2>3
    <2>7. LastFrame'.index = 0 /\ LastFrame'.data = SortedRows' /\ LastFrame'.index <= Len(SortedRows')
      <3>1. Len(SortedRows') = m /\ 0 <= m
        BY <1>0
      <3> QED BY <2>2, <2>5, <3>1
    <2> QED BY <2>4, <2>6, <2>7 DEF InProgress
  <1> QED BY <1>1, <1>2

\* Nothing is to be shown, and the table is empty.
LEMMA NothingComplete ==
    ASSUME SortedRows' = <<>>, shown' = <<>>, frames' = Detached, frames = <<>> => Detached = <<>>,
           drawn' = "alone" \/ drawn' = "over others", drawn' = "alone" => frames = <<>>
    PROVE  TableInv'
  <1> SUFFICES ASSUME drawn' = "alone"
               PROVE  Finished'
    BY DEF TableInv
  <1>1. frames' = <<>>
    OBVIOUS
  <1>2. Started'
    BY <1>1 DEF Started
  <1>3. Len(SortedRows') = 0 /\ Has(<<>>, 0, <<>>)
    BY HasNothing
  <1>4. DrawnUpTo(Len(SortedRows))'
    BY <1>3 DEF DrawnUpTo
  <1> QED BY <1>1, <1>2, <1>4 DEF Finished

LEMMA SortedNothing ==
    ASSUME NEW column, NEW direction
    PROVE  Sorted(<<>>, column, direction) = <<>>
  BY DEF Sorted

LEMMA TableInvInit == DashboardInit => TableInv
  <1> SUFFICES ASSUME DashboardInit PROVE Finished
    BY DEF TableInv
  <1>1. filteredData = <<>> /\ shown = <<>> /\ frames = <<>>
    BY DEF DashboardInit, TableInit
  <1>2. SortedRows = <<>> /\ Len(SortedRows) = 0
    BY <1>1, SortedNothing DEF SortedRows
  <1>3. Started
    <2>1. \A k \in DOMAIN frames : FALSE
      BY <1>1
    <2> QED BY <2>1 DEF Started
  <1>4. DrawnUpTo(Len(SortedRows))
    BY <1>1, <1>2, HasNothing DEF DrawnUpTo
  <1> QED BY <1>1, <1>3, <1>4 DEF Finished

LEMMA TableInvKept ==
    ASSUME TableInv, UNCHANGED tableVars
    PROVE  TableInv'
  BY DEF TableInv, InProgress, Finished, DrawnUpTo, Started, LastFrame, SortedRows, tableVars

\* A load begun empties the body.
LEMMA TableCleared ==
    ASSUME NEW mode, BeginLoad(mode)
    PROVE  TableInv'
  BY DEF BeginLoad, TableInv

LEMMA TableLoaded ==
    ASSUME DataTyped, DisplayTyped, NEW r, r.viewMode \in Modes, NEW answer \in Seq(Rows),
           Loaded(r, answer)
    PROVE  TableInv'
  <1> DEFINE data == Sorted(answer, sortColumn, sortDirection)
  <1>1. SortedRows' = data
    BY DEF Loaded, SortedRows
  <1>2. data \in Seq(Rows)
    BY SortedFacts DEF DataTyped
  <1>3. Detached \in Seq(Rendering) /\ (frames = <<>> => Detached = <<>>)
    BY DetachedTyped DEF DisplayTyped
  <1>4. CASE answer = <<>>
    <2>1. /\ shown' = <<>> /\ frames' = Detached
          /\ drawn' = "alone" \/ drawn' = "over others"
          /\ drawn' = "alone" => frames = <<>>
      BY <1>4 DEF Loaded, ShowNothing, Meets
    <2>2. SortedRows' = <<>>
      BY <1>1, <1>4, SortedNothing
    <2> QED BY <1>3, <2>1, <2>2, NothingComplete
  <1>5. CASE answer # <<>>
    <2>1. RenderTableData(r.viewMode, data, FALSE, Detached)
      BY <1>5 DEF Loaded
    <2> HIDE DEF data
    <2> QED BY <1>1, <1>2, <1>3, <2>1, RenderComplete
  <1> QED BY <1>4, <1>5

LEMMA TableSorted ==
    ASSUME DataTyped, DisplayTyped, NEW column \in AllColumns, SortTable(column)
    PROVE  TableInv'
  <1> DEFINE direction == IF column = sortColumn /\ sortDirection = "asc" THEN "desc" ELSE "asc"
             data == Sorted(filteredData, column, direction)
             others == [i \in DOMAIN frames |->
                           IF frames[i].live THEN [frames[i] EXCEPT !.data = data] ELSE frames[i]]
  <1>1. /\ sortColumn' = column /\ sortDirection' = direction /\ filteredData' = data
        /\ RenderTableData(currentViewMode, data, TRUE, others)
    BY DEF SortTable
  <1>2. direction \in {"asc", "desc"}
    OBVIOUS
  <1> HIDE DEF direction
  <1>3. data \in Seq(Rows) /\ Sorted(data, column, direction) = data
    BY <1>2, SortedFacts DEF DataTyped
  <1> HIDE DEF data
  <1>4. SortedRows' = data
    BY <1>1, <1>3 DEF SortedRows
  <1>5. others \in Seq(Rendering)
    <2>1. /\ \A i \in DOMAIN frames : frames[i] \in Rendering
          /\ DOMAIN frames = 1 .. Len(frames) /\ Len(frames) \in Nat
      BY FrameMoves DEF DisplayTyped
    <2>2. \A i \in DOMAIN frames :
             (IF frames[i].live THEN [frames[i] EXCEPT !.data = data] ELSE frames[i]) \in Rendering
      BY <1>3, <2>1 DEF Rendering
    <2> HIDE DEF Rendering
    <2> QED BY <2>1, <2>2
  <1>6. frames = <<>> => others = <<>>
    OBVIOUS
  <1> HIDE DEF others
  <1>7. currentViewMode \in Modes
    BY DEF DataTyped
  <1> QED BY <1>1, <1>3, <1>4, <1>5, <1>6, <1>7, RenderComplete

LEMMA TableFiltered ==
    ASSUME DataTyped, DisplayTyped, NEW text \in Texts, NEW level, FilterTable(text, level)
    PROVE  TableInv'
  <1> DEFINE g == Filtered(currentData, text, level)
             data == Sorted(g, sortColumn, sortDirection)
  <1>1. filteredData' = data /\ UNCHANGED <<sortColumn, sortDirection>>
    BY DEF FilterTable
  <1>2. \/ RenderTableData(currentViewMode, data, TRUE, Detached)
        \/ /\ data = <<>> /\ shown' = <<>> /\ Meets(currentViewMode)
           /\ frames' = IF currentViewMode = "aggregated" THEN Detached
                        ELSE Append(Detached, [data |-> data, index |-> 0, live |-> TRUE])
    BY DEF FilterTable
  <1>3. g \in Seq(Rows)
    BY FilteredFacts DEF DataTyped
  <1> HIDE DEF g
  <1>4. data \in Seq(Rows) /\ Sorted(data, sortColumn, sortDirection) = data
    BY <1>3, SortedFacts DEF DataTyped
  <1> HIDE DEF data
  <1>5. SortedRows' = data
    BY <1>1, <1>4 DEF SortedRows
  <1>6. Detached \in Seq(Rendering) /\ (frames = <<>> => Detached = <<>>)
    BY DetachedTyped DEF DisplayTyped
  <1>7. currentViewMode \in Modes
    BY DEF DataTyped
  <1>8. CASE RenderTableData(currentViewMode, data, TRUE, Detached)
    BY <1>4, <1>5, <1>6, <1>7, <1>8, RenderComplete
  <1>9. CASE /\ data = <<>> /\ shown' = <<>> /\ Meets(currentViewMode)
             /\ frames' = IF currentViewMode = "aggregated" THEN Detached
                          ELSE Append(Detached, [data |-> data, index |-> 0, live |-> TRUE])
    <2>1. CASE currentViewMode = "aggregated"
      <3>1. /\ frames' = Detached /\ shown' = <<>> /\ SortedRows' = <<>>
            /\ drawn' = "alone" \/ drawn' = "over others"
            /\ drawn' = "alone" => frames = <<>>
        BY <1>5, <1>9, <2>1 DEF Meets
      <3> QED BY <1>6, <3>1, NothingComplete
    <2>2. CASE currentViewMode # "aggregated"
      <3> DEFINE f == [data |-> data, index |-> 0, live |-> TRUE]
      <3>1. frames' = Append(Detached, f) /\ (drawn' = "alone" => Detached = <<>>)
        BY <1>6, <1>9, <2>2 DEF Meets
      <3>2. f.data = data /\ f.index = 0 /\ f \in Rendering
        BY <1>4 DEF Rendering
      <3> HIDE DEF f
      <3>3. /\ Len(frames') = Len(Detached) + 1 /\ Len(Detached) \in Nat
            /\ frames'[Len(frames')] = f
        <4> HIDE DEF Rendering
        <4>1. /\ Append(Detached, f) \in Seq(Rendering) /\ Len(Append(Detached, f)) = Len(Detached) + 1
              /\ Append(Detached, f)[Len(Detached) + 1] = f
          BY <1>6, <3>2, AppendProperties
        <4> QED BY <1>6, <3>1, <4>1, LenProperties
      <3>4. frames' # <<>>
        <4>1. Len(Detached) + 1 # 0
          BY <3>3
        <4> QED BY <3>3, <4>1
      <3>5. LastFrame' = f
        BY <3>3 DEF LastFrame
      <3>6. drawn' = "alone" => Len(frames') = 1
        BY <3>1, <3>3
      <3>7. LastFrame'.index = 0 /\ LastFrame'.data = SortedRows' /\ LastFrame'.index <= Len(SortedRows')
        <4>1. Len(SortedRows') = 0
          BY <1>5, <1>9
        <4> QED BY <1>5, <3>2, <3>5, <4>1
      <3>8. InProgress'
        BY <3>4, <3>6, <3>7 DEF InProgress
      <3> QED BY <3>8 DEF TableInv
    <2> QED BY <2>1, <2>2
  <1> QED BY <1>2, <1>8, <1>9

LEMMA TableStep ==
    ASSUME DashboardTypeOK, TableInv, [DashboardNext]_dashboardVars
    PROVE  TableInv'
  <1>1. TableTypeOK /\ OthersTyped /\ DataTyped /\ DisplayTyped
    BY TypeParts, TableParts
  <1>2. ASSUME LoadAnswered PROVE TableInv'
    <2>1. ASSUME NEW r \in inflight, NEW answer \in Answers[r.viewMode], Loaded(r, answer)
          PROVE  TableInv'
      <3>1. r.viewMode \in Modes
        BY <1>1 DEF OthersTyped
      <3>2. answer \in Seq(Rows)
        BY <3>1, DashboardAssumption DEF DashboardAssumption
      <3> QED BY <1>1, <2>1, <3>1, <3>2, TableLoaded
    <2>2. ASSUME NEW r \in inflight, LoadFails(r) PROVE TableInv'
      BY <2>2, TableInvKept DEF LoadFails
    <2> QED BY <1>2, <2>1, <2>2 DEF LoadAnswered
  <1>3. ASSUME Frame PROVE TableInv'
    <2>1. AnimationFrame /\ UNCHANGED <<drawn, cleared>>
      BY <1>3 DEF Frame, AnimationFrame
    <2>2. ASSUME InProgress \/ Finished PROVE InProgress' \/ Finished'
      BY <1>1, <2>1, <2>2, FrameGoesOn, FrameAppends
    <2> QED BY <2>1, <2>2 DEF TableInv
  <1>4. ASSUME NEW text \in Texts, NEW level, ApplyQuickFilter(text, level) PROVE TableInv'
    BY <1>1, <1>4, TableFiltered DEF ApplyQuickFilter
  <1>5. ASSUME SearchTimerFires PROVE TableInv'
    <2>1. ApplyQuickFilter(searchInput, quickFilterLevel) /\ searchInput \in Texts
      BY <1>1, <1>5 DEF SearchTimerFires, OthersTyped
    <2> QED BY <1>4, <2>1
  <1>6. ASSUME ClearQuickFilter PROVE TableInv'
    <2>1. ApplyQuickFilter(NoText, NoLevel) /\ NoText \in Texts
      BY <1>6, StatsTableAssumption DEF ClearQuickFilter, StatsTableAssumption
    <2> QED BY <1>4, <2>1
  <1>7. ASSUME NEW level, PickLevel(level) PROVE TableInv'
    <2>1. ApplyQuickFilter(quickFilterText, level) /\ quickFilterText \in Texts
      BY <1>1, <1>7 DEF PickLevel, DataTyped
    <2> QED BY <1>4, <2>1
  <1>8. ASSUME \/ AutoRefreshFires \/ Refresh \/ ClearFilters
               \/ \E mode \in Modes : ChangeViewMode(mode)
        PROVE  TableInv'
    <2>1. \E mode : BeginLoad(mode)
      BY <1>8 DEF AutoRefreshFires, Refresh, ClearFilters, ChangeViewMode
    <2> QED BY <2>1, TableCleared
  <1>9. ASSUME NEW p, Navigate(p) PROVE TableInv'
    <2>1. BeginLoad(viewMode) \/ UNCHANGED tableVars
      BY <1>9 DEF Navigate
    <2> QED BY <2>1, TableCleared, TableInvKept
  <1>10. ASSUME NEW column \in Columns[thead], ClickHeader(column) PROVE TableInv'
    <2>1. column \in AllColumns
      BY <1>1 DEF AllColumns, OthersTyped
    <2> QED BY <1>1, <1>10, <2>1, TableSorted DEF ClickHeader
  <1>11. ASSUME \/ UNCHANGED dashboardVars \/ ToggleAutoRefresh
                \/ (\E e \in DOMAIN Fills : InfoResponse(e)) \/ (\E text \in Texts : Type(text))
                \/ SelectTopLoggers
                \/ (\E loggers \in SUBSET availableLoggers : SelectLoggers(loggers))
                \/ (\E levels \in SUBSET Levels : SelectLevels(levels))
         PROVE  TableInv'
    <2>1. UNCHANGED tableVars
      BY <1>11 DEF dashboardVars, ToggleAutoRefresh, InfoResponse, InfoAnswered, Type,
                   SelectTopLoggers, SelectLoggers, SelectLevels, DrawSeries
    <2> QED BY <2>1, TableInvKept
  <1> HIDE DEF TableInv
  <1> QED
    BY <1>2, <1>3, <1>5, <1>6, <1>7, <1>8, <1>9, <1>10, <1>11 DEF DashboardNext

LEMMA TableInvComplete ==
    ASSUME DataTyped, DisplayTyped, TableInv
    PROVE  TableComplete
  <1> DEFINE s == SortedRows
             Drawn == frames = <<>> /\ ~cleared /\ drawn # "over others"
             Alone == drawn = "alone"
  <1> SUFFICES ASSUME Drawn
               PROVE  /\ IsSubsequence(SortedRows, ShownRows)
                      /\ Alone => ShownRows = SortedRows
    BY DEF TableComplete
  <1>1. Finished
    BY DEF TableInv, InProgress
  <1> HIDE DEF Drawn
  <1>2. PICK m \in Nat : m = Len(s) /\ DOMAIN s = 1 .. m /\ s \in Seq(Rows)
    <2>1. s \in Seq(Rows)
      BY SortedFacts DEF DataTyped, SortedRows
    <2> QED BY <2>1, LenProperties
  <1>3. Has(s, m, shown) /\ (Alone => Len(shown) = m /\ \A i \in 1 .. m : shown[i].row = s[i])
    BY <1>1, <1>2 DEF Finished, DrawnUpTo
  <1> HIDE DEF s, Alone
  <1>4. IsSubsequence(s, ShownRows)
    <2>1. PICK p \in [1 .. m -> DOMAIN shown] :
             /\ \A i, j \in 1 .. m : i < j => p[i] < p[j]
             /\ \A i \in 1 .. m : shown[p[i]].row = s[i]
      BY <1>3 DEF Has
    <2>2. DOMAIN ShownRows = DOMAIN shown /\ \A i \in DOMAIN shown : ShownRows[i] = shown[i].row
      BY DEF ShownRows
    <2>3. p \in [DOMAIN s -> DOMAIN ShownRows] /\ \A i \in 1 .. m : s[i] = ShownRows[p[i]]
      BY <1>2, <2>1, <2>2
    <2> QED BY <1>2, <2>1, <2>3 DEF IsSubsequence
  <1>5. ASSUME Alone PROVE ShownRows = s
    <2>1. DOMAIN shown = 1 .. m /\ \A i \in 1 .. m : shown[i].row = s[i]
      BY <1>3, <1>5, LenProperties DEF DisplayTyped
    <2>2. ShownRows = [i \in 1 .. m |-> s[i]]
      BY <2>1 DEF ShownRows
    <2>3. \A i \in 1 .. m : s[i] \in Rows
      BY <1>2, ElementOfSeq
    <2> DEFINE q == [i \in 1 .. m |-> s[i]]
    <2>4. q \in Seq(Rows)
      BY <2>3
    <2>5. Len(q) = Len(s) /\ \A i \in 1 .. Len(q) : q[i] = s[i]
      <3>1. DOMAIN q = 1 .. m /\ \A i \in 1 .. m : q[i] = s[i]
        OBVIOUS
      <3> HIDE DEF q
      <3>2. Len(q) = m
        BY <2>4, <3>1, LenProperties
      <3> QED BY <1>2, <3>1, <3>2
    <2> HIDE DEF q
    <2>6. q = s
      BY <1>2, <2>4, <2>5, SeqEqual
    <2> QED BY <2>2, <2>6 DEF q
  <1> QED BY <1>4, <1>5 DEF s

\* Once rendering is over, the table has every row that passes the quick filter, in the
\* order of the sort, however many renderings were under way at once; and no others if
\* the last one was alone (renderChunk, sortTable, applyQuickFilter).
THEOREM TableIsComplete == DashboardSpec => []TableComplete
  <1>1. DashboardInit => DashboardTypeOK /\ TableInv
    BY TypeInit, TableInvInit
  <1>2. DashboardTypeOK /\ TableInv /\ [DashboardNext]_dashboardVars => (DashboardTypeOK /\ TableInv)'
    BY TypeStep, TableStep
  <1>3. DashboardTypeOK /\ TableInv => TableComplete
    BY TypeParts, TableParts, TableInvComplete
  <1> QED BY <1>1, <1>2, <1>3, PTL DEF DashboardSpec

----------------------------------------------------------------------------
(* The charts follow the data.                                             *)

CountsOf(data) == [i \in DOMAIN data |-> CountOf(data[i])]

LevelVolume(data, l) == Sum(CountsOf(data), {i \in DOMAIN data : data[i].Level = l})

LevelBucket(data, l, ts) ==
    Sum(CountsOf(data), {i \in DOMAIN data : data[i].BucketTS = ts /\ data[i].Level = l})

Counted(row, loggers, levels) == LoggerOf(row) \in loggers /\ (levels = {} \/ row.Level \in levels)

SeriesBuckets(data, loggers, levels) ==
    {row.BucketTS : row \in {r \in ToSet(data) : Counted(r, loggers, levels)}}

SeriesBucket(data, loggers, levels, logger, ts) ==
    Sum(CountsOf(data), {i \in DOMAIN data :
           data[i].BucketTS = ts /\ Counted(data[i], loggers, levels) /\ LoggerOf(data[i]) = logger})

\* The charts, with their sums by name.
LEMMA LevelsChartIs ==
    ASSUME NEW data
    PROVE  LevelsChart(data) =
              [level \in {l \in ChartLevels : LevelVolume(data, l) > 0} |->
                  [ts \in Buckets(data) |-> LevelBucket(data, level, ts)]]
  BY DEF LevelsChart, PerBucket, Volume, LevelVolume, LevelBucket, CountsOf, Sum

LEMMA SeriesChartIs ==
    ASSUME NEW data, NEW loggers, NEW levels
    PROVE  SeriesChart(data, loggers, levels) =
              [logger \in loggers |->
                  [ts \in SeriesBuckets(data, loggers, levels) |->
                      SeriesBucket(data, loggers, levels, logger, ts)]]
  BY DEF SeriesChart, PerBucket, Volume, SeriesBuckets, SeriesBucket, Counted, CountsOf, Sum

\* A sum over other indices with the same numbers.
LEMMA SumMapped ==
    ASSUME NEW A, NEW B, IsFiniteSet(A), NEW f, NEW g, NEW p, p \in [A -> B],
           \A a, b \in A : p[a] = p[b] => a = b, \A b \in B : \E a \in A : p[a] = b,
           \A a \in A : f[a] = g[p[a]], \A b \in B : g[b] \in Nat
    PROVE  Sum(f, A) = Sum(g, B)
  <1> DEFINE Image(U) == {p[a] : a \in U}
             Bad == {U \in SUBSET A : Sum(f, U) # Sum(g, Image(U))}
  <1>1. \A U \in SUBSET A : IsFiniteSet(U) /\ IsFiniteSet(Image(U)) /\ Image(U) \subseteq B
    <2> SUFFICES ASSUME NEW U \in SUBSET A
                 PROVE  IsFiniteSet(U) /\ IsFiniteSet(Image(U)) /\ Image(U) \subseteq B
      OBVIOUS
    <2>1. IsFiniteSet(U)
      BY FS_Subset
    <2> DEFINE q == [a \in U |-> p[a]]
    <2>2. q \in Surjection(U, Image(U))
      BY DEF Surjection
    <2>3. IsFiniteSet(Image(U))
      <3> HIDE DEF q, Image
      <3> QED BY <2>1, <2>2, FS_Surjection
    <2> QED BY <2>1, <2>3
  <1>2. \A a \in A : f[a] \in Nat
    OBVIOUS
  <1>3. ASSUME Bad # {} PROVE FALSE
    <2>1. SetsFrom(Bad, A)
      BY <1>3 DEF SetsFrom
    <2> HIDE DEF Bad
    <2>2. PICK U \in Bad : \A V \in Bad : V \subseteq U => V = U
      BY <2>1, SmallestSet
    <2> USE DEF Bad
    <2>3. U \subseteq A /\ Sum(f, U) # Sum(g, Image(U))
      BY <2>2
    <2>4. U # {}
      <3>1. ASSUME U = {} PROVE FALSE
        <4>1. Image(U) = {} /\ IsFiniteSet({})
          BY <3>1, FS_EmptySet
        <4>2. Sum(f, {}) = 0 /\ Sum(g, {}) = 0
          BY <4>1, SumUnfolds
        <4> QED BY <2>3, <3>1, <4>1, <4>2
      <3> QED BY <3>1
    <2>5. PICK x \in U : TRUE
      BY <2>4
    <2> DEFINE V == U \ {x}
    <2>6. V \in SUBSET A /\ V \subseteq U /\ V # U
      BY <2>3
    <2>7. Sum(f, V) = Sum(g, Image(V))
      <3>1. V \notin Bad
        BY <2>2, <2>6
      <3> QED BY <2>6, <3>1
    <2>8. Image(V) = Image(U) \ {p[x]} /\ p[x] \in Image(U)
      BY <2>3
    <2>9. Sum(f, U) = f[x] + Sum(f, V)
      BY <1>1, <1>2, <2>3, SumOf
    <2>10. Sum(g, Image(U)) = g[p[x]] + Sum(g, Image(V))
      <3>1. IsFiniteSet(Image(U)) /\ \A b \in Image(U) : g[b] \in Nat
        BY <1>1, <2>3
      <3> DEFINE W == Image(U)
                 y == p[x]
      <3>2. y \in W /\ Image(V) = W \ {y}
        BY <2>8
      <3> HIDE DEF W, y, Image, V
      <3>3. Sum(g, W) = g[y] + Sum(g, W \ {y})
        BY <3>1, <3>2, SumOf DEF W
      <3> QED BY <3>2, <3>3 DEF W, y
    <2>11. f[x] = g[p[x]]
      BY <2>3
    <2> QED BY <2>3, <2>7, <2>9, <2>10, <2>11
  <1>4. Sum(f, A) = Sum(g, Image(A))
    BY <1>3
  <1>5. Image(A) = B
    OBVIOUS
  <1> QED BY <1>4, <1>5

\* p renumbers A as B, and f and g have the same numbers there.
Renumbers(p, A, B, f, g) ==
    /\ p \in [A -> B]
    /\ \A a, b \in A : p[a] = p[b] => a = b
    /\ \A b \in B : \E a \in A : p[a] = b
    /\ \A a \in A : f[a] = g[p[a]]
    /\ \A b \in B : g[b] \in Nat

LEMMA SumRenumbered ==
    ASSUME NEW A, NEW B, IsFiniteSet(A), NEW f, NEW g, NEW p, Renumbers(p, A, B, f, g)
    PROVE  Sum(f, A) = Sum(g, B)
  BY SumMapped DEF Renumbers

LEMMA CountsTyped ==
    ASSUME NEW data \in Seq(Rows)
    PROVE  /\ DOMAIN CountsOf(data) = DOMAIN data /\ IsFiniteSet(DOMAIN data)
           /\ \A i \in DOMAIN data : /\ data[i] \in Rows
                                     /\ CountsOf(data)[i] = CountOf(data[i])
                                     /\ CountsOf(data)[i] \in Nat
  <1>1. DOMAIN data = 1 .. Len(data) /\ Len(data) \in Nat /\ \A i \in DOMAIN data : data[i] \in Rows
    BY LenProperties, ElementOfSeq
  <1>2. IsFiniteSet(DOMAIN data)
    BY <1>1, FS_Interval
  <1>3. \A row \in Rows : CountOf(row) \in Nat
    BY DashboardAssumption DEF DashboardAssumption
  <1>4. \A i \in DOMAIN data : CountsOf(data)[i] = CountOf(data[i])
    BY DEF CountsOf
  <1>5. DOMAIN CountsOf(data) = DOMAIN data
    BY DEF CountsOf
  <1> QED BY <1>1, <1>2, <1>3, <1>4, <1>5

\* The places of the rows of a set.
Places(data, P) == {i \in DOMAIN data : data[i] \in P}

\* The order of the rows makes no difference to a sum.
LEMMA SumRearranged ==
    ASSUME NEW s \in Seq(Rows), NEW t \in Seq(Rows), Rearranges(s, t), NEW P
    PROVE  Sum(CountsOf(s), Places(s, P)) = Sum(CountsOf(t), Places(t, P))
  <1>1. PICK p \in Bijection(DOMAIN s, DOMAIN t) : \A i \in DOMAIN s : s[i] = t[p[i]]
    BY DEF Rearranges
  <1>2. /\ p \in [DOMAIN s -> DOMAIN t]
        /\ \A a, b \in DOMAIN s : p[a] = p[b] => a = b
        /\ \A j \in DOMAIN t : \E i \in DOMAIN s : p[i] = j
    BY <1>1, Fun_BijectionProperties
  <1> DEFINE A == Places(s, P)
             B == Places(t, P)
             q == [i \in A |-> p[i]]
  <1>3. q \in [A -> B]
    BY <1>1, <1>2 DEF Places
  <1>4. \A a, b \in A : q[a] = q[b] => a = b
    BY <1>2 DEF Places
  <1>5. \A b \in B : \E a \in A : q[a] = b
    BY <1>1, <1>2 DEF Places
  <1>6. A \subseteq DOMAIN s /\ B \subseteq DOMAIN t /\ IsFiniteSet(A)
    <2>1. A \subseteq DOMAIN s /\ B \subseteq DOMAIN t
      BY DEF Places
    <2>2. IsFiniteSet(DOMAIN s)
      BY CountsTyped
    <2> HIDE DEF A, B
    <2> QED BY <2>1, <2>2, FS_Subset
  <1>7. \A a \in A : CountsOf(s)[a] = CountsOf(t)[q[a]]
    <2> SUFFICES ASSUME NEW a \in A PROVE CountsOf(s)[a] = CountsOf(t)[q[a]]
      OBVIOUS
    <2>1. a \in DOMAIN s /\ p[a] \in DOMAIN t /\ s[a] = t[p[a]] /\ q[a] = p[a]
      BY <1>1, <1>2, <1>6
    <2>2. CountsOf(s)[a] = CountOf(s[a]) /\ CountsOf(t)[p[a]] = CountOf(t[p[a]])
      BY <2>1, CountsTyped
    <2> QED BY <2>1, <2>2
  <1>8. \A b \in B : CountsOf(t)[b] \in Nat
    BY <1>6, CountsTyped
  <1> HIDE DEF A, B, q
  <1>0. Renumbers(q, A, B, CountsOf(s), CountsOf(t))
    BY <1>3, <1>4, <1>5, <1>7, <1>8 DEF Renumbers
  <1>9. Sum(CountsOf(s), A) = Sum(CountsOf(t), B)
    BY <1>0, <1>6, SumRenumbered
  <1> QED BY <1>9 DEF A, B

\* The sums of the charts, by the rows they count.
LEMMA LevelVolumeIs ==
    ASSUME NEW data \in Seq(Rows), NEW l
    PROVE  LevelVolume(data, l) = Sum(CountsOf(data), Places(data, {r \in Rows : r.Level = l}))
  <1>1. \A i \in DOMAIN data : data[i] \in Rows
    BY CountsTyped
  <1>2. {i \in DOMAIN data : data[i].Level = l} = Places(data, {r \in Rows : r.Level = l})
    BY <1>1 DEF Places
  <1> QED BY <1>2 DEF LevelVolume

LEMMA LevelBucketIs ==
    ASSUME NEW data \in Seq(Rows), NEW l, NEW ts
    PROVE  LevelBucket(data, l, ts) =
              Sum(CountsOf(data), Places(data, {r \in Rows : r.BucketTS = ts /\ r.Level = l}))
  <1>1. \A i \in DOMAIN data : data[i] \in Rows
    BY CountsTyped
  <1>2. {i \in DOMAIN data : data[i].BucketTS = ts /\ data[i].Level = l}
           = Places(data, {r \in Rows : r.BucketTS = ts /\ r.Level = l})
    BY <1>1 DEF Places
  <1> QED BY <1>2 DEF LevelBucket

\* The rows a line of the time series counts in a bucket.
InLine(loggers, levels, logger, ts) ==
    {r \in Rows : r.BucketTS = ts /\ Counted(r, loggers, levels) /\ LoggerOf(r) = logger}

LEMMA SeriesBucketIs ==
    ASSUME NEW data \in Seq(Rows), NEW loggers, NEW levels, NEW logger, NEW ts
    PROVE  SeriesBucket(data, loggers, levels, logger, ts) =
              Sum(CountsOf(data), Places(data, InLine(loggers, levels, logger, ts)))
  <1>1. \A i \in DOMAIN data : data[i] \in Rows
    BY CountsTyped
  <1>2. {i \in DOMAIN data :
           data[i].BucketTS = ts /\ Counted(data[i], loggers, levels) /\ LoggerOf(data[i]) = logger}
           = Places(data, InLine(loggers, levels, logger, ts))
    BY <1>1 DEF Places, InLine
  <1> QED BY <1>2 DEF SeriesBucket

\* Sorting the rows changes neither chart.
LEMMA ChartsOfSorted ==
    ASSUME NEW data \in Seq(Rows), NEW column \in AllColumns \cup {NoColumn},
           NEW direction \in {"asc", "desc"}, NEW loggers, NEW levels
    PROVE  /\ LevelsChart(Sorted(data, column, direction)) = LevelsChart(data)
           /\ SeriesChart(Sorted(data, column, direction), loggers, levels)
                 = SeriesChart(data, loggers, levels)
           /\ Loggers(Sorted(data, column, direction)) = Loggers(data)
  <1> DEFINE s == Sorted(data, column, direction)
  <1>1. s \in Seq(Rows) /\ Rearranges(s, data)
    BY SortedFacts
  <1> HIDE DEF s
  <1>2. ToSet(s) = ToSet(data)
    <2>1. PICK p \in Bijection(DOMAIN s, DOMAIN data) : \A i \in DOMAIN s : s[i] = data[p[i]]
      BY <1>1 DEF Rearranges
    <2>2. /\ p \in [DOMAIN s -> DOMAIN data]
          /\ \A j \in DOMAIN data : \E i \in DOMAIN s : p[i] = j
      BY <2>1, Fun_BijectionProperties
    <2> QED BY <2>1, <2>2 DEF ToSet
  <1>3. Buckets(s) = Buckets(data) /\ Loggers(s) = Loggers(data)
        /\ SeriesBuckets(s, loggers, levels) = SeriesBuckets(data, loggers, levels)
    BY <1>2 DEF Buckets, Loggers, SeriesBuckets
  <1>4. ASSUME NEW P PROVE Sum(CountsOf(s), Places(s, P)) = Sum(CountsOf(data), Places(data, P))
    BY <1>1, SumRearranged
  <1>5. ASSUME NEW l PROVE LevelVolume(s, l) = LevelVolume(data, l)
    <2> DEFINE P == {r \in Rows : r.Level = l}
    <2>1. LevelVolume(s, l) = Sum(CountsOf(s), Places(s, P))
      BY <1>1, LevelVolumeIs
    <2>2. LevelVolume(data, l) = Sum(CountsOf(data), Places(data, P))
      BY LevelVolumeIs
    <2> HIDE DEF P
    <2> QED BY <1>4, <2>1, <2>2
  <1>6. ASSUME NEW l, NEW ts PROVE LevelBucket(s, l, ts) = LevelBucket(data, l, ts)
    <2> DEFINE P == {r \in Rows : r.BucketTS = ts /\ r.Level = l}
    <2>1. LevelBucket(s, l, ts) = Sum(CountsOf(s), Places(s, P))
      BY <1>1, LevelBucketIs
    <2>2. LevelBucket(data, l, ts) = Sum(CountsOf(data), Places(data, P))
      BY LevelBucketIs
    <2> HIDE DEF P
    <2> QED BY <1>4, <2>1, <2>2
  <1>7. ASSUME NEW logger, NEW ts
        PROVE  SeriesBucket(s, loggers, levels, logger, ts) = SeriesBucket(data, loggers, levels, logger, ts)
    <2> DEFINE P == InLine(loggers, levels, logger, ts)
    <2>1. SeriesBucket(s, loggers, levels, logger, ts) = Sum(CountsOf(s), Places(s, P))
      BY <1>1, SeriesBucketIs
    <2>2. SeriesBucket(data, loggers, levels, logger, ts) = Sum(CountsOf(data), Places(data, P))
      BY SeriesBucketIs
    <2> HIDE DEF P
    <2> QED BY <1>4, <2>1, <2>2
  <1>8. LevelsChart(s) = LevelsChart(data)
    <2>1. {l \in ChartLevels : LevelVolume(s, l) > 0} = {l \in ChartLevels : LevelVolume(data, l) > 0}
      BY <1>5
    <2>2. \A level : [ts \in Buckets(s) |-> LevelBucket(s, level, ts)]
                        = [ts \in Buckets(data) |-> LevelBucket(data, level, ts)]
      BY <1>3, <1>6
    <2>3. LevelsChart(s) = [level \in {l \in ChartLevels : LevelVolume(s, l) > 0} |->
                               [ts \in Buckets(s) |-> LevelBucket(s, level, ts)]]
      BY LevelsChartIs
    <2>4. LevelsChart(data) = [level \in {l \in ChartLevels : LevelVolume(data, l) > 0} |->
                                  [ts \in Buckets(data) |-> LevelBucket(data, level, ts)]]
      BY LevelsChartIs
    <2> QED BY <2>1, <2>2, <2>3, <2>4
  <1>9. SeriesChart(s, loggers, levels) = SeriesChart(data, loggers, levels)
    <2>1. \A logger : [ts \in SeriesBuckets(s, loggers, levels) |->
                          SeriesBucket(s, loggers, levels, logger, ts)]
                        = [ts \in SeriesBuckets(data, loggers, levels) |->
                              SeriesBucket(data, loggers, levels, logger, ts)]
      BY <1>3, <1>7
    <2>2. SeriesChart(s, loggers, levels) =
             [logger \in loggers |-> [ts \in SeriesBuckets(s, loggers, levels) |->
                                         SeriesBucket(s, loggers, levels, logger, ts)]]
      BY SeriesChartIs
    <2>3. SeriesChart(data, loggers, levels) =
             [logger \in loggers |-> [ts \in SeriesBuckets(data, loggers, levels) |->
                                         SeriesBucket(data, loggers, levels, logger, ts)]]
      BY SeriesChartIs
    <2> QED BY <2>1, <2>2, <2>3
  <1> QED BY <1>3, <1>8, <1>9 DEF s

\* The parts of A that h sends to a value, and to a set of values.
PartOf(A, h, k) == {a \in A : h[a] = k}
PartsOf(A, h, K) == {a \in A : h[a] \in K}

\* g has the sums of f over the parts.
AddsParts(g, f, A, h, K) == \A k \in K : g[k] = Sum(f, PartOf(A, h, k))

LEMMA SumOfNothing == ASSUME NEW f PROVE Sum(f, {}) = 0
  <1>1. IsFiniteSet({})
    BY FS_EmptySet
  <1> QED BY <1>1, SumUnfolds

\* The sum of the sums of the parts is the sum of the whole.
LEMMA SumOfParts ==
    ASSUME NEW f, NEW A, IsFiniteSet(A), \A a \in A : f[a] \in Nat,
           NEW h, NEW K, IsFiniteSet(K), NEW g, AddsParts(g, f, A, h, K)
    PROVE  Sum(g, K) = Sum(f, PartsOf(A, h, K))
  <1> DEFINE Bad == {V \in SUBSET K : Sum(g, V) # Sum(f, PartsOf(A, h, V))}
  <1>1. \A k : IsFiniteSet(PartOf(A, h, k)) /\ PartOf(A, h, k) \subseteq A
    <2> SUFFICES ASSUME NEW k PROVE IsFiniteSet(PartOf(A, h, k)) /\ PartOf(A, h, k) \subseteq A
      OBVIOUS
    <2>1. PartOf(A, h, k) \subseteq A
      BY DEF PartOf
    <2> QED BY <2>1, FS_Subset
  <1>2. \A V : IsFiniteSet(PartsOf(A, h, V)) /\ PartsOf(A, h, V) \subseteq A
    <2> SUFFICES ASSUME NEW V PROVE IsFiniteSet(PartsOf(A, h, V)) /\ PartsOf(A, h, V) \subseteq A
      OBVIOUS
    <2>1. PartsOf(A, h, V) \subseteq A
      BY DEF PartsOf
    <2> QED BY <2>1, FS_Subset
  <1>3. \A k \in K : g[k] \in Nat
    <2> SUFFICES ASSUME NEW k \in K PROVE g[k] \in Nat
      OBVIOUS
    <2>1. \A r \in PartOf(A, h, k) : f[r] \in Nat
      BY <1>1
    <2>2. Sum(f, PartOf(A, h, k)) \in Nat
      BY <1>1, <2>1, SumOf
    <2> QED BY <2>2 DEF AddsParts
  <1>4. ASSUME Bad # {} PROVE FALSE
    <2>1. SetsFrom(Bad, K)
      BY <1>4 DEF SetsFrom
    <2> HIDE DEF Bad
    <2>2. PICK U \in Bad : \A V \in Bad : V \subseteq U => V = U
      BY <2>1, SmallestSet
    <2> USE DEF Bad
    <2>3. U \in SUBSET K /\ Sum(g, U) # Sum(f, PartsOf(A, h, U)) /\ IsFiniteSet(U)
      BY <2>2, FS_Subset
    <2>4. U # {}
      <3> SUFFICES ASSUME U = {} PROVE FALSE
        OBVIOUS
      <3>1. PartsOf(A, h, {}) = {}
        BY DEF PartsOf
      <3> QED BY <2>3, <3>1, SumOfNothing
    <2>5. PICK x \in U : TRUE
      BY <2>4
    <2> DEFINE V == U \ {x}
    <2>6. V \in SUBSET K /\ V \subseteq U /\ V # U
      BY <2>3
    <2>7. Sum(g, V) = Sum(f, PartsOf(A, h, V))
      <3>1. V \notin Bad
        BY <2>2, <2>6
      <3> QED BY <2>6, <3>1
    <2>8. Sum(g, U) = g[x] + Sum(g, V)
      <3>1. \A r \in U : g[r] \in Nat
        BY <1>3, <2>3
      <3> QED BY <2>3, <3>1, SumOf
    <2> DEFINE X == PartOf(A, h, x)
               Y == PartsOf(A, h, V)
    <2>9. PartsOf(A, h, U) = X \cup Y /\ X \cap Y = {}
      BY DEF PartsOf, PartOf
    <2>10. IsFiniteSet(X) /\ IsFiniteSet(Y) /\ \A r \in X \cup Y : f[r] \in Nat
      <3>1. X \subseteq A /\ Y \subseteq A
        BY <1>1, <1>2
      <3> QED BY <1>1, <1>2, <3>1
    <2>11. g[x] = Sum(f, X)
      BY <2>3 DEF AddsParts
    <2> HIDE DEF X, Y
    <2>12. Sum(f, X \cup Y) = Sum(f, X) + Sum(f, Y)
      BY <2>9, <2>10, SumOfUnion
    <2>13. Sum(g, U) = Sum(f, X \cup Y)
      BY <2>7, <2>8, <2>11, <2>12 DEF Y
    <2> QED BY <2>3, <2>9, <2>13
  <1>5. Bad = {}
    BY <1>4
  <1> QED BY <1>5

\* A sum of numbers is zero exactly when all of them are.
LEMMA SumZero ==
    ASSUME NEW f, NEW A, IsFiniteSet(A), \A a \in A : f[a] \in Nat
    PROVE  Sum(f, A) = 0 <=> \A a \in A : f[a] = 0
  <1>1. ASSUME Sum(f, A) = 0, NEW a \in A PROVE f[a] = 0
    <2>1. Sum(f, A) = f[a] + Sum(f, A \ {a})
      BY SumOf
    <2>2. IsFiniteSet(A \ {a}) /\ \A r \in A \ {a} : f[r] \in Nat
      BY FS_Subset
    <2> DEFINE R == A \ {a}
    <2>3. Sum(f, R) \in Nat
      <3>1. IsFiniteSet(R) /\ \A r \in R : f[r] \in Nat
        BY <2>2
      <3> HIDE DEF R
      <3> QED BY <3>1, SumOf
    <2> QED BY <1>1, <2>1, <2>3
  <1>2. ASSUME \A a \in A : f[a] = 0, Sum(f, A) # 0 PROVE FALSE
    <2> DEFINE Bad == {U \in SUBSET A : Sum(f, U) # 0}
    <2>1. SetsFrom(Bad, A)
      BY <1>2 DEF SetsFrom
    <2> HIDE DEF Bad
    <2>2. PICK U \in Bad : \A V \in Bad : V \subseteq U => V = U
      BY <2>1, SmallestSet
    <2> USE DEF Bad
    <2>3. U \in SUBSET A /\ Sum(f, U) # 0 /\ IsFiniteSet(U)
      BY <2>2, FS_Subset
    <2>4. PICK x \in U : TRUE
      BY <2>3, SumOfNothing
    <2> DEFINE V == U \ {x}
    <2>5. V \in SUBSET A /\ V \subseteq U /\ V # U
      BY <2>3
    <2>6. Sum(f, V) = 0
      <3>1. V \notin Bad
        BY <2>2, <2>5
      <3> QED BY <2>5, <3>1
    <2>7. Sum(f, U) = f[x] + Sum(f, V)
      <3>1. \A r \in U : f[r] \in Nat
        BY <2>3
      <3> QED BY <2>3, <3>1, SumOf
    <2>8. f[x] = 0
      BY <1>2, <2>3
    <2> QED BY <2>3, <2>6, <2>7, <2>8
  <1> QED BY <1>1, <1>2

\* The places of the rows of a bucket.
InBucket(data, ts) == {i \in DOMAIN data : data[i].BucketTS = ts}

LEMMA InBucketTyped ==
    ASSUME NEW data \in Seq(Rows), NEW ts
    PROVE  /\ IsFiniteSet(InBucket(data, ts)) /\ InBucket(data, ts) \subseteq DOMAIN data
           /\ \A i \in InBucket(data, ts) : CountsOf(data)[i] \in Nat
  <1>1. InBucket(data, ts) \subseteq DOMAIN data
    BY DEF InBucket
  <1>2. IsFiniteSet(DOMAIN data) /\ \A i \in DOMAIN data : CountsOf(data)[i] \in Nat
    BY CountsTyped
  <1> QED BY <1>1, <1>2, FS_Subset

LEMMA ImageFinite ==
    ASSUME NEW S, IsFiniteSet(S), NEW h
    PROVE  IsFiniteSet({h[i] : i \in S})
  <1> DEFINE q == [i \in S |-> h[i]]
             T == {h[i] : i \in S}
  <1>1. q \in Surjection(S, T)
    BY DEF Surjection
  <1> HIDE DEF q, T
  <1> QED BY <1>1, FS_Surjection DEF T

LEMMA SumOfFunctionIs == \A f : SumFunction(f) = Sum(f, DOMAIN f)
  BY DEF SumFunction, Sum, SumFunctionOnSet, FoldFunction

\* The lines of all loggers add up to the bucket.
LEMMA SeriesAdds ==
    ASSUME NEW data \in Seq(Rows), NEW ts \in Buckets(data), NEW c,
           c = SeriesChart(data, Loggers(data), {})
    PROVE  SumFunction([g \in DOMAIN c |-> c[g][ts]]) = Sum(CountsOf(data), InBucket(data, ts))
  <1> DEFINE A == InBucket(data, ts)
             K == Loggers(data)
             h == [i \in DOMAIN data |-> LoggerOf(data[i])]
             f == CountsOf(data)
             n == [g \in K |-> SeriesBucket(data, K, {}, g, ts)]
  <1>1. c = [g \in K |-> [t \in SeriesBuckets(data, K, {}) |-> SeriesBucket(data, K, {}, g, t)]]
    BY SeriesChartIs
  <1>2. K = {h[i] : i \in DOMAIN data} /\ \A i \in DOMAIN data : LoggerOf(data[i]) \in K
    BY DEF Loggers, ToSet
  <1>3. ts \in SeriesBuckets(data, K, {})
    BY <1>2 DEF SeriesBuckets, Buckets, Counted, ToSet, Loggers
  <1>4. [g \in DOMAIN c |-> c[g][ts]] = n
    BY <1>1, <1>3
  <1>5. IsFiniteSet(K)
    <2>1. IsFiniteSet(DOMAIN data)
      BY CountsTyped
    <2> HIDE DEF h, K
    <2> QED BY <1>2, <2>1, ImageFinite
  <1>6. AddsParts(n, f, A, h, K)
    <2> SUFFICES ASSUME NEW g \in K PROVE n[g] = Sum(f, PartOf(A, h, g))
      BY DEF AddsParts
    <2>1. {i \in DOMAIN data :
             data[i].BucketTS = ts /\ Counted(data[i], K, {}) /\ LoggerOf(data[i]) = g}
             = PartOf(A, h, g)
      BY <1>2 DEF PartOf, InBucket, Counted
    <2>2. SeriesBucket(data, K, {}, g, ts) = Sum(f, PartOf(A, h, g))
      BY <2>1 DEF SeriesBucket
    <2> QED BY <2>2
  <1>7. PartsOf(A, h, K) = A
    BY <1>2 DEF PartsOf, InBucket
  <1>8. DOMAIN n = K
    OBVIOUS
  <1>9. IsFiniteSet(A) /\ \A i \in A : f[i] \in Nat
    BY InBucketTyped
  <1> HIDE DEF A, K, h, f, n
  <1>10. Sum(n, K) = Sum(f, PartsOf(A, h, K))
    BY <1>5, <1>6, <1>9, SumOfParts
  <1>11. SumFunction(n) = Sum(n, K)
    BY <1>8, SumOfFunctionIs
  <1>12. SumFunction([g \in DOMAIN c |-> c[g][ts]]) = Sum(f, A)
    BY <1>4, <1>7, <1>10, <1>11
  <1> QED BY <1>12 DEF A, f

\* So do the bars, those of levels without messages left out.
LEMMA LevelsAdd ==
    ASSUME NEW data \in Seq(Rows), NEW ts \in Buckets(data), NEW c, c = LevelsChart(data),
           {row.Level : row \in ToSet(data)} \subseteq ChartLevels
    PROVE  SumFunction([l \in DOMAIN c |-> c[l][ts]]) = Sum(CountsOf(data), InBucket(data, ts))
  <1> DEFINE A == InBucket(data, ts)
             K == {l \in ChartLevels : LevelVolume(data, l) > 0}
             h == [i \in DOMAIN data |-> data[i].Level]
             f == CountsOf(data)
             n == [l \in K |-> LevelBucket(data, l, ts)]
             B == PartsOf(A, h, K)
  <1>1. c = [l \in K |-> [t \in Buckets(data) |-> LevelBucket(data, l, t)]]
    BY LevelsChartIs
  <1>2. [l \in DOMAIN c |-> c[l][ts]] = n
    BY <1>1
  <1>3. \A i \in DOMAIN data : h[i] = data[i].Level /\ h[i] \in ChartLevels
    BY DEF ToSet
  <1>4. \A l : /\ IsFiniteSet({i \in DOMAIN data : data[i].Level = l})
               /\ \A i \in {j \in DOMAIN data : data[j].Level = l} : f[i] \in Nat
    <2> SUFFICES ASSUME NEW l
                 PROVE  /\ IsFiniteSet({i \in DOMAIN data : data[i].Level = l})
                        /\ \A i \in {j \in DOMAIN data : data[j].Level = l} : f[i] \in Nat
      OBVIOUS
    <2> DEFINE S == {i \in DOMAIN data : data[i].Level = l}
    <2>1. S \subseteq DOMAIN data
      OBVIOUS
    <2>2. IsFiniteSet(DOMAIN data) /\ \A i \in DOMAIN data : f[i] \in Nat
      BY CountsTyped
    <2>3. IsFiniteSet(S)
      <3> HIDE DEF S
      <3> QED BY <2>1, <2>2, FS_Subset
    <2> QED BY <2>1, <2>2, <2>3
  <1>5. \A l : LevelVolume(data, l) \in Nat
               /\ (LevelVolume(data, l) = 0 <=> \A i \in DOMAIN data : data[i].Level = l => f[i] = 0)
    <2> SUFFICES ASSUME NEW l
                 PROVE  /\ LevelVolume(data, l) \in Nat
                        /\ (LevelVolume(data, l) = 0
                              <=> \A i \in DOMAIN data : data[i].Level = l => f[i] = 0)
      OBVIOUS
    <2> DEFINE S == {i \in DOMAIN data : data[i].Level = l}
    <2>1. IsFiniteSet(S) /\ \A i \in S : f[i] \in Nat
      BY <1>4
    <2>2. LevelVolume(data, l) = Sum(f, S)
      BY DEF LevelVolume
    <2>3. Sum(f, S) \in Nat /\ (Sum(f, S) = 0 <=> \A i \in S : f[i] = 0)
      <3> HIDE DEF S, f
      <3> QED BY <2>1, SumOf, SumZero
    <2> QED BY <2>2, <2>3
  <1>6. IsFiniteSet(K)
    <2>1. IsFiniteSet(DOMAIN data)
      BY CountsTyped
    <2> DEFINE T == {h[i] : i \in DOMAIN data}
    <2>2. K \subseteq T
      <3> SUFFICES ASSUME NEW l \in K PROVE l \in T
        OBVIOUS
      <3>1. LevelVolume(data, l) # 0
        OBVIOUS
      <3>2. PICK i \in DOMAIN data : data[i].Level = l
        BY <1>5, <3>1
      <3> QED BY <3>2
    <2>3. IsFiniteSet(T)
      <3> HIDE DEF h
      <3> QED BY <2>1, ImageFinite
    <2> HIDE DEF K, T
    <2> QED BY <2>2, <2>3, FS_Subset
  <1>7. AddsParts(n, f, A, h, K)
    <2> SUFFICES ASSUME NEW l \in K PROVE n[l] = Sum(f, PartOf(A, h, l))
      BY DEF AddsParts
    <2>1. {i \in DOMAIN data : data[i].BucketTS = ts /\ data[i].Level = l} = PartOf(A, h, l)
      BY DEF PartOf, InBucket
    <2>2. LevelBucket(data, l, ts) = Sum(f, PartOf(A, h, l))
      BY <2>1 DEF LevelBucket
    <2> QED BY <2>2
  <1>8. DOMAIN n = K
    OBVIOUS
  <1>9. IsFiniteSet(A) /\ \A i \in A : f[i] \in Nat
    BY InBucketTyped
  <1>10. B \subseteq A
    BY DEF PartsOf
  <1>11. \A i \in A \ B : f[i] = 0
    <2> SUFFICES ASSUME NEW i \in A \ B PROVE f[i] = 0
      OBVIOUS
    <2>1. i \in DOMAIN data /\ h[i] \notin K
      BY DEF PartsOf, InBucket
    <2>2. h[i] \in ChartLevels /\ data[i].Level = h[i]
      BY <1>3, <2>1
    <2>3. ~(LevelVolume(data, h[i]) > 0)
      BY <2>1, <2>2
    <2>4. LevelVolume(data, h[i]) = 0
      <3>1. LevelVolume(data, h[i]) \in Nat
        BY <1>5
      <3> QED BY <2>3, <3>1
    <2> QED BY <1>5, <2>1, <2>2, <2>4
  <1> DEFINE R == A \ B
  <1>12. A = B \cup R /\ B \cap R = {}
    BY <1>10
  <1>13. IsFiniteSet(B) /\ IsFiniteSet(R) /\ \A i \in B \cup R : f[i] \in Nat
    <2>1. R \subseteq A
      OBVIOUS
    <2> HIDE DEF A, B, R, f
    <2> QED BY <1>9, <1>10, <2>1, FS_Subset
  <1>14. Sum(n, K) = Sum(f, B)
    <2> HIDE DEF A, K, h, f, n
    <2> QED BY <1>6, <1>7, <1>9, SumOfParts
  <1>15. \A i \in R : f[i] = 0
    BY <1>11
  <1> HIDE DEF A, B, K, R, h, f, n
  <1>16. Sum(f, B \cup R) = Sum(f, B) + Sum(f, R)
    BY <1>12, <1>13, SumOfUnion
  <1>17. Sum(f, R) = 0
    BY <1>13, <1>15, SumZero
  <1>18. Sum(f, B) \in Nat
    BY <1>13, SumOf
  <1>19. SumFunction(n) = Sum(n, K)
    BY <1>8, SumOfFunctionIs
  <1>20. Sum(f, A) = Sum(f, B)
    BY <1>12, <1>16, <1>17, <1>18
  <1>21. SumFunction([l \in DOMAIN c |-> c[l][ts]]) = Sum(f, A)
    BY <1>2, <1>14, <1>19, <1>20
  <1> QED BY <1>21 DEF A, f

\* What the charts show, whichever way the data came.
ChartsInv ==
    /\ levelChart = LevelsChart(filteredData)
    /\ currentData # <<>> =>
          timeSeriesChart = SeriesChart(filteredData, selectedLoggers, selectedLevels)

LEMMA ChartsKept ==
    ASSUME ChartsInv, UNCHANGED <<currentData, filteredData, chartVars>>
    PROVE  ChartsInv'
  BY DEF ChartsInv, chartVars

LEMMA ChartsDrawn ==
    ASSUME NEW data, DrawCharts(data), filteredData' = data, UNCHANGED selectedLevels
    PROVE  ChartsInv'
  BY DEF ChartsInv, DrawCharts

LEMMA ChartsLoaded ==
    ASSUME NEW r, NEW answer \in Seq(Rows), Loaded(r, answer)
    PROVE  ChartsInv'
  <1>1. /\ currentData' = Sorted(answer, sortColumn, sortDirection) /\ filteredData' = answer
        /\ UNCHANGED selectedLevels
    BY DEF Loaded
  <1>2. CASE answer = <<>>
    <2>1. currentData' = <<>>
      BY <1>1, <1>2, SortedNothing
    <2>2. levelChart' = LevelsChart(<<>>)
      BY <1>2 DEF Loaded, ShowNothing
    <2> QED BY <1>1, <1>2, <2>1, <2>2 DEF ChartsInv
  <1>3. CASE answer # <<>>
    <2>1. DrawCharts(answer)
      BY <1>3 DEF Loaded
    <2> QED BY <1>1, <2>1, ChartsDrawn
  <1> QED BY <1>2, <1>3

LEMMA ChartsSorted ==
    ASSUME DataTyped, ChartsInv, NEW column \in AllColumns, SortTable(column), UNCHANGED chartVars
    PROVE  ChartsInv'
  <1> DEFINE direction == IF column = sortColumn /\ sortDirection = "asc" THEN "desc" ELSE "asc"
             data == Sorted(filteredData, column, direction)
  <1>1. filteredData' = data /\ UNCHANGED currentData
    BY DEF SortTable
  <1>2. direction \in {"asc", "desc"}
    OBVIOUS
  <1> HIDE DEF direction
  <1>3. /\ LevelsChart(data) = LevelsChart(filteredData)
        /\ SeriesChart(data, selectedLoggers, selectedLevels)
              = SeriesChart(filteredData, selectedLoggers, selectedLevels)
    BY <1>2, ChartsOfSorted DEF DataTyped
  <1> HIDE DEF data
  <1> QED BY <1>1, <1>3 DEF ChartsInv, chartVars

LEMMA ChartsStep ==
    ASSUME DashboardTypeOK, ChartsInv, [DashboardNext]_dashboardVars
    PROVE  ChartsInv'
  <1>1. TableTypeOK /\ OthersTyped /\ DataTyped
    BY TypeParts, TableParts
  <1>2. ASSUME LoadAnswered PROVE ChartsInv'
    <2>1. ASSUME NEW r \in inflight, NEW answer \in Answers[r.viewMode], Loaded(r, answer)
          PROVE  ChartsInv'
      <3>1. r.viewMode \in Modes
        BY <1>1 DEF OthersTyped
      <3>2. answer \in Seq(Rows)
        BY <3>1, DashboardAssumption DEF DashboardAssumption
      <3> QED BY <2>1, <3>2, ChartsLoaded
    <2>2. ASSUME NEW r \in inflight, LoadFails(r) PROVE ChartsInv'
      BY <2>2, ChartsKept DEF LoadFails, tableVars
    <2> QED BY <1>2, <2>1, <2>2 DEF LoadAnswered
  <1>3. ASSUME NEW text, NEW level, ApplyQuickFilter(text, level) PROVE ChartsInv'
    <2>1. DrawCharts(filteredData') /\ UNCHANGED selectedLevels
      BY <1>3 DEF ApplyQuickFilter
    <2> QED BY <2>1, ChartsDrawn
  <1>4. ASSUME \/ SearchTimerFires \/ ClearQuickFilter
               \/ \E level \in Levels \cup {NoLevel} : PickLevel(level)
        PROVE  ChartsInv'
    BY <1>3, <1>4 DEF SearchTimerFires, ClearQuickFilter, PickLevel
  <1>5. ASSUME NEW column \in Columns[thead], ClickHeader(column) PROVE ChartsInv'
    <2>1. column \in AllColumns
      BY <1>1 DEF AllColumns, OthersTyped
    <2> QED BY <1>1, <1>5, <2>1, ChartsSorted DEF ClickHeader
  <1>6. ASSUME NEW loggers, NEW levels, DrawSeries(loggers, levels) PROVE ChartsInv'
    BY <1>6 DEF DrawSeries, ChartsInv, tableVars
  <1>7. ASSUME \/ SelectTopLoggers
               \/ (\E loggers \in SUBSET availableLoggers : SelectLoggers(loggers))
               \/ (\E levels \in SUBSET Levels : SelectLevels(levels))
        PROVE  ChartsInv'
    BY <1>6, <1>7 DEF SelectTopLoggers, SelectLoggers, SelectLevels
  <1>8. ASSUME \/ AutoRefreshFires \/ Refresh \/ ClearFilters \/ Frame \/ ToggleAutoRefresh
               \/ (\E mode \in Modes : ChangeViewMode(mode)) \/ (\E p \in Pages : Navigate(p))
               \/ (\E e \in DOMAIN Fills : InfoResponse(e)) \/ (\E text \in Texts : Type(text))
               \/ UNCHANGED dashboardVars
        PROVE  ChartsInv'
    <2>1. UNCHANGED <<currentData, filteredData, chartVars>>
      BY <1>8 DEF AutoRefreshFires, Refresh, ClearFilters, Frame, ToggleAutoRefresh, ChangeViewMode,
                  Navigate, InfoResponse, InfoAnswered, Type, dashboardVars, tableVars, BeginLoad,
                  AnimationFrame
    <2> QED BY <2>1, ChartsKept
  <1> HIDE DEF ChartsInv
  <1> QED BY <1>2, <1>4, <1>5, <1>7, <1>8 DEF DashboardNext

\* With every logger and every level selected, both charts count the same.
LEMMA ChartsAgree ==
    ASSUME DataTyped, ChartsInv, currentData # <<>>, selectedLoggers = Loggers(filteredData),
           selectedLevels = {}, {row.Level : row \in ToSet(filteredData)} \subseteq ChartLevels,
           NEW ts \in Buckets(filteredData)
    PROVE  SumFunction([g \in DOMAIN timeSeriesChart |-> timeSeriesChart[g][ts]])
              = SumFunction([l \in DOMAIN levelChart |-> levelChart[l][ts]])
  <1>1. /\ timeSeriesChart = SeriesChart(filteredData, Loggers(filteredData), {})
        /\ levelChart = LevelsChart(filteredData)
    BY DEF ChartsInv
  <1>2. filteredData \in Seq(Rows)
    BY DEF DataTyped
  <1>3. SumFunction([g \in DOMAIN timeSeriesChart |-> timeSeriesChart[g][ts]])
           = Sum(CountsOf(filteredData), InBucket(filteredData, ts))
    BY <1>1, <1>2, SeriesAdds
  <1>4. SumFunction([l \in DOMAIN levelChart |-> levelChart[l][ts]])
           = Sum(CountsOf(filteredData), InBucket(filteredData, ts))
    BY <1>1, <1>2, LevelsAdd
  <1> QED BY <1>3, <1>4

\* Both charts show the rows the quick filter leaves and the selections of now, after
\* whatever loads, sorts and filters, and with everything selected they count the same
\* messages in each bucket (updateDashboardLevelsChart, updateDashboardTimeSeriesChart).
THEOREM ChartsFollow == DashboardSpec => []ChartsFollowData
  <1>1. DashboardInit => DashboardTypeOK /\ ChartsInv
    <2>1. DashboardInit => ChartsInv
      BY DEF DashboardInit, TableInit, ChartsInv
    <2> QED BY <2>1, TypeInit
  <1>2. DashboardTypeOK /\ ChartsInv /\ [DashboardNext]_dashboardVars => (DashboardTypeOK /\ ChartsInv)'
    BY TypeStep, ChartsStep
  <1>3. DashboardTypeOK /\ ChartsInv => ChartsFollowData
    <2> SUFFICES ASSUME DashboardTypeOK, ChartsInv PROVE ChartsFollowData
      OBVIOUS
    <2>1. DataTyped
      BY TypeParts, TableParts
    <2>2. /\ levelChart = LevelsChart(filteredData)
          /\ currentData # <<>> =>
                timeSeriesChart = SeriesChart(filteredData, selectedLoggers, selectedLevels)
      BY DEF ChartsInv
    <2> QED BY <2>1, <2>2, ChartsAgree DEF ChartsFollowData
  <1> QED BY <1>1, <1>2, <1>3, PTL DEF DashboardSpec
=============================================================================
