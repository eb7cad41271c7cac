---------------------------- MODULE OrderingProofs ----------------------------
(***************************************************************************)
(* A finite set in a strict total order has one listing, each element in   *)
(* its place; and what becomes of it when an element is added at the end.  *)
(* None of it needs induction: an element's place is the number of those   *)
(* before it, and as many places as elements leave no place empty.  A fold *)
(* does, step by step over the sizes of the subsets.                       *)
(***************************************************************************)
EXTENDS Ordering, Sequences, FiniteSetsExt, FunctionTheorems, FiniteSetTheorems,
        SequenceTheorems, TLAPS

\* R orders S: sorting with a key, ties broken by position, always does.
Orders(R, S) ==
    /\ \A x \in S : <<x, x>> \notin R
    /\ \A x, y \in S : x = y \/ <<x, y>> \in R \/ <<y, x>> \in R
    /\ \A x, y, z \in S : <<x, y>> \in R /\ <<y, z>> \in R => <<x, z>> \in R

\* s lists S in the order R.
Lists(s, S, R) ==
    /\ s \in [1..Cardinality(S) -> S]
    /\ \A x \in S : \E k \in 1..Cardinality(S) : s[k] = x
    /\ \A i, j \in 1..Cardinality(S) : i < j <=> <<s[i], s[j]>> \in R

\* The first few numbers are as many.
LEMMA FirstFew ==
    ASSUME NEW n \in Nat
    PROVE  IsFiniteSet(1..n) /\ Cardinality(1..n) = n
<1>1. 1 \in Int /\ n \in Int
  OBVIOUS
<1>2. IsFiniteSet(1..n) /\ Cardinality(1..n) = IF 1 > n THEN 0 ELSE n - 1 + 1
  BY <1>1, FS_Interval
<1> QED
  BY <1>2

\* Those before an element are fewer than all, and a later one has more of them.
LEMMA FewerBefore ==
    ASSUME NEW S, IsFiniteSet(S), NEW R, Orders(R, S)
    PROVE  /\ \A x \in S : Cardinality(Before(x, S, R)) \in 0..(Cardinality(S) - 1)
           /\ \A x, y \in S : <<x, y>> \in R =>
                 Cardinality(Before(x, S, R)) < Cardinality(Before(y, S, R))
<1>1. ASSUME NEW x \in S
      PROVE  /\ IsFiniteSet(Before(x, S, R)) /\ Cardinality(Before(x, S, R)) \in Nat
             /\ Before(x, S, R) \in SUBSET S /\ x \notin Before(x, S, R)
  <2>1. Before(x, S, R) \in SUBSET S /\ x \notin Before(x, S, R)
    BY DEF Before, Orders
  <2> QED
    BY <2>1, FS_Subset, FS_CardinalityType
<1>2. ASSUME NEW A, NEW B, IsFiniteSet(B), A \in SUBSET B, NEW b \in B, b \notin A
      PROVE  Cardinality(A) \in Nat /\ Cardinality(B) \in Nat /\ Cardinality(A) < Cardinality(B)
  <2>1. /\ IsFiniteSet(A) /\ Cardinality(A) <= Cardinality(B)
        /\ Cardinality(B) = Cardinality(A) => B = A
    BY <1>2, FS_Subset
  <2>2. Cardinality(A) \in Nat /\ Cardinality(B) \in Nat
    BY <1>2, <2>1, FS_CardinalityType
  <2> QED
    BY <1>2, <2>1, <2>2
<1>3. ASSUME NEW x \in S
      PROVE  Cardinality(Before(x, S, R)) \in 0..(Cardinality(S) - 1)
  <2>1. /\ Cardinality(Before(x, S, R)) \in Nat /\ Cardinality(S) \in Nat
        /\ Cardinality(Before(x, S, R)) < Cardinality(S)
    BY <1>1, <1>2
  <2> QED
    BY <2>1
<1>4. ASSUME NEW x \in S, NEW y \in S, <<x, y>> \in R
      PROVE  Cardinality(Before(x, S, R)) < Cardinality(Before(y, S, R))
  <2>1. Before(x, S, R) \in SUBSET Before(y, S, R) /\ x \in Before(y, S, R)
    BY <1>4 DEF Before, Orders
  <2> QED
    BY <1>1, <1>2, <2>1
<1> QED
  BY <1>3, <1>4

\* The k-th in order is one with k - 1 before it, if there is one.
LEMMA InOrderAt ==
    ASSUME NEW S, NEW R, NEW k \in 1..Cardinality(S), k \in Int,
           \A x \in S : Cardinality(Before(x, S, R)) \in Int,
           \E x \in S : Cardinality(Before(x, S, R)) = k - 1
    PROVE  /\ InOrder(S, R)[k] \in S
           /\ Cardinality(Before(InOrder(S, R)[k], S, R)) = k - 1
<1> DEFINE Rank(x) == Cardinality(Before(x, S, R))
           placed == {<<Rank(x) + 1, x>> : x \in S}
           chosen == CHOOSE p \in placed : p[1] = k
<1>1. InOrder(S, R)[k] = chosen[2]
  BY DEF InOrder
<1>2. PICK x \in S : Rank(x) = k - 1
  OBVIOUS
<1>3. \A y \in S : Rank(y) \in Int
  OBVIOUS
<1> HIDE DEF Rank
<1>4. Rank(x) + 1 = k
  BY <1>2, <1>3
<1>5. <<k, x>> \in placed /\ <<k, x>>[1] = k
  BY <1>2, <1>4
<1>6. chosen \in placed /\ chosen[1] = k
  BY <1>5
<1>7. PICK y \in S : chosen = <<Rank(y) + 1, y>>
  BY <1>6
<1> HIDE DEF chosen, placed
<1>8. chosen[2] = y /\ Rank(y) + 1 = k
  BY <1>6, <1>7
<1>9. Rank(y) = k - 1
  BY <1>3, <1>8
<1> QED
  BY <1>1, <1>8, <1>9 DEF Rank, chosen, placed

\* Every place is taken, by one element, and the places follow the order.
LEMMA InOrderLists ==
    ASSUME NEW S, IsFiniteSet(S), NEW R, Orders(R, S)
    PROVE  Lists(InOrder(S, R), S, R)
<1> DEFINE n == Cardinality(S)
           Rank(x) == Cardinality(Before(x, S, R))
           place == [x \in S |-> Rank(x) + 1]
           s == InOrder(S, R)
<1>1. n \in Nat /\ IsFiniteSet(1..n) /\ Cardinality(1..n) = n
  BY FS_CardinalityType, FirstFew
<1>2. \A x \in S : Rank(x) \in Nat /\ Rank(x) < n
  BY <1>1, FewerBefore
<1>3. \A x, y \in S : <<x, y>> \in R => Rank(x) < Rank(y)
  BY FewerBefore
<1>4. /\ DOMAIN s = 1..n /\ s = [k \in 1..n |-> s[k]]
      /\ \A k \in 1..n : (\E x \in S : Rank(x) = k - 1) => s[k] \in S /\ Rank(s[k]) = k - 1
  <2>1. DOMAIN s = 1..n /\ s = [k \in 1..n |-> s[k]]
    BY DEF InOrder
  <2> QED
    BY <1>1, <1>2, <2>1, InOrderAt
<1> HIDE DEF Rank, n, s
<1>5. \A x, y \in S : Rank(x) = Rank(y) => x = y
  <2> TAKE x, y \in S
  <2>1. x = y \/ Rank(x) < Rank(y) \/ Rank(y) < Rank(x)
    BY <1>3 DEF Orders
  <2> QED
    BY <1>2, <2>1
<1>6. /\ place \in [S -> 1..n] /\ \A x \in S : place[x] = Rank(x) + 1
      /\ \A x, y \in S : place[x] = place[y] => x = y
  BY <1>1, <1>2, <1>5
<1> HIDE DEF place
<1>7. place \in Surjection(S, 1..n)
  <2>1. place \in Injection(S, 1..n)
    BY <1>6, Fun_IsInj
  <2> QED
    BY <1>1, <2>1, FS_Injection DEF n
<1>8. \A k \in 1..n : \E x \in S : place[x] = k
  BY <1>7, Fun_SurjectionProperties
<1>9. ASSUME NEW k \in 1..n PROVE \E x \in S : Rank(x) = k - 1
  <2>1. PICK x \in S : place[x] = k
    BY <1>8
  <2>2. k = Rank(x) + 1 /\ Rank(x) \in Nat
    BY <1>2, <1>6, <2>1
  <2>3. Rank(x) = k - 1
    BY <2>2
  <2> QED
    BY <2>3
<1>10. ASSUME NEW k \in 1..n PROVE s[k] \in S /\ Rank(s[k]) = k - 1
  <2>1. \E x \in S : Rank(x) = k - 1
    BY <1>9
  <2> QED
    BY <1>4, <2>1
<1>11. s \in [1..n -> S]
  BY <1>4, <1>10
<1>12. ASSUME NEW x \in S PROVE \E k \in 1..n : s[k] = x
  <2>1. Rank(x) + 1 \in 1..n /\ (Rank(x) + 1) - 1 = Rank(x)
    BY <1>1, <1>2
  <2>2. Rank(s[Rank(x) + 1]) = Rank(x) /\ s[Rank(x) + 1] \in S
    BY <1>10, <2>1
  <2> QED
    BY <1>5, <2>1, <2>2
<1>13. ASSUME NEW i \in 1..n, NEW j \in 1..n PROVE i < j <=> <<s[i], s[j]>> \in R
  <2>1. s[i] \in S /\ s[j] \in S /\ Rank(s[i]) = i - 1 /\ Rank(s[j]) = j - 1
    BY <1>10
  <2>2. i < j => s[i] # s[j] /\ <<s[j], s[i]>> \notin R
    BY <1>1, <1>3, <2>1
  <2> QED
    BY <1>1, <1>3, <2>1, <2>2 DEF Orders
<1> QED
  BY <1>11, <1>12, <1>13 DEF Lists, n, s

\* In a listing the k-th has k - 1 before it.
LEMMA PlaceOf ==
    ASSUME NEW S, IsFiniteSet(S), NEW R, NEW s, Lists(s, S, R), NEW k \in 1..Cardinality(S)
    PROVE  s[k] \in S /\ Cardinality(Before(s[k], S, R)) = k - 1
<1> DEFINE n == Cardinality(S)
           B == Before(s[k], S, R)
           f == [j \in 1..(k - 1) |-> s[j]]
<1>1. n \in Nat /\ k \in 1..n
  BY FS_CardinalityType
<1>2. /\ s \in [1..n -> S] /\ \A x \in S : \E j \in 1..n : s[j] = x
      /\ \A i, j \in 1..n : i < j <=> <<s[i], s[j]>> \in R
  BY DEF Lists
<1>3. B = {s[j] : j \in 1..(k - 1)}
  <2>1. \A j \in 1..n : s[j] \in B <=> j < k
    BY <1>1, <1>2 DEF Before
  <2>2. \A j : j \in 1..(k - 1) <=> j \in 1..n /\ j < k
    BY <1>1
  <2>3. B \subseteq S
    BY DEF Before
  <2> HIDE DEF B
  <2> QED
    BY <1>2, <2>1, <2>2, <2>3
<1>4. f \in [1..(k - 1) -> B] /\ \A x \in B : \E j \in 1..(k - 1) : f[j] = x
  BY <1>3
<1>5. \A i, j \in 1..(k - 1) : f[i] = f[j] => i = j
  <2> TAKE i, j \in 1..(k - 1)
  <2>1. i \in 1..n /\ j \in 1..n
    BY <1>1
  <2>2. ASSUME s[i] = s[j] PROVE ~(i < j) /\ ~(j < i)
    <3>1. i < i <=> <<s[i], s[i]>> \in R
      BY <1>2, <2>1
    <3>2. <<s[i], s[i]>> \notin R
      BY <2>1, <3>1
    <3> QED
      BY <1>2, <2>1, <2>2, <3>2
  <2> QED
    BY <2>1, <2>2
<1> HIDE DEF f, B, n
<1>6. f \in Surjection(1..(k - 1), B) /\ f \in Injection(1..(k - 1), B)
  BY <1>4, <1>5, Fun_IsInj, Fun_IsSurj
<1>7. IsFiniteSet(1..(k - 1)) /\ Cardinality(1..(k - 1)) = k - 1
  <2>1. k - 1 \in Nat
    BY <1>1
  <2> QED
    BY <2>1, FirstFew
<1>8. Cardinality(B) = k - 1
  BY <1>6, <1>7, FS_Surjection
<1> QED
  BY <1>1, <1>2, <1>8 DEF B, n

\* There is no other listing.
LEMMA ListedOnce ==
    ASSUME NEW S, IsFiniteSet(S), NEW R, NEW s, Lists(s, S, R)
    PROVE  s = InOrder(S, R)
<1> DEFINE n == Cardinality(S)
           Rank(x) == Cardinality(Before(x, S, R))
           t == InOrder(S, R)
<1>1. n \in Nat
  BY FS_CardinalityType
<1>2. DOMAIN t = 1..n /\ t = [k \in 1..n |-> t[k]]
  BY DEF InOrder
<1>3. s \in [1..n -> S] /\ \A x \in S : \E k \in 1..n : s[k] = x
  BY DEF Lists
<1>4. \A k \in 1..n : Rank(s[k]) = k - 1
  BY PlaceOf
<1>5. \A x \in S : Rank(x) \in Int
  BY <1>1, <1>3, <1>4
<1>6. \A k \in 1..n : t[k] \in S /\ Rank(t[k]) = k - 1
  BY <1>1, <1>3, <1>4, <1>5, InOrderAt
<1> HIDE DEF Rank, n, t
<1>7. ASSUME NEW k \in 1..n PROVE t[k] = s[k]
  <2>1. PICK j \in 1..n : s[j] = t[k]
    BY <1>3, <1>6
  <2>2. j - 1 = k - 1
    BY <1>4, <1>6, <2>1
  <2> QED
    BY <1>1, <2>1, <2>2
<1>8. s = t
  BY <1>2, <1>3, <1>7
<1> QED
  BY <1>8 DEF t

\* Numbers are ordered by their size.
LEMMA AscendingOrders ==
    ASSUME NEW S, S \subseteq Int
    PROVE  Orders({p \in S \X S : p[1] < p[2]}, S)
<1> DEFINE R == {p \in S \X S : p[1] < p[2]}
<1>1. \A x, y \in S : <<x, y>> \in R <=> x < y
  OBVIOUS
<1> HIDE DEF R
<1>2. Orders(R, S)
  BY <1>1 DEF Orders
<1> QED
  BY <1>2 DEF R

\* The numbers of a finite set, each once, from the least to the greatest.
LEMMA AscendingLists ==
    ASSUME NEW S, IsFiniteSet(S), S \subseteq Int
    PROVE  /\ Cardinality(S) \in Nat
           /\ Ascending(S) \in [1..Cardinality(S) -> S]
           /\ \A x \in S : \E k \in 1..Cardinality(S) : Ascending(S)[k] = x
           /\ \A i, j \in 1..Cardinality(S) : i < j <=> Ascending(S)[i] < Ascending(S)[j]
<1> DEFINE R == {p \in S \X S : p[1] < p[2]}
<1>1. \A x, y \in S : <<x, y>> \in R <=> x < y
  OBVIOUS
<1>2. Orders(R, S)
  BY AscendingOrders
<1>3. Ascending(S) = InOrder(S, R)
  BY DEF Ascending
<1> HIDE DEF R
<1>4. Lists(Ascending(S), S, R)
  BY <1>2, <1>3, InOrderLists
<1> QED
  BY <1>1, <1>4, FS_CardinalityType DEF Lists

\* A number greater than all comes last.
LEMMA AscendingAdded ==
    ASSUME NEW S, IsFiniteSet(S), S \subseteq Int, NEW m \in Int, \A x \in S : x < m
    PROVE  /\ IsFiniteSet(S \cup {m}) /\ Cardinality(S \cup {m}) = Cardinality(S) + 1
           /\ Ascending(S \cup {m}) = [k \in 1..(Cardinality(S) + 1) |->
                  IF k = Cardinality(S) + 1 THEN m ELSE Ascending(S)[k]]
<1> DEFINE n == Cardinality(S)
           T == S \cup {m}
           R == {p \in T \X T : p[1] < p[2]}
           a == Ascending(S)
           s == [k \in 1..(n + 1) |-> IF k = n + 1 THEN m ELSE a[k]]
<1>1. m \notin S
  OBVIOUS
<1>2. IsFiniteSet(T) /\ Cardinality(T) = n + 1
  BY <1>1, FS_AddElement
<1>3. \A x, y \in T : <<x, y>> \in R <=> x < y
  OBVIOUS
<1>4. /\ n \in Nat /\ a \in [1..n -> S] /\ \A x \in S : \E k \in 1..n : a[k] = x
      /\ \A i, j \in 1..n : i < j <=> a[i] < a[j]
  BY AscendingLists
<1>5. Ascending(T) = InOrder(T, R)
  BY DEF Ascending
<1> HIDE DEF n, R, a
<1>6. \A k \in 1..(n + 1) : k # n + 1 => k \in 1..n
  BY <1>4
<1>7. s \in [1..(n + 1) -> T] /\ s[n + 1] = m /\ \A k \in 1..n : s[k] = a[k] /\ s[k] \in S
  BY <1>4, <1>6
<1> HIDE DEF s
<1>8. \A x \in T : \E k \in 1..(n + 1) : s[k] = x
  <2> TAKE x \in T
  <2>1. CASE x = m
    BY <1>4, <1>7, <2>1
  <2>2. CASE x \in S
    <3>1. PICK k \in 1..n : a[k] = x
      BY <1>4, <2>2
    <3>2. k \in 1..(n + 1) /\ s[k] = x
      BY <1>4, <1>7, <3>1
    <3> QED
      BY <3>2
  <2> QED
    BY <2>1, <2>2
<1>9. \A k \in 1..n : s[k] \in Int /\ s[k] < m
  <2> TAKE k \in 1..n
  <2>1. \A x \in S : x \in Int /\ x < m
    OBVIOUS
  <2>2. s[k] \in S
    BY <1>7
  <2> HIDE DEF T
  <2> QED
    BY ONLY <2>1, <2>2
<1>10. \A i, j \in 1..(n + 1) : i < j <=> <<s[i], s[j]>> \in R
  <2> TAKE i, j \in 1..(n + 1)
  <2>1. s[i] \in T /\ s[j] \in T
    BY <1>7
  <2>2. <<s[i], s[j]>> \in R <=> s[i] < s[j]
    BY <1>3, <2>1
  <2> HIDE DEF T
  <2>3. i \in 1..n /\ j \in 1..n => (i < j <=> s[i] < s[j])
    BY <1>4, <1>7
  <2>4. i = n + 1 => ~(i < j) /\ ~(s[i] < s[j])
    BY <1>4, <1>6, <1>7, <1>9
  <2>5. i \in 1..n /\ j = n + 1 => i < j /\ s[i] < s[j]
    BY <1>4, <1>7, <1>9
  <2> QED
    BY <1>6, <2>2, <2>3, <2>4, <2>5
<1> HIDE DEF T
<1>11. Lists(s, T, R)
  BY <1>2, <1>7, <1>8, <1>10 DEF Lists
<1>12. s = InOrder(T, R)
  BY <1>2, <1>11, ListedOnce
<1> QED
  BY <1>2, <1>5, <1>12 DEF s, T, n, a

\* Elements one by one make a sequence.
LEMMA Listing ==
    ASSUME NEW T, NEW n \in Nat, NEW s, s \in [1..n -> T]
    PROVE  s \in Seq(T) /\ Len(s) = n
  OBVIOUS

\* What is picked from a sequence: the elements at these positions, in their order.
LEMMA PickedFrom ==
    ASSUME NEW T, NEW s \in Seq(T), NEW W \in SUBSET DOMAIN s
    PROVE  /\ IsFiniteSet(W) /\ W \subseteq Int /\ Cardinality(W) \in Nat
           /\ Picked(s, W) \in Seq(T) /\ Len(Picked(s, W)) = Cardinality(W)
           /\ DOMAIN Picked(s, W) = 1..Cardinality(W)
           /\ Ascending(W) \in [1..Cardinality(W) -> W]
           /\ \A i \in W : \E k \in 1..Cardinality(W) : Ascending(W)[k] = i
           /\ \A k, l \in 1..Cardinality(W) : k < l <=> Ascending(W)[k] < Ascending(W)[l]
           /\ \A k \in 1..Cardinality(W) : Picked(s, W)[k] = s[Ascending(W)[k]]
<1> DEFINE n == Cardinality(W)
           a == Ascending(W)
           P == Picked(s, W)
<1>1. DOMAIN s = 1..Len(s) /\ Len(s) \in Nat /\ \A i \in DOMAIN s : s[i] \in T
  OBVIOUS
<1>2. IsFiniteSet(W) /\ W \subseteq Int
  <2>1. IsFiniteSet(1..Len(s))
    BY <1>1, FirstFew
  <2> QED
    BY <1>1, <2>1, FS_Subset
<1>3. /\ n \in Nat /\ a \in [1..n -> W] /\ \A i \in W : \E k \in 1..n : a[k] = i
      /\ \A k, l \in 1..n : k < l <=> a[k] < a[l]
  BY <1>2, AscendingLists
<1>4. P = [k \in 1..n |-> s[a[k]]]
  BY DEF Picked
<1> HIDE DEF n, a, P
<1>5. P \in [1..n -> T] /\ \A k \in 1..n : P[k] = s[a[k]]
  BY <1>1, <1>3, <1>4
<1>6. P \in Seq(T) /\ Len(P) = n /\ DOMAIN P = 1..n
  BY <1>3, <1>5, Listing
<1> QED
  BY <1>2, <1>3, <1>5, <1>6 DEF n, a, P

\* Nothing else is picked and nothing twice, if nothing is there twice.
LEMMA PickedElements ==
    ASSUME NEW T, NEW s \in Seq(T), NEW W \in SUBSET DOMAIN s
    PROVE  /\ \A k \in DOMAIN Picked(s, W) : \E i \in W : Picked(s, W)[k] = s[i]
           /\ \A i \in W : \E k \in DOMAIN Picked(s, W) : Picked(s, W)[k] = s[i]
           /\ (\A i, j \in DOMAIN s : s[i] = s[j] => i = j) =>
                 \A k, l \in DOMAIN Picked(s, W) : Picked(s, W)[k] = Picked(s, W)[l] => k = l
<1> DEFINE n == Cardinality(W)
           a == Ascending(W)
           P == Picked(s, W)
<1>1. /\ n \in Nat /\ a \in [1..n -> W] /\ \A i \in W : \E k \in 1..n : a[k] = i
      /\ \A k, l \in 1..n : k < l <=> a[k] < a[l]
      /\ \A k \in 1..n : P[k] = s[a[k]]
      /\ DOMAIN P = 1..n
  BY PickedFrom
<1> HIDE DEF n, a, P
<1>2. ASSUME \A i, j \in DOMAIN s : s[i] = s[j] => i = j, NEW k \in 1..n, NEW l \in 1..n, P[k] = P[l]
      PROVE  k = l
  <2>1. a[k] \in DOMAIN s /\ a[l] \in DOMAIN s /\ s[a[k]] = s[a[l]]
    BY <1>1, <1>2
  <2>2. a[k] = a[l]
    BY <1>2, <2>1
  <2>3. a[k] \in Int
    BY <2>1
  <2>4. ~(a[k] < a[l]) /\ ~(a[l] < a[k])
    BY <2>2, <2>3
  <2>5. ~(k < l) /\ ~(l < k)
    BY <1>1, <2>4
  <2> QED
    BY <1>1, <2>5
<1>3. \A k \in DOMAIN P : \E i \in W : P[k] = s[i]
  BY <1>1
<1>4. \A i \in W : \E k \in DOMAIN P : P[k] = s[i]
  BY <1>1
<1> QED
  BY <1>1, <1>2, <1>3, <1>4 DEF P

\* One more is picked, from behind the others.
LEMMA PickedMore ==
    ASSUME NEW s, NEW S, IsFiniteSet(S), S \subseteq Int, NEW m \in Int, \A x \in S : x < m,
           NEW T, s[m] \in T, Picked(s, S) \in Seq(T)
    PROVE  Picked(s, S \cup {m}) = Append(Picked(s, S), s[m])
<1> DEFINE c == Cardinality(S)
           a == Ascending(S)
           b == Ascending(S \cup {m})
           u == Picked(s, S)
           v == Picked(s, S \cup {m})
<1>1. /\ Cardinality(S \cup {m}) = c + 1
      /\ b = [k \in 1..(c + 1) |-> IF k = c + 1 THEN m ELSE a[k]]
  BY AscendingAdded
<1>2. c \in Nat
  BY FS_CardinalityType
<1>3. u = [k \in 1..c |-> s[a[k]]] /\ v = [k \in 1..(c + 1) |-> s[b[k]]]
  BY <1>1 DEF Picked
<1> HIDE DEF a, b, c
<1>4. /\ \A k \in 1..c : k \in 1..(c + 1) /\ k # c + 1
      /\ c + 1 \in 1..(c + 1) /\ \A k \in 1..(c + 1) : k = c + 1 \/ k \in 1..c
  BY <1>2
<1>5. /\ \A k \in 1..c : u[k] = s[a[k]] /\ v[k] = s[b[k]] /\ b[k] = a[k]
      /\ v[c + 1] = s[b[c + 1]] /\ b[c + 1] = m
      /\ DOMAIN u = 1..c /\ DOMAIN v = 1..(c + 1)
  BY <1>1, <1>3, <1>4
<1> HIDE DEF u, v
<1>6. u \in Seq(T) /\ Len(u) = c
  <2>1. u \in Seq(T)
    BY DEF u
  <2> QED
    BY <1>2, <1>5, <2>1, LenProperties
<1>7. /\ Append(u, s[m]) \in Seq(T) /\ Len(Append(u, s[m])) = c + 1
      /\ \A k \in 1..c : Append(u, s[m])[k] = u[k]
      /\ Append(u, s[m])[c + 1] = s[m]
  BY <1>6, AppendProperties
<1>8. v = [k \in 1..(c + 1) |-> v[k]]
  BY <1>3, <1>5
<1>9. \A k \in 1..(c + 1) : v[k] = Append(u, s[m])[k] /\ v[k] \in T
  BY <1>4, <1>5, <1>6, <1>7, LenProperties
<1>10. v \in [1..(c + 1) -> T]
  BY <1>8, <1>9
<1>11. v \in Seq(T) /\ Len(v) = c + 1
  BY <1>2, <1>10, Listing
<1>12. v = Append(u, s[m])
  BY <1>7, <1>9, <1>11, SeqEqual
<1> QED
  BY <1>12 DEF u, v

\* Positions left alone, and what is behind them does not matter.
LEMMA PickedSame ==
    ASSUME NEW s, NEW t, NEW W, IsFiniteSet(W), W \subseteq Int, \A i \in W : s[i] = t[i]
    PROVE  Picked(s, W) = Picked(t, W)
<1>1. Cardinality(W) \in Nat /\ Ascending(W) \in [1..Cardinality(W) -> W]
  BY AscendingLists
<1>2. \A k \in 1..Cardinality(W) : Ascending(W)[k] \in W
  BY <1>1
<1> QED
  BY <1>2 DEF Picked

\* The lesser and the greater of two.
LEMMA MinMaxPair ==
    ASSUME NEW a \in Int, NEW b \in Int
    PROVE  Min({a, b}) = (IF a <= b THEN a ELSE b) /\ Max({a, b}) = (IF a >= b THEN a ELSE b)
<1>1. \A x \in {a, b} : (\A y \in {a, b} : x <= y) <=> x = IF a <= b THEN a ELSE b
  OBVIOUS
<1>2. \A x \in {a, b} : (\A y \in {a, b} : x >= y) <=> x = IF a >= b THEN a ELSE b
  OBVIOUS
<1> QED
  BY <1>1, <1>2 DEF Min, Max

\* Places that begin with the first and leave none out are the first few: why
\* counting how many are before a time finds the place of that time.
LEMMA PrefixCount ==
    ASSUME NEW n \in Nat, NEW S \in SUBSET (1..n), \A i \in S : \A j \in 1..i : j \in S
    PROVE  Cardinality(S) \in 0..n /\ S = 1..Cardinality(S)
<1> DEFINE c == Cardinality(S)
           a == Ascending(S)
           R == {p \in S \X S : p[1] < p[2]}
<1>1. IsFiniteSet(S) /\ S \subseteq Int /\ c \in Nat /\ c <= n
  <2>1. IsFiniteSet(1..n) /\ Cardinality(1..n) = n
    BY FirstFew
  <2>2. IsFiniteSet(S) /\ c <= n /\ c \in Nat
    BY <2>1, FS_Subset, FS_CardinalityType
  <2> QED
    BY <2>2
<1>2. a \in [1..c -> S] /\ \A x \in S : \E k \in 1..c : a[k] = x
  BY <1>1, AscendingLists
<1>3. Orders(R, S)
  BY <1>1, AscendingOrders
<1>4. Lists(a, S, R)
  BY <1>1, <1>3, InOrderLists DEF Ascending
<1> HIDE DEF a, c
<1>5. ASSUME NEW k \in 1..c PROVE a[k] = k
  <2>1. a[k] \in S /\ Cardinality(Before(a[k], S, R)) = k - 1
    BY <1>1, <1>4, PlaceOf DEF c
  <2>2. Before(a[k], S, R) = 1..(a[k] - 1)
    <3>1. \A y : y \in Before(a[k], S, R) <=> y \in S /\ y < a[k]
      BY <2>1 DEF Before
    <3>2. a[k] \in 1..n /\ \A y : y \in S => y \in 1..n
      BY <2>1
    <3>3. \A y : y \in 1..(a[k] - 1) <=> y \in S /\ y < a[k]
      <4>1. \A y \in 1..(a[k] - 1) : y \in 1..a[k] /\ y < a[k]
        BY <3>2
      <4>2. \A y \in 1..n : y < a[k] => y \in 1..(a[k] - 1)
        BY <3>2
      <4> QED
        BY <2>1, <3>2, <4>1, <4>2
    <3> HIDE DEF R
    <3> QED
      BY <3>1, <3>3
  <2>3. Cardinality(1..(a[k] - 1)) = a[k] - 1
    <3>1. a[k] \in 1..n
      BY <2>1
    <3>2. a[k] - 1 \in Nat
      BY <3>1
    <3> QED
      BY <3>2, FirstFew
  <2>4. a[k] - 1 = k - 1
    BY <2>1, <2>2, <2>3
  <2>5. a[k] \in 1..n /\ k \in 1..c
    BY <2>1
  <2> QED
    BY <1>1, <2>4, <2>5
<1>6. S = 1..c
  <2>1. \A x \in S : x \in 1..c
    BY <1>2, <1>5
  <2>2. \A k \in 1..c : k \in S
    BY <1>2, <1>5
  <2> QED
    BY <2>1, <2>2
<1> QED
  BY <1>1, <1>6 DEF c

\* A finite set of numbers has a least and a greatest: the first and the last of
\* its listing.
LEMMA LeastAndGreatest ==
    ASSUME NEW S, IsFiniteSet(S), S \subseteq Int, S # {}
    PROVE  /\ \E x \in S : \A y \in S : x <= y
           /\ Max(S) \in S /\ \A y \in S : y <= Max(S)
<1> DEFINE n == Cardinality(S)
           a == Ascending(S)
<1>1. /\ n \in Nat /\ a \in [1..n -> S] /\ \A x \in S : \E k \in 1..n : a[k] = x
      /\ \A i, j \in 1..n : i < j <=> a[i] < a[j]
  BY AscendingLists
<1> HIDE DEF n, a
<1>2. 1 \in 1..n /\ n \in 1..n
  <2>1. PICK x \in S : TRUE
    OBVIOUS
  <2>2. PICK k \in 1..n : a[k] = x
    BY <1>1
  <2> QED
    BY <1>1, <2>2
<1>3. \A k \in 1..n : a[k] \in S /\ a[k] \in Int /\ a[1] <= a[k] /\ a[k] <= a[n]
  <2> TAKE k \in 1..n
  <2>1. a[k] \in S /\ a[k] \in Int /\ a[1] \in Int /\ a[n] \in Int
    BY <1>1, <1>2
  <2>2. k = 1 \/ 1 < k
    BY <1>1
  <2>3. k = n \/ k < n
    BY <1>1
  <2>4. (1 < k => a[1] < a[k]) /\ (k < n => a[k] < a[n])
    BY <1>1, <1>2
  <2> QED
    BY <1>1, <2>1, <2>2, <2>3, <2>4
<1>4. a[1] \in S /\ \A y \in S : a[1] <= y
  BY <1>1, <1>2, <1>3
<1>5. a[n] \in S /\ \A y \in S : a[n] >= y /\ y <= a[n]
  BY <1>1, <1>2, <1>3
<1>6. Max(S) \in S /\ \A y \in S : Max(S) >= y
  BY <1>5 DEF Max
<1>7. \A y \in S : y <= Max(S)
  BY <1>6
<1> QED
  BY <1>4, <1>6, <1>7

\* Step by step up to n: what holds of 0, and of every next number with the one
\* before, holds of all.
LEMMA UpTo ==
    ASSUME NEW n \in Nat, NEW S, 0 \in S, \A i \in 0..n : i \in S /\ i < n => i + 1 \in S
    PROVE  \A i \in 0..n : i \in S
<1> DEFINE T == {i \in 1..n : i \notin S}
<1>1. IsFiniteSet(T) /\ T \subseteq Int
  <2>1. IsFiniteSet(1..n) /\ T \subseteq 1..n
    BY FirstFew
  <2> QED
    BY <2>1, FS_Subset
<1>2. ASSUME T # {} PROVE FALSE
  <2>1. PICK x \in T : \A y \in T : x <= y
    BY <1>1, <1>2, LeastAndGreatest
  <2>2. x \in 1..n /\ x \notin S
    BY <2>1
  <2>3. x - 1 \in 0..n /\ x - 1 < n /\ (x - 1) + 1 = x /\ ~(x <= x - 1)
    BY <2>2
  <2>4. x - 1 \notin T
    BY <2>1, <2>3
  <2>5. x - 1 = 0 \/ x - 1 \in 1..n
    BY <2>3
  <2>6. x - 1 \in S
    BY <2>4, <2>5
  <2> QED
    BY <2>2, <2>3, <2>6
<1>3. \A i \in 0..n : i = 0 \/ i \in 1..n
  OBVIOUS
<1> QED
  BY <1>2, <1>3

\* A stable sort by time leaves nothing out; the times never decrease; and of
\* equal times the one that stood first comes first.
LEMMA ByTimeSorts ==
    ASSUME NEW s, NEW n \in Nat, DOMAIN s = 1..n, \A i \in 1..n : s[i].ts \in Int
    PROVE  /\ DOMAIN ByTime(s) = 1..n
           /\ \E order \in [1..n -> 1..n] :
                  /\ ByTime(s) = [k \in 1..n |-> s[order[k]]]
                  /\ \A i \in 1..n : \E k \in 1..n : order[k] = i
                  /\ \A i, j \in 1..n : i < j <=>
                         \/ s[order[i]].ts < s[order[j]].ts
                         \/ s[order[i]].ts = s[order[j]].ts /\ order[i] < order[j]
<1> DEFINE R == {p \in (1..n) \X (1..n) :
                    \/ s[p[1]].ts < s[p[2]].ts
                    \/ s[p[1]].ts = s[p[2]].ts /\ p[1] < p[2]}
           order == InOrder(1..n, R)
<1>1. IsFiniteSet(1..n) /\ Cardinality(1..n) = n
  BY FirstFew
<1>2. ASSUME NEW i \in 1..n, NEW j \in 1..n
      PROVE  <<i, j>> \in R <=> (s[i].ts < s[j].ts \/ (s[i].ts = s[j].ts /\ i < j))
  <2>1. <<i, j>> \in (1..n) \X (1..n) /\ <<i, j>>[1] = i /\ <<i, j>>[2] = j
    OBVIOUS
  <2> QED
    BY <2>1
<1>3. ByTime(s) = [k \in 1..n |-> s[order[k]]]
  BY DEF ByTime
<1> HIDE DEF R
<1>4. Orders(R, 1..n)
  <2> DEFINE time(i) == s[i].ts
  <2>1. \A x \in 1..n : x \in Int /\ time(x) \in Int
    OBVIOUS
  <2>2. \A x, y \in 1..n : <<x, y>> \in R <=> (time(x) < time(y) \/ (time(x) = time(y) /\ x < y))
    BY <1>2
  <2> HIDE DEF time
  <2> DEFINE N == 1..n
  <2>3. /\ \A x \in N : x \in Int /\ time(x) \in Int
        /\ \A x, y \in N : <<x, y>> \in R <=> (time(x) < time(y) \/ (time(x) = time(y) /\ x < y))
    BY <2>1, <2>2
  <2> HIDE DEF N
  <2>4. \A x \in N : <<x, x>> \notin R
    BY <2>3
  <2>5. ASSUME NEW x \in N, NEW y \in N PROVE x = y \/ <<x, y>> \in R \/ <<y, x>> \in R
    <3>1. /\ x \in Int /\ y \in Int /\ time(x) \in Int /\ time(y) \in Int
          /\ <<x, y>> \in R <=> (time(x) < time(y) \/ (time(x) = time(y) /\ x < y))
          /\ <<y, x>> \in R <=> (time(y) < time(x) \/ (time(y) = time(x) /\ y < x))
      BY <2>3
    <3> QED
      BY ONLY <3>1
  <2>6. \A x, y, z \in N : <<x, y>> \in R /\ <<y, z>> \in R => <<x, z>> \in R
    BY <2>3
  <2>7. Orders(R, N)
    BY <2>4, <2>5, <2>6 DEF Orders
  <2> QED
    BY <2>7 DEF N
<1>5. Lists(order, 1..n, R)
  BY <1>1, <1>4, InOrderLists
<1> HIDE DEF order
<1>6. /\ order \in [1..n -> 1..n] /\ \A i \in 1..n : \E k \in 1..n : order[k] = i
      /\ \A i, j \in 1..n : i < j <=> <<order[i], order[j]>> \in R
  BY <1>1, <1>5 DEF Lists
<1>7. \A i, j \in 1..n : i < j <=>
        \/ s[order[i]].ts < s[order[j]].ts
        \/ s[order[i]].ts = s[order[j]].ts /\ order[i] < order[j]
  BY <1>2, <1>6
<1> QED
  BY <1>3, <1>6, <1>7

-----------------------------------------------------------------------------
(* Sums over finite sets.                                                  *)

\* What holds of the empty set, and of each subset if it does of what is left of
\* it when the element a fold takes first is gone, holds of all.
LEMMA SubsetBySubset ==
    ASSUME NEW S, IsFiniteSet(S), NEW W, {} \in W,
           \A s \in SUBSET S : s # {} /\ s \ {CHOOSE x \in s : TRUE} \in W => s \in W
    PROVE  \A s \in SUBSET S : s \in W
<1> DEFINE n == Cardinality(S)
           N == {i \in 0..n : \A s \in SUBSET S : Cardinality(s) = i => s \in W}
<1>1. n \in Nat /\ \A s \in SUBSET S : IsFiniteSet(s) /\ Cardinality(s) \in 0..n
  <2>1. n \in Nat
    BY FS_CardinalityType
  <2>2. \A s \in SUBSET S : IsFiniteSet(s) /\ Cardinality(s) \in Nat /\ Cardinality(s) <= n
    BY FS_Subset, FS_CardinalityType
  <2> QED
    BY <2>1, <2>2
<1>2. 0 \in N
  <2>1. \A s \in SUBSET S : Cardinality(s) = 0 => s = {}
    BY <1>1, FS_EmptySet
  <2> QED
    BY <1>1, <2>1
<1>3. ASSUME NEW i \in 0..n, i \in N, i < n PROVE i + 1 \in N
  <2>1. ASSUME NEW s \in SUBSET S, Cardinality(s) = i + 1 PROVE s \in W
    <3> DEFINE x == CHOOSE x \in s : TRUE
    <3>1. s # {}
      BY <1>1, <2>1, FS_EmptySet
    <3>2. x \in s
      BY <3>1
    <3> HIDE DEF x
    <3>3. s \ {x} \in SUBSET S /\ Cardinality(s \ {x}) = (i + 1) - 1
      BY <1>1, <2>1, <3>2, FS_RemoveElement
    <3>4. (i + 1) - 1 = i
      OBVIOUS
    <3>5. s \ {x} \in W
      BY <1>3, <3>3, <3>4
    <3> QED
      BY <3>1, <3>5 DEF x
  <2>2. i + 1 \in 0..n
    BY <1>1, <1>3
  <2> QED
    BY <2>1, <2>2
<1> HIDE DEF N
<1>4. \A i \in 0..n : i \in N
  <2>1. \A i \in 0..n : i \in N /\ i < n => i + 1 \in N
    BY <1>3
  <2> QED
    BY <1>1, <1>2, <2>1, UpTo
<1> QED
  BY <1>1, <1>4 DEF N

\* g folds f over the subsets of S, whichever element is taken first.
FoldsTo(g, op, base, f, S) ==
    /\ g[{}] = base
    /\ \A s \in SUBSET S : \A y \in s : g[s] = op[<<f[y], g[s \ {y}]>>]

\* A fold does not depend on the order, if it may take any two in either.
LEMMA FoldsExist ==
    ASSUME NEW V, NEW op \in [V \X V -> V], NEW base \in V,
           \A a, b, c \in V : op[<<a, op[<<b, c>>]>>] = op[<<b, op[<<a, c>>]>>],
           NEW S, IsFiniteSet(S), NEW f, \A x \in S : f[x] \in V
    PROVE  \E g \in [SUBSET S -> V] : FoldsTo(g, op, base, f, S)
<1> DEFINE Found(t) == \E g \in [SUBSET t -> V] : FoldsTo(g, op, base, f, t)
           W == {t \in SUBSET S : Found(t)}
<1>1. {} \in W
  <2> DEFINE g == [s \in SUBSET {} |-> base]
  <2>1. g \in [SUBSET {} -> V] /\ FoldsTo(g, op, base, f, {})
    BY DEF FoldsTo
  <2> HIDE DEF g
  <2> QED
    BY <2>1
<1>2. ASSUME NEW t \in SUBSET S, t # {}, t \ {CHOOSE x \in t : TRUE} \in W PROVE t \in W
  <2> DEFINE x == CHOOSE x \in t : TRUE
             u == t \ {x}
  <2>1. x \in t /\ x \in S
    BY <1>2
  <2>2. PICK h \in [SUBSET u -> V] : FoldsTo(h, op, base, f, u)
    BY <1>2
  <2> HIDE DEF x
  <2> DEFINE g == [s \in SUBSET t |-> IF x \in s THEN op[<<f[x], h[s \ {x}]>>] ELSE h[s]]
  <2>3. \A s \in SUBSET t : /\ s \ {x} \in SUBSET u /\ h[s \ {x}] \in V
                            /\ x \notin s => s \ {x} = s
    BY <2>2
  <2>4. f[x] \in V
    BY <2>1
  <2>5. g \in [SUBSET t -> V]
    <3> SUFFICES ASSUME NEW s \in SUBSET t PROVE g[s] \in V
      OBVIOUS
    <3>1. <<f[x], h[s \ {x}]>> \in V \X V
      BY <2>3, <2>4
    <3>2. op[<<f[x], h[s \ {x}]>>] \in V
      BY <3>1
    <3>3. x \notin s => h[s] \in V
      BY <2>3
    <3> QED
      BY <3>2, <3>3
  <2>6. g[{}] = base
    BY <2>2 DEF FoldsTo
  <2>7. ASSUME NEW s \in SUBSET t, NEW y \in s PROVE g[s] = op[<<f[y], g[s \ {y}]>>]
    <3>1. s \ {y} \in SUBSET t
      OBVIOUS
    <3>2. CASE x \notin s
      <4>1. g[s] = h[s] /\ g[s \ {y}] = h[s \ {y}] /\ s \in SUBSET u
        BY <3>1, <3>2
      <4> HIDE DEF g, u
      <4> QED
        BY <2>2, <4>1 DEF FoldsTo
    <3>3. CASE x \in s /\ y = x
      BY <3>1, <3>3
    <3>4. CASE x \in s /\ y # x
      <4>1. g[s] = op[<<f[x], h[s \ {x}]>>] /\ g[s \ {y}] = op[<<f[x], h[(s \ {y}) \ {x}]>>]
        BY <3>1, <3>4
      <4>2. s \ {x} \in SUBSET u /\ y \in s \ {x} /\ (s \ {x}) \ {y} = (s \ {y}) \ {x}
        BY <3>4
      <4>3. (s \ {y}) \ {x} \in SUBSET u
        BY <4>2
      <4>4. h[(s \ {y}) \ {x}] \in V /\ f[y] \in V
        BY <2>2, <4>3
      <4> HIDE DEF g, u
      <4>5. \A r \in SUBSET u : \A z \in r : h[r] = op[<<f[z], h[r \ {z}]>>]
        BY <2>2 DEF FoldsTo
      <4>6. h[s \ {x}] = op[<<f[y], h[(s \ {x}) \ {y}]>>]
        BY <4>2, <4>5
      <4> DEFINE c == h[(s \ {y}) \ {x}]
      <4>7. op[<<f[x], op[<<f[y], c>>]>>] = op[<<f[y], op[<<f[x], c>>]>>]
        BY <2>4, <4>4
      <4>8. h[s \ {x}] = op[<<f[y], c>>]
        BY <4>2, <4>6
      <4> HIDE DEF c
      <4> QED
        BY <4>1, <4>7, <4>8 DEF c
    <3> QED
      BY <3>2, <3>3, <3>4
  <2> HIDE DEF g
  <2>8. FoldsTo(g, op, base, f, t)
    BY <2>6, <2>7 DEF FoldsTo
  <2> QED
    BY <2>5, <2>8
<1> HIDE DEF W
<1>3. \A t \in SUBSET S : t \in W
  BY <1>1, <1>2, SubsetBySubset
<1>4. S \in W
  BY <1>3
<1> QED
  BY <1>4 DEF W

\* The sum of two whole numbers, as a function.
Addition == [p \in Int \X Int |-> p[1] + p[2]]

\* g is the sum of f over every part of S.
SumsTo(g, f, S) ==
    /\ g[{}] = 0
    /\ \A s \in SUBSET S : \A y \in s : g[s] = f[y] + g[s \ {y}]
    /\ \A s \in SUBSET S : SumFunctionOnSet(f, s) = g[s]

\* sum() over a finite set of whole numbers, and over every part of it.
LEMMA SumsFold ==
    ASSUME NEW S, IsFiniteSet(S), NEW f, \A x \in S : f[x] \in Int
    PROVE  \E g \in [SUBSET S -> Int] : SumsTo(g, f, S)
<1>1. Addition \in [Int \X Int -> Int] /\ \A a, b \in Int : Addition[<<a, b>>] = a + b
  BY DEF Addition
<1>3. PICK g \in [SUBSET S -> Int] : FoldsTo(g, Addition, 0, f, S)
  <2>1. \A a, b, c \in Int : b + c \in Int /\ a + c \in Int /\ a + (b + c) = b + (a + c)
    OBVIOUS
  <2>2. \A a, b, c \in Int :
           Addition[<<a, Addition[<<b, c>>]>>] = Addition[<<b, Addition[<<a, c>>]>>]
    <3> TAKE a, b, c \in Int
    <3>1. Addition[<<b, c>>] = b + c /\ Addition[<<a, c>>] = a + c
      BY <1>1
    <3>2. Addition[<<a, b + c>>] = a + (b + c) /\ Addition[<<b, a + c>>] = b + (a + c)
      BY <1>1, <2>1
    <3> QED
      BY <2>1, <3>1, <3>2
  <2>3. 0 \in Int
    OBVIOUS
  <2> QED
    BY <1>1, <2>2, <2>3, FoldsExist
<1>4. g[{}] = 0 /\ \A s \in SUBSET S : \A y \in s : g[s] = Addition[<<f[y], g[s \ {y}]>>]
  BY <1>3 DEF FoldsTo
<1>5. \A s \in SUBSET S : \A y \in s : g[s] = f[y] + g[s \ {y}]
  <2> TAKE s \in SUBSET S
  <2> TAKE y \in s
  <2>1. f[y] \in Int /\ g[s \ {y}] \in Int
    BY <1>3
  <2> QED
    BY <1>1, <1>4, <2>1
<1>6. ASSUME NEW t \in SUBSET S PROVE SumFunctionOnSet(f, t) = g[t]
  <2> DEFINE Adds(h) == h = [s \in SUBSET t |-> IF s = {} THEN 0
                               ELSE f[CHOOSE x \in s : TRUE] + h[s \ {CHOOSE x \in s : TRUE}]]
             k == [s \in SUBSET t |-> g[s]]
  <2>1. \A s \in SUBSET t : s # {} => (CHOOSE x \in s : TRUE) \in s
    OBVIOUS
  <2>2. Adds(k)
    <3> SUFFICES ASSUME NEW s \in SUBSET t
                 PROVE  k[s] = IF s = {} THEN 0
                               ELSE f[CHOOSE x \in s : TRUE] + k[s \ {CHOOSE x \in s : TRUE}]
      OBVIOUS
    <3> DEFINE x == CHOOSE x \in s : TRUE
    <3>1. k[s] = g[s] /\ k[s \ {x}] = g[s \ {x}]
      OBVIOUS
    <3>2. s # {} => x \in s
      BY <2>1
    <3>3. s \in SUBSET S
      OBVIOUS
    <3> HIDE DEF x, k
    <3> QED
      BY <1>4, <1>5, <3>1, <3>2, <3>3 DEF x
  <2>3. ASSUME NEW h, Adds(h) PROVE h = k
    <3> DEFINE W == {s \in SUBSET t : h[s] = k[s]}
    <3>1. DOMAIN h = SUBSET t /\ h[{}] = 0 /\ k[{}] = 0
      BY <1>4, <2>3
    <3>2. \A s \in SUBSET t : s # {} /\ s \ {CHOOSE x \in s : TRUE} \in W => s \in W
      <4> TAKE s \in SUBSET t
      <4>1. s # {} => /\ h[s] = f[CHOOSE x \in s : TRUE] + h[s \ {CHOOSE x \in s : TRUE}]
                      /\ k[s] = f[CHOOSE x \in s : TRUE] + k[s \ {CHOOSE x \in s : TRUE}]
        BY <2>2, <2>3
      <4> HIDE DEF k
      <4> QED
        BY <4>1
    <3>3. {} \in W
      BY <3>1
    <3>4. IsFiniteSet(t)
      BY FS_Subset
    <3> HIDE DEF W
    <3>5. \A s \in SUBSET t : s \in W
      BY <3>2, <3>3, <3>4, SubsetBySubset
    <3>6. \A s \in SUBSET t : h[s] = k[s]
      BY <3>5 DEF W
    <3> QED
      BY <2>3, <3>6
  <2>4. t \in SUBSET t /\ k[t] = g[t]
    OBVIOUS
  <2> HIDE DEF k
  <2>5. SumFunctionOnSet(f, t) = k[t]
    BY <2>2, <2>3 DEF SumFunctionOnSet, FoldFunctionOnSet, MapThenFoldSet
  <2> QED
    BY <2>4, <2>5
<1>7. SumsTo(g, f, S)
  BY <1>4, <1>5, <1>6 DEF SumsTo
<1> QED
  BY <1>3, <1>7

\* A sum takes in its elements in any order.
LEMMA SumLaws ==
    ASSUME NEW S, IsFiniteSet(S), NEW f, \A x \in S : f[x] \in Int
    PROVE  /\ SumFunctionOnSet(f, S) \in Int
           /\ S = {} => SumFunctionOnSet(f, S) = 0
           /\ \A y \in S : SumFunctionOnSet(f, S) = f[y] + SumFunctionOnSet(f, S \ {y})
<1>1. PICK g \in [SUBSET S -> Int] : SumsTo(g, f, S)
  BY SumsFold
<1>2. S \in SUBSET S /\ \A y \in S : S \ {y} \in SUBSET S
  OBVIOUS
<1>3. SumFunctionOnSet(f, S) = g[S] /\ \A y \in S : SumFunctionOnSet(f, S \ {y}) = g[S \ {y}]
  BY <1>1, <1>2 DEF SumsTo
<1>4. S = {} => g[S] = 0
  BY <1>1 DEF SumsTo
<1>5. \A y \in S : g[S] = f[y] + g[S \ {y}]
  BY <1>1, <1>2 DEF SumsTo
<1> QED
  BY <1>1, <1>2, <1>3, <1>4, <1>5

\* Sizes add up to a size.
LEMMA SumOfSizes ==
    ASSUME NEW S, IsFiniteSet(S), NEW f, \A x \in S : f[x] \in Nat
    PROVE  SumFunctionOnSet(f, S) \in Nat
<1>1. PICK g \in [SUBSET S -> Int] : SumsTo(g, f, S)
  <2>1. \A x \in S : f[x] \in Int
    OBVIOUS
  <2> QED
    BY <2>1, SumsFold
<1> DEFINE W == {s \in SUBSET S : g[s] \in Nat}
<1>2. {} \in W
  BY <1>1 DEF SumsTo
<1>3. \A s \in SUBSET S : s # {} /\ s \ {CHOOSE x \in s : TRUE} \in W => s \in W
  <2> SUFFICES ASSUME NEW s \in SUBSET S, s # {}, s \ {CHOOSE x \in s : TRUE} \in W
               PROVE  g[s] \in Nat
    OBVIOUS
  <2> DEFINE x == CHOOSE x \in s : TRUE
  <2>1. x \in s /\ x \in S
    OBVIOUS
  <2>2. g[s \ {x}] \in Nat
    OBVIOUS
  <2> HIDE DEF x
  <2>3. g[s] = f[x] + g[s \ {x}] /\ f[x] \in Nat
    BY <1>1, <2>1 DEF SumsTo
  <2> QED
    BY <2>2, <2>3
<1> HIDE DEF W
<1>4. S \in W
  BY <1>2, <1>3, SubsetBySubset
<1> QED
  BY <1>1, <1>4 DEF W, SumsTo
=============================================================================
