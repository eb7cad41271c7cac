---------------------------- MODULE L3CaptureProofs ---------------------------
(***************************************************************************)
(* The capture keeps what it is sent, the replay reads what was kept, and  *)
(* its book is the exchange's: for any orders, sizes, batches and bounds,  *)
(* any connections lost and processes killed, whatever the files the rows  *)
(* came to be spread over.                                                 *)
(***************************************************************************)
EXTENDS L3Capture, OrderingProofs, SequenceTheorems

Books    == UNION {[S -> 1..MaxSize] : S \in SUBSET L3Ids}
Types    == {"snapshot", "update", "heartbeat", "trade"}
Channels == {"book", "trades"}

\* What a row says of an order, of its size and of a snapshot is of one that is
\* displayed.
Sound(r) ==
    /\ r.type # "heartbeat" => r.id \in L3Ids
    /\ r.type = "snapshot" => r.size # 0

\* The rows of a message, and as they are written.
Told == {r \in [type : Types, id : L3Ids \cup {0}, size : 0..MaxSize, live : Books] : Sound(r)}
Rows == {r \in [ts : Int, session : Nat, n : Nat, type : Types, id : L3Ids \cup {0},
                size : 0..MaxSize, live : Books] : Sound(r)}

Messages == [ack : SUBSET Channels, chan : Channels, rows : Seq(Told)]

-----------------------------------------------------------------------------
(* Sequences                                                               *)

\* Concatenating.
LEMMA Joined ==
    ASSUME NEW T, NEW s \in Seq(T), NEW t \in Seq(T)
    PROVE  /\ s \o t \in Seq(T) /\ Len(s \o t) = Len(s) + Len(t)
           /\ Len(s) \in Nat /\ Len(t) \in Nat
           /\ \A i \in 1..Len(s) : i \in 1..Len(s \o t) /\ (s \o t)[i] = s[i]
           /\ \A j \in 1..Len(t) : Len(s) + j \in 1..Len(s \o t) /\ (s \o t)[Len(s) + j] = t[j]
           /\ \A k \in 1..Len(s \o t) :
                 \/ k \in 1..Len(s)
                 \/ \E j \in 1..Len(t) : k = Len(s) + j
<1>1. /\ s \o t \in Seq(T) /\ Len(s \o t) = Len(s) + Len(t)
      /\ \A i \in 1..(Len(s) + Len(t)) : (s \o t)[i] = IF i <= Len(s) THEN s[i] ELSE t[i - Len(s)]
  BY ConcatProperties
<1>2. Len(s) \in Nat /\ Len(t) \in Nat
  BY LenProperties
<1> DEFINE u == s \o t
           m == Len(s)
           n == Len(t)
<1>3. /\ m \in Nat /\ n \in Nat /\ Len(u) = m + n
      /\ \A i \in 1..(m + n) : u[i] = IF i <= m THEN s[i] ELSE t[i - m]
  BY <1>1, <1>2
<1> HIDE DEF u, m, n
<1>4. \A i \in 1..m : i \in 1..Len(u) /\ u[i] = s[i]
  BY <1>3
<1>5. \A j \in 1..n : m + j \in 1..Len(u) /\ u[m + j] = t[j]
  <2> TAKE j \in 1..n
  <2>1. m + j \in 1..(m + n) /\ ~(m + j <= m) /\ (m + j) - m = j
    BY <1>3
  <2> QED
    BY <1>3, <2>1
<1>6. \A k \in 1..Len(u) : k \in 1..m \/ \E j \in 1..n : k = m + j
  <2> TAKE k \in 1..Len(u)
  <2>1. k \in 1..m \/ (k - m \in 1..n /\ k = m + (k - m))
    BY <1>3
  <2> QED
    BY <2>1
<1> QED
  BY <1>1, <1>3, <1>4, <1>5, <1>6 DEF u, m, n

\* Each is the one before with the next of s behind it.
Accumulates(f, s, n) == f[1] = s[1] /\ \A i \in 1..n : i # 1 => f[i] = f[i - 1] \o s[i]

\* pd.concat: FlattenSeq joins one sequence after the other (l3_bitfinex.py 78,
\* merge_l3.py 29).
LEMMA Concatenated ==
    ASSUME NEW T, NEW n \in Nat, n # 0, NEW s \in [1..n -> Seq(T)]
    PROVE  \E f \in [1..n -> Seq(T)] : Accumulates(f, s, n) /\ FlattenSeq(s) = f[n]
<1> DEFINE Made(f, m) == f = [i \in 1..m |-> IF i = 1 THEN s[i] ELSE f[i - 1] \o s[i]]
           S == {m \in 0..n : \E f : Made(f, m)}
           all == CHOOSE f : Made(f, n)
<1>1. 0 \in S
  <2>1. Made([i \in 1..0 |-> s[i]], 0)
    <3>1. \A i : i \notin 1..0
      OBVIOUS
    <3> QED
      BY <3>1
  <2>2. 0 \in 0..n
    OBVIOUS
  <2> HIDE DEF Made
  <2> QED
    BY <2>1, <2>2
<1>2. ASSUME NEW m \in 0..n, m \in S, m < n PROVE m + 1 \in S
  <2>1. PICK f : Made(f, m)
    BY <1>2
  <2> DEFINE g == [i \in 1..(m + 1) |-> IF i <= m THEN f[i]
                                       ELSE IF i = 1 THEN s[i] ELSE f[i - 1] \o s[i]]
             h == [i \in 1..(m + 1) |-> IF i = 1 THEN s[i] ELSE g[i - 1] \o s[i]]
  <2>2. ASSUME NEW i \in 1..(m + 1) PROVE g[i] = h[i]
    <3>1. CASE i <= m
      <4>1. i \in 1..m /\ g[i] = f[i]
        BY <3>1
      <4>4. f[i] = IF i = 1 THEN s[i] ELSE f[i - 1] \o s[i]
        BY <2>1, <4>1
      <4>2. i # 1 => i - 1 \in 1..(m + 1) /\ i - 1 <= m
        BY <3>1
      <4>3. i # 1 => g[i - 1] = f[i - 1]
        BY <4>2
      <4> QED
        BY <4>1, <4>3, <4>4
    <3>2. CASE ~(i <= m)
      <4>1. g[i] = IF i = 1 THEN s[i] ELSE f[i - 1] \o s[i]
        BY <3>2
      <4>2. i # 1 => i - 1 \in 1..(m + 1) /\ i - 1 <= m
        OBVIOUS
      <4>3. i # 1 => g[i - 1] = f[i - 1]
        BY <4>2
      <4> QED
        BY <4>1, <4>3
    <3> QED
      BY <3>1, <3>2
  <2>3. DOMAIN g = 1..(m + 1) /\ g = [i \in 1..(m + 1) |-> g[i]] /\ h = [i \in 1..(m + 1) |-> h[i]]
    OBVIOUS
  <2> HIDE DEF g
  <2>4. Made(g, m + 1)
    BY <2>2, <2>3
  <2> HIDE DEF Made
  <2> QED
    BY <1>2, <2>4
<1>3. n \in S
  <2> HIDE DEF S
  <2>1. \A i \in 0..n : i \in S /\ i < n => i + 1 \in S
    BY <1>2
  <2>2. \A i \in 0..n : i \in S
    BY <1>1, <2>1, UpTo
  <2> QED
    BY <2>2
<1>4. Made(all, n)
  <2>1. \E f : Made(f, n)
    BY <1>3
  <2> HIDE DEF Made
  <2> QED
    BY <2>1
<1>5. Len(s) = n
  BY Listing
<1>6. FlattenSeq(s) = all[n]
  BY <1>5 DEF FlattenSeq
<1> HIDE DEF all
<1>7. \A i \in 1..n : all[i] = IF i = 1 THEN s[i] ELSE all[i - 1] \o s[i]
  BY <1>4
<1> DEFINE P == {i \in 0..n : i = 0 \/ all[i] \in Seq(T)}
<1>8. \A i \in 0..n : i \in P /\ i < n => i + 1 \in P
  <2> TAKE i \in 0..n
  <2> HAVE i \in P /\ i < n
  <2>1. i + 1 \in 1..n /\ (i + 1) - 1 = i /\ s[i + 1] \in Seq(T)
    OBVIOUS
  <2>2. all[i + 1] = IF i + 1 = 1 THEN s[i + 1] ELSE all[i] \o s[i + 1]
    BY <1>7, <2>1
  <2>3. all[i + 1] \in Seq(T)
    <3>1. CASE i = 0
      BY <2>1, <2>2, <3>1
    <3>2. CASE i # 0
      <4>1. all[i] \in Seq(T) /\ i + 1 # 1
        BY <3>2
      <4> QED
        BY <2>1, <2>2, <4>1, ConcatProperties
    <3> QED
      BY <3>1, <3>2
  <2> QED
    BY <2>1, <2>3
<1>9. \A i \in 1..n : all[i] \in Seq(T)
  <2>1. 0 \in P
    OBVIOUS
  <2> HIDE DEF P
  <2>2. \A i \in 0..n : i \in P
    BY <1>8, <2>1, UpTo
  <2> QED
    BY <2>2 DEF P
<1>10. all \in [1..n -> Seq(T)]
  BY <1>4, <1>9
<1> HIDE DEF Made
<1>11. Accumulates(all, s, n)
  <2>1. 1 \in 1..n
    OBVIOUS
  <2> QED
    BY <1>7, <2>1 DEF Accumulates
<1> QED
  BY <1>6, <1>10, <1>11

-----------------------------------------------------------------------------
(* Rows in the order of the wall clock and of receipt                      *)

Earlier(p, q) == p.ts < q.ts \/ (p.ts = q.ts /\ p.n < q.n)

\* The order of these rows.
Clocked(S) == {p \in S \X S : Earlier(p[1], p[2])}

\* Times and numbers are numbers.
LEMMA RowNumbers == \A r \in Rows : r.ts \in Int /\ r.n \in Int /\ r.session \in Int
  BY DEF Rows

\* InTime, by places.
LEMMA TimeOrder ==
    ASSUME NEW s \in Seq(Rows)
    PROVE  /\ InTime(s) <=> \A i, j \in 1..Len(s) : i < j => Earlier(s[i], s[j])
           /\ Len(s) \in Nat /\ DOMAIN s = 1..Len(s)
           /\ \A i \in 1..Len(s) : s[i] \in Rows
           /\ ToSet(s) = {s[i] : i \in 1..Len(s)} /\ ToSet(s) \subseteq Rows
<1>1. Len(s) \in Nat /\ DOMAIN s = 1..Len(s) /\ \A i \in 1..Len(s) : s[i] \in Rows
  BY LenProperties
<1>2. \A j \in 1..Len(s) : \A i : i \in 1..(j - 1) <=> i \in 1..Len(s) /\ i < j
  BY <1>1
<1> DEFINE D == 1..Len(s)
           E(i, j) == Earlier(s[i], s[j])
<1>3. InTime(s) <=> \A j \in D : \A i \in 1..(j - 1) : E(i, j)
  BY <1>1 DEF InTime, Earlier
<1> HIDE DEF E
<1>4. InTime(s) <=> \A i, j \in D : i < j => E(i, j)
  BY <1>2, <1>3
<1>5. ToSet(s) = {s[i] : i \in 1..Len(s)}
  BY <1>1 DEF ToSet
<1> QED
  BY <1>1, <1>4, <1>5 DEF E

\* Rows in time are the listing of their set.
LEMMA InTimeLists ==
    ASSUME NEW s \in Seq(Rows), InTime(s)
    PROVE  /\ IsFiniteSet(ToSet(s)) /\ Cardinality(ToSet(s)) = Len(s)
           /\ Lists(s, ToSet(s), Clocked(ToSet(s)))
<1> DEFINE n == Len(s)
           S == ToSet(s)
<1>1. /\ \A i, j \in 1..n : i < j => Earlier(s[i], s[j])
      /\ n \in Nat /\ DOMAIN s = 1..n /\ \A i \in 1..n : s[i] \in Rows
      /\ S = {s[i] : i \in 1..n}
  BY TimeOrder
<1>2. s \in [1..n -> S] /\ \A x \in S : \E k \in 1..n : s[k] = x
  BY <1>1, LenProperties
<1>3. \A i \in 1..n : s[i].ts \in Int /\ s[i].n \in Int
  BY <1>1, RowNumbers
<1>4. \A i, j \in 1..n : i < j <=> Earlier(s[i], s[j])
  <2> TAKE i, j \in 1..n
  <2>1. s[i].ts \in Int /\ s[i].n \in Int /\ s[j].ts \in Int /\ s[j].n \in Int
    BY <1>3
  <2>2. (i < j => Earlier(s[i], s[j])) /\ (j < i => Earlier(s[j], s[i]))
    BY <1>1
  <2>3. i < j \/ i = j \/ j < i
    BY <1>1
  <2> QED
    BY <2>1, <2>2, <2>3 DEF Earlier
<1>5. \A i, j \in 1..n : s[i] = s[j] => i = j
  <2> TAKE i, j \in 1..n
  <2>1. ~Earlier(s[i], s[i])
    BY <1>3 DEF Earlier
  <2>2. i \in Int /\ j \in Int
    BY <1>1
  <2>3. s[i] = s[j] => ~(i < j) /\ ~(j < i)
    BY <1>4, <2>1
  <2> QED
    BY <2>2, <2>3
<1> HIDE DEF n, S
<1>6. s \in Surjection(1..n, S) /\ s \in Injection(1..n, S)
  BY <1>2, <1>5, Fun_IsSurj, Fun_IsInj
<1>7. IsFiniteSet(1..n) /\ Cardinality(1..n) = n
  BY <1>1, FirstFew
<1>8. IsFiniteSet(S) /\ Cardinality(S) = n
  BY <1>6, <1>7, FS_Surjection
<1>9. \A i, j \in 1..n : <<s[i], s[j]>> \in Clocked(S) <=> Earlier(s[i], s[j])
  BY <1>2 DEF Clocked
<1>10. Lists(s, S, Clocked(S))
  BY <1>2, <1>4, <1>8, <1>9 DEF Lists
<1> QED
  BY <1>8, <1>10 DEF n, S

\* There is one way to put rows in time.
LEMMA OneOrder ==
    ASSUME NEW s \in Seq(Rows), NEW t \in Seq(Rows), InTime(s), InTime(t), ToSet(s) = ToSet(t)
    PROVE  s = t
  BY InTimeLists, ListedOnce

\* Later rows after rows in time.
LEMMA InTimeJoined ==
    ASSUME NEW s \in Seq(Rows), NEW t \in Seq(Rows), InTime(s), InTime(t),
           \A i \in 1..Len(s), j \in 1..Len(t) : Earlier(s[i], t[j])
    PROVE  InTime(s \o t)
<1> DEFINE u == s \o t
           m == Len(s)
           n == Len(t)
           E(i, j) == Earlier(u[i], u[j])
<1>1. /\ u \in Seq(Rows) /\ m \in Nat /\ n \in Nat
      /\ \A i \in 1..m : u[i] = s[i]
      /\ \A j \in 1..n : u[m + j] = t[j]
      /\ \A k \in 1..Len(u) : k \in 1..m \/ \E j \in 1..n : k = m + j
  <2>1. u \in Seq(Rows) /\ m \in Nat /\ n \in Nat
    BY Joined
  <2>2. \A i \in 1..m : u[i] = s[i]
    BY Joined
  <2>3. \A j \in 1..n : u[m + j] = t[j]
    BY Joined
  <2>4. \A k \in 1..Len(u) : k \in 1..m \/ \E j \in 1..n : k = m + j
    <3>1. m \in Nat /\ n \in Nat /\ Len(u) = m + n
      BY Joined
    <3> HIDE DEF u, m, n
    <3> SUFFICES ASSUME NEW k \in 1..(m + n), k > m PROVE k - m \in 1..n /\ k = m + (k - m)
      BY <3>1
    <3> QED
      BY <3>1
  <2> QED
    BY <2>1, <2>2, <2>3, <2>4
<1>2. /\ \A i, j \in 1..m : i < j => Earlier(s[i], s[j])
      /\ \A i, j \in 1..n : i < j => Earlier(t[i], t[j])
  BY TimeOrder
<1>3. \A i, j \in 1..m : i < j => E(i, j)
  BY <1>1, <1>2
<1>4. \A i \in 1..m, j \in 1..n : E(i, m + j)
  BY <1>1
<1>5. \A i, j \in 1..n : m + i < m + j => E(m + i, m + j)
  <2> TAKE i, j \in 1..n
  <2>1. m + i < m + j => i < j
    BY <1>1
  <2> QED
    BY <1>1, <1>2, <2>1
<1>6. \A i \in 1..m, j \in 1..n : ~(m + j < i)
  BY <1>1
<1> HIDE DEF E, m, n
<1>7. \A i, j \in 1..Len(u) : i < j => E(i, j)
  BY <1>1, <1>3, <1>4, <1>5, <1>6
<1> QED
  BY <1>1, <1>7, TimeOrder DEF E

\* What two sequences hold is what they hold together.
LEMMA SetJoined ==
    ASSUME NEW T, NEW s \in Seq(T), NEW t \in Seq(T)
    PROVE  ToSet(s \o t) = ToSet(s) \cup ToSet(t)
<1>1. Range(s \o t) = Range(s) \cup Range(t)
  BY RangeConcatenation
<1> QED
  BY <1>1 DEF Range, ToSet

-----------------------------------------------------------------------------
(* Files                                                                   *)

\* Rows of one second and one session, in the order of receipt.
Batch(s) ==
    /\ s \in Seq(Rows)
    /\ \A i, j \in 1..Len(s) :
          /\ s[i].ts = s[j].ts /\ s[i].session = s[j].session
          /\ i < j => s[i].n < s[j].n

\* Received before.
Precedes(s, t) == \A i \in 1..Len(s), j \in 1..Len(t) : s[i].n < t[j].n

\* A file is a batch, named after its second; one of a lower number was received
\* before.
FilesOK(fs) ==
    /\ IsFiniteSet(DOMAIN fs) /\ DOMAIN fs \subseteq [ts : Int, count : Nat]
    /\ \A f \in DOMAIN fs :
          Batch(fs[f]) /\ fs[f] # <<>> /\ \A i \in 1..Len(fs[f]) : fs[f][i].ts = f.ts
    /\ \A f, g \in DOMAIN fs : f.count = g.count => f = g
    /\ \A f, g \in DOMAIN fs : f.count < g.count => Precedes(fs[f], fs[g])

Captured(fs) == UNION {ToSet(fs[f]) : f \in DOMAIN fs}

\* Of files in the order of their names, one comes before the next.
LEMMA NamesOrdered ==
    ASSUME NEW fs, FilesOK(fs)
    PROVE  Orders({p \in (DOMAIN fs) \X (DOMAIN fs) : NameBefore(p[1], p[2])}, DOMAIN fs)
<1> DEFINE N == DOMAIN fs
           R == {p \in N \X N : NameBefore(p[1], p[2])}
<1>1. \A x, y \in N : <<x, y>> \in R <=> NameBefore(x, y)
  OBVIOUS
<1>2. \A x \in N : x.ts \in Int /\ x.count \in Int
  BY DEF FilesOK
<1>3. \A x, y \in N : x.count = y.count => x = y
  BY DEF FilesOK
<1> HIDE DEF R, N
<1>4. ASSUME NEW x \in N, NEW y \in N PROVE x = y \/ <<x, y>> \in R \/ <<y, x>> \in R
  <2>1. x.ts \in Int /\ x.count \in Int /\ y.ts \in Int /\ y.count \in Int
    BY <1>2
  <2>2. x.count = y.count => x = y
    BY <1>3
  <2> QED
    BY <1>1, <2>1, <2>2 DEF NameBefore
<1>5. \A x \in N : <<x, x>> \notin R
  BY <1>1, <1>2 DEF NameBefore
<1>6. ASSUME NEW x \in N, NEW y \in N, NEW z \in N, <<x, y>> \in R, <<y, z>> \in R
      PROVE  <<x, z>> \in R
  <2>1. NameBefore(x, y) /\ NameBefore(y, z)
    BY <1>1, <1>6
  <2>2. /\ x.ts \in Int /\ x.count \in Int /\ y.ts \in Int /\ y.count \in Int
        /\ z.ts \in Int /\ z.count \in Int
    BY <1>2
  <2>3. NameBefore(x, z)
    BY <2>1, <2>2 DEF NameBefore
  <2> QED
    BY <1>1, <2>3
<1> QED
  BY <1>4, <1>5, <1>6 DEF Orders, R, N

\* The rows of a file are in time, and later than those of one named before.
LEMMA FileInTime ==
    ASSUME NEW fs, FilesOK(fs)
    PROVE  /\ \A f \in DOMAIN fs : fs[f] \in Seq(Rows) /\ InTime(fs[f])
           /\ \A f, g \in DOMAIN fs : NameBefore(f, g) =>
                 \A i \in 1..Len(fs[f]), j \in 1..Len(fs[g]) : Earlier(fs[f][i], fs[g][j])
<1>1. ASSUME NEW f \in DOMAIN fs PROVE fs[f] \in Seq(Rows) /\ InTime(fs[f])
  <2>1. /\ fs[f] \in Seq(Rows)
        /\ \A i, j \in 1..Len(fs[f]) : fs[f][i].ts = fs[f][j].ts /\ (i < j => fs[f][i].n < fs[f][j].n)
    BY DEF FilesOK, Batch
  <2>2. \A i, j \in 1..Len(fs[f]) : i < j => Earlier(fs[f][i], fs[f][j])
    BY <2>1 DEF Earlier
  <2> QED
    BY <2>1, <2>2, TimeOrder
<1>2. ASSUME NEW f \in DOMAIN fs, NEW g \in DOMAIN fs, NameBefore(f, g),
             NEW i \in 1..Len(fs[f]), NEW j \in 1..Len(fs[g])
      PROVE  Earlier(fs[f][i], fs[g][j])
  <2>1. fs[f][i].ts = f.ts /\ fs[g][j].ts = g.ts
    BY DEF FilesOK
  <2>2. f.count < g.count => fs[f][i].n < fs[g][j].n
    BY DEF FilesOK, Precedes
  <2> QED
    BY <1>2, <2>1, <2>2 DEF NameBefore, Earlier
<1> QED
  BY <1>1, <1>2

\* The files in the order of their names give every row they hold, in time.
LEMMA RowsInTime ==
    ASSUME NEW fs, FilesOK(fs)
    PROVE  RowsOf(fs) \in Seq(Rows) /\ InTime(RowsOf(fs)) /\ ToSet(RowsOf(fs)) = Captured(fs)
<1> DEFINE N == DOMAIN fs
           R == {p \in N \X N : NameBefore(p[1], p[2])}
           named == InOrder(N, R)
           n == Cardinality(N)
           s == [k \in DOMAIN named |-> fs[named[k]]]
<1>1. IsFiniteSet(N) /\ n \in Nat
  BY FS_CardinalityType DEF FilesOK
<1>2. Orders(R, N)
  BY NamesOrdered
<1>3. RowsOf(fs) = FlattenSeq(s)
  BY DEF RowsOf
<1>4. \A x, y \in N : <<x, y>> \in R <=> NameBefore(x, y)
  OBVIOUS
<1> HIDE DEF R
<1>5. /\ named \in [1..n -> N] /\ \A x \in N : \E k \in 1..n : named[k] = x
      /\ \A i, j \in 1..n : i < j <=> <<named[i], named[j]>> \in R
  BY <1>1, <1>2, InOrderLists DEF Lists
<1>6. /\ s = [k \in 1..n |-> fs[named[k]]]
      /\ \A k \in 1..n : s[k] = fs[named[k]] /\ s[k] \in Seq(Rows) /\ InTime(s[k])
  BY <1>5, FileInTime
<1>7. s \in [1..n -> Seq(Rows)]
  BY <1>6
<1>8. \A i, j \in 1..n : i < j =>
         \A x \in 1..Len(s[i]), y \in 1..Len(s[j]) : Earlier(s[i][x], s[j][y])
  <2> TAKE i, j \in 1..n
  <2> HAVE i < j
  <2>1. named[i] \in N /\ named[j] \in N /\ NameBefore(named[i], named[j])
    BY <1>4, <1>5
  <2>2. s[i] = fs[named[i]] /\ s[j] = fs[named[j]]
    BY <1>6
  <2> HIDE DEF s, named, n
  <2> QED
    BY <2>1, <2>2, FileInTime
<1> DEFINE Upto(i) == UNION {ToSet(s[j]) : j \in 1..i}
<1>9. Captured(fs) = Upto(n)
  BY <1>5, <1>6 DEF Captured
<1> HIDE DEF s, named, n
<1>10. CASE n = 0
  <2>1. s = <<>> /\ Len(s) = 0
    BY <1>7, <1>10
  <2>2. FlattenSeq(s) = <<>>
    BY <2>1 DEF FlattenSeq
  <2>3. Upto(n) = {}
    BY <1>10
  <2>4. InTime(<<>>) /\ ToSet(<<>>) = {} /\ <<>> \in Seq(Rows)
    BY DEF InTime, ToSet
  <2> QED
    BY <1>3, <1>9, <2>2, <2>3, <2>4
<1>11. CASE n # 0
  <2>1. PICK f \in [1..n -> Seq(Rows)] : Accumulates(f, s, n) /\ FlattenSeq(s) = f[n]
    BY <1>1, <1>7, <1>11, Concatenated
  <2> DEFINE P == {i \in 0..n : i = 0 \/ (InTime(f[i]) /\ ToSet(f[i]) = Upto(i))}
  <2>2. ASSUME NEW i \in 0..n, i \in P, i < n PROVE i + 1 \in P
    <3>1. /\ i + 1 \in 1..n /\ (i + 1) - 1 = i /\ i \in Nat
          /\ s[i + 1] \in Seq(Rows) /\ InTime(s[i + 1]) /\ f[i + 1] \in Seq(Rows)
      BY <1>1, <1>6, <2>1, <2>2
    <3>2. CASE i = 0
      <4>1. f[i + 1] = s[i + 1]
        BY <2>1, <3>2 DEF Accumulates
      <4>2. Upto(i + 1) = ToSet(s[i + 1])
        BY <3>2
      <4> QED
        BY <3>1, <4>1, <4>2
    <3>3. CASE i # 0
      <4>7. i \in 1..n /\ i + 1 # 1 /\ InTime(f[i]) /\ ToSet(f[i]) = Upto(i)
        BY <1>1, <2>2, <3>1, <3>3
      <4>8. f[i + 1] = f[(i + 1) - 1] \o s[i + 1]
        BY <2>1, <3>1, <4>7 DEF Accumulates
      <4>1. /\ i \in 1..n /\ i + 1 # 1 /\ InTime(f[i]) /\ ToSet(f[i]) = Upto(i)
            /\ f[i] \in Seq(Rows) /\ f[i + 1] = f[i] \o s[i + 1]
        BY <2>1, <3>1, <4>7, <4>8
      <4>2. ASSUME NEW x \in 1..Len(f[i]), NEW y \in 1..Len(s[i + 1])
            PROVE  Earlier(f[i][x], s[i + 1][y])
        <5>1. f[i][x] \in ToSet(f[i])
          BY <4>1, LenProperties DEF ToSet
        <5>2. PICK j \in 1..i : f[i][x] \in ToSet(s[j])
          BY <4>1, <5>1
        <5>3. j \in 1..n /\ j < i + 1
          BY <1>1, <2>2, <3>1
        <5>4. PICK z \in 1..Len(s[j]) : f[i][x] = s[j][z]
          BY <1>6, <5>2, <5>3, LenProperties DEF ToSet
        <5> QED
          BY <1>8, <3>1, <5>3, <5>4
      <4>3. InTime(f[i + 1])
        BY <3>1, <4>1, <4>2, InTimeJoined
      <4>4. ToSet(f[i + 1]) = Upto(i) \cup ToSet(s[i + 1])
        BY <3>1, <4>1, SetJoined
      <4>5. \A j : j \in 1..(i + 1) <=> j \in 1..i \/ j = i + 1
        BY <3>1
      <4>6. Upto(i + 1) = Upto(i) \cup ToSet(s[i + 1])
        BY <4>5
      <4>9. i + 1 \in 0..n
        BY <1>1, <3>1
      <4> HIDE DEF Upto
      <4> QED
        BY <4>3, <4>4, <4>6, <4>9
    <3> QED
      BY <3>2, <3>3
  <2>3. 0 \in P
    BY <1>1
  <2> HIDE DEF P, Upto
  <2>4. \A i \in 0..n : i \in P /\ i < n => i + 1 \in P
    BY <2>2
  <2>5. n \in P
    <3>1. \A i \in 0..n : i \in P
      BY <1>1, <2>3, <2>4, UpTo
    <3> QED
      BY <1>1, <3>1
  <2>6. InTime(f[n]) /\ ToSet(f[n]) = Upto(n) /\ f[n] \in Seq(Rows)
    <3>1. n \in 1..n
      BY <1>1, <1>11
    <3> QED
      BY <1>11, <2>1, <2>5, <3>1 DEF P
  <2> QED
    BY <1>3, <1>9, <2>1, <2>6
<1> QED
  BY <1>10, <1>11

-----------------------------------------------------------------------------
(* Sorting, merging, reading                                               *)

\* A stable sort leaves rows in time as they are (l3_bitfinex.py 85).
LEMMA SortedStays ==
    ASSUME NEW s \in Seq(Rows), InTime(s)
    PROVE  ByTime(s) = s
<1> DEFINE n == Len(s)
           t == ByTime(s)
<1>1. /\ \A i, j \in 1..n : i < j => Earlier(s[i], s[j])
      /\ n \in Nat /\ DOMAIN s = 1..n /\ \A i \in 1..n : s[i] \in Rows
      /\ ToSet(s) = {s[i] : i \in 1..n}
  BY TimeOrder
<1>2. \A i \in 1..n : s[i].ts \in Int
  BY <1>1, RowNumbers
<1>3. PICK order \in [1..n -> 1..n] :
          /\ t = [k \in 1..n |-> s[order[k]]]
          /\ \A i \in 1..n : \E k \in 1..n : order[k] = i
          /\ \A i, j \in 1..n : i < j <=>
                 \/ s[order[i]].ts < s[order[j]].ts
                 \/ s[order[i]].ts = s[order[j]].ts /\ order[i] < order[j]
  BY <1>1, <1>2, ByTimeSorts
<1> HIDE DEF t, n
<1>4. t \in [1..n -> Rows] /\ \A k \in 1..n : t[k] = s[order[k]] /\ order[k] \in 1..n
  BY <1>1, <1>3
<1>5. t \in Seq(Rows) /\ Len(t) = n
  BY <1>1, <1>4, Listing
<1>6. \A i, j \in 1..n : i < j => Earlier(t[i], t[j])
  <2> TAKE i, j \in 1..n
  <2> HAVE i < j
  <2>1. \/ s[order[i]].ts < s[order[j]].ts
        \/ s[order[i]].ts = s[order[j]].ts /\ order[i] < order[j]
    BY <1>3
  <2>2. order[i] < order[j] => Earlier(s[order[i]], s[order[j]])
    BY <1>1, <1>4
  <2>3. Earlier(s[order[i]], s[order[j]])
    BY <2>1, <2>2 DEF Earlier
  <2> QED
    BY <1>4, <2>3
<1>7. InTime(t)
  BY <1>5, <1>6, TimeOrder
<1>8. ToSet(t) = {t[k] : k \in 1..n}
  BY <1>5, TimeOrder
<1>9. ToSet(t) = ToSet(s)
  <2>1. \A i \in 1..n : \E k \in 1..n : t[k] = s[i]
    <3> TAKE i \in 1..n
    <3>1. PICK k \in 1..n : order[k] = i
      BY <1>3
    <3> QED
      BY <1>4, <3>1
  <2>2. \A k \in 1..n : \E i \in 1..n : t[k] = s[i]
    BY <1>4
  <2>3. ToSet(s) = {s[i] : i \in 1..n}
    BY <1>1
  <2> QED
    BY ONLY <1>8, <2>1, <2>2, <2>3
<1> QED
  BY <1>5, <1>7, <1>9, OneOrder DEF t

\* The replay reads the rows of all batches as their names order them.
LEMMA FrameInTime ==
    ASSUME NEW fs, FilesOK(fs)
    PROVE  /\ Frame(fs, <<>>) = RowsOf(fs) /\ Frame(fs, <<>>) \in Seq(Rows)
           /\ InTime(Frame(fs, <<>>)) /\ ToSet(Frame(fs, <<>>)) = Captured(fs)
<1>1. RowsOf(fs) \in Seq(Rows) /\ InTime(RowsOf(fs)) /\ ToSet(RowsOf(fs)) = Captured(fs)
  BY RowsInTime
<1>2. RowsOf(fs) \o <<>> = RowsOf(fs)
  BY <1>1, ConcatEmptySeq
<1> QED
  BY <1>1, <1>2, SortedStays DEF Frame

\* A sort keeps the rows, and each as often as it was there.
LEMMA SortedKeeps ==
    ASSUME NEW s \in Seq(Rows)
    PROVE  /\ ByTime(s) \in Seq(Rows) /\ ToSet(ByTime(s)) = ToSet(s)
           /\ \A m : Times(ByTime(s), m) = Times(s, m)
<1> DEFINE n == Len(s)
           t == ByTime(s)
<1>1. /\ n \in Nat /\ DOMAIN s = 1..n /\ \A i \in 1..n : s[i] \in Rows
      /\ ToSet(s) = {s[i] : i \in 1..n}
  BY TimeOrder
<1>2. \A i \in 1..n : s[i].ts \in Int
  BY <1>1, RowNumbers
<1>3. PICK order \in [1..n -> 1..n] :
          /\ t = [k \in 1..n |-> s[order[k]]]
          /\ \A i \in 1..n : \E k \in 1..n : order[k] = i
          /\ \A i, j \in 1..n : i < j <=>
                 \/ s[order[i]].ts < s[order[j]].ts
                 \/ s[order[i]].ts = s[order[j]].ts /\ order[i] < order[j]
  BY <1>1, <1>2, ByTimeSorts
<1> HIDE DEF t, n
<1>4. t \in [1..n -> Rows] /\ \A k \in 1..n : t[k] = s[order[k]] /\ order[k] \in 1..n
  BY <1>1, <1>3
<1>5. t \in Seq(Rows) /\ Len(t) = n /\ DOMAIN t = 1..n
  BY <1>1, <1>4, Listing
<1>6. ToSet(t) = ToSet(s)
  <2>1. ToSet(t) = {t[k] : k \in 1..n}
    BY <1>5 DEF ToSet
  <2>2. \A i \in 1..n : \E k \in 1..n : t[k] = s[i]
    <3> TAKE i \in 1..n
    <3>1. PICK k \in 1..n : order[k] = i
      BY <1>3
    <3> QED
      BY <1>4, <3>1
  <2>3. \A k \in 1..n : \E i \in 1..n : t[k] = s[i]
    BY <1>4
  <2> QED
    BY ONLY <1>1, <2>1, <2>2, <2>3
<1>7. \A i, j \in 1..n : order[i] = order[j] => i = j
  <2> TAKE i, j \in 1..n
  <2> HAVE order[i] = order[j]
  <2>1. s[order[i]].ts \in Int /\ order[i] \in Int /\ i \in Int /\ j \in Int
    BY <1>1, <1>2, <1>4
  <2>2. /\ i < j =>
              \/ s[order[i]].ts < s[order[j]].ts
              \/ s[order[i]].ts = s[order[j]].ts /\ order[i] < order[j]
        /\ j < i =>
              \/ s[order[j]].ts < s[order[i]].ts
              \/ s[order[j]].ts = s[order[i]].ts /\ order[j] < order[i]
    BY <1>3
  <2> DEFINE x == order[i]
             c == s[x].ts
  <2>3. /\ x \in Int /\ c \in Int
        /\ i < j => c < c \/ x < x
        /\ j < i => c < c \/ x < x
    BY <2>1, <2>2
  <2> HIDE DEF x, c
  <2> QED
    BY <2>1, <2>3
<1>8. ASSUME NEW m PROVE Times(t, m) = Times(s, m)
  <2> DEFINE S == {k \in 1..n : t[k].n = m}
             R == {i \in 1..n : s[i].n = m}
             f == [k \in S |-> order[k]]
  <2>1. f \in [S -> R] /\ \A i \in R : \E k \in S : f[k] = i
    <3>1. \A k \in S : order[k] \in R
      BY <1>4
    <3>2. ASSUME NEW i \in R PROVE \E k \in S : f[k] = i
      <4>1. PICK k \in 1..n : order[k] = i
        BY <1>3
      <4>2. k \in S
        BY <1>4, <4>1
      <4> QED
        BY <4>1, <4>2
    <3> QED
      BY <3>1, <3>2
  <2>2. \A i, j \in S : f[i] = f[j] => i = j
    BY <1>7
  <2> HIDE DEF f
  <2>3. ExistsBijection(S, R)
    <3>1. f \in Injection(S, R)
      BY <2>1, <2>2 DEF Injection, IsInjective
    <3>2. f \in Surjection(S, R)
      BY <2>1 DEF Surjection
    <3> QED
      BY <3>1, <3>2 DEF ExistsBijection, Bijection
  <2>4. IsFiniteSet(S)
    <3>1. S \subseteq 1..n /\ IsFiniteSet(1..n)
      BY <1>1, FirstFew
    <3> QED
      BY <3>1, FS_Subset
  <2>5. Cardinality(R) = Cardinality(S)
    BY <2>3, <2>4, FS_Bijection
  <2> QED
    BY <1>1, <1>5, <2>5 DEF Times
<1> QED
  BY <1>5, <1>6, <1>8 DEF t

\* No two rows of the files have one number.
LEMMA NumberedOnce ==
    ASSUME NEW fs, FilesOK(fs), NEW q \in Captured(fs), NEW r \in Captured(fs), q.n = r.n
    PROVE  q = r
<1>1. PICK f \in DOMAIN fs : q \in ToSet(fs[f])
  BY DEF Captured
<1>2. PICK g \in DOMAIN fs : r \in ToSet(fs[g])
  BY DEF Captured
<1>3. Batch(fs[f]) /\ Batch(fs[g]) /\ fs[f] \in Seq(Rows) /\ fs[g] \in Seq(Rows)
  BY DEF FilesOK, Batch
<1>4. PICK i \in 1..Len(fs[f]) : fs[f][i] = q
  BY <1>1, <1>3, TimeOrder
<1>5. PICK j \in 1..Len(fs[g]) : fs[g][j] = r
  BY <1>2, <1>3, TimeOrder
<1>6. q.n \in Int /\ r.n \in Int
  BY <1>3, <1>4, <1>5, TimeOrder, RowNumbers
<1>7. f = g
  <2>1. f.count \in Int /\ g.count \in Int
    BY DEF FilesOK
  <2>2. ~(f.count < g.count)
    <3>1. f.count < g.count => q.n < r.n
      BY <1>4, <1>5 DEF FilesOK, Precedes
    <3> QED
      BY <1>6, <3>1
  <2>3. ~(g.count < f.count)
    <3>1. g.count < f.count => r.n < q.n
      BY <1>4, <1>5 DEF FilesOK, Precedes
    <3> QED
      BY <1>6, <3>1
  <2>4. f.count = g.count
    BY <2>1, <2>2, <2>3
  <2> QED
    BY <2>4 DEF FilesOK
<1>8. (i < j => q.n < r.n) /\ (j < i => r.n < q.n)
  BY <1>3, <1>4, <1>5, <1>7 DEF Batch
<1>9. Len(fs[f]) \in Nat
  BY <1>3, LenProperties
<1>10. i = j
  BY <1>6, <1>7, <1>8, <1>9
<1> QED
  BY <1>4, <1>5, <1>7, <1>10

\* Rows in time, all of them from the files, are there once each.
LEMMA OncePerNumber ==
    ASSUME NEW fs, FilesOK(fs), NEW s \in Seq(Rows), InTime(s), ToSet(s) \subseteq Captured(fs),
           NEW i \in 1..Len(s), NEW j \in 1..Len(s), s[i].n = s[j].n
    PROVE  i = j
<1>1. /\ \A k, l \in 1..Len(s) : k < l => Earlier(s[k], s[l])
      /\ Len(s) \in Nat /\ s[i] \in Rows /\ s[i] \in ToSet(s) /\ s[j] \in ToSet(s)
  BY TimeOrder
<1>2. s[i] = s[j]
  BY <1>1, NumberedOnce
<1>3. ~Earlier(s[i], s[i])
  BY <1>1, RowNumbers DEF Earlier
<1>4. ~(i < j) /\ ~(j < i)
  BY <1>1, <1>2, <1>3
<1> QED
  BY <1>1, <1>4

\* A replay of the batches and of what was merged of them, in one directory,
\* reads the batches' rows, and those merged a second time.
LEMMA FrameTwice ==
    ASSUME NEW fs, FilesOK(fs), NEW t \in Seq(Rows), InTime(t), ToSet(t) \subseteq Captured(fs)
    PROVE  /\ Frame(fs, t) \in Seq(Rows) /\ ToSet(Frame(fs, t)) = Captured(fs)
           /\ \A r \in Captured(fs) :
                 Times(Frame(fs, t), r.n) = IF r \in ToSet(t) THEN 2 ELSE 1
<1> DEFINE s == RowsOf(fs)
           u == s \o t
           m == Len(s)
<1>1. s \in Seq(Rows) /\ InTime(s) /\ ToSet(s) = Captured(fs)
  BY RowsInTime
<1> HIDE DEF s
<1>2. /\ u \in Seq(Rows) /\ m \in Nat /\ Len(t) \in Nat /\ Len(u) = m + Len(t)
      /\ \A i \in 1..m : i \in 1..Len(u) /\ u[i] = s[i]
      /\ \A j \in 1..Len(t) : m + j \in 1..Len(u) /\ u[m + j] = t[j]
      /\ \A k \in 1..Len(u) : k \in 1..m \/ \E j \in 1..Len(t) : k = m + j
  BY <1>1, Joined
<1>3. ToSet(u) = Captured(fs)
  <2>1. ToSet(u) = ToSet(s) \cup ToSet(t)
    BY <1>1, SetJoined
  <2> QED
    BY <1>1, <2>1
<1>4. DOMAIN u = 1..Len(u)
  BY <1>2, LenProperties
<1> HIDE DEF u, m
<1>5. /\ Frame(fs, t) \in Seq(Rows) /\ ToSet(Frame(fs, t)) = ToSet(u)
      /\ \A k : Times(Frame(fs, t), k) = Times(u, k)
  BY <1>2, SortedKeeps DEF Frame, u, s
<1>6. ASSUME NEW r \in Captured(fs)
      PROVE  Times(u, r.n) = IF r \in ToSet(t) THEN 2 ELSE 1
  <2> DEFINE P == {k \in DOMAIN u : u[k].n = r.n}
  <2>1. PICK i \in 1..m : s[i] = r
    BY <1>1, TimeOrder DEF m
  <2>2. \A k \in 1..m : s[k].n = r.n => k = i
    BY <1>1, <2>1, OncePerNumber DEF m
  <2>3. \A j \in 1..Len(t) : t[j] \in ToSet(t) /\ (t[j].n = r.n => t[j] = r)
    <3> TAKE j \in 1..Len(t)
    <3>1. t[j] \in ToSet(t)
      BY TimeOrder
    <3> QED
      BY <3>1, NumberedOnce
  <2>4. i \in P
    BY <1>2, <1>4, <2>1
  <2>5. \A k \in P : k = i \/ \E j \in 1..Len(t) : k = m + j /\ t[j].n = r.n
    <3> TAKE k \in P
    <3>1. k \in 1..Len(u) /\ u[k].n = r.n
      BY <1>4
    <3>2. CASE k \in 1..m
      BY <1>2, <2>2, <3>1, <3>2
    <3>3. CASE \E j \in 1..Len(t) : k = m + j
      BY <1>2, <3>1, <3>3
    <3> QED
      BY <1>2, <3>1, <3>2, <3>3
  <2>6. Times(u, r.n) = Cardinality(P)
    BY DEF Times
  <2>7. CASE r \notin ToSet(t)
    <3>1. \A j \in 1..Len(t) : t[j].n # r.n
      BY <2>3, <2>7
    <3> HIDE DEF P
    <3>2. P = {i}
      BY <2>4, <2>5, <3>1
    <3> QED
      BY <2>6, <2>7, <3>2, FS_Singleton
  <2>8. CASE r \in ToSet(t)
    <3>1. PICK j \in 1..Len(t) : t[j] = r
      BY <2>8, TimeOrder
    <3>2. \A k \in 1..Len(t) : t[k].n = r.n => k = j
      BY <3>1, OncePerNumber
    <3> DEFINE again == m + j
    <3>3. again \in P
      BY <1>2, <1>4, <3>1
    <3>4. \A k \in P : k = i \/ k = again
      BY <2>5, <3>2
    <3>5. again # i
      BY <1>2
    <3> HIDE DEF P, again
    <3>6. P = {i} \cup {again}
      BY <2>4, <3>3, <3>4
    <3>7. Cardinality({i} \cup {again}) = 2
      <4>1. IsFiniteSet({i}) /\ Cardinality({i}) = 1 /\ again \notin {i}
        BY <3>5, FS_Singleton
      <4> DEFINE one  == Cardinality({i})
                 both == Cardinality({i} \cup {again})
      <4>2. one = 1 /\ both = one + 1
        BY <4>1, FS_AddElement
      <4> HIDE DEF one, both
      <4>3. both = 2
        BY <4>2
      <4> QED
        BY <4>3 DEF both
    <3> QED
      BY <2>6, <2>8, <3>6, <3>7
  <2> QED
    BY <2>7, <2>8
<1> QED
  BY <1>3, <1>5, <1>6

\* Of no batches, what was merged of them: as it is.
LEMMA FrameAlone ==
    ASSUME NEW t \in Seq(Rows), InTime(t)
    PROVE  Frame(NoFiles, t) = t
<1>1. FilesOK(NoFiles) /\ Captured(NoFiles) = {}
  <2>1. DOMAIN NoFiles = {} /\ IsFiniteSet({})
    BY FS_EmptySet DEF NoFiles
  <2> QED
    BY <2>1 DEF FilesOK, Captured
<1>2. RowsOf(NoFiles) \in Seq(Rows) /\ ToSet(RowsOf(NoFiles)) = {}
  BY <1>1, RowsInTime
<1>3. RowsOf(NoFiles) = <<>>
  <2> DEFINE s == RowsOf(NoFiles)
  <2>1. s \in Seq(Rows) /\ ToSet(s) = {}
    BY <1>2
  <2> HIDE DEF s
  <2>2. ToSet(s) = {s[i] : i \in 1..Len(s)}
    BY <2>1, TimeOrder
  <2>3. s # <<>> => Len(s) \in Nat \ {0}
    BY <2>1, EmptySeq
  <2>4. s # <<>> => 1 \in 1..Len(s)
    BY <2>3
  <2>5. s = <<>>
    BY <2>1, <2>2, <2>4
  <2> QED
    BY <2>5 DEF s
<1>4. RowsOf(NoFiles) \o t = t
  BY <1>3, ConcatEmptySeq
<1> QED
  BY <1>4, SortedStays DEF Frame

\* The first few numbers in order are the first few numbers.
LEMMA AscendingFew ==
    ASSUME NEW m \in Nat
    PROVE  Ascending(1..m) = [k \in 1..m |-> k] /\ Cardinality(1..m) = m
<1> DEFINE R == {p \in (1..m) \X (1..m) : p[1] < p[2]}
           s == [k \in 1..m |-> k]
<1>1. IsFiniteSet(1..m) /\ Cardinality(1..m) = m
  BY FirstFew
<1>2. \A i, j \in 1..m : <<i, j>> \in R <=> i < j
  OBVIOUS
<1>3. s \in [1..m -> 1..m] /\ \A k \in 1..m : s[k] = k
  OBVIOUS
<1> HIDE DEF R, s
<1>4. Lists(s, 1..m, R)
  BY <1>1, <1>2, <1>3 DEF Lists
<1>5. s = InOrder(1..m, R)
  BY <1>1, <1>4, ListedOnce
<1> QED
  BY <1>1, <1>5 DEF Ascending, R, s

\* Rows read a second time are dropped (merge_l3.py 43).
LEMMA DuplicatesGone ==
    ASSUME NEW s \in Seq(Rows), NEW t \in Seq(Rows), InTime(s), ToSet(t) \subseteq ToSet(s)
    PROVE  DropDuplicates(s \o t) = s
<1> DEFINE u == s \o t
           m == Len(s)
           where == {i \in DOMAIN u : \A j \in 1..(i - 1) : u[j] # u[i]}
<1>1. /\ u \in Seq(Rows) /\ m \in Nat /\ Len(t) \in Nat /\ Len(u) = m + Len(t)
      /\ \A i \in 1..m : i \in 1..Len(u) /\ u[i] = s[i]
      /\ \A j \in 1..Len(t) : u[m + j] = t[j]
      /\ \A k \in 1..Len(u) : k \in 1..m \/ \E j \in 1..Len(t) : k = m + j
  BY Joined
<1>2. DOMAIN u = 1..Len(u)
  BY <1>1, LenProperties
<1>3. /\ \A i, j \in 1..m : i < j => Earlier(s[i], s[j])
      /\ \A i \in 1..m : s[i] \in Rows
      /\ ToSet(s) = {s[i] : i \in 1..m}
  BY TimeOrder
<1>4. ToSet(t) = {t[i] : i \in 1..Len(t)}
  BY TimeOrder
<1>5. DropDuplicates(u) = [k \in 1..Cardinality(where) |-> u[Ascending(where)[k]]]
  BY DEF DropDuplicates, Picked
<1> HIDE DEF u, m
<1>6. \A i \in 1..m : i \in where
  <2> TAKE i \in 1..m
  <2>1. ASSUME NEW j \in 1..(i - 1) PROVE u[j] # u[i]
    <3>1. j \in 1..m /\ j < i
      BY <1>1
    <3>2. Earlier(s[j], s[i]) /\ s[j].ts \in Int /\ s[j].n \in Int
      BY <1>3, <3>1, RowNumbers
    <3>3. s[j] # s[i]
      BY <3>2 DEF Earlier
    <3> QED
      BY <1>1, <3>1, <3>3
  <2>2. i \in DOMAIN u
    BY <1>1, <1>2
  <2> QED
    BY <2>1, <2>2
<1>7. \A i \in where : i \in 1..m
  <2> TAKE i \in where
  <2> SUFFICES ASSUME i \notin 1..m PROVE FALSE
    OBVIOUS
  <2>1. PICK j \in 1..Len(t) : i = m + j
    BY <1>1, <1>2
  <2>2. u[i] = t[j] /\ t[j] \in ToSet(t)
    BY <1>1, <1>4, <2>1
  <2>3. PICK k \in 1..m : s[k] = u[i]
    BY <1>3, <2>2
  <2>4. k \in 1..(i - 1) /\ u[k] = u[i]
    BY <1>1, <2>1, <2>3
  <2> QED
    BY <2>4
<1>8. where = 1..m
  <2> HIDE DEF where
  <2> QED
    BY <1>6, <1>7
<1>9. DropDuplicates(u) = [k \in 1..m |-> u[Ascending(1..m)[k]]]
  <2>1. Cardinality(1..m) = m
    BY <1>1, AscendingFew
  <2> HIDE DEF where
  <2> QED
    BY <1>5, <1>8, <2>1
<1>10. DropDuplicates(u) = [k \in 1..m |-> s[k]]
  BY <1>1, <1>9, AscendingFew
<1>11. s = [k \in 1..m |-> s[k]]
  BY LenProperties DEF m
<1> QED
  BY <1>10, <1>11 DEF u

\* Rows merged before others came are what a replay reads first.
LEMMA FirstReceived ==
    ASSUME NEW s \in Seq(Rows), NEW t \in Seq(Rows), InTime(s), InTime(t),
           ToSet(s) \subseteq ToSet(t), InReceipt(t),
           \A r \in ToSet(t), q \in ToSet(s) : r.n < q.n => r \in ToSet(s)
    PROVE  IsPrefix(s, t)
<1> DEFINE n == Len(t)
           S == {k \in 1..n : t[k] \in ToSet(s)}
           c == Cardinality(S)
           u == SubSeq(t, 1, c)
<1>1. /\ \A i, j \in 1..n : i < j => Earlier(t[i], t[j])
      /\ n \in Nat /\ DOMAIN t = 1..n /\ \A i \in 1..n : t[i] \in Rows
      /\ ToSet(t) = {t[i] : i \in 1..n}
  BY TimeOrder
<1>2. ASSUME NEW i \in S, NEW j \in 1..i PROVE j \in S
  <2>1. i \in 1..n /\ j \in 1..n /\ (j = i \/ j \in 1..(i - 1))
    BY <1>1
  <2>2. j \in 1..(i - 1) => t[j].n < t[i].n
    BY <1>1, <2>1 DEF InReceipt
  <2>3. t[i] \in ToSet(s) /\ t[j] \in ToSet(t)
    BY <1>1, <2>1
  <2> QED
    BY <2>1, <2>2, <2>3
<1>3. c \in 0..n /\ S = 1..c
  BY <1>1, <1>2, PrefixCount
<1> HIDE DEF n, c
<1>4. u \in Seq(Rows) /\ Len(u) = c /\ \A i \in 1..c : u[i] = t[i]
  <2>1. 1 \in Int /\ c \in Int /\ \A i \in 1..c : t[i] \in Rows
    BY <1>1, <1>3
  <2>2. /\ u \in Seq(Rows) /\ Len(u) = IF 1 <= c THEN c - 1 + 1 ELSE 0
        /\ \A i \in 1..(c - 1 + 1) : u[i] = t[1 + i - 1]
    BY <2>1, SubSeqProperties
  <2> QED
    BY <1>3, <2>2
<1>5. InTime(u)
  <2>1. \A i, j \in 1..c : i < j => Earlier(u[i], u[j])
    BY <1>1, <1>3, <1>4
  <2> QED
    BY <1>4, <2>1, TimeOrder
<1>6. ToSet(u) = ToSet(s)
  <2>1. ToSet(u) = {u[i] : i \in 1..c}
    BY <1>4, TimeOrder
  <2>2. \A i \in 1..n : t[i] \in ToSet(s) <=> i \in 1..c
    BY <1>3
  <2>3. \A i \in 1..c : i \in 1..n
    BY <1>1, <1>3
  <2>4. \A i \in 1..c : u[i] \in ToSet(s)
    BY <1>4, <2>2, <2>3
  <2>5. ASSUME NEW x \in ToSet(s) PROVE \E i \in 1..c : u[i] = x
    <3>1. PICK i \in 1..n : x = t[i]
      BY <1>1
    <3>2. i \in 1..c
      BY <2>2, <3>1
    <3> QED
      BY <1>4, <3>1, <3>2
  <2> QED
    BY ONLY <2>1, <2>4, <2>5
<1>7. u = s
  BY <1>4, <1>5, <1>6, OneOrder
<1>8. Len(s) = c /\ SubSeq(s, 1, Len(s)) = s /\ c <= n
  BY <1>1, <1>3, <1>4, <1>7, SubSeqFull
<1> QED
  BY <1>7, <1>8 DEF IsPrefix, n

-----------------------------------------------------------------------------
(* The inductive invariant                                                 *)

\* What the writer has: files, the number of the next, rows to write.
WriterOK(fs, count, rows) ==
    /\ FilesOK(fs) /\ Batch(rows)
    /\ count \in Nat /\ \A f \in DOMAIN fs : f.count < count
    /\ \A f \in DOMAIN fs : Precedes(fs[f], rows)

\* The numbers of the rows that are not lost.
Held(fs, rows) == {r.n : r \in Captured(fs) \cup ToSet(rows)}

\* What is received is in a file, in the buffer, or lost with a process that was
\* killed; the buffer holds rows of this connection only.
CaptureInv ==
    /\ pc \in {"start", "dial", "recv", "sleep", "exit", "done", "replay"}
    /\ clock \in Int /\ session \in Nat /\ received \in Nat /\ lost \subseteq 1..received
    /\ WriterOK(files, fileCount, buffer)
    /\ Held(files, buffer) = (1..received) \ lost
    /\ \A i \in 1..Len(buffer) : buffer[i].ts = clock /\ buffer[i].session = session
    /\ pc \in {"start", "dial", "done", "replay"} => buffer = <<>>

ExchangeInv == live \in Books /\ IsFiniteSet(DOMAIN live) /\ wire \in Seq(Messages)

\* The merged file holds rows of the batches, and with a row all received before.
MergedInv ==
    /\ merged \in Seq(Rows) /\ InTime(merged) /\ ToSet(merged) \subseteq Captured(files)
    /\ \A r \in Captured(files), q \in ToSet(merged) : r.n < q.n => r \in ToSet(merged)

\* One row makes two ticks at most, each with two sides.
TicksOK(ticks) ==
    /\ Len(ticks) \in 0..2
    /\ \A i \in DOMAIN ticks : DOMAIN ticks[i].bids # {} /\ DOMAIN ticks[i].asks # {}

\* What is read are rows; what has been read of them keeps its shape.
ReplayInv ==
    /\ frame \in Seq(Rows) /\ at \in 0..Len(frame)
    /\ pc # "replay" => frame = <<>> /\ at = 0
    /\ orders \in Books
    /\ \A p \in DOMAIN knownCancels : knownCancels[p] \in Nat \ {0}
    /\ tradeBuffer \in Seq(Rows)
    /\ lastType \in {"none", "snapshot", "update", "heartbeat"}
    /\ TicksOK(emitted)

L3Inv == CaptureInv /\ ExchangeInv /\ MergedInv /\ ReplayInv

-----------------------------------------------------------------------------
(* The writer                                                              *)

\* What is written later was received later.
Grows ==
    /\ Captured(files) \subseteq Captured(files')
    /\ \A r \in Captured(files') \ Captured(files), q \in Captured(files) : q.n < r.n

\* Of these rows, behind what is captured, none is dropped, and either all of
\* them are in files or those that were before.
Writes(rows) ==
    /\ Captured(files') \cup ToSet(buffer') = Captured(files) \cup ToSet(rows)
    /\ Captured(files') \in {Captured(files), Captured(files) \cup ToSet(rows)}

\* A file more: flush (bitfinex_l3_listener.py).
LEMMA FlushKeeps ==
    ASSUME NEW rows, rows # <<>>, WriterOK(files, fileCount, rows), Flush(rows)
    PROVE  /\ WriterOK(files', fileCount', buffer') /\ buffer' = <<>>
           /\ Held(files', buffer') = Held(files, rows)
           /\ Grows /\ Writes(rows)
<1> DEFINE new == [ts |-> Head(rows).ts, count |-> fileCount]
           N == DOMAIN files
<1>1. /\ files' = [name \in N \cup {new} |-> IF name = new THEN rows ELSE files[name]]
      /\ buffer' = <<>> /\ fileCount' = fileCount + 1
  BY DEF Flush
<1>2. /\ FilesOK(files) /\ Batch(rows) /\ fileCount \in Nat
      /\ \A f \in N : f.count < fileCount /\ f.count \in Nat
      /\ \A f \in N : Precedes(files[f], rows)
  BY DEF WriterOK, FilesOK
<1>3. rows \in Seq(Rows) /\ Len(rows) \in Nat /\ 1 \in 1..Len(rows) /\ Head(rows) = rows[1]
  BY <1>2 DEF Batch
<1>4. rows[1].ts \in Int /\ \A i \in 1..Len(rows) : rows[i].ts = rows[1].ts
  <2>1. rows[1] \in Rows
    BY <1>3, ElementOfSeq
  <2> QED
    BY <1>2, <1>3, <2>1, RowNumbers DEF Batch
<1>5. new \in [ts : Int, count : Nat] /\ new.count = fileCount /\ new.ts = rows[1].ts
  BY <1>2, <1>3, <1>4
<1>6. new \notin N
  BY <1>2, <1>5
<1> HIDE DEF new
<1>7. /\ DOMAIN files' = N \cup {new} /\ files'[new] = rows
      /\ \A f \in N : files'[f] = files[f]
  BY <1>1, <1>6
<1>8. FilesOK(files')
  <2>1. IsFiniteSet(N \cup {new}) /\ N \cup {new} \subseteq [ts : Int, count : Nat]
    BY <1>2, <1>5, FS_AddElement DEF FilesOK
  <2>2. ASSUME NEW f \in N \cup {new}
        PROVE  /\ Batch(files'[f]) /\ files'[f] # <<>>
               /\ \A i \in 1..Len(files'[f]) : files'[f][i].ts = f.ts
    <3>1. CASE f = new
      BY <1>2, <1>4, <1>5, <1>7, <3>1
    <3>2. CASE f \in N
      BY <1>2, <1>7, <3>2 DEF FilesOK
    <3> QED
      BY <3>1, <3>2
  <2>3. \A f, g \in N \cup {new} : f.count = g.count => f = g
    <3>1. \A f, g \in N : f.count = g.count => f = g
      BY <1>2 DEF FilesOK
    <3>2. \A f \in N : f.count # new.count
      BY <1>2, <1>5
    <3> QED
      BY <3>1, <3>2
  <2>4. ASSUME NEW f \in N \cup {new}, NEW g \in N \cup {new}, f.count < g.count
        PROVE  Precedes(files'[f], files'[g])
    <3>1. CASE f = new
      <4>1. g = new \/ g \in N
        OBVIOUS
      <4>2. g \in N => g.count < f.count /\ g.count \in Nat
        BY <1>2, <1>5, <3>1
      <4> QED
        BY <1>2, <1>5, <2>4, <3>1, <4>1, <4>2
    <3>2. CASE f \in N /\ g = new
      BY <1>2, <1>7, <3>2
    <3>3. CASE f \in N /\ g \in N
      BY <1>2, <1>7, <2>4, <3>3 DEF FilesOK
    <3> QED
      BY <3>1, <3>2, <3>3
  <2> QED
    BY <1>7, <2>1, <2>2, <2>3, <2>4 DEF FilesOK
<1>9. Captured(files') = Captured(files) \cup ToSet(rows)
  BY <1>7 DEF Captured
<1>10. /\ Batch(<<>>) /\ ToSet(<<>>) = {} /\ \A s : Precedes(s, <<>>)
  <2>1. Len(<<>>) = 0 /\ <<>> \in Seq(Rows) /\ DOMAIN <<>> = {} /\ \A i : i \notin 1..0
    OBVIOUS
  <2> QED
    BY <2>1 DEF Batch, ToSet, Precedes
<1>11. fileCount' \in Nat /\ \A f \in DOMAIN files' : f.count < fileCount'
  BY <1>1, <1>2, <1>5, <1>7
<1>12. WriterOK(files', fileCount', buffer') /\ buffer' = <<>>
  BY <1>1, <1>8, <1>10, <1>11 DEF WriterOK
<1>13. Held(files', buffer') = Held(files, rows)
  BY <1>1, <1>9, <1>10 DEF Held
<1>14. ASSUME NEW r \in Captured(files') \ Captured(files), NEW q \in Captured(files)
       PROVE  q.n < r.n
  <2>1. PICK f \in N : q \in ToSet(files[f])
    BY DEF Captured
  <2>2. r \in ToSet(rows)
    BY <1>9
  <2>3. files[f] \in Seq(Rows)
    BY <1>2 DEF FilesOK, Batch
  <2>4. PICK i \in 1..Len(files[f]) : q = files[f][i]
    BY <2>1, <2>3, TimeOrder
  <2>5. PICK j \in 1..Len(rows) : r = rows[j]
    BY <1>3, <2>2, TimeOrder
  <2> QED
    BY <1>2, <2>4, <2>5 DEF Precedes
<1>15. Writes(rows)
  BY <1>1, <1>9, <1>10 DEF Writes
<1> QED
  BY <1>9, <1>12, <1>13, <1>14, <1>15 DEF Grows

\* Nothing written.
LEMMA NothingGrows == ASSUME files' = files PROVE Grows /\ Writes(buffer')
  BY DEF Grows, Writes

\* add and add_many: the rows wait, or they are written with those that waited.
LEMMA AddKeeps ==
    ASSUME NEW rows \in Seq(Rows), NEW late, buffer \in Seq(Rows), Add(rows, late),
           WriterOK(files, fileCount, buffer \o rows)
    PROVE  /\ WriterOK(files', fileCount', buffer')
           /\ Held(files', buffer') = Held(files, buffer \o rows)
           /\ Grows /\ Writes(buffer \o rows)
           /\ buffer' = <<>> \/ buffer' = buffer \o rows
<1> DEFINE all == buffer \o rows
<1>1. CASE buffer' = all /\ UNCHANGED <<fileCount, files>>
  BY <1>1, NothingGrows
<1>2. CASE rows # <<>> /\ Flush(all)
  <2>1. all # <<>>
    BY <1>2, ConcatEqualIffEmpty
  <2> HIDE DEF all
  <2>2. WriterOK(files, fileCount, all) /\ Flush(all)
    BY <1>2 DEF all
  <2> QED
    BY <2>1, <2>2, FlushKeeps DEF all
<1> QED
  BY <1>1, <1>2 DEF Add

\* What waits is written at once: when a connection is made anew, and at the end.
LEMMA FlushesBuffer ==
    ASSUME CaptureInv, Flush(buffer)
    PROVE  /\ WriterOK(files', fileCount', buffer') /\ buffer' = <<>>
           /\ Held(files', buffer') = Held(files, buffer)
           /\ Grows /\ Writes(buffer)
<1>1. WriterOK(files, fileCount, buffer)
  BY DEF CaptureInv
<1>2. CASE buffer = <<>>
  BY <1>1, <1>2, NothingGrows DEF Flush, writerVars
<1>3. CASE buffer # <<>>
  BY <1>1, <1>3, FlushKeeps
<1> QED
  BY <1>2, <1>3

\* The empty batch.
LEMMA NoRows ==
    /\ Batch(<<>>) /\ ToSet(<<>>) = {} /\ Len(<<>>) = 0 /\ <<>> \in Seq(Rows)
    /\ \A s : Precedes(s, <<>>)
<1>1. Len(<<>>) = 0 /\ <<>> \in Seq(Rows) /\ DOMAIN <<>> = {} /\ \A i : i \notin 1..0
  OBVIOUS
<1> QED
  BY <1>1 DEF Batch, ToSet, Precedes

\* Rows as they are written are numbered on from those received before.
LEMMA StampedRows ==
    ASSUME CaptureInv, NEW rows \in Seq(Told)
    PROVE  /\ Stamped(rows) \in Seq(Rows) /\ Len(Stamped(rows)) = Len(rows) /\ Len(rows) \in Nat
           /\ \A i \in 1..Len(rows) :
                 /\ Stamped(rows)[i].n = received + i
                 /\ Stamped(rows)[i].ts = clock /\ Stamped(rows)[i].session = session
<1> DEFINE n == Len(rows)
           row(i) == [ts |-> clock, session |-> session, n |-> received + i, type |-> rows[i].type,
                      id |-> rows[i].id, size |-> rows[i].size, live |-> rows[i].live]
<1>1. n \in Nat /\ DOMAIN rows = 1..n /\ \A i \in 1..n : rows[i] \in Told
  BY LenProperties
<1>2. clock \in Int /\ session \in Nat /\ received \in Nat
  BY DEF CaptureInv
<1>3. Stamped(rows) = [i \in 1..n |-> row(i)]
  BY <1>1 DEF Stamped
<1>4. ASSUME NEW i \in 1..n PROVE row(i) \in Rows
  <2>1. /\ rows[i].type \in Types /\ rows[i].id \in L3Ids \cup {0} /\ rows[i].size \in 0..MaxSize
        /\ rows[i].live \in Books /\ Sound(rows[i])
    BY <1>1 DEF Told
  <2>2. received + i \in Nat
    BY <1>1, <1>2
  <2>3. Sound(row(i))
    BY <2>1 DEF Sound
  <2> HIDE DEF n
  <2> QED
    BY <1>2, <2>1, <2>2, <2>3 DEF Rows
<1>5. \A i \in 1..n : row(i).n = received + i /\ row(i).ts = clock /\ row(i).session = session
  OBVIOUS
<1> HIDE DEF row, n
<1>6. Stamped(rows) \in [1..n -> Rows] /\ \A i \in 1..n : Stamped(rows)[i] = row(i)
  BY <1>3, <1>4
<1>7. Stamped(rows) \in Seq(Rows) /\ Len(Stamped(rows)) = n
  BY <1>1, <1>6, Listing
<1> QED
  BY <1>1, <1>5, <1>6, <1>7 DEF n

\* They follow what waits.
LEMMA StampedFollow ==
    ASSUME CaptureInv, NEW rows \in Seq(Told)
    PROVE  /\ WriterOK(files, fileCount, buffer \o Stamped(rows))
           /\ Held(files, buffer \o Stamped(rows)) = (1..(received + Len(rows))) \ lost
           /\ \A i \in 1..Len(buffer \o Stamped(rows)) :
                 /\ (buffer \o Stamped(rows))[i].ts = clock
                 /\ (buffer \o Stamped(rows))[i].session = session
<1> DEFINE t == Stamped(rows)
           u == buffer \o t
           m == Len(buffer)
           n == Len(rows)
<1>1. /\ t \in Seq(Rows) /\ Len(t) = n /\ n \in Nat
      /\ \A i \in 1..n : t[i].n = received + i /\ t[i].ts = clock /\ t[i].session = session
  BY StampedRows
<1>2. /\ received \in Nat /\ lost \subseteq 1..received /\ clock \in Int /\ session \in Nat
      /\ WriterOK(files, fileCount, buffer) /\ Held(files, buffer) = (1..received) \ lost
      /\ \A i \in 1..m : buffer[i].ts = clock /\ buffer[i].session = session
  BY DEF CaptureInv
<1>3. /\ buffer \in Seq(Rows) /\ FilesOK(files) /\ fileCount \in Nat
      /\ \A f \in DOMAIN files : f.count < fileCount
      /\ \A f \in DOMAIN files : Precedes(files[f], buffer)
      /\ \A i, j \in 1..m : i < j => buffer[i].n < buffer[j].n
  BY <1>2 DEF WriterOK, Batch
<1> HIDE DEF t, n
<1>3a. t \in Seq(Rows) /\ buffer \in Seq(Rows)
  BY <1>1, <1>3
<1>3b. /\ u \in Seq(Rows) /\ m \in Nat
       /\ \A i \in 1..m : i \in 1..Len(u) /\ u[i] = buffer[i]
       /\ \A j \in 1..Len(t) : m + j \in 1..Len(u) /\ u[m + j] = t[j]
       /\ \A k \in 1..Len(u) : k \in 1..m \/ \E j \in 1..Len(t) : k = m + j
  BY <1>3a, Joined
<1> HIDE DEF u, m
<1>4. /\ u \in Seq(Rows) /\ m \in Nat
      /\ \A i \in 1..m : i \in 1..Len(u) /\ u[i] = buffer[i]
      /\ \A j \in 1..n : m + j \in 1..Len(u) /\ u[m + j] = t[j]
      /\ \A k \in 1..Len(u) : k \in 1..m \/ \E j \in 1..n : k = m + j
  <2>1. Len(t) = n
    BY <1>1
  <2> QED
    BY <1>3b, <2>1
<1>5. \A r \in Captured(files) \cup ToSet(buffer) : r.n \in 1..received
  <2>1. \A r \in Captured(files) \cup ToSet(buffer) : r.n \in Held(files, buffer)
    BY DEF Held
  <2> QED
    BY <1>2, <2>1
<1>6. ToSet(u) = ToSet(buffer) \cup ToSet(t)
  BY <1>1, <1>3, SetJoined DEF u
<1>7. ToSet(t) = {t[j] : j \in 1..n} /\ ToSet(buffer) = {buffer[i] : i \in 1..m}
  BY <1>1, <1>3, TimeOrder DEF m
<1>8. \A k \in 1..Len(u) : u[k].ts = clock /\ u[k].session = session
  <2> TAKE k \in 1..Len(u)
  <2>1. CASE k \in 1..m
    BY <1>2, <1>4, <2>1
  <2>2. CASE \E j \in 1..n : k = m + j
    BY <1>1, <1>4, <2>2
  <2> QED
    BY <1>4, <2>1, <2>2
<1>9. ASSUME NEW i \in 1..Len(u), NEW k \in 1..Len(u), i < k PROVE u[i].n < u[k].n
  <2>1. CASE k \in 1..m
    <3>1. i \in 1..m
      BY <1>4, <1>9, <2>1
    <3> QED
      BY <1>3, <1>4, <1>9, <2>1, <3>1
  <2>2. CASE \E j \in 1..n : k = m + j
    <3>1. PICK j \in 1..n : k = m + j
      BY <2>2
    <3>2. u[k].n = received + j
      BY <1>1, <1>4, <3>1
    <3>3. CASE i \in 1..m
      <4>1. u[i] \in ToSet(buffer)
        BY <1>4, <1>7, <3>3
      <4>2. u[i].n \in 1..received
        BY <1>5, <4>1
      <4> QED
        BY <1>1, <1>2, <3>2, <4>2
    <3>4. CASE \E j2 \in 1..n : i = m + j2
      <4>1. PICK j2 \in 1..n : i = m + j2
        BY <3>4
      <4>2. u[i].n = received + j2
        BY <1>1, <1>4, <4>1
      <4> QED
        BY <1>1, <1>2, <1>4, <1>9, <3>1, <3>2, <4>1, <4>2
    <3> QED
      BY <1>4, <3>3, <3>4
  <2> QED
    BY <1>4, <2>1, <2>2
<1>10. Batch(u)
  BY <1>4, <1>8, <1>9 DEF Batch
<1>11. ASSUME NEW f \in DOMAIN files PROVE Precedes(files[f], u)
  <2> SUFFICES ASSUME NEW i \in 1..Len(files[f]), NEW k \in 1..Len(u)
               PROVE  files[f][i].n < u[k].n
    BY DEF Precedes
  <2>1. CASE k \in 1..m
    BY <1>3, <1>4, <2>1 DEF Precedes, m
  <2>2. CASE \E j \in 1..n : k = m + j
    <3>1. PICK j \in 1..n : k = m + j
      BY <2>2
    <3>2. u[k].n = received + j
      BY <1>1, <1>4, <3>1
    <3>3. files[f] \in Seq(Rows)
      BY <1>3 DEF FilesOK, Batch
    <3>4. files[f][i] \in Captured(files)
      BY <3>3, LenProperties DEF Captured, ToSet
    <3>5. files[f][i].n \in 1..received
      BY <1>5, <3>4
    <3> QED
      BY <1>1, <1>2, <3>2, <3>5
  <2> QED
    BY <1>4, <2>1, <2>2
<1>12. WriterOK(files, fileCount, u)
  BY <1>3, <1>10, <1>11 DEF WriterOK
<1>13. Held(files, u) = Held(files, buffer) \cup {received + j : j \in 1..n}
  <2>1. Held(files, u) = {r.n : r \in Captured(files) \cup ToSet(buffer) \cup ToSet(t)}
    BY <1>6 DEF Held
  <2>2. {r.n : r \in ToSet(t)} = {received + j : j \in 1..n}
    BY <1>1, <1>7
  <2> QED
    BY <2>1, <2>2 DEF Held
<1>14. Held(files, u) = (1..(received + n)) \ lost
  <2>1. \A x : x \in 1..(received + n) <=> x \in 1..received \/ \E j \in 1..n : x = received + j
    <3> TAKE x
    <3>1. x \in 1..(received + n) => x \in 1..received \/ (x - received \in 1..n /\ x = received + (x - received))
      BY <1>1, <1>2
    <3>2. \A j \in 1..n : received + j \in 1..(received + n)
      BY <1>1, <1>2
    <3>3. x \in 1..received => x \in 1..(received + n)
      BY <1>1, <1>2
    <3> QED
      BY <3>1, <3>2, <3>3
  <2>2. \A j \in 1..n : received + j \notin lost
    <3>1. \A j \in 1..n : received + j \notin 1..received
      BY <1>1, <1>2
    <3> QED
      BY <1>2, <3>1
  <2> QED
    BY <1>2, <1>13, <2>1, <2>2
<1> QED
  BY <1>8, <1>12, <1>14 DEF u, t, n

-----------------------------------------------------------------------------
(* What the listener does                                                  *)

\* What is captured are rows.
LEMMA CapturedRows == ASSUME NEW fs, FilesOK(fs) PROVE Captured(fs) \subseteq Rows
<1>1. ASSUME NEW f \in DOMAIN fs PROVE ToSet(fs[f]) \subseteq Rows
  <2>1. fs[f] \in Seq(Rows)
    BY DEF FilesOK, Batch
  <2> QED
    BY <2>1, TimeOrder
<1> QED
  BY <1>1 DEF Captured

\* What was merged stays the first of what is captured as more is written.
LEMMA MergedStays ==
    ASSUME CaptureInv, CaptureInv', MergedInv, Grows, merged' = merged
    PROVE  MergedInv'
<1>1. FilesOK(files) /\ FilesOK(files')
  BY DEF CaptureInv, WriterOK
<1>2. Captured(files) \subseteq Rows /\ Captured(files') \subseteq Rows
  BY <1>1, CapturedRows
<1>3. merged' \in Seq(Rows) /\ InTime(merged') /\ ToSet(merged') \subseteq Captured(files)
  BY DEF MergedInv
<1>4. ASSUME NEW r \in Captured(files'), NEW q \in ToSet(merged'), r.n < q.n
      PROVE  r \in ToSet(merged')
  <2>1. q \in Captured(files) /\ r.n \in Int /\ q.n \in Int
    BY <1>2, <1>3, RowNumbers
  <2>2. r \in Captured(files)
    BY <1>4, <2>1 DEF Grows
  <2> QED
    BY <1>4, <2>2 DEF MergedInv
<1> QED
  BY <1>3, <1>4 DEF MergedInv, Grows

\* The exchange, merge_l3.py and the replay leave the listener alone.
LEMMA ListenerAlone == ASSUME CaptureInv, UNCHANGED listenerVars PROVE CaptureInv' /\ Grows
<1>1. CaptureInv'
  BY DEF CaptureInv, listenerVars, writerVars
<1> QED
  BY <1>1, NothingGrows DEF listenerVars, writerVars

\* A connection is made, or one is lost, or the listener is told to stop.
LEMMA ConnectKeeps == ASSUME CaptureInv, Connect PROVE CaptureInv' /\ Grows
<1>1. buffer' = <<>> /\ files' = files /\ fileCount' = fileCount /\ buffer = <<>>
  BY DEF Connect, CaptureInv, writerVars
<1>2. pc' \in {"exit", "recv"} /\ clock' \in Int /\ session' \in Nat
  BY DEF Connect, CaptureInv
<1>3. \A i : i \notin 1..Len(<<>>)
  BY NoRows
<1>4. received' = received /\ lost' = lost
  BY DEF Connect
<1>5. CaptureInv'
  BY <1>1, <1>2, <1>3, <1>4 DEF CaptureInv
<1> QED
  BY <1>1, <1>5, NothingGrows

\* Losing the connection, or being asked to stop (run).
LEMMA LoseKeeps == ASSUME CaptureInv, Lose \/ RequestStop PROVE CaptureInv' /\ Grows
<1>1. /\ UNCHANGED <<session, buffer, files, fileCount, clock, received, lost>>
      /\ pc' \in {"exit", "sleep"} \/ pc' = pc
  BY DEF Lose, RequestStop, writerVars
<1>2. CaptureInv'
  BY <1>1 DEF CaptureInv
<1> QED
  BY <1>1, <1>2, NothingGrows

\* A connection is made anew, and the end: what waited is written.
LEMMA DialKeeps == ASSUME CaptureInv, Dial \/ Exit PROVE CaptureInv' /\ Grows /\ Writes(buffer)
<1>1. Flush(buffer) /\ received' = received /\ lost' = lost
  BY DEF Dial, Exit, FlushOnReconnect
<1>2. pc' \in {"dial", "done"} /\ clock' \in Int /\ session' \in Nat
  BY DEF Dial, Exit, CaptureInv
<1>3. /\ WriterOK(files', fileCount', buffer') /\ buffer' = <<>>
      /\ Held(files', buffer') = Held(files, buffer)
      /\ Grows /\ Writes(buffer)
  BY <1>1, FlushesBuffer
<1>4. \A i : i \notin 1..Len(<<>>)
  BY NoRows
<1>5. CaptureInv'
  BY <1>1, <1>2, <1>3, <1>4 DEF CaptureInv
<1> QED
  BY <1>3, <1>5

\* A file's number is higher than any in the directory (_get_next_file_count).
LEMMA NextFileHigher ==
    ASSUME NEW fs, FilesOK(fs)
    PROVE  LET counts == {0} \cup {f.count + 1 : f \in DOMAIN fs}
           IN  Max(counts) \in Nat /\ \A f \in DOMAIN fs : f.count < Max(counts)
<1> DEFINE N == DOMAIN fs
           counts == {0} \cup {f.count + 1 : f \in N}
<1>1. IsFiniteSet(N) /\ \A f \in N : f.count \in Nat
  BY DEF FilesOK
<1> HIDE DEF N
<1> DEFINE next == [f \in N |-> f.count + 1]
           T == {f.count + 1 : f \in N}
<1>2. next \in Surjection(N, T)
  <2>1. next \in [N -> T] /\ \A x \in T : \E f \in N : next[f] = x
    OBVIOUS
  <2> HIDE DEF next, T
  <2> QED
    BY <2>1, Fun_IsSurj
<1>3. IsFiniteSet(counts) /\ counts # {} /\ counts \subseteq Nat /\ counts \subseteq Int
  <2>1. T \subseteq Nat
    BY <1>1
  <2>2. counts = {0} \cup T
    OBVIOUS
  <2> HIDE DEF next, T, counts
  <2>3. IsFiniteSet(T)
    BY <1>1, <1>2, FS_Surjection
  <2>4. IsFiniteSet(T \cup {0})
    BY <2>3, FS_AddElement
  <2>5. counts = T \cup {0}
    BY <2>2
  <2> QED
    BY <2>1, <2>4, <2>5
<1>4. \A f \in N : f.count + 1 \in counts
  OBVIOUS
<1> HIDE DEF counts
<1>5. Max(counts) \in counts /\ \A y \in counts : y <= Max(counts)
  BY <1>3, LeastAndGreatest
<1>6. ASSUME NEW f \in N PROVE f.count < Max(counts)
  <2>1. f.count \in Nat /\ Max(counts) \in Nat /\ f.count + 1 <= Max(counts)
    BY <1>1, <1>3, <1>4, <1>5
  <2> QED
    BY <2>1
<1> QED
  BY <1>3, <1>5, <1>6 DEF N, counts

\* The process is killed: what waited is lost, what is in the files is not, and
\* the next file gets a number of its own.
LEMMA RestartKeeps == ASSUME CaptureInv, Restart PROVE CaptureInv' /\ Grows
<1>1. /\ files' = files /\ buffer' = <<>> /\ received' = received /\ pc' = "start"
      /\ session' = session /\ clock' = clock /\ fileCount' = NextFileCount
      /\ lost' = lost \cup {buffer[i].n : i \in DOMAIN buffer}
  BY DEF Restart
<1>2. /\ clock \in Int /\ session \in Nat /\ received \in Nat /\ lost \subseteq 1..received
      /\ FilesOK(files) /\ buffer \in Seq(Rows)
      /\ \A f \in DOMAIN files : Precedes(files[f], buffer)
      /\ Held(files, buffer) = (1..received) \ lost
  BY DEF CaptureInv, WriterOK, Batch
<1>3. fileCount' \in Nat /\ \A f \in DOMAIN files : f.count < fileCount'
  BY <1>1, <1>2, NextFileHigher DEF NextFileCount
<1>4. WriterOK(files', fileCount', buffer')
  BY <1>1, <1>2, <1>3, NoRows DEF WriterOK
<1> DEFINE H == {r.n : r \in Captured(files)}
           B == {buffer[i].n : i \in DOMAIN buffer}
<1>5. Held(files, buffer) = H \cup B /\ Held(files', buffer') = H
  <2>1. ToSet(buffer) = {buffer[i] : i \in DOMAIN buffer}
    BY DEF ToSet
  <2>2. Held(files, buffer) = {r.n : r \in Captured(files) \cup ToSet(buffer)}
    BY DEF Held
  <2>3. Held(files', buffer') = {r.n : r \in Captured(files)}
    BY <1>1, NoRows DEF Held
  <2> QED
    BY <2>1, <2>2, <2>3
<1>6. ASSUME NEW x \in H, x \in B PROVE FALSE
  <2>1. PICK f \in DOMAIN files : \E r \in ToSet(files[f]) : r.n = x
    BY DEF Captured
  <2>2. files[f] \in Seq(Rows)
    BY <1>2 DEF FilesOK, Batch
  <2>3. PICK k \in 1..Len(files[f]) : files[f][k].n = x
    BY <2>1, <2>2, TimeOrder
  <2>4. PICK i \in 1..Len(buffer) : buffer[i].n = x /\ buffer[i] \in Rows
    BY <1>2, <1>6, TimeOrder
  <2>5. x \in Int /\ x < x
    BY <1>2, <2>3, <2>4, RowNumbers DEF Precedes
  <2> QED
    BY <2>5
<1> HIDE DEF H, B
<1>7. Held(files', buffer') = (1..received) \ (lost \cup B)
  BY <1>2, <1>5, <1>6
<1>8. lost \cup B \subseteq 1..received
  BY <1>2, <1>5
<1>9. lost' = lost \cup B
  BY <1>1 DEF B
<1>10. \A i : i \notin 1..Len(<<>>)
  BY NoRows
<1>11. CaptureInv'
  BY <1>1, <1>2, <1>4, <1>7, <1>8, <1>9, <1>10 DEF CaptureInv
<1> QED
  BY <1>1, <1>11, NothingGrows

\* What _handle keeps of a message.
Taken(m) == IF m.chan \in chans THEN m.rows ELSE <<>>

\* A message is handled: its rows are numbered on and wait, or are written with
\* what waited; those of a channel not acknowledged yet are dropped.
LEMMA ReceiveKeeps ==
    ASSUME CaptureInv, NEW m \in Messages, NEW late, Receive(m, late)
    PROVE  /\ CaptureInv' /\ Grows
           /\ Taken(m) \in Seq(Told) /\ Writes(buffer \o Stamped(Taken(m)))
<1> DEFINE rows == IF m.chan \in chans THEN Stamped(m.rows) ELSE <<>>
           told == Taken(m)
<1>1. /\ pc' \in {"exit", "recv"} /\ Add(rows, late) /\ received' = received + Len(rows)
      /\ session' = session /\ clock' = clock /\ lost' = lost
  BY DEF Receive
<1>2. /\ buffer \in Seq(Rows) /\ received \in Nat /\ lost \subseteq 1..received
      /\ clock \in Int /\ session \in Nat
  BY DEF CaptureInv, WriterOK, Batch
<1>3. told \in Seq(Told)
  <2>1. m.rows \in Seq(Told) /\ <<>> \in Seq(Told)
    BY DEF Messages
  <2> QED
    BY <2>1 DEF Taken
<1>4. rows = Stamped(told)
  <2>1. Stamped(<<>>) = <<>>
    <3>1. <<>> \in Seq(Told) /\ Len(<<>>) = 0
      OBVIOUS
    <3>2. Stamped(<<>>) \in Seq(Rows) /\ Len(Stamped(<<>>)) = 0
      BY <3>1, StampedRows
    <3> QED
      BY <3>2, EmptySeq
  <2> QED
    BY <2>1 DEF Taken
<1> HIDE DEF rows, told
<1> DEFINE u == buffer \o rows
<1>5. rows \in Seq(Rows) /\ Len(rows) = Len(told) /\ Len(told) \in Nat
  BY <1>3, <1>4, StampedRows
<1>6. /\ WriterOK(files, fileCount, u) /\ Held(files, u) = (1..received') \ lost
      /\ \A i \in 1..Len(u) : u[i].ts = clock /\ u[i].session = session
  BY <1>1, <1>3, <1>4, <1>5, StampedFollow
<1>7. /\ WriterOK(files', fileCount', buffer')
      /\ Held(files', buffer') = Held(files, u)
      /\ Grows /\ Writes(u)
      /\ buffer' = <<>> \/ buffer' = u
  BY <1>1, <1>2, <1>5, <1>6, AddKeeps
<1> HIDE DEF u
<1>8. \A i \in 1..Len(buffer') : buffer'[i].ts = clock /\ buffer'[i].session = session
  <2>1. \A i : i \notin 1..Len(<<>>)
    BY NoRows
  <2> QED
    BY <1>6, <1>7, <2>1
<1>9. received' \in Nat /\ lost' \subseteq 1..received'
  BY <1>1, <1>2, <1>5
<1>10. Held(files', buffer') = (1..received') \ lost'
  BY <1>1, <1>6, <1>7
<1>11. CaptureInv'
  BY <1>1, <1>2, <1>7, <1>8, <1>9, <1>10 DEF CaptureInv
<1> QED
  BY <1>3, <1>4, <1>7, <1>11 DEF u, told

\* The replay is started: of the capture the files are left, and they are read.
LEMMA LoadForgets == ASSUME Load PROVE CaptureInv' /\ MergedInv'
<1>1. /\ pc' = "replay" /\ session' = 0 /\ buffer' = <<>> /\ fileCount' = 0 /\ files' = NoFiles
      /\ clock' = 0 /\ received' = 0 /\ lost' = {} /\ merged' = <<>>
  BY DEF Load
<1>2. DOMAIN NoFiles = {} /\ IsFiniteSet({}) /\ \A i : i \notin 1..0
  BY FS_EmptySet DEF NoFiles
<1>3. Captured(files') = {} /\ FilesOK(files')
  BY <1>1, <1>2 DEF Captured, FilesOK
<1>4. Held(files', buffer') = {}
  BY <1>1, <1>3, NoRows DEF Held
<1>5. WriterOK(files', fileCount', buffer')
  BY <1>1, <1>2, <1>3, NoRows DEF WriterOK
<1>6. CaptureInv'
  BY <1>1, <1>2, <1>4, <1>5, NoRows DEF CaptureInv
<1>7. InTime(<<>>)
  BY NoRows, TimeOrder, <1>2
<1> QED
  BY <1>1, <1>3, <1>6, <1>7, NoRows DEF MergedInv

\* The merged file lies among the batches or elsewhere.
LEMMA AmongMerged ==
    ASSUME MergedInv
    PROVE  /\ Among \in Seq(Rows) /\ InTime(Among) /\ ToSet(Among) \subseteq Captured(files)
<1>1. merged \in Seq(Rows) /\ InTime(merged) /\ ToSet(merged) \subseteq Captured(files)
  BY DEF MergedInv
<1>2. InTime(<<>>)
  <2>1. \A i : i \notin 1..0
    OBVIOUS
  <2> QED
    BY <2>1, NoRows, TimeOrder
<1> QED
  BY <1>1, <1>2, NoRows DEF Among

\* merge_l3.py writes what is in the batches, in time, each row once, even when
\* it reads its own output again.
LEMMA MergedAll ==
    ASSUME CaptureInv, MergedInv, Merge
    PROVE  merged' \in Seq(Rows) /\ InTime(merged') /\ ToSet(merged') = Captured(files)
<1> DEFINE s == RowsOf(files)
<1>1. FilesOK(files)
  BY DEF CaptureInv, WriterOK
<1>2. s \in Seq(Rows) /\ InTime(s) /\ ToSet(s) = Captured(files)
  BY <1>1, RowsInTime
<1>3. Among \in Seq(Rows) /\ ToSet(Among) \subseteq Captured(files)
  BY AmongMerged
<1>4. merged' = ByTime(DropDuplicates(s \o Among))
  BY DEF Merge
<1> HIDE DEF s
<1>5. merged' = s
  BY <1>2, <1>3, <1>4, DuplicatesGone, SortedStays
<1> QED
  BY <1>2, <1>5

\* What the listener does to what it captured, and merging to what was merged.
LEMMA CaptureStep ==
    ASSUME CaptureInv, ExchangeInv, MergedInv, [Next]_vars
    PROVE  CaptureInv' /\ MergedInv'
<1>1. CASE UNCHANGED <<listenerVars, merged>>
  BY <1>1, ListenerAlone, MergedStays
<1>2. CASE Connects
  BY <1>2, ConnectKeeps, MergedStays DEF Connects, Unwatched
<1>3. CASE Receives
  <2>1. Head(wire) \in Messages
    BY <1>3, HeadTailProperties DEF Receives, ExchangeInv
  <2>2. PICK late \in BOOLEAN : Receive(Head(wire), late)
    BY <1>3 DEF Receives
  <2>3. CaptureInv' /\ Grows
    BY <2>1, <2>2, ReceiveKeeps
  <2> QED
    BY <1>3, <2>3, MergedStays DEF Receives, Unwatched
<1>4. CASE Breaks
  BY <1>4, LoseKeeps, RestartKeeps, MergedStays DEF Breaks, Unwatched
<1>5. CASE Goes
  BY <1>5, DialKeeps, LoseKeeps, MergedStays DEF Goes, Unwatched
<1>6. CASE Ends
  BY <1>6, DialKeeps, MergedStays DEF Ends
<1>7. CASE Merge
  <2>1. CaptureInv' /\ files' = files
    BY <1>7, ListenerAlone DEF Merge, listenerVars, writerVars
  <2> QED
    BY <1>7, <2>1, MergedAll DEF MergedInv
<1>8. CASE Load
  BY <1>8, LoadForgets
<1>9. CASE UNCHANGED vars
  BY <1>1, <1>9 DEF vars
<1>10. ASSUME Happens \/ AckTrades \/ Reads PROVE UNCHANGED <<listenerVars, merged>>
  BY <1>10 DEF Happens, AckTrades, Reads
<1>11. ASSUME NEW id, NEW size, NEW printFirst,
              Place(id, size) \/ Cancel(id) \/ Fill(id, size, printFirst) \/ Heartbeat
       PROVE  Happens
  BY <1>11 DEF Place, Cancel, Fill, Heartbeat
<1> QED
  BY <1>1, <1>2, <1>3, <1>4, <1>5, <1>6, <1>7, <1>8, <1>9, <1>10, <1>11 DEF Next, Done

-----------------------------------------------------------------------------
(* What the exchange sends                                                 *)

\* The orders of a book, listed: none is left out.
LEMMA OrdersListed ==
    ASSUME NEW S, IsFiniteSet(S)
    PROVE  /\ SetToSeq(S) \in [1..Cardinality(S) -> S] /\ Cardinality(S) \in Nat
           /\ \A x \in S : \E k \in 1..Cardinality(S) : SetToSeq(S)[k] = x
<1> DEFINE g == SetToSeq(S)
           n == Cardinality(S)
<1>1. PICK f \in Bijection(1..n, S) : TRUE
  BY FS_CardinalityType DEF ExistsBijection
<1>2. f \in [1..n -> S] /\ IsInjective(f)
  BY <1>1 DEF Bijection, Injection, IsInjective
<1>3. g \in [1..n -> S] /\ IsInjective(g)
  BY <1>2 DEF SetToSeq
<1>4. n \in Nat /\ IsFiniteSet(1..n) /\ Cardinality(1..n) = n
  BY FS_CardinalityType, FirstFew
<1> HIDE DEF g
<1>5. g \in Injection(1..n, S)
  BY <1>3, Fun_IsInj DEF IsInjective
<1>6. g \in Surjection(1..n, S)
  BY <1>4, <1>5, FS_Injection
<1> QED
  BY <1>3, <1>4, <1>6 DEF Surjection, g

\* A row for an order and its message.
LEMMA RowTold ==
    ASSUME NEW type \in Types, NEW id \in L3Ids \cup {0}, NEW size \in 0..MaxSize, NEW book \in Books,
           type # "heartbeat" => id \in L3Ids, type = "snapshot" => size # 0
    PROVE  /\ Row(type, id, size, book) \in Told
           /\ OnBook(<<Row(type, id, size, book)>>) \in Messages
           /\ type = "trade" => Printed(id, size, book) \in Messages
<1>1. Row(type, id, size, book) \in Told
  BY DEF Row, Told, Sound
<1>2. <<Row(type, id, size, book)>> \in Seq(Told)
  BY <1>1
<1> QED
  BY <1>1, <1>2 DEF OnBook, Printed, Messages, Channels

\* An acknowledgement is a message.
LEMMA Acknowledged == \A chan \in Channels : Ack(chan) \in Messages
  BY DEF Ack, Messages

\* Messages behind those under way.
LEMMA Sent ==
    ASSUME NEW messages \in Seq(Messages), wire \in Seq(Messages), Send(messages)
    PROVE  wire' \in Seq(Messages)
<1>1. wire \o messages \in Seq(Messages) /\ <<>> \in Seq(Messages)
  BY ConcatProperties
<1> QED
  BY <1>1 DEF Send

\* The first messages of a connection tell the book as it is.
LEMMA OpeningTells == ASSUME ExchangeInv PROVE Opening \in Seq(Messages)
<1> DEFINE n == Cardinality(DOMAIN live)
           ids == SetToSeq(DOMAIN live)
           told == [i \in DOMAIN ids |-> Row("snapshot", ids[i], live[ids[i]], live)]
<1>1. live \in Books /\ DOMAIN live \subseteq L3Ids /\ \A id \in DOMAIN live : live[id] \in 1..MaxSize
  BY DEF ExchangeInv, Books
<1>2. n \in Nat /\ ids \in [1..n -> DOMAIN live]
  BY OrdersListed, FS_CardinalityType DEF ExchangeInv
<1> HIDE DEF n, ids
<1>3. ASSUME NEW i \in 1..n PROVE Row("snapshot", ids[i], live[ids[i]], live) \in Told
  <2>1. ids[i] \in L3Ids /\ live[ids[i]] \in 0..MaxSize /\ live[ids[i]] # 0
    BY <1>1, <1>2
  <2> QED
    BY <1>1, <2>1 DEF Row, Told, Sound, Types
<1>4. told \in [1..n -> Told]
  BY <1>2, <1>3
<1> HIDE DEF told
<1>5. told \in Seq(Told)
  BY <1>2, <1>4
<1>6. OnBook(told) \in Messages /\ Ack("book") \in Messages
  BY <1>5, Acknowledged DEF OnBook, Messages, Channels
<1>7. Opening = <<Ack("book"), OnBook(told)>>
  BY DEF Opening, told, ids
<1> QED
  BY <1>6, <1>7

\* The exchange's book is one of its orders, and what it sends is well formed.
LEMMA ExchangeStep ==
    ASSUME CaptureAssumption, ExchangeInv, [Next]_vars PROVE ExchangeInv'
<1>1. live \in Books /\ IsFiniteSet(DOMAIN live) /\ wire \in Seq(Messages) /\ MaxSize \in Nat \ {0}
  BY DEF ExchangeInv, CaptureAssumption
<1>2. DOMAIN live \subseteq L3Ids /\ \A id \in DOMAIN live : live[id] \in 1..MaxSize
  BY <1>1 DEF Books
<1>3. <<>> \in Seq(Messages)
  OBVIOUS
<1>4. ASSUME NEW b, DOMAIN b \subseteq L3Ids, b = [id \in DOMAIN b |-> b[id]],
             \A id \in DOMAIN b : b[id] \in 1..MaxSize
      PROVE  b \in Books
  BY <1>4 DEF Books
<1>5. ASSUME NEW id \in L3Ids, NEW size \in 1..MaxSize, Place(id, size) PROVE ExchangeInv'
  <2>1. /\ live' = [i \in DOMAIN live \cup {id} |-> IF i = id THEN size ELSE live[i]]
        /\ Send(<<Update(id, size, live')>>)
    BY <1>5 DEF Place
  <2>2. live' \in Books /\ IsFiniteSet(DOMAIN live')
    BY <1>1, <1>2, <1>4, <2>1, FS_AddElement
  <2>3. <<Update(id, size, live')>> \in Seq(Messages)
    <3>1. size \in 0..MaxSize
      BY <1>1
    <3> QED
      BY <2>2, <3>1, RowTold DEF Update, Types
  <2>4. wire' \in Seq(Messages)
    BY <1>1, <2>1, <2>3, Sent
  <2> QED
    BY <2>2, <2>4 DEF ExchangeInv
<1>6. ASSUME NEW id \in L3Ids, Cancel(id) PROVE ExchangeInv'
  <2>1. live' = [i \in DOMAIN live \ {id} |-> live[i]] /\ Send(<<Update(id, 0, live')>>)
    BY <1>6 DEF Cancel
  <2>2. live' \in Books /\ IsFiniteSet(DOMAIN live')
    BY <1>1, <1>2, <1>4, <2>1, FS_RemoveElement
  <2>3. <<Update(id, 0, live')>> \in Seq(Messages)
    <3>1. 0 \in 0..MaxSize
      BY <1>1
    <3> QED
      BY <2>2, <3>1, RowTold DEF Update, Types
  <2>4. wire' \in Seq(Messages)
    BY <1>1, <2>1, <2>3, Sent
  <2> QED
    BY <2>2, <2>4 DEF ExchangeInv
<1>7. ASSUME NEW id \in L3Ids, NEW size \in 1..MaxSize, NEW printFirst, Fill(id, size, printFirst)
      PROVE  ExchangeInv'
  <2> DEFINE change == Update(id, live[id] - size, live')
             print  == Printed(id, size, live')
  <2>1. /\ live' = IF size = live[id] THEN [i \in DOMAIN live \ {id} |-> live[i]]
                                      ELSE [live EXCEPT ![id] = @ - size]
        /\ id \in DOMAIN live /\ size <= live[id]
        /\ Send(IF printFirst THEN <<print, change>> ELSE <<change, print>>)
    BY <1>7 DEF Fill
  <2>2. live[id] - size \in 0..MaxSize /\ (size # live[id] => live[id] - size \in 1..MaxSize)
    BY <1>1, <1>2, <2>1
  <2>3. live' \in Books /\ IsFiniteSet(DOMAIN live')
    <3>1. CASE size = live[id]
      BY <1>1, <1>2, <1>4, <2>1, <3>1, FS_RemoveElement
    <3>2. CASE size # live[id]
      <4>1. live' = [i \in DOMAIN live |-> IF i = id THEN live[id] - size ELSE live[i]]
        BY <1>1, <2>1, <3>2 DEF Books
      <4> QED
        BY <1>1, <1>2, <1>4, <2>2, <3>2, <4>1
    <3> QED
      BY <3>1, <3>2
  <2>4. change \in Messages /\ print \in Messages
    <3>1. size \in 0..MaxSize
      BY <1>1
    <3> QED
      BY <2>2, <2>3, <3>1, RowTold DEF Update, Types
  <2> HIDE DEF change, print
  <2>5. <<print, change>> \in Seq(Messages) /\ <<change, print>> \in Seq(Messages)
    BY <2>4
  <2>6. wire' \in Seq(Messages)
    BY <1>1, <2>1, <2>5, Sent
  <2> QED
    BY <2>3, <2>6 DEF ExchangeInv
<1>8. CASE Heartbeat
  <2>1. live' = live /\ Send(<<OnBook(<<Row("heartbeat", 0, 0, live)>>)>>)
    BY <1>8 DEF Heartbeat
  <2>2. <<OnBook(<<Row("heartbeat", 0, 0, live)>>)>> \in Seq(Messages)
    <3>1. 0 \in 0..MaxSize /\ "heartbeat" \in Types
      BY <1>1 DEF Types
    <3>2. Row("heartbeat", 0, 0, live) \in Told
      BY <1>1, <3>1 DEF Row, Told, Sound
    <3> QED
      BY <3>2 DEF OnBook, Messages, Channels
  <2>3. wire' \in Seq(Messages)
    BY <1>1, <2>1, <2>2, Sent
  <2> QED
    BY <1>1, <2>1, <2>3 DEF ExchangeInv
<1>9. CASE AckTrades
  <2>1. <<Ack("trades")>> \in Seq(Messages)
    BY Acknowledged DEF Channels
  <2> QED
    BY <1>1, <1>9, <2>1, Sent DEF AckTrades, ExchangeInv
<1>10. CASE Connects
  BY <1>1, <1>3, <1>10, OpeningTells DEF Connects, Unwatched, ExchangeInv
<1>11. CASE Receives
  <2>1. wire # <<>> => Tail(wire) \in Seq(Messages)
    BY <1>1, HeadTailProperties
  <2> QED
    BY <1>1, <1>3, <1>11, <2>1 DEF Receives, Unwatched, ExchangeInv
<1>12. CASE Breaks \/ Goes
  BY <1>1, <1>3, <1>12 DEF Breaks, Goes, Unwatched, ExchangeInv
<1>13. CASE Ends
  <2>1. Nothing \in Books /\ IsFiniteSet(DOMAIN Nothing)
    BY <1>4, FS_EmptySet DEF Nothing
  <2> QED
    BY <1>3, <1>13, <2>1 DEF Ends, ExchangeInv
<1>14. CASE UNCHANGED <<live, wire>>
  BY <1>1, <1>14 DEF ExchangeInv
<1>15. ASSUME Merge \/ Load \/ Reads \/ UNCHANGED vars
       PROVE  UNCHANGED <<live, wire>>
  BY <1>15 DEF Merge, Load, Reads, vars, exchangeVars
<1> QED
  BY <1>5, <1>6, <1>7, <1>8, <1>9, <1>10, <1>11, <1>12, <1>13, <1>14, <1>15 DEF Next, Done

-----------------------------------------------------------------------------
(* What the replay does with a row                                         *)

\* A change leaves a book of the exchange's orders.
LEMMA AppliedBook ==
    ASSUME NEW book \in Books, NEW r \in Rows, r.type # "heartbeat"
    PROVE  Applied(book, r) \in Books
<1>1. DOMAIN book \subseteq L3Ids /\ \A id \in DOMAIN book : book[id] \in 1..MaxSize
  BY DEF Books
<1>2. r.id \in L3Ids /\ r.size \in 0..MaxSize
  BY DEF Rows, Sound
<1>3. CASE r.size = 0
  <2>1. Applied(book, r) = [id \in DOMAIN book \ {r.id} |-> book[id]]
    BY <1>3 DEF Applied
  <2>2. DOMAIN book \ {r.id} \in SUBSET L3Ids
    BY <1>1
  <2>3. Applied(book, r) \in [(DOMAIN book \ {r.id}) -> 1..MaxSize]
    BY <1>1, <2>1
  <2> QED
    BY <2>2, <2>3 DEF Books
<1>4. CASE r.size # 0
  <2>1. r.size \in 1..MaxSize
    BY <1>2, <1>4
  <2>2. Applied(book, r) = [id \in DOMAIN book \cup {r.id} |-> IF id = r.id THEN r.size ELSE book[id]]
    BY <1>4 DEF Applied
  <2>3. DOMAIN book \cup {r.id} \in SUBSET L3Ids
    BY <1>1, <1>2
  <2>4. Applied(book, r) \in [(DOMAIN book \cup {r.id}) -> 1..MaxSize]
    BY <1>1, <2>1, <2>2
  <2> QED
    BY <2>3, <2>4 DEF Books
<1> QED
  BY <1>3, <1>4

\* What a cancel adds is positive.
LEMMA Credited ==
    ASSUME NEW cancels, \A p \in DOMAIN cancels : cancels[p] \in Nat \ {0}, NEW price, NEW size \in Nat \ {0}
    PROVE  \A p \in DOMAIN Credit(cancels, price, size) : Credit(cancels, price, size)[p] \in Nat \ {0}
<1>1. ASSUME NEW p \in DOMAIN cancels \cup {price}
      PROVE  Credit(cancels, price, size)[p] \in Nat \ {0}
  <2>1. Credit(cancels, price, size)[p] =
            (IF p \in DOMAIN cancels THEN cancels[p] ELSE 0) + (IF p = price THEN size ELSE 0)
    BY DEF Credit
  <2> QED
    BY <2>1
<1>2. DOMAIN Credit(cancels, price, size) = DOMAIN cancels \cup {price}
  BY DEF Credit
<1> QED
  BY <1>1, <1>2

\* The ticks of one row.
LEMMA TicksMade ==
    ASSUME NEW a, NEW b
    PROVE  /\ <<>> \o <<>> = <<>> /\ <<a>> \o <<>> = <<a>> /\ <<>> \o <<b>> = <<b>>
           /\ <<a>> \o <<b>> = <<a, b>>
           /\ Len(<<>>) = 0 /\ Len(<<a>>) = 1 /\ Len(<<b>>) = 1 /\ Len(<<a, b>>) = 2
           /\ DOMAIN <<>> = {} /\ DOMAIN <<a>> = {1} /\ DOMAIN <<b>> = {1} /\ DOMAIN <<a, b>> = {1, 2}
           /\ <<a>>[1] = a /\ <<b>>[1] = b /\ <<a, b>>[1] = a /\ <<a, b>>[2] = b
<1>1. Len(<<>>) = 0 /\ Len(<<a>>) = 1 /\ Len(<<b>>) = 1 /\ Len(<<a, b>>) = 2
  OBVIOUS
<1>2. <<a>>[1] = a /\ <<b>>[1] = b /\ <<a, b>>[1] = a /\ <<a, b>>[2] = b
  OBVIOUS
<1>3. DOMAIN <<>> = {} /\ DOMAIN <<a>> = {1} /\ DOMAIN <<b>> = {1} /\ DOMAIN <<a, b>> = {1, 2}
  OBVIOUS
<1>4. <<>> \o <<>> = <<>> /\ <<a>> \o <<>> = <<a>> /\ <<>> \o <<b>> = <<b>>
  <2>1. <<>> \in Seq({a, b}) /\ <<a>> \in Seq({a, b}) /\ <<b>> \in Seq({a, b})
    OBVIOUS
  <2> QED
    BY <2>1, ConcatEmptySeq
<1>5. <<a>> \o <<b>> = <<a, b>>
  <2> DEFINE u == <<a>> \o <<b>>
  <2>1. <<a>> \in Seq({a, b}) /\ <<b>> \in Seq({a, b}) /\ <<a, b>> \in Seq({a, b})
    OBVIOUS
  <2>2. /\ u \in Seq({a, b}) /\ Len(u) = 1 + 1
        /\ \A i \in 1..(1 + 1) : u[i] = IF i <= 1 THEN <<a>>[i] ELSE <<b>>[i - 1]
    BY <1>1, <2>1, ConcatProperties
  <2> HIDE DEF u
  <2>3. u[1] = a /\ u[2] = b /\ Len(u) = 2
    BY <1>2, <2>2
  <2>4. \A i \in 1..Len(u) : i = 1 \/ i = 2
    BY <2>3
  <2>5. u = <<a, b>>
    BY <1>1, <1>2, <2>1, <2>2, <2>3, <2>4, SeqEqual
  <2> QED
    BY <2>5 DEF u
<1> QED
  BY <1>1, <1>2, <1>3, <1>4, <1>5

\* A book with two sides makes a tick with two sides.
LEMMA TickShows ==
    ASSUME NEW book, Shows(book), NEW trades, NEW cancels
    PROVE  /\ DOMAIN TickOf(book, trades, cancels).bids # {}
           /\ DOMAIN TickOf(book, trades, cancels).asks # {}
           /\ TickOf(book, trades, cancels).trades = trades
<1>1. /\ TickOf(book, trades, cancels).bids = Level(book, 1)
      /\ TickOf(book, trades, cancels).asks = Level(book, -1)
      /\ TickOf(book, trades, cancels).trades = trades
  BY DEF TickOf
<1>2. \A side : DOMAIN Level(book, side) = {PriceOf[id] : id \in Side(book, side)}
  BY DEF Level
<1>3. \A side : Side(book, side) # {} => {PriceOf[id] : id \in Side(book, side)} # {}
  OBVIOUS
<1>4. Side(book, 1) # {} /\ Side(book, -1) # {}
  BY DEF Shows
<1>5. DOMAIN Level(book, 1) # {} /\ DOMAIN Level(book, -1) # {}
  BY <1>2, <1>3, <1>4
<1> QED
  BY <1>1, <1>5

\* The numbers of rows.
LEMMA Numbered ==
    ASSUME NEW s \in Seq(Rows)
    PROVE  /\ Numbers(s) \in Seq(Nat) /\ Len(Numbers(s)) = Len(s)
           /\ \A i \in 1..Len(s) : Numbers(s)[i] = s[i].n
           /\ \A r \in Rows : Numbers(Append(s, r)) = Append(Numbers(s), r.n)
           /\ Numbers(<<>>) = <<>>
<1>1. ASSUME NEW q \in Seq(Rows)
      PROVE  /\ Numbers(q) \in Seq(Nat) /\ Len(Numbers(q)) = Len(q)
             /\ \A i \in 1..Len(q) : Numbers(q)[i] = q[i].n
  <2> DEFINE m == Len(q)
  <2>1. m \in Nat /\ DOMAIN q = 1..m /\ \A i \in 1..m : q[i] \in Rows
    BY LenProperties
  <2>2. \A i \in 1..m : q[i].n \in Nat
    BY <2>1 DEF Rows
  <2> HIDE DEF m
  <2>3. Numbers(q) = [i \in 1..m |-> q[i].n]
    BY <2>1 DEF Numbers
  <2>4. Numbers(q) \in [1..m -> Nat] /\ \A i \in 1..m : Numbers(q)[i] = q[i].n
    BY <2>2, <2>3
  <2> QED
    BY <2>1, <2>4, Listing DEF m
<1>2. ASSUME NEW r \in Rows PROVE Numbers(Append(s, r)) = Append(Numbers(s), r.n)
  <2> DEFINE u == Append(s, r)
             v == Append(Numbers(s), r.n)
             m == Len(s)
  <2>1. u \in Seq(Rows) /\ Len(u) = m + 1 /\ u[m + 1] = r /\ \A i \in 1..m : u[i] = s[i]
    BY AppendProperties
  <2>2. r.n \in Nat /\ m \in Nat
    BY LenProperties DEF Rows
  <2>3. Numbers(s) \in Seq(Nat) /\ Len(Numbers(s)) = m /\ \A i \in 1..m : Numbers(s)[i] = s[i].n
    BY <1>1
  <2>4. v \in Seq(Nat) /\ Len(v) = m + 1 /\ v[m + 1] = r.n /\ \A i \in 1..m : v[i] = Numbers(s)[i]
    BY <2>2, <2>3, AppendProperties
  <2> HIDE DEF u, v, m
  <2>5. /\ Numbers(u) \in Seq(Nat) /\ Len(Numbers(u)) = m + 1
        /\ \A i \in 1..(m + 1) : Numbers(u)[i] = u[i].n
    BY <1>1, <2>1
  <2>6. \A i \in 1..(m + 1) : i = m + 1 \/ i \in 1..m
    BY <2>2
  <2>7. \A i \in 1..(m + 1) : Numbers(u)[i] = v[i]
    BY <2>1, <2>3, <2>4, <2>5, <2>6
  <2>8. Numbers(u) = v
    BY <2>4, <2>5, <2>7, SeqEqual
  <2> QED
    BY <2>8 DEF u, v
<1>3. Numbers(<<>>) = <<>>
  <2>1. Numbers(<<>>) \in Seq(Nat) /\ Len(Numbers(<<>>)) = 0
    BY <1>1, NoRows
  <2> QED
    BY <2>1, EmptySeq
<1> QED
  BY <1>1, <1>2, <1>3

\* Their prints are rows.
AttachedOK(ticks) ==
    TicksOK(ticks) /\ Attached(ticks, 1) \in Seq(Nat) /\ Attached(ticks, 2) \in Seq(Nat)

\* The prints attached to what a row yields, and those that wait, are those that
\* waited, and the row if it is a print.
LEMMA ReadTicks ==
    ASSUME Read, tradeBuffer \in Seq(Rows), frame[at + 1] \in Rows
    PROVE  /\ AttachedOK(emitted')
           /\ Attached(emitted', 1) \o Attached(emitted', 2) \o Numbers(tradeBuffer') =
                  IF frame[at + 1].type = "trade" THEN Append(Numbers(tradeBuffer), frame[at + 1].n)
                  ELSE Numbers(tradeBuffer)
           /\ tradeBuffer' \in Seq(Rows)
<1> DEFINE r == frame[at + 1]
           nums == Numbers(tradeBuffer)
           both == Attached(emitted', 1) \o Attached(emitted', 2) \o Numbers(tradeBuffer')
<1>1. nums \in Seq(Nat) /\ Numbers(<<>>) = <<>> /\ <<>> \in Seq(Nat) /\ <<>> \in Seq(Rows)
  BY Numbered
<1>2. \A s \in Seq(Nat) : s \o <<>> = s /\ <<>> \o s = s
  BY ConcatEmptySeq
<1>3. ASSUME emitted' = <<>>, tradeBuffer' \in Seq(Rows)
      PROVE  AttachedOK(emitted') /\ both = Numbers(tradeBuffer')
  <2>1. DOMAIN <<>> = {} /\ Len(<<>>) = 0
    OBVIOUS
  <2>2. Attached(<<>>, 1) = <<>> /\ Attached(<<>>, 2) = <<>> /\ TicksOK(<<>>)
    BY <2>1 DEF Attached, TicksOK
  <2>3. Numbers(tradeBuffer') \in Seq(Nat)
    BY <1>3, Numbered
  <2> QED
    BY <1>1, <1>2, <1>3, <2>2, <2>3 DEF AttachedOK
<1>4. ASSUME NEW book, Shows(book), NEW cancels, emitted' = <<TickOf(book, tradeBuffer, cancels)>>,
             tradeBuffer' = <<>>
      PROVE  AttachedOK(emitted') /\ both = nums
  <2> DEFINE t == TickOf(book, tradeBuffer, cancels)
  <2>1. t.trades = tradeBuffer /\ DOMAIN t.bids # {} /\ DOMAIN t.asks # {}
    BY <1>4, TickShows
  <2> HIDE DEF t
  <2>2. DOMAIN <<t>> = {1} /\ Len(<<t>>) = 1 /\ <<t>>[1] = t
    OBVIOUS
  <2>3. Attached(<<t>>, 1) = nums /\ Attached(<<t>>, 2) = <<>>
    BY <2>1, <2>2 DEF Attached
  <2>4. TicksOK(<<t>>)
    BY <2>1, <2>2 DEF TicksOK
  <2>5. emitted' = <<t>>
    BY <1>4 DEF t
  <2> HIDE DEF nums
  <2> QED
    BY <1>1, <1>2, <1>4, <2>3, <2>4, <2>5 DEF AttachedOK
<1>5. ASSUME NEW book, Shows(book), Shows(orders), NEW cancels, tradeBuffer' = <<>>,
             emitted' = <<TickOf(orders, tradeBuffer, knownCancels), TickOf(book, <<>>, cancels)>>
      PROVE  AttachedOK(emitted') /\ both = nums
  <2> DEFINE t == TickOf(orders, tradeBuffer, knownCancels)
             q == TickOf(book, <<>>, cancels)
  <2>1. /\ t.trades = tradeBuffer /\ DOMAIN t.bids # {} /\ DOMAIN t.asks # {}
        /\ q.trades = <<>> /\ DOMAIN q.bids # {} /\ DOMAIN q.asks # {}
    BY <1>5, TickShows
  <2> HIDE DEF t, q
  <2>2. DOMAIN <<t, q>> = {1, 2} /\ Len(<<t, q>>) = 2 /\ <<t, q>>[1] = t /\ <<t, q>>[2] = q
    BY TicksMade
  <2>3. Attached(<<t, q>>, 1) = nums /\ Attached(<<t, q>>, 2) = <<>>
    BY <1>1, <2>1, <2>2 DEF Attached
  <2>4. TicksOK(<<t, q>>)
    BY <2>1, <2>2 DEF TicksOK
  <2>5. emitted' = <<t, q>>
    BY <1>5 DEF t, q
  <2> HIDE DEF nums
  <2> QED
    BY <1>1, <1>2, <1>5, <2>3, <2>4, <2>5 DEF AttachedOK
<1>6. CASE ReadTrade(r)
  <2>1. r.type = "trade" /\ emitted' = <<>> /\ tradeBuffer' = Append(tradeBuffer, r)
    BY <1>6 DEF ReadTrade
  <2>2. tradeBuffer' \in Seq(Rows)
    BY <2>1, AppendProperties
  <2>3. both = Append(nums, r.n) /\ AttachedOK(emitted')
    BY <1>3, <2>1, <2>2, Numbered
  <2> QED
    BY <2>1, <2>2, <2>3
<1>7. CASE ReadSnapshot(r)
  <2>1. r.type # "trade" /\ emitted' = <<>> /\ tradeBuffer' = tradeBuffer
    BY <1>7 DEF ReadSnapshot
  <2>2. both = nums /\ AttachedOK(emitted')
    BY <1>3, <2>1
  <2> QED
    BY <2>1, <2>2
<1>8. CASE ReadHeartbeat(r)
  <2>1. r.type # "trade" /\ emitted' = SnapshotTick
        /\ tradeBuffer' = IF FlushesSnapshot THEN <<>> ELSE tradeBuffer
    BY <1>8 DEF ReadHeartbeat
  <2> HIDE DEF both, nums
  <2>2. CASE FlushesSnapshot
    <3>1. emitted' = <<TickOf(orders, tradeBuffer, knownCancels)>> /\ tradeBuffer' = <<>> /\ Shows(orders)
      BY <2>1, <2>2 DEF SnapshotTick, FlushesSnapshot
    <3> QED
      BY <1>1, <1>4, <2>1, <3>1 DEF both, nums
  <2>3. CASE ~FlushesSnapshot
    <3>1. emitted' = <<>> /\ tradeBuffer' = tradeBuffer
      BY <2>1, <2>3 DEF SnapshotTick
    <3> QED
      BY <1>3, <2>1, <3>1 DEF both, nums
  <2> QED
    BY <2>2, <2>3
<1>9. CASE ReadUpdate(r)
  <2> DEFINE book    == Applied(orders, r)
             trades  == IF FlushesSnapshot THEN <<>> ELSE tradeBuffer
             pending == IF FlushesSnapshot THEN Nothing ELSE knownCancels
             cancels == IF IsCancel(r) THEN Credit(pending, PriceOf[r.id], orders[r.id]) ELSE pending
  <2>1. /\ r.type # "trade"
        /\ emitted' = SnapshotTick \o (IF Shows(book) THEN <<TickOf(book, trades, cancels)>> ELSE <<>>)
        /\ tradeBuffer' = IF Shows(book) THEN <<>> ELSE trades
    BY <1>9 DEF ReadUpdate
  <2> HIDE DEF book, pending, cancels, both, nums
  <2>2. CASE FlushesSnapshot /\ Shows(book)
    <3>1. emitted' = <<TickOf(orders, tradeBuffer, knownCancels), TickOf(book, <<>>, cancels)>>
      BY <2>1, <2>2, TicksMade DEF SnapshotTick
    <3>2. tradeBuffer' = <<>> /\ Shows(orders)
      BY <2>1, <2>2 DEF FlushesSnapshot
    <3> QED
      BY <1>1, <1>5, <2>1, <2>2, <3>1, <3>2 DEF both, nums
  <2>3. CASE FlushesSnapshot /\ ~Shows(book)
    <3>1. emitted' = <<TickOf(orders, tradeBuffer, knownCancels)>> /\ tradeBuffer' = <<>> /\ Shows(orders)
      BY <2>1, <2>3, TicksMade DEF SnapshotTick, FlushesSnapshot
    <3> QED
      BY <1>1, <1>4, <2>1, <3>1 DEF both, nums
  <2>4. CASE ~FlushesSnapshot /\ Shows(book)
    <3>1. emitted' = <<TickOf(book, tradeBuffer, cancels)>> /\ tradeBuffer' = <<>>
      BY <2>1, <2>4, TicksMade DEF SnapshotTick
    <3> QED
      BY <1>1, <1>4, <2>1, <2>4, <3>1 DEF both, nums
  <2>5. CASE ~FlushesSnapshot /\ ~Shows(book)
    <3>1. emitted' = <<>> /\ tradeBuffer' = tradeBuffer
      BY <2>1, <2>5, TicksMade DEF SnapshotTick
    <3> QED
      BY <1>3, <2>1, <3>1 DEF both, nums
  <2> QED
    BY <2>2, <2>3, <2>4, <2>5
<1> QED
  BY <1>6, <1>7, <1>8, <1>9 DEF Read

\* A row read leaves displayed sizes and cancelled ones as they can be.
LEMMA ReadKeeps ==
    ASSUME CaptureAssumption, ReplayInv, Read, pc' = pc
    PROVE  /\ ReplayInv' /\ frame[at + 1] \in Rows /\ at + 1 \in 1..Len(frame)
<1> DEFINE r == frame[at + 1]
           Positive(c) == \A p \in DOMAIN c : c[p] \in Nat \ {0}
<1>1. /\ frame \in Seq(Rows) /\ at \in 0..Len(frame) /\ orders \in Books
      /\ Positive(knownCancels) /\ tradeBuffer \in Seq(Rows)
      /\ frame # <<>> => pc = "replay"
      /\ lastType \in {"none", "snapshot", "update", "heartbeat"}
  BY DEF ReplayInv
<1>2. Len(frame) \in Nat /\ at < Len(frame) /\ frame' = frame /\ at' = at + 1
  BY <1>1, LenProperties DEF Read
<1>3. at + 1 \in 1..Len(frame) /\ at' \in 0..Len(frame) /\ at # Len(frame)
  BY <1>1, <1>2
<1>4. r \in Rows
  BY <1>1, <1>3, ElementOfSeq
<1>5. Nothing \in Books /\ Positive(Nothing)
  <2>1. Nothing \in [{} -> 1..MaxSize] /\ DOMAIN Nothing = {}
    BY DEF Nothing
  <2>2. {} \in SUBSET L3Ids
    OBVIOUS
  <2> QED
    BY <2>1, <2>2 DEF Books
<1>6. tradeBuffer' \in Seq(Rows) /\ TicksOK(emitted')
  BY <1>1, <1>4, ReadTicks DEF AttachedOK
<1>7. /\ orders' \in Books /\ Positive(knownCancels')
      /\ lastType' \in {"none", "snapshot", "update", "heartbeat"}
  <2>1. CASE ReadTrade(r)
    BY <1>1, <2>1 DEF ReadTrade
  <2>2. CASE ReadSnapshot(r)
    <3> DEFINE before == IF lastType \notin {"none", "snapshot"} THEN Nothing ELSE orders
    <3>1. /\ orders' = Applied(before, r) /\ r.type = "snapshot" /\ lastType' = "snapshot"
          /\ knownCancels' = knownCancels \/ knownCancels' = Nothing
      BY <2>2 DEF ReadSnapshot
    <3>2. before \in Books
      BY <1>1, <1>5
    <3> HIDE DEF before
    <3> QED
      BY <1>1, <1>4, <1>5, <3>1, <3>2, AppliedBook
  <2>3. CASE ReadHeartbeat(r)
    <3>1. /\ orders' = orders /\ lastType' = "heartbeat"
          /\ knownCancels' = knownCancels \/ knownCancels' = Nothing
      BY <2>3 DEF ReadHeartbeat
    <3> QED
      BY <1>1, <1>5, <3>1
  <2>4. CASE ReadUpdate(r)
    <3> DEFINE pending == IF FlushesSnapshot THEN Nothing ELSE knownCancels
               cancels == IF IsCancel(r) THEN Credit(pending, PriceOf[r.id], orders[r.id]) ELSE pending
    <3>1. /\ orders' = Applied(orders, r) /\ r.type = "update" /\ lastType' = "update"
          /\ knownCancels' = cancels \/ knownCancels' = Nothing
      BY <2>4 DEF ReadUpdate
    <3>2. Positive(pending)
      BY <1>1, <1>5
    <3>3. IsCancel(r) => orders[r.id] \in Nat \ {0}
      <4>1. IsCancel(r) => r.id \in DOMAIN orders
        BY DEF IsCancel
      <4>2. \A id \in DOMAIN orders : orders[id] \in 1..MaxSize
        BY <1>1 DEF Books
      <4>3. \A x \in 1..MaxSize : x \in Nat \ {0}
        BY DEF CaptureAssumption
      <4> QED
        BY <4>1, <4>2, <4>3
    <3> HIDE DEF pending
    <3>4. Positive(cancels)
      BY <3>2, <3>3, Credited
    <3> HIDE DEF cancels
    <3> QED
      BY <1>1, <1>4, <1>5, <3>1, <3>4, AppliedBook
  <2> QED
    BY <2>1, <2>2, <2>3, <2>4 DEF Read
<1>8. pc' # "replay" => frame' = <<>> /\ at' = 0
  <2>1. Len(<<>>) = 0 /\ Len(frame) # 0
    BY <1>1, <1>2
  <2> QED
    BY <1>1, <2>1
<1> QED
  BY <1>1, <1>2, <1>3, <1>4, <1>6, <1>7, <1>8 DEF ReplayInv

\* What is loaded are the rows of the files, or the merged ones.
LEMMA RowsLoaded ==
    ASSUME CaptureInv, MergedInv, Load
    PROVE  /\ frame' \in Seq(Rows)
           /\ ToSet(frame') = Captured(files) \/ ToSet(frame') = ToSet(merged)
<1>1. FilesOK(files) /\ merged \in Seq(Rows) /\ InTime(merged)
  BY DEF CaptureInv, WriterOK, MergedInv
<1>2. frame' = Frame(files, Among) \/ frame' = Frame(NoFiles, merged)
  BY DEF Load
<1>3. Frame(files, Among) \in Seq(Rows) /\ ToSet(Frame(files, Among)) = Captured(files)
  BY <1>1, AmongMerged, FrameTwice
<1>4. Frame(NoFiles, merged) = merged
  BY <1>1, FrameAlone
<1> QED
  BY <1>1, <1>2, <1>3, <1>4

\* The replay's part in a step.
LEMMA ReplayStep ==
    ASSUME CaptureAssumption, CaptureInv, MergedInv, ReplayInv, [Next]_vars
    PROVE  ReplayInv'
<1>1. CASE UNCHANGED replayVars /\ (pc # "replay" \/ pc' = pc)
  <2>1. pc' # "replay" => pc # "replay"
    BY <1>1
  <2> QED
    BY <1>1, <2>1 DEF ReplayInv, replayVars
<1>2. CASE Load
  <2>3. frame' \in Seq(Rows)
    BY <1>2, RowsLoaded
  <2>4. at' = 0 /\ pc' = "replay"
    BY <1>2 DEF Load, ReplayInv
  <2>5. at' \in 0..Len(frame')
    BY <2>3, <2>4, LenProperties
  <2>6. UNCHANGED <<orders, lastType, tradeBuffer, knownCancels, emitted>>
    BY <1>2 DEF Load
  <2> QED
    BY <2>3, <2>4, <2>5, <2>6 DEF ReplayInv
<1>3. CASE Reads
  BY <1>3, ReadKeeps DEF Reads, listenerVars
<1>4. ASSUME Connects \/ Receives \/ Breaks \/ Goes \/ Ends
      PROVE  UNCHANGED replayVars /\ (pc # "replay" \/ pc' = pc)
  <2>1. CASE Connects
    BY <2>1 DEF Connects, Connect, Unwatched
  <2>2. CASE Receives
    BY <2>2 DEF Receives, Receive, Unwatched
  <2>3. CASE Breaks
    BY <2>3 DEF Breaks, Lose, Restart, Running, Unwatched
  <2>4. CASE Goes
    BY <2>4 DEF Goes, Dial, RequestStop, Unwatched
  <2>5. CASE Ends
    BY <2>5 DEF Ends, Exit
  <2> QED
    BY <1>4, <2>1, <2>2, <2>3, <2>4, <2>5
<1>5. ASSUME Happens \/ AckTrades \/ Merge \/ UNCHANGED vars
      PROVE  UNCHANGED replayVars /\ pc' = pc
  BY <1>5 DEF Happens, AckTrades, Merge, vars, listenerVars
<1>6. ASSUME NEW id, NEW size, NEW printFirst,
             Place(id, size) \/ Cancel(id) \/ Fill(id, size, printFirst) \/ Heartbeat
      PROVE  Happens
  BY <1>6 DEF Place, Cancel, Fill, Heartbeat
<1> QED
  BY <1>1, <1>2, <1>3, <1>4, <1>5, <1>6 DEF Next, Done

\* At first there is nothing, but for the exchange's orders.
LEMMA L3InvInitially == ASSUME CaptureAssumption, Init PROVE L3Inv
<1>1. /\ pc = "start" /\ session = 0 /\ buffer = <<>> /\ fileCount = 0 /\ files = NoFiles
      /\ clock = 0 /\ received = 0 /\ lost = {} /\ merged = <<>> /\ wire = <<>>
      /\ live = [id \in Listed |-> MaxSize]
  BY DEF Init, ListenerInit
<1>2. DOMAIN NoFiles = {} /\ IsFiniteSet({}) /\ \A i : i \notin 1..0
  BY FS_EmptySet DEF NoFiles
<1>3. Captured(files) = {} /\ FilesOK(files)
  BY <1>1, <1>2 DEF Captured, FilesOK
<1>4. WriterOK(files, fileCount, buffer) /\ Held(files, buffer) = {}
  BY <1>1, <1>2, <1>3, NoRows DEF WriterOK, Held
<1>5. CaptureInv
  BY <1>1, <1>2, <1>4, NoRows DEF CaptureInv
<1>6. InTime(<<>>)
  BY NoRows, TimeOrder, <1>2
<1>7. MergedInv
  BY <1>1, <1>3, <1>6, NoRows DEF MergedInv
<1>8. ExchangeInv
  <2>1. live \in [Listed -> 1..MaxSize] /\ Listed \in SUBSET L3Ids /\ IsFiniteSet(DOMAIN live)
    BY <1>1 DEF CaptureAssumption
  <2>2. wire \in Seq(Messages)
    BY <1>1
  <2> QED
    BY <2>1, <2>2 DEF ExchangeInv, Books
<1>9. ReplayInv
  <2>1. /\ orders = Nothing /\ knownCancels = Nothing /\ lastType = "none"
        /\ tradeBuffer = <<>> /\ emitted = <<>> /\ frame = <<>> /\ at = 0
    BY DEF Init, ReplayInit
  <2>2. Nothing \in [{} -> 1..MaxSize] /\ DOMAIN Nothing = {} /\ {} \in SUBSET L3Ids
    BY DEF Nothing
  <2>3. Nothing \in Books
    BY <2>2 DEF Books
  <2>4. TicksOK(<<>>)
    BY NoRows, TicksMade DEF TicksOK
  <2>5. at \in 0..Len(frame)
    BY <2>1, NoRows
  <2> QED
    BY <1>6, <2>1, <2>2, <2>3, <2>4, <2>5, NoRows DEF ReplayInv
<1> QED
  BY <1>5, <1>7, <1>8, <1>9 DEF L3Inv

\* The invariant of capture, merging and replay.
LEMMA L3Holds == Spec => []L3Inv
<1>1. CaptureAssumption /\ Init => L3Inv
  BY L3InvInitially
<1>2. CaptureAssumption /\ L3Inv /\ [Next]_vars => L3Inv'
  BY CaptureStep, ExchangeStep, ReplayStep DEF L3Inv
<1> QED
  BY <1>1, <1>2, CaptureAssumption, PTL DEF Spec

-----------------------------------------------------------------------------
(* Prints                                                                  *)

\* What was attached and what waits, and that what was read last, if it is a
\* print, is the last to wait.
TradesInv ==
    /\ delivered \in Seq(Nat) /\ Prints \in Seq(Rows) /\ TradesOnce
    /\ at > 0 /\ frame[at].type = "trade" =>
          tradeBuffer # <<>> /\ tradeBuffer[Len(tradeBuffer)] = frame[at]

\* Before anything is read.
LEMMA NothingPrinted ==
    ASSUME at = 0, delivered = <<>>, tradeBuffer = <<>>
    PROVE  TradesInv
<1>1. {i \in 1..at : frame[i].type = "trade"} = {}
  OBVIOUS
<1>2. Picked(frame, {}) \in Seq(Rows) /\ Len(Picked(frame, {})) = 0
  <2>1. Cardinality({}) = 0 /\ \A k : k \notin 1..0
    BY FS_EmptySet
  <2>2. Picked(frame, {}) \in [1..0 -> Rows]
    BY <2>1 DEF Picked
  <2> QED
    BY <2>2, Listing
<1>3. Prints = <<>>
  BY <1>1, <1>2, EmptySeq DEF Prints
<1>4. Numbers(<<>>) = <<>> /\ <<>> \o <<>> = <<>>
  BY NoRows, Numbered, TicksMade
<1> QED
  BY <1>3, <1>4, NoRows DEF TradesInv, TradesOnce

\* Nothing else touches what was printed: only loading and reading do.
LEMMA ReplayAlone ==
    ASSUME [Next]_vars, ~Load, ~Reads
    PROVE  UNCHANGED <<replayVars, delivered>>
<1>1. ASSUME Connects \/ Receives \/ Breaks \/ Goes \/ Ends
      PROVE  UNCHANGED <<replayVars, delivered>>
  BY <1>1 DEF Connects, Receives, Breaks, Goes, Ends, Unwatched
<1>2. ASSUME Happens \/ AckTrades \/ Merge \/ UNCHANGED vars
      PROVE  UNCHANGED <<replayVars, delivered>>
  BY <1>2 DEF Happens, AckTrades, Merge, vars
<1>3. ASSUME NEW id, NEW size, NEW printFirst,
             Place(id, size) \/ Cancel(id) \/ Fill(id, size, printFirst) \/ Heartbeat
      PROVE  Happens
  BY <1>3 DEF Place, Cancel, Fill, Heartbeat
<1> QED
  BY <1>1, <1>2, <1>3 DEF Next, Done

\* Numbers behind numbers behind numbers.
Chains(s, t, u) == s \o t \in Seq(Nat) /\ (s \o t) \o u = s \o (t \o u)

\* It does not matter which two are joined first.
LEMMA NumbersChained == \A s, t, u \in Seq(Nat) : Chains(s, t, u)
<1> TAKE s, t, u \in Seq(Nat)
<1>1. s \o t \in Seq(Nat)
  BY ConcatProperties
<1>2. (s \o t) \o u = s \o (t \o u)
  BY ConcatAssociative
<1> QED
  BY <1>1, <1>2 DEF Chains

\* A row read: if it is a print it waits, and the prints attached to what it
\* yields no longer do.
LEMMA TradesRead ==
    ASSUME CaptureAssumption, ReplayInv, TradesInv, Reads
    PROVE  TradesInv'
<1> DEFINE r == frame[at + 1]
           tb == Numbers(tradeBuffer)
           one == Attached(emitted', 1)
           two == Attached(emitted', 2)
           where == {i \in 1..at : frame[i].type = "trade"}
<1>1. /\ Read /\ pc' = pc /\ delivered' = delivered \o one \o two
      /\ frame' = frame /\ at' = at + 1
  BY DEF Reads, Read, listenerVars
<1>2. /\ r \in Rows /\ at + 1 \in 1..Len(frame) /\ frame \in Seq(Rows) /\ at \in Nat
      /\ tradeBuffer \in Seq(Rows) /\ r.n \in Nat
  <2>1. r \in Rows /\ at + 1 \in 1..Len(frame)
    BY <1>1, ReadKeeps
  <2>2. r.n \in Nat
    BY <2>1 DEF Rows
  <2>3. frame \in Seq(Rows) /\ at \in 0..Len(frame) /\ tradeBuffer \in Seq(Rows)
    BY DEF ReplayInv
  <2> QED
    BY <2>1, <2>2, <2>3, LenProperties
<1>3. /\ one \in Seq(Nat) /\ two \in Seq(Nat) /\ tradeBuffer' \in Seq(Rows)
      /\ one \o two \o Numbers(tradeBuffer') = IF r.type = "trade" THEN Append(tb, r.n) ELSE tb
  BY <1>1, <1>2, ReadTicks DEF AttachedOK
<1>4. /\ delivered \in Seq(Nat) /\ Prints \in Seq(Rows) /\ delivered \o tb = Numbers(Prints)
      /\ tb \in Seq(Nat) /\ Numbers(tradeBuffer') \in Seq(Nat)
  BY <1>2, <1>3, Numbered DEF TradesInv, TradesOnce
<1>5. /\ delivered' \in Seq(Nat)
      /\ delivered' \o Numbers(tradeBuffer') = delivered \o (one \o two \o Numbers(tradeBuffer'))
  <2> DEFINE wait == Numbers(tradeBuffer')
  <2> HIDE DEF one, two, tb, wait
  <2>1. delivered \in Seq(Nat) /\ one \in Seq(Nat) /\ two \in Seq(Nat) /\ wait \in Seq(Nat)
    BY <1>3, <1>4 DEF wait
  <2>2. Chains(delivered, one, two) /\ Chains(one, two, wait)
    BY <2>1, NumbersChained
  <2>3. one \o two \in Seq(Nat) /\ delivered \o one \in Seq(Nat)
    BY <2>2 DEF Chains
  <2>4. Chains(delivered, one \o two, wait) /\ Chains(delivered \o one, two, wait)
    BY <2>1, <2>3, NumbersChained
  <2>5. delivered' = (delivered \o one) \o two
    BY <1>1
  <2>6. delivered' \in Seq(Nat) /\ delivered' \o wait = delivered \o ((one \o two) \o wait)
    BY ONLY <2>2, <2>4, <2>5 DEF Chains
  <2> QED
    BY <2>6 DEF wait
<1>6. Prints = Picked(frame, where) /\ IsFiniteSet(where) /\ where \subseteq Int
      /\ \A x \in where : x < at + 1
  <2>1. where \subseteq 1..at /\ IsFiniteSet(1..at)
    BY <1>2, FirstFew
  <2>2. IsFiniteSet(where)
    BY <2>1, FS_Subset
  <2> QED
    BY <1>2, <2>1, <2>2 DEF Prints
<1>7. Prints' = Picked(frame, {i \in 1..(at + 1) : frame[i].type = "trade"})
  BY <1>1 DEF Prints
<1>8. 1..(at + 1) = 1..at \cup {at + 1}
  BY <1>2
<1>9. CASE r.type = "trade"
  <2>1. {i \in 1..(at + 1) : frame[i].type = "trade"} = where \cup {at + 1}
    BY <1>8, <1>9
  <2> HIDE DEF where
  <2>2. Prints' = Append(Prints, r)
    <3>1. at + 1 \in Int /\ Picked(frame, where) \in Seq(Rows)
      BY <1>2, <1>4, <1>6
    <3> QED
      BY <1>2, <1>6, <1>7, <2>1, <3>1, PickedMore
  <2>3. Prints' \in Seq(Rows) /\ Numbers(Prints') = Append(Numbers(Prints), r.n)
    BY <1>2, <1>4, <2>2, Numbered, AppendProperties
  <2>4. delivered \o Append(tb, r.n) = Append(delivered \o tb, r.n)
    <3> HIDE DEF tb, r
    <3>1. <<r.n>> \in Seq(Nat) /\ delivered \in Seq(Nat) /\ tb \in Seq(Nat)
      BY <1>2, <1>4
    <3>4. Chains(delivered, tb, <<r.n>>)
      BY <3>1, NumbersChained
    <3>5. delivered \o tb \in Seq(Nat)
      BY <3>4 DEF Chains
    <3>2. Append(tb, r.n) = tb \o <<r.n>> /\ Append(delivered \o tb, r.n) = (delivered \o tb) \o <<r.n>>
      BY <1>2, <3>1, <3>5, AppendIsConcat
    <3>3. (delivered \o tb) \o <<r.n>> = delivered \o (tb \o <<r.n>>)
      BY <3>4 DEF Chains
    <3> QED
      BY <3>2, <3>3
  <2>5. TradesOnce'
    BY <1>3, <1>4, <1>5, <1>9, <2>3, <2>4 DEF TradesOnce
  <2>6. tradeBuffer' = Append(tradeBuffer, r)
    BY <1>1, <1>9 DEF Read, ReadTrade, ReadSnapshot, ReadHeartbeat, ReadUpdate
  <2>7. tradeBuffer' # <<>> /\ tradeBuffer'[Len(tradeBuffer')] = r
    BY <1>2, <2>6, AppendProperties
  <2> QED
    BY <1>1, <1>5, <2>3, <2>5, <2>7 DEF TradesInv
<1>10. CASE r.type # "trade"
  <2>1. {i \in 1..(at + 1) : frame[i].type = "trade"} = where
    BY <1>8, <1>10
  <2> HIDE DEF where
  <2>2. Prints' = Prints
    BY <1>6, <1>7, <2>1
  <2>3. TradesOnce'
    BY <1>3, <1>4, <1>5, <1>10, <2>2 DEF TradesOnce
  <2> QED
    BY <1>1, <1>4, <1>5, <1>10, <2>2, <2>3 DEF TradesInv
<1> QED
  BY <1>9, <1>10

\* Of every state.
LEMMA TradesHold == Spec => []TradesInv
<1>1. Init => TradesInv
  BY NothingPrinted DEF Init, ReplayInit
<1>2. CaptureAssumption /\ ReplayInv /\ TradesInv /\ [Next]_vars => TradesInv'
  <2> SUFFICES ASSUME CaptureAssumption, ReplayInv, TradesInv, [Next]_vars PROVE TradesInv'
    OBVIOUS
  <2>1. CASE Reads
    BY <2>1, TradesRead
  <2>2. CASE Load
    <3>1. at = 0 /\ at' = at /\ tradeBuffer' = tradeBuffer /\ delivered' = delivered
      BY <2>2 DEF Load, ReplayInv
    <3>2. {i \in 1..at : frame[i].type = "trade"} = {} /\ {i \in 1..at : frame'[i].type = "trade"} = {}
      BY <3>1
    <3>3. Prints = Picked(frame, {}) /\ Prints' = Picked(frame', {})
      BY <3>1, <3>2 DEF Prints
    <3>4. Picked(frame, {}) = Picked(frame', {})
      <4>1. Cardinality({}) = 0 /\ \A k : k \notin 1..0
        BY FS_EmptySet
      <4>2. Picked(frame, {}) \in [1..0 -> {}] /\ Picked(frame', {}) \in [1..0 -> {}]
        BY <4>1 DEF Picked
      <4> QED
        BY <4>1, <4>2
    <3> QED
      BY <3>1, <3>3, <3>4 DEF TradesInv, TradesOnce
  <2>3. CASE ~Load /\ ~Reads
    <3>1. UNCHANGED <<replayVars, delivered>>
      BY <2>3, ReplayAlone
    <3> QED
      BY <3>1 DEF TradesInv, TradesOnce, Prints, replayVars
  <2> QED
    BY <2>1, <2>2, <2>3
<1>3. L3Inv => ReplayInv
  BY DEF L3Inv
<1> QED
  BY <1>1, <1>2, <1>3, L3Holds, CaptureAssumption, PTL DEF Spec

-----------------------------------------------------------------------------
(* What rows tell of the exchange's book                                   *)

\* Rows of one connection came in one second.
OneTime(S) == \A p, q \in S : p.session = q.session => p.ts = q.ts

\* An earlier connection's rows were received before.
Successive(S) == \A p, q \in S : p.session < q.session => p.n < q.n

\* Of a connection the snapshot comes first, all of it of one book.
SnapshotFirst(S) ==
    \A p, q \in S : p.session = q.session /\ q.type = "snapshot" /\ p.n < q.n =>
        p.type = "snapshot" /\ p.live = q.live

\* Each order of a snapshot's book has its row there, with its size.
SnapshotWhole(S) ==
    \A q \in S : q.type = "snapshot" =>
        /\ q.id \in DOMAIN q.live /\ q.size = q.live[q.id]
        /\ \A id \in DOMAIN q.live :
              \E p \in S : p.type = "snapshot" /\ p.session = q.session /\ p.id = id

\* What a change or a heartbeat makes of the book.
Makes(r, book) == IF r.type = "update" THEN Applied(book, r) ELSE book

\* No row of the book of that connection was received between these two.
Neighbours(p, q, S) ==
    /\ p.session = q.session /\ p.n < q.n /\ p.type # "trade"
    /\ \A r \in S : r.session = p.session /\ p.n < r.n /\ r.n < q.n => r.type = "trade"

\* A change is one of the book that the row before it left.
ChangesFollow(S) ==
    \A p, q \in S : Neighbours(p, q, S) /\ q.type \in {"update", "heartbeat"} =>
        q.live = Makes(q, p.live)

\* Rows that tell the book of the exchange from a snapshot on, connection by
\* connection, and leave nothing out.
Faithful(S) ==
    OneTime(S) /\ Successive(S) /\ SnapshotFirst(S) /\ SnapshotWhole(S) /\ ChangesFollow(S)

\* No rows tell nothing wrong.
LEMMA NoneFaithful == Faithful({})
  BY DEF Faithful, OneTime, Successive, SnapshotFirst, SnapshotWhole, ChangesFollow

\* Received in this connection, after what was received before.
Later(S, N, c, s) ==
    /\ \A r \in S : r.session <= s /\ (r.session = s => r.ts = c)
    /\ \A r \in N : r.session = s /\ r.ts = c
    /\ \A r \in S, q \in N : r.n < q.n

\* Rows of this connection behind those of it and of earlier ones.
LEMMA LaterOrdered ==
    ASSUME NEW S \in SUBSET Rows, NEW N \in SUBSET Rows, NEW c \in Int, NEW s \in Int,
           Faithful(S), Later(S, N, c, s)
    PROVE  OneTime(S \cup N) /\ Successive(S \cup N)
<1>1. \A r \in S \cup N : r.session \in Int /\ r.n \in Int
  BY RowNumbers
<1>2. OneTime(S \cup N)
  BY DEF Faithful, Later, OneTime
<1>3. ASSUME NEW p \in S \cup N, NEW q \in S \cup N, p.session < q.session PROVE p.n < q.n
  <2>1. p \in S
    <3>1. q.session <= s
      BY DEF Later
    <3>2. p \notin N
      BY <1>1, <1>3, <3>1 DEF Later
    <3> QED
      BY <3>2
  <2>2. CASE q \in S
    BY <1>3, <2>1, <2>2 DEF Faithful, Successive
  <2>3. CASE q \in N
    BY <2>1, <2>3 DEF Later
  <2> QED
    BY <2>2, <2>3
<1> QED
  BY <1>2, <1>3 DEF Successive

\* The book row of this connection that came in last.
LastTold(p, S, s) ==
    /\ p \in S /\ p.session = s /\ p.type # "trade"
    /\ \A r \in S : r.session = s /\ p.n < r.n => r.type = "trade"

\* A print, a change or a heartbeat more.
LEMMA RowFaithful ==
    ASSUME NEW S \in SUBSET Rows, NEW q \in Rows, NEW c \in Int, NEW s \in Int,
           Faithful(S), Later(S, {q}, c, s), q.type # "snapshot",
           q.type \in {"update", "heartbeat"} =>
               \A p \in S : LastTold(p, S, s) => q.live = Makes(q, p.live)
    PROVE  Faithful(S \cup {q})
<1> DEFINE U == S \cup {q}
<1>1. OneTime(U) /\ Successive(U)
  <2>1. {q} \in SUBSET Rows
    OBVIOUS
  <2> QED
    BY <2>1, LaterOrdered
<1>2. \A r \in S : r.n < q.n /\ r.n \in Int /\ q.n \in Int
  BY RowNumbers DEF Later
<1>3. SnapshotFirst(U)
  <2> SUFFICES ASSUME NEW p \in U, NEW x \in U, p.session = x.session, x.type = "snapshot", p.n < x.n
               PROVE  p.type = "snapshot" /\ p.live = x.live
    BY DEF SnapshotFirst
  <2>1. x \in S
    OBVIOUS
  <2>2. p \in S
    BY <1>2, <2>1
  <2> QED
    BY <2>1, <2>2 DEF Faithful, SnapshotFirst
<1>4. SnapshotWhole(U)
  <2> SUFFICES ASSUME NEW x \in U, x.type = "snapshot"
               PROVE  /\ x.id \in DOMAIN x.live /\ x.size = x.live[x.id]
                      /\ \A id \in DOMAIN x.live :
                            \E p \in U : p.type = "snapshot" /\ p.session = x.session /\ p.id = id
    BY DEF SnapshotWhole
  <2>1. x \in S
    OBVIOUS
  <2> QED
    BY <2>1 DEF Faithful, SnapshotWhole
<1>5. ChangesFollow(U)
  <2> SUFFICES ASSUME NEW p \in U, NEW x \in U, Neighbours(p, x, U), x.type \in {"update", "heartbeat"}
               PROVE  x.live = Makes(x, p.live)
    BY DEF ChangesFollow
  <2>1. CASE x \in S
    <3>1. p \in S
      BY <1>2, <2>1 DEF Neighbours
    <3>2. Neighbours(p, x, S)
      BY DEF Neighbours
    <3> QED
      BY <2>1, <3>1, <3>2 DEF Faithful, ChangesFollow
  <2>2. CASE x = q
    <3>1. p \in S
      <4>1. q.n \in Int /\ p.n < q.n
        BY <2>2, RowNumbers DEF Neighbours
      <4> QED
        BY <4>1
    <3>2. q.session = s
      BY DEF Later
    <3>3. LastTold(p, S, s)
      BY <1>2, <2>2, <3>1, <3>2 DEF LastTold, Neighbours
    <3> QED
      BY <2>2, <3>1, <3>3
  <2> QED
    BY <2>1, <2>2
<1> QED
  BY <1>1, <1>3, <1>4, <1>5 DEF Faithful

\* The rows of a snapshot of this book.
Snapshot(N, book) ==
    /\ \A r \in N : /\ r.type = "snapshot" /\ r.live = book
                    /\ r.id \in DOMAIN book /\ r.size = book[r.id]
    /\ \A id \in DOMAIN book : \E r \in N : r.id = id

\* A snapshot, where nothing of this connection was received before.
LEMMA SnapshotFaithful ==
    ASSUME NEW S \in SUBSET Rows, NEW N \in SUBSET Rows, NEW c \in Int, NEW s \in Int,
           Faithful(S), Later(S, N, c, s), NEW book, Snapshot(N, book), \A r \in S : r.session # s
    PROVE  Faithful(S \cup N)
<1> DEFINE U == S \cup N
<1>1. OneTime(U) /\ Successive(U)
  BY LaterOrdered
<1>2. \A r \in N : r.session = s
  BY DEF Later
<1>3. SnapshotFirst(U)
  <2> SUFFICES ASSUME NEW p \in U, NEW x \in U, p.session = x.session, x.type = "snapshot", p.n < x.n
               PROVE  p.type = "snapshot" /\ p.live = x.live
    BY DEF SnapshotFirst
  <2>1. CASE x \in S
    BY <1>2, <2>1 DEF Faithful, SnapshotFirst
  <2>2. CASE x \in N
    BY <1>2, <2>2 DEF Snapshot
  <2> QED
    BY <2>1, <2>2
<1>4. SnapshotWhole(U)
  <2> SUFFICES ASSUME NEW x \in U, x.type = "snapshot"
               PROVE  /\ x.id \in DOMAIN x.live /\ x.size = x.live[x.id]
                      /\ \A id \in DOMAIN x.live :
                            \E p \in U : p.type = "snapshot" /\ p.session = x.session /\ p.id = id
    BY DEF SnapshotWhole
  <2>1. CASE x \in S
    BY <2>1 DEF Faithful, SnapshotWhole
  <2>2. CASE x \in N
    <3>1. x.live = book /\ x.id \in DOMAIN book /\ x.size = book[x.id]
      BY <2>2 DEF Snapshot
    <3>2. ASSUME NEW id \in DOMAIN book
          PROVE  \E p \in U : p.type = "snapshot" /\ p.session = x.session /\ p.id = id
      <4>1. PICK r \in N : r.id = id
        BY DEF Snapshot
      <4> QED
        BY <1>2, <2>2, <4>1 DEF Snapshot
    <3> QED
      BY <3>1, <3>2
  <2> QED
    BY <2>1, <2>2
<1>5. ChangesFollow(U)
  <2> SUFFICES ASSUME NEW p \in U, NEW x \in U, Neighbours(p, x, U), x.type \in {"update", "heartbeat"}
               PROVE  x.live = Makes(x, p.live)
    BY DEF ChangesFollow
  <2>1. x \in S
    BY DEF Snapshot
  <2>2. p \in S
    BY <1>2, <2>1 DEF Neighbours
  <2>3. Neighbours(p, x, S)
    BY DEF Neighbours
  <2> QED
    BY <2>1, <2>2, <2>3 DEF Faithful, ChangesFollow
<1> QED
  BY <1>1, <1>3, <1>4, <1>5 DEF Faithful

-----------------------------------------------------------------------------
(* What the listener keeps, and what is under way, tell the book           *)

Kept == Captured(files) \cup ToSet(buffer)

\* No row is of a later connection, and those of this one came in this second.
Sessions == \A r \in Kept : r.session <= session /\ (r.session = session => r.ts = clock)

\* A message of the stream: what it makes of the book p is q.
Tells(m, p, q) ==
    \/ m.rows = <<>> /\ q = p
    \/ /\ m.chan = "book"
       /\ \E r \in Told : /\ m.rows = <<r>> /\ r.type \in {"update", "heartbeat"}
                          /\ r.live = q /\ q = Makes(r, p)
    \/ \E r \in Told : m.rows = <<r>> /\ r.type = "trade" /\ q = p

\* The o-th of these messages is the snapshot, if it has not come in yet, and
\* h[i] the book of the exchange after i of them; the last leaves this book.
Underway(o, h, w, book) ==
    /\ o \in 0..2 /\ o <= Len(w) /\ h[Len(w)] = book
    /\ IF o = 2 THEN w[1].rows = <<>> /\ "book" \in w[1].ack ELSE "book" \in chans
    /\ o > 0 => /\ w[o].chan = "book" /\ Snapshot(ToSet(w[o].rows), h[o])
                /\ \A r \in Kept : r.session # session
    /\ \A i \in 1..Len(w) : o < i => Tells(w[i], h[i - 1], h[i])
    /\ o = 0 => \A p \in Kept : LastTold(p, Kept, session) => p.live = h[0]

\* What is kept, what would be left of it if the process were killed, and what
\* was merged tell the book; what comes in next goes on from there.
ToldInv ==
    /\ Faithful(Kept) /\ Faithful(Captured(files)) /\ Faithful(ToSet(merged))
    /\ pc \notin {"done", "replay"} => Sessions
    /\ pc = "recv" => \E o, h : Underway(o, h, wire, live)

\* What is kept are rows, with numbers given.
LEMMA KeptRows ==
    ASSUME CaptureInv
    PROVE  /\ Kept \in SUBSET Rows /\ Captured(files) \in SUBSET Rows
           /\ \A r \in Kept : r.n <= received
           /\ clock \in Int /\ session \in Int /\ received \in Nat
<1>1. FilesOK(files) /\ buffer \in Seq(Rows)
  BY DEF CaptureInv, WriterOK, Batch
<1>2. Captured(files) \subseteq Rows /\ ToSet(buffer) \subseteq Rows
  BY <1>1, CapturedRows, TimeOrder
<1>3. clock \in Int /\ session \in Nat /\ received \in Nat /\ Held(files, buffer) \subseteq 1..received
  BY DEF CaptureInv
<1>4. \A r \in Kept : r.n \in 1..received
  BY <1>3 DEF Held, Kept
<1> QED
  BY <1>2, <1>3, <1>4 DEF Kept

\* Rows that move from the buffer to a file are kept all the same.
LEMMA MovedKeeps ==
    ASSUME Faithful(Kept), Faithful(Captured(files)), Writes(buffer)
    PROVE  Kept' = Kept /\ Faithful(Captured(files'))
<1>1. Captured(files') \cup ToSet(buffer') = Kept /\ Captured(files') \in {Captured(files), Kept}
  BY DEF Writes, Kept
<1> QED
  BY <1>1 DEF Kept

\* Where nothing comes in and nothing happens, the listener knows what it knew.
LEMMA KeptAlone ==
    ASSUME ToldInv, UNCHANGED <<files, buffer, merged, session, clock>>,
           pc' \notin {"done", "replay"} => pc \notin {"done", "replay"},
           pc' = "recv" => pc = "recv" /\ UNCHANGED <<wire, live, chans>>
    PROVE  ToldInv'
<1>1. Kept' = Kept /\ Captured(files') = Captured(files) /\ ToSet(merged') = ToSet(merged)
  BY DEF Kept
<1>2. Sessions => Sessions'
  BY <1>1 DEF Sessions
<1>3. ASSUME pc' = "recv", NEW o, NEW h, Underway(o, h, wire, live) PROVE Underway(o, h, wire, live)'
  BY <1>1, <1>3 DEF Underway
<1>4. (\E o, h : Underway(o, h, wire, live)) /\ pc' = "recv" => \E o, h : Underway(o, h, wire, live)'
  BY <1>3
<1> QED
  BY <1>1, <1>2, <1>4 DEF ToldInv

\* What waited is written.
LEMMA DialTold == ASSUME CaptureInv, ToldInv, Dial \/ Exit, merged' = merged PROVE ToldInv'
<1>1. pc' \in {"dial", "done"} /\ Writes(buffer)
  BY DialKeeps DEF Dial, Exit
<1>2. Faithful(Kept) /\ Faithful(Captured(files)) /\ Faithful(ToSet(merged))
  BY DEF ToldInv
<1>3. Kept' = Kept /\ Faithful(Captured(files')) /\ Faithful(ToSet(merged'))
  BY <1>1, <1>2, MovedKeeps
<1>4. ASSUME pc' \notin {"done", "replay"} PROVE Sessions'
  <2>1. pc' = "dial" /\ pc \in {"start", "sleep"} /\ session' = session /\ clock' = clock
    BY <1>1, <1>4 DEF Dial, Exit
  <2>2. Sessions
    BY <2>1 DEF ToldInv
  <2> QED
    BY <1>3, <2>1, <2>2 DEF Sessions
<1> QED
  BY <1>1, <1>2, <1>3, <1>4 DEF ToldInv

\* A killed process leaves what is in the files.
LEMMA RestartTold == ASSUME ToldInv, Restart, merged' = merged PROVE ToldInv'
<1>1. /\ pc' = "start" /\ buffer' = <<>> /\ UNCHANGED <<session, files, clock>>
      /\ pc \notin {"done", "replay"}
  BY DEF Restart, Running
<1>2. Kept' = Captured(files) /\ Captured(files') = Captured(files)
  BY <1>1, NoRows DEF Kept
<1>3. Sessions'
  BY <1>1, <1>2 DEF ToldInv, Sessions, Kept
<1>4. Faithful(Captured(files)) /\ Faithful(ToSet(merged'))
  BY DEF ToldInv
<1> QED
  BY <1>1, <1>2, <1>3, <1>4 DEF ToldInv

\* A row as it is written says what it said.
LEMMA StampedTells ==
    ASSUME CaptureInv, NEW rows \in Seq(Told)
    PROVE  /\ Len(rows) \in Nat /\ \A i \in 1..Len(rows) : rows[i] \in Told
           /\ ToSet(rows) = {rows[i] : i \in 1..Len(rows)}
           /\ ToSet(Stamped(rows)) = {Stamped(rows)[i] : i \in 1..Len(rows)}
           /\ \A i \in 1..Len(rows) :
                 /\ Stamped(rows)[i].type = rows[i].type /\ Stamped(rows)[i].id = rows[i].id
                 /\ Stamped(rows)[i].size = rows[i].size /\ Stamped(rows)[i].live = rows[i].live
<1>1. Len(rows) \in Nat /\ DOMAIN rows = 1..Len(rows) /\ \A i \in 1..Len(rows) : rows[i] \in Told
  BY LenProperties
<1>2. Stamped(rows) \in Seq(Rows) /\ Len(Stamped(rows)) = Len(rows)
  BY StampedRows
<1>3. ToSet(Stamped(rows)) = {Stamped(rows)[i] : i \in 1..Len(rows)}
  BY <1>2, TimeOrder
<1>4. ToSet(rows) = {rows[i] : i \in 1..Len(rows)}
  BY <1>1 DEF ToSet
<1>5. ASSUME NEW i \in 1..Len(rows)
      PROVE  /\ Stamped(rows)[i].type = rows[i].type /\ Stamped(rows)[i].id = rows[i].id
             /\ Stamped(rows)[i].size = rows[i].size /\ Stamped(rows)[i].live = rows[i].live
  BY <1>1 DEF Stamped
<1> QED
  BY <1>1, <1>3, <1>4, <1>5

\* Rows that come in are later than what is kept.
LEMMA ArriveLater ==
    ASSUME CaptureInv, Sessions, NEW rows \in Seq(Told)
    PROVE  ToSet(Stamped(rows)) \in SUBSET Rows /\ Later(Kept, ToSet(Stamped(rows)), clock, session)
<1> DEFINE N == ToSet(Stamped(rows))
<1>1. /\ Stamped(rows) \in Seq(Rows) /\ Len(rows) \in Nat
      /\ \A i \in 1..Len(rows) :
            /\ Stamped(rows)[i].n = received + i
            /\ Stamped(rows)[i].ts = clock /\ Stamped(rows)[i].session = session
  BY StampedRows
<1>2. N = {Stamped(rows)[i] : i \in 1..Len(rows)}
  BY StampedTells
<1>3. N \subseteq Rows
  BY <1>1, TimeOrder
<1>4. Kept \in SUBSET Rows /\ received \in Nat /\ \A r \in Kept : r.n <= received
  BY KeptRows
<1>5. ASSUME NEW r \in Kept, NEW q \in N PROVE r.n < q.n
  <2>1. PICK i \in 1..Len(rows) : q.n = received + i
    BY <1>1, <1>2
  <2>2. r.n \in Int /\ r.n <= received
    BY <1>4, RowNumbers
  <2> QED
    BY <1>1, <1>4, <2>1, <2>2
<1>6. \A q \in N : q.session = session /\ q.ts = clock
  BY <1>1, <1>2
<1> QED
  BY <1>3, <1>5, <1>6 DEF Later, Sessions

\* What comes in on top of what is kept.
LEMMA KeptMore ==
    ASSUME CaptureInv, ToldInv, NEW m \in Messages, NEW late, Receive(m, late)
    PROVE  LET N == ToSet(Stamped(Taken(m)))
           IN  /\ Kept' = Kept \cup N /\ Captured(files') \in {Captured(files), Kept \cup N}
               /\ N \in SUBSET Rows /\ Later(Kept, N, clock, session)
               /\ Sessions' /\ Taken(m) \in Seq(Told)
<1> DEFINE N == ToSet(Stamped(Taken(m)))
<1>1. Taken(m) \in Seq(Told) /\ Writes(buffer \o Stamped(Taken(m)))
  BY ReceiveKeeps
<1>2. buffer \in Seq(Rows) /\ Stamped(Taken(m)) \in Seq(Rows)
  BY <1>1, StampedRows DEF CaptureInv, WriterOK, Batch
<1>3. Captured(files) \cup ToSet(buffer \o Stamped(Taken(m))) = Kept \cup N
  BY <1>2, SetJoined DEF Kept
<1>4. Kept' = Kept \cup N /\ Captured(files') \in {Captured(files), Kept \cup N}
  BY <1>1, <1>3 DEF Writes, Kept
<1>5. pc = "recv" /\ session' = session /\ clock' = clock
  BY DEF Receive
<1>6. Sessions
  BY <1>5 DEF ToldInv
<1>7. N \in SUBSET Rows /\ Later(Kept, N, clock, session)
  BY <1>1, <1>6, ArriveLater
<1>8. session \in Int
  BY KeptRows
<1> HIDE DEF N
<1>9. Sessions'
  BY <1>4, <1>5, <1>7, <1>8 DEF Sessions, Later
<1> QED
  BY <1>1, <1>4, <1>7, <1>9 DEF N

\* The books after what is still under way, when the first message has come in.
Shifted(h, n) == [i \in 0..(n - 1) |-> h[i + 1]]

\* The messages behind the first tell what they told.
LEMMA TailTells ==
    ASSUME NEW w \in Seq(Messages), w # <<>>, NEW h, NEW o \in Nat, NEW o2 \in Nat, o <= o2 + 1,
           \A i \in 1..Len(w) : o < i => Tells(w[i], h[i - 1], h[i])
    PROVE  LET n == Len(w)
               g == Shifted(h, n)
               t == Tail(w)
           IN  /\ n \in Nat /\ n >= 1 /\ Len(t) = n - 1 /\ Head(w) = w[1]
               /\ \A i \in 0..(n - 1) : g[i] = h[i + 1]
               /\ \A i \in 1..(n - 1) : t[i] = w[i + 1] /\ (o2 < i => Tells(t[i], g[i - 1], g[i]))
<1> DEFINE n == Len(w)
           g == Shifted(h, n)
           t == Tail(w)
<1>1. n \in Nat /\ n # 0
  BY LenProperties, EmptySeq
<1>2. Len(t) = n - 1 /\ Head(w) = w[1] /\ \A i \in 1..(n - 1) : t[i] = w[i + 1]
  BY <1>1, HeadTailProperties
<1>3. \A i \in 0..(n - 1) : g[i] = h[i + 1]
  BY DEF Shifted
<1> HIDE DEF n, g, t
<1>4. ASSUME NEW i \in 1..(n - 1), o2 < i PROVE Tells(t[i], g[i - 1], g[i])
  <2>1. i + 1 \in 1..n /\ o < i + 1 /\ (i + 1) - 1 = i /\ i - 1 \in 0..(n - 1) /\ i \in 0..(n - 1)
        /\ (i - 1) + 1 = i
    BY <1>1, <1>4
  <2>2. Tells(w[i + 1], h[i], h[i + 1])
    BY <2>1 DEF n
  <2> QED
    BY <1>2, <1>3, <2>1, <2>2
<1> QED
  BY <1>1, <1>2, <1>3, <1>4 DEF n, g, t

\* A message without rows, or whose rows are dropped, leaves nothing.
LEMMA NothingComes ==
    ASSUME CaptureInv, NEW rows, rows = <<>>
    PROVE  ToSet(Stamped(rows)) = {}
<1>1. <<>> \in Seq(Told) /\ Len(<<>>) = 0
  OBVIOUS
<1>2. ToSet(Stamped(<<>>)) = {Stamped(<<>>)[i] : i \in 1..0}
  BY <1>1, StampedTells
<1>3. \A i : i \notin 1..0
  OBVIOUS
<1> QED
  BY <1>2, <1>3

\* One row.
LEMMA OneComes ==
    ASSUME CaptureInv, NEW r \in Told
    PROVE  \E q \in Rows :
              /\ ToSet(Stamped(<<r>>)) = {q}
              /\ q.type = r.type /\ q.live = r.live
              /\ \A book : Makes(q, book) = Makes(r, book)
<1> DEFINE q == Stamped(<<r>>)[1]
<1>1. <<r>> \in Seq(Told) /\ Len(<<r>>) = 1 /\ <<r>>[1] = r /\ 1 \in 1..1 /\ \A i \in 1..1 : i = 1
  OBVIOUS
<1>2. /\ ToSet(Stamped(<<r>>)) = {Stamped(<<r>>)[i] : i \in 1..1}
      /\ q.type = r.type /\ q.id = r.id /\ q.size = r.size /\ q.live = r.live
  BY <1>1, StampedTells
<1>3. q \in Rows
  <2>1. Stamped(<<r>>) \in Seq(Rows) /\ Len(Stamped(<<r>>)) = 1
    BY <1>1, StampedRows
  <2> QED
    BY <1>1, <2>1, ElementOfSeq
<1>4. ToSet(Stamped(<<r>>)) = {q}
  BY <1>1, <1>2
<1> HIDE DEF q
<1>5. \A book : Makes(q, book) = Makes(r, book)
  BY <1>2 DEF Makes, Applied
<1> QED
  BY <1>2, <1>3, <1>4, <1>5

\* A message comes in: what is kept tells the book as before, and what is still
\* under way goes on from there.
LEMMA MessageComes ==
    ASSUME CaptureInv, ToldInv, wire \in Seq(Messages), wire # <<>>, NEW late,
           Receive(Head(wire), late), live' = live, pc' = "recv" => wire' = Tail(wire),
           NEW o, NEW h, Underway(o, h, wire, live)
    PROVE  Faithful(Kept') /\ (pc' = "recv" => \E o2, h2 : Underway(o2, h2, wire, live)')
<1>1. PICK m \in Messages : m = Head(wire)
  BY HeadTailProperties
<1>0. PICK N : N = ToSet(Stamped(Taken(m)))
  OBVIOUS
<1>2. /\ Kept' = Kept \cup N /\ N \in SUBSET Rows /\ Later(Kept, N, clock, session)
      /\ Taken(m) \in Seq(Told)
  BY <1>0, <1>1, KeptMore
<1>3. Kept \in SUBSET Rows /\ clock \in Int /\ session \in Int
  BY KeptRows
<1>4. session' = session /\ chans' = chans \cup m.ack
  BY <1>1 DEF Receive
<1>5. Faithful(Kept)
  BY DEF ToldInv
<1>7. PICK n \in Nat : n = Len(wire) /\ n >= 1 /\ m = wire[1]
  <2>1. Len(wire) \in Nat /\ Len(wire) # 0 /\ Head(wire) = wire[1]
    BY LenProperties, EmptySeq, HeadTailProperties
  <2> QED
    BY <1>1, <2>1
<1>6. /\ o \in 0..2 /\ o <= n /\ h[n] = live
      /\ IF o = 2 THEN wire[1].rows = <<>> /\ "book" \in wire[1].ack ELSE "book" \in chans
      /\ o > 0 => /\ wire[o].chan = "book" /\ Snapshot(ToSet(wire[o].rows), h[o])
                  /\ \A r \in Kept : r.session # session
      /\ \A i \in 1..n : o < i => Tells(wire[i], h[i - 1], h[i])
      /\ o = 0 => \A p \in Kept : LastTold(p, Kept, session) => p.live = h[0]
  BY <1>7 DEF Underway
<1>8. PICK o2 \in 0..1 : /\ o2 = IF o = 0 THEN 0 ELSE o - 1
                        /\ o \in Nat /\ o2 \in Nat /\ o <= o2 + 1 /\ o2 <= n - 1
  <2>1. (IF o = 0 THEN 0 ELSE o - 1) \in 0..1
    BY <1>6
  <2> QED
    BY <1>6, <1>7, <2>1
<1>9. PICK g, t :
         /\ t = Tail(wire) /\ Len(t) = n - 1 /\ g[n - 1] = live /\ g[0] = h[1]
         /\ \A i \in 0..(n - 1) : g[i] = h[i + 1]
         /\ \A i \in 1..(n - 1) : t[i] = wire[i + 1] /\ (o2 < i => Tells(t[i], g[i - 1], g[i]))
  <2>1. \A i \in 1..Len(wire) : o < i => Tells(wire[i], h[i - 1], h[i])
    BY <1>6, <1>7
  <2>2. PICK f : f = Shifted(h, n)
    OBVIOUS
  <2>3. /\ Len(Tail(wire)) = n - 1
        /\ \A i \in 0..(n - 1) : f[i] = h[i + 1]
        /\ \A i \in 1..(n - 1) :
              Tail(wire)[i] = wire[i + 1] /\ (o2 < i => Tells(Tail(wire)[i], f[i - 1], f[i]))
    <3>1. o \in Nat /\ o2 \in Nat /\ o <= o2 + 1
      BY <1>8
    <3>2. /\ Len(Tail(wire)) = Len(wire) - 1
          /\ \A i \in 0..(Len(wire) - 1) : Shifted(h, Len(wire))[i] = h[i + 1]
          /\ \A i \in 1..(Len(wire) - 1) :
                /\ Tail(wire)[i] = wire[i + 1]
                /\ o2 < i => Tells(Tail(wire)[i], Shifted(h, Len(wire))[i - 1], Shifted(h, Len(wire))[i])
      BY <2>1, <3>1, TailTells
    <3> QED
      BY <1>7, <2>2, <3>2
  <2>4. n - 1 \in 0..(n - 1) /\ (n - 1) + 1 = n /\ 0 \in 0..(n - 1) /\ 0 + 1 = 1
    BY <1>7
  <2>5. f[n - 1] = live /\ f[0] = h[1]
    BY <1>6, <2>3, <2>4
  <2>6. PICK u : u = Tail(wire)
    OBVIOUS
  <2>7. /\ u = Tail(wire) /\ Len(u) = n - 1 /\ f[n - 1] = live /\ f[0] = h[1]
        /\ \A i \in 0..(n - 1) : f[i] = h[i + 1]
        /\ \A i \in 1..(n - 1) : u[i] = wire[i + 1] /\ (o2 < i => Tells(u[i], f[i - 1], f[i]))
    BY <2>3, <2>5, <2>6
  <2> QED
    BY <2>7
<1> DEFINE Left ==
              /\ o2 = 0 => \A p \in Kept \cup N : LastTold(p, Kept \cup N, session) => p.live = h[1]
              /\ o2 > 0 => \A r \in Kept \cup N : r.session # session
              /\ "book" \in chans \cup m.ack
<1>11. ASSUME Left, pc' = "recv" PROVE \E o3, h3 : Underway(o3, h3, wire, live)'
  <2>1. wire' = t
    BY <1>9, <1>11
  <2>2. o2 > 0 => o2 = 1 /\ o = 2 /\ t[1] = wire[2] /\ g[1] = h[2]
    <3>1. o2 > 0 => o2 = 1 /\ o = 2 /\ 1 \in 1..(n - 1) /\ 1 \in 0..(n - 1) /\ 1 + 1 = 2
      BY <1>6, <1>7, <1>8
    <3> QED
      BY <1>9, <3>1
  <2>3. o2 > 0 => t[o2].chan = "book" /\ Snapshot(ToSet(t[o2].rows), g[o2])
    BY <1>6, <2>2
  <2>4. o2 # 2 /\ o2 \in 0..2 /\ o2 <= Len(t)
    BY <1>7, <1>8, <1>9
  <2>5. /\ o2 = 0 => \A p \in Kept \cup N : LastTold(p, Kept \cup N, session) => p.live = h[1]
        /\ o2 > 0 => \A r \in Kept \cup N : r.session # session
        /\ "book" \in chans \cup m.ack
    BY <1>11
  <2>6. \A i \in 1..Len(t) : o2 < i => Tells(t[i], g[i - 1], g[i])
    BY <1>9
  <2>7. /\ Kept' = Kept \cup N /\ session' = session /\ chans' = chans \cup m.ack /\ live' = live
        /\ g[Len(t)] = live /\ g[0] = h[1]
    BY <1>2, <1>4, <1>9
  <2>8. Underway(o2, g, wire, live)'
    BY <2>1, <2>3, <2>4, <2>5, <2>6, <2>7 DEF Underway
  <2> QED
    BY <2>8
<1>12. CASE o = 2
  <2>1. Taken(m) = <<>>
    BY <1>6, <1>7, <1>12 DEF Taken
  <2>2. N = {}
    BY <1>0, <2>1, NothingComes
  <2>3. Left
    BY <1>6, <1>7, <1>8, <1>12, <2>2
  <2> HIDE DEF Left
  <2> QED
    BY <1>2, <1>5, <1>11, <2>2, <2>3
<1>13. CASE o = 1
  <2>1. Taken(m) = m.rows /\ "book" \in chans
    BY <1>6, <1>7, <1>13 DEF Taken
  <2>2. Snapshot(ToSet(m.rows), h[1]) /\ \A r \in Kept : r.session # session
    BY <1>6, <1>7, <1>13
  <2>3. Snapshot(N, h[1])
    <3> DEFINE rows == Taken(m)
    <3>1. /\ ToSet(rows) = {rows[i] : i \in 1..Len(rows)}
          /\ N = {Stamped(rows)[i] : i \in 1..Len(rows)}
          /\ \A i \in 1..Len(rows) :
                /\ Stamped(rows)[i].type = rows[i].type /\ Stamped(rows)[i].id = rows[i].id
                /\ Stamped(rows)[i].size = rows[i].size /\ Stamped(rows)[i].live = rows[i].live
      BY <1>0, <1>2, StampedTells
    <3>2. Snapshot(ToSet(rows), h[1])
      BY <2>1, <2>2
    <3> HIDE DEF rows
    <3>3. ASSUME NEW q \in N
          PROVE  q.type = "snapshot" /\ q.live = h[1] /\ q.id \in DOMAIN h[1] /\ q.size = h[1][q.id]
      <4>1. PICK i \in 1..Len(rows) : q = Stamped(rows)[i]
        BY <3>1
      <4>2. rows[i] \in ToSet(rows)
        BY <3>1
      <4> QED
        BY <3>1, <3>2, <4>1, <4>2 DEF Snapshot
    <3>4. ASSUME NEW id \in DOMAIN h[1] PROVE \E q \in N : q.id = id
      <4>1. PICK r \in ToSet(rows) : r.id = id
        BY <3>2 DEF Snapshot
      <4>2. PICK i \in 1..Len(rows) : r = rows[i]
        BY <3>1
      <4> QED
        BY <3>1, <4>1, <4>2
    <3> QED
      BY <3>3, <3>4 DEF Snapshot
  <2>4. Faithful(Kept \cup N)
    BY <1>2, <1>3, <1>5, <2>2, <2>3, SnapshotFaithful
  <2>5. Left
    <3>1. \A p \in Kept \cup N : LastTold(p, Kept \cup N, session) => p \in N
      BY <2>2 DEF LastTold
    <3>2. \A p \in N : p.live = h[1]
      BY <2>3 DEF Snapshot
    <3>3. o2 = 0
      BY <1>8, <1>13
    <3>4. \A p \in Kept \cup N : LastTold(p, Kept \cup N, session) => p.live = h[1]
      BY <3>1, <3>2
    <3>5. "book" \in chans \cup m.ack
      BY <2>1
    <3>6. ~(o2 > 0)
      BY <3>3
    <3> QED
      BY <3>4, <3>5, <3>6
  <2> HIDE DEF Left
  <2> QED
    BY <1>2, <1>11, <2>4, <2>5
<1>14. CASE o = 0
  <2>1. /\ "book" \in chans /\ Tells(m, h[0], h[1])
        /\ \A p \in Kept : LastTold(p, Kept, session) => p.live = h[0]
    <3>1. 1 \in 1..n /\ 1 - 1 = 0
      BY <1>7
    <3>2. Tells(wire[1], h[0], h[1])
      BY <1>6, <1>14, <3>1
    <3> QED
      BY <1>6, <1>7, <1>14, <3>2
  <2>2. CASE Taken(m) = <<>> /\ h[1] = h[0]
    <3>1. N = {}
      BY <1>0, <2>2, NothingComes
    <3>2. Left
      BY <1>8, <1>14, <2>1, <2>2, <3>1
    <3> HIDE DEF Left
    <3> QED
      BY <1>2, <1>5, <1>11, <3>1, <3>2
  <2>3. CASE \E r \in Told : /\ Taken(m) = <<r>> /\ r.type # "snapshot"
                             /\ r.type \in {"update", "heartbeat"} => r.live = h[1] /\ h[1] = Makes(r, h[0])
                             /\ r.type = "trade" => h[1] = h[0]
    <3>1. PICK r \in Told : /\ Taken(m) = <<r>> /\ r.type # "snapshot"
                            /\ r.type \in {"update", "heartbeat"} => r.live = h[1] /\ h[1] = Makes(r, h[0])
                            /\ r.type = "trade" => h[1] = h[0]
      BY <2>3
    <3>2. PICK q \in Rows : /\ N = {q}
                            /\ q.type = r.type /\ q.live = r.live
                            /\ \A book : Makes(q, book) = Makes(r, book)
      BY <1>0, <3>1, OneComes
    <3>3. q.type \in {"update", "heartbeat"} =>
              \A p \in Kept : LastTold(p, Kept, session) => q.live = Makes(q, p.live)
      BY <2>1, <3>1, <3>2
    <3>4. Faithful(Kept \cup N)
      <4>1. Later(Kept, {q}, clock, session)
        BY <1>2, <3>2
      <4> QED
        BY <1>3, <1>5, <3>1, <3>2, <3>3, <4>1, RowFaithful
    <3>5. ASSUME NEW p \in Kept \cup N, LastTold(p, Kept \cup N, session) PROVE p.live = h[1]
      <4>1. q \in N /\ q.session = session /\ \A x \in Kept : x.n < q.n
        BY <1>2, <3>2 DEF Later
      <4>2. CASE q.type = "trade"
        <5>1. p \in Kept
          BY <3>2, <3>5, <4>2 DEF LastTold
        <5>2. LastTold(p, Kept, session)
          BY <3>5, <5>1 DEF LastTold
        <5> QED
          BY <2>1, <3>1, <3>2, <4>2, <5>1, <5>2
      <4>3. CASE q.type # "trade"
        <5>1. p = q
          BY <3>2, <3>5, <4>1, <4>3 DEF LastTold
        <5>2. r.type \in {"update", "heartbeat"}
          BY <3>1, <3>2, <4>3 DEF Told, Types
        <5> QED
          BY <3>1, <3>2, <5>1, <5>2
      <4> QED
        BY <4>2, <4>3
    <3>6. Left
      <4>1. o2 = 0
        BY <1>8, <1>14
      <4>2. "book" \in chans \cup m.ack
        BY <2>1
      <4>3. ~(o2 > 0)
        BY <4>1
      <4> QED
        BY <3>5, <4>2, <4>3
    <3> HIDE DEF Left
    <3> QED
      BY <1>2, <1>11, <3>4, <3>6
  <2>4. Taken(m) = m.rows \/ (Taken(m) = <<>> /\ m.chan # "book")
    BY <2>1 DEF Taken
  <2>5. CASE m.rows = <<>> /\ h[1] = h[0]
    BY <2>2, <2>4, <2>5
  <2>6. CASE /\ m.chan = "book"
             /\ \E r \in Told : /\ m.rows = <<r>> /\ r.type \in {"update", "heartbeat"}
                                /\ r.live = h[1] /\ h[1] = Makes(r, h[0])
    <3>1. Taken(m) = m.rows
      BY <2>4, <2>6
    <3> HIDE DEF Left
    <3> QED
      BY <2>3, <2>6, <3>1
  <2>7. CASE \E r \in Told : m.rows = <<r>> /\ r.type = "trade" /\ h[1] = h[0]
    <3> HIDE DEF Left
    <3> QED
      BY <2>2, <2>3, <2>4, <2>7
  <2> QED
    BY <2>1, <2>5, <2>6, <2>7 DEF Tells
<1> QED
  BY <1>6, <1>12, <1>13, <1>14

\* A message is handled (_handle).
LEMMA ReceiveTold == ASSUME CaptureInv, ExchangeInv, ToldInv, Receives PROVE ToldInv'
<1>1. PICK late \in BOOLEAN : Receive(Head(wire), late)
  BY DEF Receives
<1>2. /\ wire \in Seq(Messages) /\ wire # <<>> /\ live' = live /\ merged' = merged
      /\ pc' = "recv" => wire' = Tail(wire)
  BY DEF Receives, Unwatched, ExchangeInv
<1>3. pc = "recv"
  BY <1>1 DEF Receive
<1>4. PICK o, h : Underway(o, h, wire, live)
  BY <1>3 DEF ToldInv
<1>5. Faithful(Kept') /\ (pc' = "recv" => \E o2, h2 : Underway(o2, h2, wire, live)')
  BY <1>1, <1>2, <1>4, MessageComes
<1>6. /\ Captured(files') \in {Captured(files), Kept'} /\ Sessions'
  <2>1. Head(wire) \in Messages
    BY <1>2, HeadTailProperties
  <2> QED
    BY <1>1, <2>1, KeptMore
<1>7. Faithful(Captured(files)) /\ Faithful(ToSet(merged'))
  BY <1>2 DEF ToldInv
<1> QED
  BY <1>5, <1>6, <1>7 DEF ToldInv

\* A connection begins with a snapshot of the book.
LEMMA OpeningShows ==
    ASSUME ExchangeInv
    PROVE  \E rows \in Seq(Told) :
              Opening = <<Ack("book"), OnBook(rows)>> /\ Snapshot(ToSet(rows), live)
<1>1. live \in Books /\ DOMAIN live \subseteq L3Ids /\ \A id \in DOMAIN live : live[id] \in 1..MaxSize
  BY DEF ExchangeInv, Books
<1>2. PICK n \in Nat : n = Cardinality(DOMAIN live)
  BY OrdersListed DEF ExchangeInv
<1>3. PICK ids : /\ ids = SetToSeq(DOMAIN live) /\ ids \in [1..n -> DOMAIN live]
                 /\ \A id \in DOMAIN live : \E k \in 1..n : ids[k] = id
  BY <1>2, OrdersListed DEF ExchangeInv
<1>4. PICK rows : rows = [i \in 1..n |-> Row("snapshot", ids[i], live[ids[i]], live)]
  OBVIOUS
<1>5. Opening = <<Ack("book"), OnBook(rows)>>
  <2>1. DOMAIN ids = 1..n
    BY <1>3
  <2> QED
    BY <1>3, <1>4, <2>1 DEF Opening
<1>6. ASSUME NEW i \in 1..n
      PROVE  /\ rows[i] \in Told /\ rows[i].type = "snapshot" /\ rows[i].live = live
             /\ rows[i].id = ids[i] /\ rows[i].size = live[ids[i]] /\ ids[i] \in DOMAIN live
  <2>1. ids[i] \in DOMAIN live /\ ids[i] \in L3Ids /\ live[ids[i]] \in 0..MaxSize /\ live[ids[i]] # 0
    <3>1. ids[i] \in DOMAIN live
      BY <1>3
    <3>2. live[ids[i]] \in 1..MaxSize /\ ids[i] \in L3Ids
      BY <1>1, <3>1
    <3> QED
      BY <3>1, <3>2
  <2>2. rows[i] = Row("snapshot", ids[i], live[ids[i]], live)
    BY <1>4
  <2> QED
    BY <1>1, <2>1, <2>2 DEF Row, Told, Sound, Types
<1>7. rows \in Seq(Told) /\ ToSet(rows) = {rows[i] : i \in 1..n}
  <2>1. rows \in [1..n -> Told] /\ DOMAIN rows = 1..n
    BY <1>4, <1>6
  <2> QED
    BY <2>1, Listing DEF ToSet
<1>8. Snapshot(ToSet(rows), live)
  <2>1. \A r \in ToSet(rows) : /\ r.type = "snapshot" /\ r.live = live
                               /\ r.id \in DOMAIN live /\ r.size = live[r.id]
    BY <1>6, <1>7
  <2>2. ASSUME NEW id \in DOMAIN live PROVE \E r \in ToSet(rows) : r.id = id
    <3>1. PICK k \in 1..n : ids[k] = id
      BY <1>3
    <3> QED
      BY <1>6, <1>7, <3>1
  <2> QED
    BY <2>1, <2>2 DEF Snapshot
<1> QED
  BY <1>5, <1>7, <1>8

\* A connection is made: nothing of it is kept yet, and its snapshot is under way.
LEMMA ConnectTold == ASSUME CaptureInv, ExchangeInv, ToldInv, Connects PROVE ToldInv'
<1>1. /\ pc = "dial" /\ session' = session + 1 /\ UNCHANGED <<chans, files, buffer>>
      /\ pc' = IF stop THEN "exit" ELSE "recv"
      /\ wire' = IF stop THEN <<>> ELSE Opening
      /\ UNCHANGED <<live, merged>>
  BY DEF Connects, Connect, Unwatched, writerVars
<1>2. Kept' = Kept /\ Captured(files') = Captured(files) /\ ToSet(merged') = ToSet(merged)
  BY <1>1 DEF Kept
<1>3. session \in Int /\ \A r \in Kept : r.session \in Int
  BY KeptRows, RowNumbers
<1>4. \A r \in Kept : r.session <= session
  BY <1>1 DEF ToldInv, Sessions
<1>5. \A r \in Kept : r.session <= session' /\ r.session # session'
  BY <1>1, <1>3, <1>4
<1>6. Sessions'
  BY <1>2, <1>5 DEF Sessions
<1>7. ASSUME pc' = "recv" PROVE \E o, h : Underway(o, h, wire, live)'
  <2>1. PICK rows \in Seq(Told) :
           Opening = <<Ack("book"), OnBook(rows)>> /\ Snapshot(ToSet(rows), live)
    BY OpeningShows
  <2>2. PICK h : h = [i \in 0..2 |-> live]
    OBVIOUS
  <2>3. h[0] = live /\ h[1] = live /\ h[2] = live
    BY <2>2
  <2>4. wire' = <<Ack("book"), OnBook(rows)>>
    BY <1>1, <1>7, <2>1
  <2>5. /\ Len(wire') = 2 /\ wire'[1].rows = <<>> /\ "book" \in wire'[1].ack
        /\ wire'[2].chan = "book" /\ wire'[2].rows = rows
    BY <2>4 DEF Ack, OnBook
  <2>6. \A i \in 1..2 : ~(2 < i)
    OBVIOUS
  <2>7. Underway(2, h, wire, live)'
    BY <1>1, <1>2, <1>5, <2>1, <2>3, <2>5, <2>6 DEF Underway
  <2> QED
    BY <2>7
<1> QED
  BY <1>2, <1>6, <1>7 DEF ToldInv

\* One message more under way.
LEMMA MoreUnderway ==
    ASSUME NEW w \in Seq(Messages), NEW m \in Messages, NEW o, NEW h, NEW book, NEW next,
           Underway(o, h, w, book), Tells(m, book, next)
    PROVE  \E g : Underway(o, g, Append(w, m), next)
<1>1. PICK n \in Nat : n = Len(w)
  BY LenProperties
<1>2. PICK g : g = [i \in 0..(n + 1) |-> IF i <= n THEN h[i] ELSE next]
  OBVIOUS
<1>3. (\A i \in 0..n : g[i] = h[i]) /\ g[n + 1] = next
  BY <1>2
<1>4. PICK t : t = Append(w, m) /\ Len(t) = n + 1 /\ t[n + 1] = m /\ \A i \in 1..n : t[i] = w[i]
  <2>1. /\ Len(Append(w, m)) = n + 1 /\ Append(w, m)[n + 1] = m
        /\ \A i \in 1..n : Append(w, m)[i] = w[i]
    BY <1>1, AppendProperties
  <2> QED
    BY <2>1
<1>5. /\ o \in 0..2 /\ o <= n /\ h[n] = book
      /\ IF o = 2 THEN w[1].rows = <<>> /\ "book" \in w[1].ack ELSE "book" \in chans
      /\ o > 0 => /\ w[o].chan = "book" /\ Snapshot(ToSet(w[o].rows), h[o])
                  /\ \A r \in Kept : r.session # session
      /\ \A i \in 1..n : o < i => Tells(w[i], h[i - 1], h[i])
      /\ o = 0 => \A p \in Kept : LastTold(p, Kept, session) => p.live = h[0]
  BY <1>1 DEF Underway
<1>6. ASSUME NEW i \in 1..(n + 1), o < i PROVE Tells(t[i], g[i - 1], g[i])
  <2>1. CASE i \in 1..n
    <3>1. i - 1 \in 0..n /\ i \in 0..n
      BY <1>1, <2>1
    <3> QED
      BY <1>3, <1>4, <1>5, <1>6, <2>1, <3>1
  <2>2. CASE i = n + 1
    <3>1. i - 1 = n /\ n \in 0..n
      BY <1>1, <2>2
    <3>2. t[i] = m /\ g[i - 1] = book /\ g[i] = next
      BY <1>3, <1>4, <1>5, <2>2, <3>1
    <3> QED
      BY <3>2
  <2> QED
    BY <2>1, <2>2
<1>7. /\ o <= Len(t) /\ g[Len(t)] = next /\ g[0] = h[0]
      /\ o > 0 => o \in 1..n /\ o \in 0..n
      /\ o = 2 => 1 \in 1..n
  BY <1>1, <1>3, <1>4, <1>5
<1>8. o > 0 => t[o] = w[o] /\ g[o] = h[o]
  BY <1>3, <1>4, <1>7
<1>9. o = 2 => t[1] = w[1]
  BY <1>4, <1>7
<1>10. \A i \in 1..Len(t) : o < i => Tells(t[i], g[i - 1], g[i])
  BY <1>4, <1>6
<1>11. Underway(o, g, t, next)
  BY <1>5, <1>7, <1>8, <1>9, <1>10 DEF Underway
<1> QED
  BY <1>4, <1>11

\* Something happens at the exchange: what it sends tells it.
LEMMA SentTold ==
    ASSUME ToldInv, ExchangeInv, UNCHANGED <<listenerVars, merged>>,
           NEW one \in Messages, NEW two \in Messages, NEW book,
           Tells(one, live, book), Tells(two, book, live'),
           Send(<<one, two>>) \/ (Send(<<one>>) /\ live' = book)
    PROVE  ToldInv'
<1>1. /\ pc' = pc /\ chans' = chans /\ session' = session /\ clock' = clock
      /\ files' = files /\ buffer' = buffer /\ merged' = merged
  BY DEF listenerVars, writerVars
<1>2. CASE pc # "recv"
  BY <1>1, <1>2, KeptAlone
<1>3. CASE pc = "recv"
  <2>1. wire \in Seq(Messages)
    BY DEF ExchangeInv
  <2>2. PICK o, h : Underway(o, h, wire, live)
    BY <1>3 DEF ToldInv
  <2>3. PICK g : Underway(o, g, Append(wire, one), book)
    BY <2>1, <2>2, MoreUnderway
  <2>4. Append(wire, one) \in Seq(Messages)
    BY <2>1, AppendProperties
  <2>5. PICK f : Underway(o, f, Append(Append(wire, one), two), live')
    BY <2>3, <2>4, MoreUnderway
  <2>6. wire \o <<one>> = Append(wire, one)
    BY <2>1, AppendIsConcat
  <2>7. wire \o <<one, two>> = Append(Append(wire, one), two)
    <3>1. <<one>> \in Seq(Messages) /\ <<two>> \in Seq(Messages) /\ <<one>> \o <<two>> = <<one, two>>
      BY TicksMade
    <3>2. wire \o (<<one>> \o <<two>>) = (wire \o <<one>>) \o <<two>>
      BY <2>1, <3>1, ConcatAssociative
    <3>3. Append(Append(wire, one), two) = Append(wire, one) \o <<two>>
      BY <2>4, AppendIsConcat
    <3> QED
      BY <2>6, <3>1, <3>2, <3>3
  <2>8. \E e : Underway(o, e, wire', live')
    <3>1. CASE Send(<<one, two>>)
      BY <1>3, <2>5, <2>7, <3>1 DEF Send
    <3>2. CASE Send(<<one>>) /\ live' = book
      BY <1>3, <2>3, <2>6, <3>2 DEF Send
    <3> QED
      BY <3>1, <3>2
  <2>9. PICK e : Underway(o, e, wire', live')
    BY <2>8
  <2>10. Kept' = Kept /\ Captured(files') = Captured(files) /\ ToSet(merged') = ToSet(merged)
    BY <1>1 DEF Kept
  <2>11. Underway(o, e, wire, live)'
    BY <1>1, <2>9, <2>10 DEF Underway
  <2>12. Sessions'
    BY <1>1, <1>3, <2>10 DEF ToldInv, Sessions
  <2> QED
    BY <2>10, <2>11, <2>12 DEF ToldInv
<1> QED
  BY <1>2, <1>3

\* A change of the book, and its message.
LEMMA UpdateTells ==
    ASSUME NEW id \in L3Ids, NEW size \in 0..MaxSize, NEW p \in Books, NEW q \in Books,
           q = IF size = 0 THEN [i \in DOMAIN p \ {id} |-> p[i]]
               ELSE [i \in DOMAIN p \cup {id} |-> IF i = id THEN size ELSE p[i]]
    PROVE  Update(id, size, q) \in Messages /\ Tells(Update(id, size, q), p, q)
<1>1. PICK r \in Told : r = Row("update", id, size, q)
  BY RowTold DEF Types
<1>2. r.type = "update" /\ r.id = id /\ r.size = size /\ r.live = q
  BY <1>1 DEF Row
<1>3. Makes(r, p) = q
  BY <1>2 DEF Makes, Applied
<1>4. Update(id, size, q).chan = "book" /\ Update(id, size, q).rows = <<r>>
  BY <1>1 DEF Update, OnBook
<1>5. Update(id, size, q) \in Messages
  BY RowTold DEF Update, Types
<1> QED
  BY <1>2, <1>3, <1>4, <1>5 DEF Tells

\* A print, and its message.
LEMMA PrintTells ==
    ASSUME NEW id \in L3Ids, NEW size \in 0..MaxSize, NEW book \in Books, NEW p
    PROVE  Printed(id, size, book) \in Messages /\ Tells(Printed(id, size, book), p, p)
<1>1. PICK r \in Told : r = Row("trade", id, size, book)
  BY RowTold DEF Types
<1>2. r.type = "trade" /\ Printed(id, size, book).rows = <<r>>
  BY <1>1 DEF Row, Printed
<1>3. Printed(id, size, book) \in Messages
  BY RowTold DEF Types
<1> QED
  BY <1>2, <1>3 DEF Tells

\* One message is sent.
LEMMA OneSent ==
    ASSUME ToldInv, ExchangeInv, UNCHANGED <<listenerVars, merged>>,
           NEW m \in Messages, Tells(m, live, live'), Send(<<m>>)
    PROVE  ToldInv'
<1>1. PICK book : book = live'
  OBVIOUS
<1>2. Ack("book") \in Messages /\ Tells(Ack("book"), book, live')
  BY <1>1, Acknowledged DEF Channels, Tells, Ack
<1>3. PICK two \in Messages : Tells(two, book, live')
  BY <1>2
<1> QED
  BY <1>1, <1>3, SentTold

\* What happens at the exchange.
LEMMA HappensTold ==
    ASSUME CaptureAssumption, ToldInv, ExchangeInv, ExchangeInv',
           NEW id \in L3Ids, NEW size \in 1..MaxSize, NEW printFirst \in BOOLEAN,
           Place(id, size) \/ Cancel(id) \/ Fill(id, size, printFirst)
    PROVE  ToldInv'
<1>1. live \in Books /\ live' \in Books /\ MaxSize \in Nat /\ 0 \in 0..MaxSize /\ size \in 0..MaxSize
  BY DEF ExchangeInv, CaptureAssumption
<1>2. DOMAIN live \subseteq L3Ids /\ \A i \in DOMAIN live : live[i] \in 1..MaxSize
  BY <1>1 DEF Books
<1>3. PICK book : book = live'
  OBVIOUS
<1>4. CASE Place(id, size)
  <2>1. /\ live' = [i \in DOMAIN live \cup {id} |-> IF i = id THEN size ELSE live[i]]
        /\ Send(<<Update(id, size, live')>>) /\ UNCHANGED <<listenerVars, merged>>
    BY <1>4 DEF Place, Happens
  <2>2. size # 0
    OBVIOUS
  <2>3. Update(id, size, book) \in Messages /\ Tells(Update(id, size, book), live, book)
    BY <1>1, <1>3, <2>1, <2>2, UpdateTells
  <2>4. PICK m \in Messages : m = Update(id, size, book)
    BY <2>3
  <2> QED
    BY <1>3, <2>1, <2>3, <2>4, OneSent
<1>5. CASE Cancel(id)
  <2>1. /\ live' = [i \in DOMAIN live \ {id} |-> live[i]]
        /\ Send(<<Update(id, 0, live')>>) /\ UNCHANGED <<listenerVars, merged>>
    BY <1>5 DEF Cancel, Happens
  <2>2. Update(id, 0, book) \in Messages /\ Tells(Update(id, 0, book), live, book)
    BY <1>1, <1>3, <2>1, UpdateTells
  <2>3. PICK m \in Messages : m = Update(id, 0, book)
    BY <2>2
  <2> QED
    BY <1>3, <2>1, <2>2, <2>3, OneSent
<1>6. CASE Fill(id, size, printFirst)
  <2>1. /\ live' = IF size = live[id] THEN [i \in DOMAIN live \ {id} |-> live[i]]
                                      ELSE [live EXCEPT ![id] = @ - size]
        /\ id \in DOMAIN live /\ size <= live[id] /\ UNCHANGED <<listenerVars, merged>>
    BY <1>6 DEF Fill, Happens
  <2>2. PICK left : left = live[id] - size
    OBVIOUS
  <2>3. left \in 0..MaxSize /\ (left = 0 <=> size = live[id])
    <3>1. live[id] \in 1..MaxSize
      BY <1>2, <2>1
    <3> QED
      BY <1>1, <2>1, <2>2, <3>1
  <2>4. book = IF left = 0 THEN [i \in DOMAIN live \ {id} |-> live[i]]
               ELSE [i \in DOMAIN live \cup {id} |-> IF i = id THEN left ELSE live[i]]
    <3>1. CASE left = 0
      BY <1>3, <2>1, <2>3, <3>1
    <3>2. CASE left # 0
      <4>1. book = [live EXCEPT ![id] = left]
        BY <1>3, <2>1, <2>2, <2>3, <3>2
      <4>2. live = [i \in DOMAIN live |-> live[i]] /\ DOMAIN live \cup {id} = DOMAIN live
        BY <1>1, <2>1 DEF Books
      <4>3. book = [i \in DOMAIN live |-> IF i = id THEN left ELSE live[i]]
        BY <4>1, <4>2
      <4> QED
        BY <3>2, <4>2, <4>3
    <3> QED
      BY <3>1, <3>2
  <2>5. PICK change : change = Update(id, left, book)
    OBVIOUS
  <2>6. PICK print : print = Printed(id, size, book)
    OBVIOUS
  <2>7. change \in Messages /\ Tells(change, live, live')
    BY <1>1, <1>3, <2>3, <2>4, <2>5, UpdateTells
  <2>8. print \in Messages /\ \A p : Tells(print, p, p)
    BY <1>1, <1>3, <2>6, PrintTells
  <2>9. Send(IF printFirst THEN <<print, change>> ELSE <<change, print>>)
    BY <1>3, <1>6, <2>2, <2>5, <2>6 DEF Fill
  <2>10. CASE printFirst
    <3>1. PICK now : now = live
      OBVIOUS
    <3>2. Tells(print, live, now) /\ Tells(change, now, live') /\ Send(<<print, change>>)
      BY <2>7, <2>8, <2>9, <2>10, <3>1
    <3> QED
      BY <2>1, <2>7, <2>8, <3>2, SentTold
  <2>11. CASE ~printFirst
    <3>1. Tells(change, live, book) /\ Tells(print, book, live') /\ Send(<<change, print>>)
      BY <1>3, <2>7, <2>8, <2>9, <2>11
    <3> QED
      BY <2>1, <2>7, <2>8, <3>1, SentTold
  <2> QED
    BY <2>10, <2>11
<1> QED
  BY <1>4, <1>5, <1>6

\* A heartbeat, an acknowledgement: the book is as it was.
LEMMA QuietTold ==
    ASSUME CaptureAssumption, ToldInv, ExchangeInv, Heartbeat \/ AckTrades PROVE ToldInv'
<1>1. live \in Books /\ 0 \in 0..MaxSize
  BY DEF ExchangeInv, CaptureAssumption
<1>2. CASE Heartbeat
  <2>1. live' = live /\ Send(<<OnBook(<<Row("heartbeat", 0, 0, live)>>)>>) /\ UNCHANGED <<listenerVars, merged>>
    BY <1>2 DEF Heartbeat, Happens
  <2>2. PICK r \in Told : r = Row("heartbeat", 0, 0, live)
    BY <1>1 DEF Row, Told, Sound, Types
  <2>3. r.type = "heartbeat" /\ r.live = live /\ Makes(r, live) = live
    BY <2>2 DEF Row, Makes
  <2>4. PICK m \in Messages : m = OnBook(<<r>>)
    <3>1. <<r>> \in Seq(Told)
      OBVIOUS
    <3>2. OnBook(<<r>>) \in Messages
      BY <3>1 DEF OnBook, Messages, Channels
    <3> QED
      BY <3>2
  <2>5. m.chan = "book" /\ m.rows = <<r>>
    BY <2>4 DEF OnBook
  <2>6. Tells(m, live, live')
    BY <2>1, <2>3, <2>5 DEF Tells
  <2> QED
    BY <2>1, <2>2, <2>4, <2>6, OneSent
<1>3. CASE AckTrades
  <2>1. live' = live /\ Send(<<Ack("trades")>>) /\ UNCHANGED <<listenerVars, merged>>
    BY <1>3 DEF AckTrades
  <2>2. PICK m \in Messages : m = Ack("trades")
    BY Acknowledged DEF Channels
  <2>3. Tells(m, live, live')
    BY <2>1, <2>2 DEF Tells, Ack
  <2> QED
    BY <2>1, <2>2, <2>3, OneSent
<1> QED
  BY <1>2, <1>3

\* What is merged is what is in the files, and the buffer is empty then.
LEMMA MergeTold ==
    ASSUME CaptureInv, MergedInv, ToldInv, Merge
    PROVE  ToldInv'
<1>1. /\ UNCHANGED <<pc, session, clock, files, buffer, chans, wire, live>>
      /\ pc \in {"dial", "done"}
  BY DEF Merge, listenerVars, writerVars, exchangeVars
<1>2. ToSet(merged') = Captured(files)
  BY MergedAll
<1>3. Kept' = Kept /\ Captured(files') = Captured(files)
  BY <1>1 DEF Kept
<1>4. Sessions => Sessions'
  BY <1>1, <1>3 DEF Sessions
<1> QED
  BY <1>1, <1>2, <1>3, <1>4 DEF ToldInv

\* The replay forgets the capture.
LEMMA LoadTold == ASSUME Load PROVE ToldInv'
<1>1. pc' = "replay" /\ buffer' = <<>> /\ files' = NoFiles /\ merged' = <<>>
  BY DEF Load
<1>2. DOMAIN NoFiles = {}
  BY DEF NoFiles
<1>3. Captured(files') = {} /\ Kept' = {} /\ ToSet(merged') = {}
  BY <1>1, <1>2, NoRows DEF Captured, Kept
<1> QED
  BY <1>1, <1>3, NoneFaithful DEF ToldInv

\* Before anything is received.
LEMMA ToldInitially == ASSUME Init PROVE ToldInv
<1>1. pc = "start" /\ buffer = <<>> /\ files = NoFiles /\ merged = <<>>
  BY DEF Init, ListenerInit
<1>2. DOMAIN NoFiles = {}
  BY DEF NoFiles
<1>3. Captured(files) = {} /\ Kept = {} /\ ToSet(merged) = {}
  BY <1>1, <1>2, NoRows DEF Captured, Kept
<1> QED
  BY <1>1, <1>3, NoneFaithful DEF ToldInv, Sessions

\* Whatever happens, what is kept tells the book.
LEMMA ToldStep ==
    ASSUME CaptureAssumption, L3Inv, L3Inv', ToldInv, [Next]_vars
    PROVE  ToldInv'
<1>1. CaptureInv /\ MergedInv /\ ExchangeInv /\ ExchangeInv'
  BY DEF L3Inv
<1>2. ASSUME NEW id \in L3Ids, NEW size \in 1..MaxSize, NEW printFirst \in BOOLEAN,
             Place(id, size) \/ Fill(id, size, printFirst)
      PROVE  ToldInv'
  BY <1>1, <1>2, HappensTold
<1>3. ASSUME NEW id \in L3Ids, Cancel(id) PROVE ToldInv'
  <2>1. 1 \in 1..MaxSize /\ TRUE \in BOOLEAN
    BY DEF CaptureAssumption
  <2> QED
    BY <1>1, <1>3, <2>1, HappensTold
<1>4. CASE Heartbeat \/ AckTrades
  BY <1>1, <1>4, QuietTold
<1>5. CASE Connects
  BY <1>1, <1>5, ConnectTold
<1>6. CASE Receives
  BY <1>1, <1>6, ReceiveTold
<1>7. CASE Breaks
  <2>1. merged' = merged
    BY <1>7 DEF Breaks, Unwatched
  <2>2. CASE Lose
    <3>1. /\ UNCHANGED <<files, buffer, session, clock>> /\ pc' \in {"exit", "sleep"} /\ pc \in {"dial", "recv"}
      BY <2>2 DEF Lose, writerVars
    <3> QED
      BY <2>1, <3>1, KeptAlone
  <2>3. CASE Restart
    BY <2>1, <2>3, RestartTold
  <2> QED
    BY <1>7, <2>2, <2>3 DEF Breaks
<1>8. CASE Goes
  <2>1. merged' = merged /\ wire' = wire /\ live' = live
    BY <1>8 DEF Goes, Unwatched
  <2>2. CASE Dial
    BY <1>1, <2>1, <2>2, DialTold
  <2>3. CASE RequestStop
    <3>1. UNCHANGED <<pc, files, buffer, session, clock, chans>>
      BY <2>3 DEF RequestStop, writerVars
    <3> QED
      BY <2>1, <3>1, KeptAlone
  <2> QED
    BY <1>8, <2>2, <2>3 DEF Goes
<1>9. CASE Ends
  BY <1>1, <1>9, DialTold DEF Ends
<1>10. CASE Merge
  BY <1>1, <1>10, MergeTold
<1>11. CASE Load
  BY <1>11, LoadTold
<1>12. CASE Reads \/ UNCHANGED vars
  <2>1. UNCHANGED <<pc, files, buffer, session, clock, chans, wire, live, merged>>
    BY <1>12 DEF Reads, vars, listenerVars, writerVars, exchangeVars
  <2> QED
    BY <2>1, KeptAlone
<1> QED
  BY <1>2, <1>3, <1>4, <1>5, <1>6, <1>7, <1>8, <1>9, <1>10, <1>11, <1>12 DEF Next, Done

\* What is kept, merged and under way tells the book in every state.
LEMMA ToldHolds == Spec => []ToldInv
<1>1. Init => ToldInv
  BY ToldInitially
<1>2. CaptureAssumption /\ L3Inv /\ L3Inv' /\ ToldInv /\ [Next]_vars => ToldInv'
  BY ToldStep
<1> QED
  BY <1>1, <1>2, L3Holds, CaptureAssumption, PTL DEF Spec

\* What is replayed tells the book.
FrameTold == Faithful(ToSet(frame))

\* What is replayed is what the files held, or the merged one.
LEMMA FrameHolds == Spec => []FrameTold
<1>1. Init => FrameTold
  BY NoneFaithful, NoRows DEF Init, ReplayInit, FrameTold
<1>2. L3Inv /\ ToldInv /\ FrameTold /\ [Next]_vars => FrameTold'
  <2> SUFFICES ASSUME L3Inv, ToldInv, FrameTold, [Next]_vars PROVE FrameTold'
    OBVIOUS
  <2>1. CASE Load
    <3>1. ToSet(frame') = Captured(files) \/ ToSet(frame') = ToSet(merged)
      BY <2>1, RowsLoaded DEF L3Inv
    <3> QED
      BY <3>1 DEF ToldInv, FrameTold
  <2>2. CASE Reads
    BY <2>2 DEF Reads, Read, FrameTold
  <2>3. CASE ~Load /\ ~Reads
    BY <2>3, ReplayAlone DEF replayVars, FrameTold
  <2> QED
    BY <2>1, <2>2, <2>3
<1> QED
  BY <1>1, <1>2, L3Holds, ToldHolds, PTL DEF Spec

-----------------------------------------------------------------------------
(* What the replay makes of rows that tell the book                        *)

\* Where the rows of the book are, of the first n.
BookRows(s, n) == {i \in 1..n : s[i].type # "trade"}

\* Where the last snapshot is.
LastRun(s, n) ==
    {k \in BookRows(s, n) :
        /\ s[k].type = "snapshot"
        /\ \A i, j \in BookRows(s, n) :
              k < j /\ j < i /\ s[i].type = "snapshot" => s[j].type = "snapshot"}

\* It is all of the connection of the m-th row.
Alone(s, n, m) == {s[k].session : k \in LastRun(s, n)} = {s[m].session}

\* The book that the m-th row, the last of the book, tells: of a snapshot, the
\* orders that have come in.
Shown(s, n, m) ==
    IF s[m].type = "snapshot" THEN [id \in {s[k].id : k \in LastRun(s, n)} |-> s[m].live[id]]
                              ELSE s[m].live

\* The replay's book after n rows.
Replayed(s, n, type, book) ==
    /\ BookRows(s, n) = {} => type = "none" /\ book = Nothing
    /\ \A m \in BookRows(s, n) : (\A i \in BookRows(s, n) : i <= m) =>
          type = s[m].type /\ (Alone(s, n, m) => book = Shown(s, n, m))

\* Between two rows of a connection there is no row of another.
LEMMA Contiguous ==
    ASSUME NEW s \in Seq(Rows), InTime(s), Faithful(ToSet(s)),
           NEW i \in 1..Len(s), NEW j \in 1..Len(s), NEW k \in 1..Len(s),
           i < j, j < k, s[i].session = s[k].session
    PROVE  s[j].session = s[i].session /\ s[i].n < s[j].n /\ s[j].n < s[k].n
<1>1. /\ Earlier(s[i], s[j]) /\ Earlier(s[j], s[k])
      /\ s[i] \in Rows /\ s[j] \in Rows /\ s[k] \in Rows
      /\ s[i] \in ToSet(s) /\ s[j] \in ToSet(s) /\ s[k] \in ToSet(s)
  BY TimeOrder
<1>2. PICK p : p = s[i]
  OBVIOUS
<1>3. PICK q : q = s[j]
  OBVIOUS
<1>4. PICK r : r = s[k]
  OBVIOUS
<1>5. /\ p.ts \in Int /\ q.ts \in Int /\ r.ts \in Int /\ p.n \in Int /\ q.n \in Int /\ r.n \in Int
      /\ p.session \in Int /\ q.session \in Int /\ r.session \in Int
  BY <1>1, <1>2, <1>3, <1>4, RowNumbers
<1>6. p.ts = r.ts /\ p.session = r.session
  BY <1>1, <1>2, <1>4 DEF Faithful, OneTime
<1>7. p.n < q.n /\ q.n < r.n
  BY <1>1, <1>2, <1>3, <1>4, <1>5, <1>6 DEF Earlier
<1>8. (q.session < p.session => q.n < p.n) /\ (r.session < q.session => r.n < q.n)
  BY <1>1, <1>2, <1>3, <1>4 DEF Faithful, Successive
<1>9. q.session = p.session
  BY <1>5, <1>6, <1>7, <1>8
<1> QED
  BY <1>2, <1>3, <1>4, <1>7, <1>9

\* Of one connection the rows are as they were received.
LEMMA ReceivedSo ==
    ASSUME NEW s \in Seq(Rows), InTime(s), Faithful(ToSet(s)),
           NEW i \in 1..Len(s), NEW j \in 1..Len(s), s[i].session = s[j].session
    PROVE  i < j <=> s[i].n < s[j].n
<1>1. /\ i < j => Earlier(s[i], s[j])
      /\ j < i => Earlier(s[j], s[i])
      /\ s[i] \in Rows /\ s[j] \in Rows /\ s[i] \in ToSet(s) /\ s[j] \in ToSet(s)
  BY TimeOrder
<1>2. s[i].ts = s[j].ts
  BY <1>1 DEF Faithful, OneTime
<1>3. s[i].ts \in Int /\ s[i].n \in Int /\ s[j].n \in Int
  BY <1>1, RowNumbers
<1>4. (i < j => s[i].n < s[j].n) /\ (j < i => s[j].n < s[i].n)
  BY <1>1, <1>2, <1>3 DEF Earlier
<1>5. i < j \/ i = j \/ j < i
  OBVIOUS
<1> QED
  BY <1>3, <1>4, <1>5

\* The m-th row is the last of the book.
LastOf(m, s, n) == m \in BookRows(s, n) /\ \A i \in BookRows(s, n) : i <= m

\* A row of the book is the last, if there is one.
LEMMA LastExists ==
    ASSUME NEW s, NEW n \in Nat, BookRows(s, n) # {}
    PROVE  \E m \in 1..n : LastOf(m, s, n)
<1>1. BookRows(s, n) \subseteq 1..n /\ IsFiniteSet(1..n)
  BY FirstFew DEF BookRows
<1>2. IsFiniteSet(BookRows(s, n)) /\ BookRows(s, n) \subseteq Int
  BY <1>1, FS_Subset
<1>3. Max(BookRows(s, n)) \in BookRows(s, n) /\ \A i \in BookRows(s, n) : i <= Max(BookRows(s, n))
  BY <1>2, LeastAndGreatest
<1> QED
  BY <1>1, <1>3 DEF LastOf

\* What the last snapshot tells, once it is one connection's alone.
LEMMA RunTells ==
    ASSUME NEW s \in Seq(Rows), InTime(s), Faithful(ToSet(s)), NEW n \in 0..Len(s),
           NEW m, LastOf(m, s, n), s[m].type = "snapshot"
    PROVE  /\ m \in LastRun(s, n)
           /\ Alone(s, n, m) => \A k \in LastRun(s, n) :
                  /\ s[k].live = s[m].live
                  /\ s[k].id \in DOMAIN s[m].live /\ s[k].size = s[m].live[s[k].id]
<1>1. Len(s) \in Nat /\ BookRows(s, n) \subseteq 1..Len(s) /\ m \in 1..Len(s)
  <2>1. Len(s) \in Nat /\ \A i \in 1..n : i \in 1..Len(s)
    BY TimeOrder
  <2> QED
    BY <2>1 DEF BookRows, LastOf
<1>2. m \in LastRun(s, n)
  <2>1. \A i \in BookRows(s, n) : i <= m /\ i \in Int /\ m \in Int
    BY <1>1 DEF LastOf
  <2>2. \A j \in BookRows(s, n) : ~(m < j)
    BY <2>1
  <2> QED
    BY <2>2 DEF LastRun, LastOf
<1>3. ASSUME Alone(s, n, m), NEW k \in LastRun(s, n)
      PROVE  /\ s[k].live = s[m].live
             /\ s[k].id \in DOMAIN s[m].live /\ s[k].size = s[m].live[s[k].id]
  <2>1. /\ k \in 1..Len(s) /\ k <= m /\ s[k].session = s[m].session /\ s[k].type = "snapshot"
    BY <1>1, <1>3 DEF LastRun, LastOf, Alone
  <2>2. s[k] \in ToSet(s) /\ s[m] \in ToSet(s)
    BY <1>1, <2>1, TimeOrder
  <2>3. k = m \/ k < m
    BY <1>1, <2>1
  <2>4. CASE k < m
    <3>1. s[k].n < s[m].n
      BY <1>1, <2>1, <2>4, ReceivedSo
    <3>2. s[k].live = s[m].live
      BY <2>1, <2>2, <3>1 DEF Faithful, SnapshotFirst
    <3> QED
      BY <2>1, <2>2, <3>2 DEF Faithful, SnapshotWhole
  <2>5. CASE k = m
    BY <2>1, <2>2, <2>5 DEF Faithful, SnapshotWhole
  <2> QED
    BY <2>3, <2>4, <2>5
<1> QED
  BY <1>2, <1>3

\* When no more of it comes, the snapshot has told the book.
LEMMA RunComplete ==
    ASSUME NEW s \in Seq(Rows), InTime(s), Faithful(ToSet(s)), NEW n \in 0..Len(s),
           n = Len(s) \/ s[n + 1].type # "snapshot",
           NEW m, LastOf(m, s, n), s[m].type = "snapshot", Alone(s, n, m)
    PROVE  Shown(s, n, m) = s[m].live
<1>1. /\ Len(s) \in Nat /\ BookRows(s, n) \subseteq 1..n /\ m \in 1..n
      /\ \A i \in 1..n : i \in 1..Len(s)
      /\ \A i \in BookRows(s, n) : i <= m
  <2>1. Len(s) \in Nat /\ \A i \in 1..n : i \in 1..Len(s)
    BY TimeOrder
  <2> QED
    BY <2>1 DEF BookRows, LastOf
<1>2. m \in 1..Len(s) /\ s[m] \in Rows /\ s[m] \in ToSet(s)
  BY <1>1, TimeOrder
<1>3. ASSUME NEW k \in 1..Len(s), s[k].type = "snapshot", s[k].session = s[m].session
      PROVE  k \in LastRun(s, n)
  <2>1. s[k] \in ToSet(s)
    BY TimeOrder
  <2>2. k \in 1..n
    <3>1. ASSUME ~(k <= n) PROVE FALSE
      <4>1. n + 1 \in 1..Len(s) /\ m < n + 1 /\ n + 1 <= k /\ n # Len(s)
        BY <1>1, <3>1
      <4>2. n + 1 # k
        BY <1>3, <4>1
      <4>3. s[n + 1].session = s[m].session /\ s[n + 1].n < s[k].n
        BY <1>2, <1>3, <4>1, <4>2, Contiguous
      <4>4. s[n + 1] \in ToSet(s)
        BY <4>1, TimeOrder
      <4>5. s[n + 1].type = "snapshot"
        BY <1>3, <2>1, <4>3, <4>4 DEF Faithful, SnapshotFirst
      <4> QED
        BY <4>1, <4>5
    <3> QED
      BY <3>1
  <2>3. k \in BookRows(s, n)
    BY <1>3, <2>2 DEF BookRows
  <2>4. ASSUME NEW i \in BookRows(s, n), NEW j \in BookRows(s, n), k < j, j < i
        PROVE  s[j].type = "snapshot"
    <3>1. i \in 1..n /\ j \in 1..n /\ j \in 1..Len(s) /\ i <= m
      BY <1>1
    <3>2. j < m
      BY <1>1, <2>4, <3>1
    <3>3. s[j].session = s[m].session /\ s[j].n < s[m].n
      BY <1>2, <1>3, <2>4, <3>1, <3>2, Contiguous
    <3>4. s[j] \in ToSet(s)
      BY <3>1, TimeOrder
    <3> QED
      BY <1>2, <3>3, <3>4 DEF Faithful, SnapshotFirst
  <2> QED
    BY <1>3, <2>3, <2>4 DEF LastRun
<1>4. {s[k].id : k \in LastRun(s, n)} = DOMAIN s[m].live
  <2>1. \A k \in LastRun(s, n) : s[k].id \in DOMAIN s[m].live
    BY RunTells
  <2>2. ASSUME NEW id \in DOMAIN s[m].live PROVE \E k \in LastRun(s, n) : s[k].id = id
    <3>1. PICK p \in ToSet(s) : p.type = "snapshot" /\ p.session = s[m].session /\ p.id = id
      BY <1>2 DEF Faithful, SnapshotWhole
    <3>2. PICK k \in 1..Len(s) : p = s[k]
      BY TimeOrder
    <3> QED
      BY <1>3, <3>1, <3>2
  <2> QED
    BY <2>1, <2>2
<1>5. s[m].live = [id \in DOMAIN s[m].live |-> s[m].live[id]]
  BY <1>2 DEF Rows, Books
<1> QED
  BY <1>4, <1>5 DEF Shown

\* The first rows, and one more.
LEMMA MoreRows ==
    ASSUME NEW s, NEW n \in Nat
    PROVE  /\ \A i \in 1..n : i < n + 1
           /\ s[n + 1].type = "trade" => BookRows(s, n + 1) = BookRows(s, n)
           /\ s[n + 1].type # "trade" => /\ BookRows(s, n + 1) = BookRows(s, n) \cup {n + 1}
                                         /\ LastOf(n + 1, s, n + 1)
                                         /\ \A m : LastOf(m, s, n + 1) => m = n + 1
<1>1. 1..(n + 1) = 1..n \cup {n + 1} /\ n + 1 \in 1..(n + 1)
  OBVIOUS
<1>2. \A i \in 1..n : i < n + 1
  OBVIOUS
<1>3. s[n + 1].type = "trade" => BookRows(s, n + 1) = BookRows(s, n)
  BY <1>1 DEF BookRows
<1>4. ASSUME s[n + 1].type # "trade"
      PROVE  /\ BookRows(s, n + 1) = BookRows(s, n) \cup {n + 1}
             /\ LastOf(n + 1, s, n + 1)
             /\ \A m : LastOf(m, s, n + 1) => m = n + 1
  <2>1. BookRows(s, n + 1) = BookRows(s, n) \cup {n + 1}
    BY <1>1, <1>4 DEF BookRows
  <2>2. \A i \in BookRows(s, n + 1) : i \in 1..(n + 1) /\ i <= n + 1
    BY DEF BookRows
  <2>3. LastOf(n + 1, s, n + 1)
    BY <2>1, <2>2 DEF LastOf
  <2>4. ASSUME NEW m, LastOf(m, s, n + 1) PROVE m = n + 1
    <3>1. m \in 1..(n + 1) /\ n + 1 <= m
      BY <2>1, <2>2, <2>4 DEF LastOf
    <3> QED
      BY <3>1
  <2> QED
    BY <2>1, <2>3, <2>4
<1> QED
  BY <1>2, <1>3, <1>4

\* A change or a heartbeat leaves the last snapshot where it was.
LEMMA ChangeLeavesRun ==
    ASSUME NEW s, NEW n \in Nat, s[n + 1].type \in {"update", "heartbeat"}
    PROVE  LastRun(s, n + 1) = LastRun(s, n)
<1>1. /\ BookRows(s, n + 1) = BookRows(s, n) \cup {n + 1} /\ s[n + 1].type # "snapshot"
      /\ BookRows(s, n) \subseteq 1..n /\ \A i \in 1..n : i < n + 1 /\ ~(n + 1 < i)
  BY MoreRows DEF BookRows
<1>2. ASSUME NEW k \in LastRun(s, n + 1) PROVE k \in LastRun(s, n)
  BY <1>1 DEF LastRun
<1>3. ASSUME NEW k \in LastRun(s, n) PROVE k \in LastRun(s, n + 1)
  <2>1. k \in BookRows(s, n) /\ s[k].type = "snapshot"
    BY DEF LastRun
  <2>2. ASSUME NEW i \in BookRows(s, n + 1), NEW j \in BookRows(s, n + 1),
               k < j, j < i, s[i].type = "snapshot"
        PROVE  s[j].type = "snapshot"
    <3>1. i \in BookRows(s, n)
      BY <1>1, <2>2
    <3>2. j \in BookRows(s, n)
      BY <1>1, <2>2, <3>1
    <3> QED
      BY <2>2, <3>1, <3>2 DEF LastRun
  <2> QED
    BY <1>1, <2>1, <2>2 DEF LastRun
<1> QED
  BY <1>2, <1>3

\* A snapshot row begins the last snapshot anew unless the one before it in the
\* book is one too.
LEMMA SnapshotMakesRun ==
    ASSUME NEW s, NEW n \in Nat, s[n + 1].type = "snapshot"
    PROVE  /\ BookRows(s, n) = {} => LastRun(s, n + 1) = {n + 1}
           /\ \A m : LastOf(m, s, n) => LastRun(s, n + 1) =
                  IF s[m].type = "snapshot" THEN LastRun(s, n) \cup {n + 1} ELSE {n + 1}
<1>1. /\ BookRows(s, n + 1) = BookRows(s, n) \cup {n + 1}
      /\ BookRows(s, n) \subseteq 1..n /\ \A i \in 1..n : i < n + 1 /\ ~(n + 1 < i) /\ i \in Int
      /\ n + 1 \in Int /\ ~(n + 1 < n + 1)
  BY MoreRows DEF BookRows
<1>2. n + 1 \in LastRun(s, n + 1)
  BY <1>1 DEF LastRun
<1>3. BookRows(s, n) = {} => LastRun(s, n + 1) = {n + 1}
  BY <1>1, <1>2 DEF LastRun
<1>4. ASSUME NEW m, LastOf(m, s, n), s[m].type # "snapshot" PROVE LastRun(s, n + 1) = {n + 1}
  <2>1. ASSUME NEW k \in BookRows(s, n) PROVE k \notin LastRun(s, n + 1)
    <3>1. m \in BookRows(s, n) /\ k <= m /\ m \in 1..n /\ k \in 1..n
      BY <1>1, <1>4 DEF LastOf
    <3>2. CASE k = m
      BY <1>4, <3>2 DEF LastRun
    <3>3. CASE k < m
      BY <1>1, <1>4, <3>1, <3>3 DEF LastRun
    <3> QED
      BY <3>1, <3>2, <3>3
  <2> QED
    BY <1>1, <1>2, <2>1 DEF LastRun
<1>5. ASSUME NEW m, LastOf(m, s, n), s[m].type = "snapshot"
      PROVE  LastRun(s, n + 1) = LastRun(s, n) \cup {n + 1}
  <2>1. ASSUME NEW k \in LastRun(s, n + 1), k # n + 1 PROVE k \in LastRun(s, n)
    BY <1>1, <2>1 DEF LastRun
  <2>2. ASSUME NEW k \in LastRun(s, n) PROVE k \in LastRun(s, n + 1)
    <3>1. k \in BookRows(s, n) /\ s[k].type = "snapshot"
      BY DEF LastRun
    <3>2. ASSUME NEW i \in BookRows(s, n + 1), NEW j \in BookRows(s, n + 1),
                 k < j, j < i, s[i].type = "snapshot"
          PROVE  s[j].type = "snapshot"
      <4>1. CASE i \in BookRows(s, n)
        <5>1. j \in BookRows(s, n)
          BY <1>1, <3>2, <4>1
        <5> QED
          BY <3>2, <4>1, <5>1 DEF LastRun
      <4>2. CASE i = n + 1
        <5>1. j \in BookRows(s, n) /\ m \in BookRows(s, n) /\ j \in 1..n /\ m \in 1..n /\ j <= m
          BY <1>1, <1>5, <3>2, <4>2 DEF LastOf
        <5>2. j = m \/ j < m
          BY <5>1
        <5> QED
          BY <1>5, <3>2, <5>1, <5>2 DEF LastRun
      <4> QED
        BY <1>1, <4>1, <4>2
    <3> QED
      BY <1>1, <3>1, <3>2 DEF LastRun
  <2> QED
    BY <1>2, <2>1, <2>2
<1> QED
  BY <1>3, <1>4, <1>5

\* A change or a heartbeat of the connection whose snapshot came last takes the
\* replayed book to the book it tells.
LEMMA ChangeRead ==
    ASSUME NEW s \in Seq(Rows), InTime(s), Faithful(ToSet(s)), NEW n \in Nat, n + 1 \in 1..Len(s),
           NEW type, NEW book, Replayed(s, n, type, book),
           s[n + 1].type \in {"update", "heartbeat"}
    PROVE  Replayed(s, n + 1, s[n + 1].type, Makes(s[n + 1], book))
<1>1. /\ BookRows(s, n + 1) = BookRows(s, n) \cup {n + 1}
      /\ \A m : LastOf(m, s, n + 1) => m = n + 1
      /\ s[n + 1].type # "trade" /\ s[n + 1].type # "snapshot"
      /\ LastRun(s, n + 1) = LastRun(s, n)
  BY MoreRows, ChangeLeavesRun
<1>2. Len(s) \in Nat /\ n \in 0..Len(s) /\ \A i \in 1..n : i \in 1..Len(s) /\ i < n + 1
  BY TimeOrder
<1>3. ASSUME Alone(s, n + 1, n + 1) PROVE s[n + 1].live = Makes(s[n + 1], book)
  <2>1. PICK k \in LastRun(s, n) : s[k].session = s[n + 1].session
    BY <1>1, <1>3 DEF Alone
  <2>2. k \in BookRows(s, n) /\ k \in 1..n
    BY DEF LastRun, BookRows
  <2>3. PICK m \in 1..n : LastOf(m, s, n)
    BY <2>2, LastExists
  <2>4. k = m \/ k < m
    BY <2>2, <2>3 DEF LastOf
  <2>5. m \in 1..Len(s) /\ k \in 1..Len(s) /\ m < n + 1 /\ s[m].type # "trade"
    BY <1>2, <2>2, <2>3 DEF LastOf, BookRows
  <2>6. s[m].session = s[n + 1].session
    BY <2>1, <2>4, <2>5, Contiguous
  <2>7. s[m] \in ToSet(s) /\ s[n + 1] \in ToSet(s)
    BY <2>5, TimeOrder
  <2>8. Alone(s, n, m)
    BY <1>1, <1>3, <2>6 DEF Alone
  <2>9. book = Shown(s, n, m)
    BY <2>3, <2>8 DEF Replayed, LastOf
  <2>10. book = s[m].live
    <3>1. CASE s[m].type = "snapshot"
      BY <1>1, <1>2, <2>3, <2>8, <2>9, <3>1, RunComplete
    <3>2. CASE s[m].type # "snapshot"
      BY <2>9, <3>2 DEF Shown
    <3> QED
      BY <3>1, <3>2
  <2>11. ASSUME NEW r \in ToSet(s), r.session = s[m].session, s[m].n < r.n, r.n < s[n + 1].n
         PROVE  r.type = "trade"
    <3>1. PICK j \in 1..Len(s) : r = s[j]
      BY TimeOrder
    <3>2. m < j /\ j < n + 1
      BY <2>5, <2>6, <2>11, <3>1, ReceivedSo
    <3>3. j \in 1..n /\ ~(j <= m)
      BY <2>3, <3>1, <3>2
    <3>4. j \notin BookRows(s, n)
      BY <2>3, <3>3 DEF LastOf
    <3> QED
      BY <3>1, <3>3, <3>4 DEF BookRows
  <2>12. s[m].n < s[n + 1].n
    BY <2>5, <2>6, ReceivedSo
  <2>13. Neighbours(s[m], s[n + 1], ToSet(s))
    BY <2>5, <2>6, <2>11, <2>12 DEF Neighbours
  <2> QED
    BY <2>7, <2>10, <2>13 DEF Faithful, ChangesFollow
<1>4. Shown(s, n + 1, n + 1) = s[n + 1].live
  BY <1>1 DEF Shown
<1> QED
  BY <1>1, <1>3, <1>4 DEF Replayed, LastOf

\* A snapshot row adds its order to those of its snapshot.
LEMMA SnapshotRead ==
    ASSUME NEW s \in Seq(Rows), InTime(s), Faithful(ToSet(s)), NEW n \in Nat, n + 1 \in 1..Len(s),
           NEW type, NEW book, Replayed(s, n, type, book), s[n + 1].type = "snapshot"
    PROVE  Replayed(s, n + 1, "snapshot",
                    Applied(IF type \notin {"none", "snapshot"} THEN Nothing ELSE book, s[n + 1]))
<1> DEFINE q == s[n + 1]
           kept == IF type \notin {"none", "snapshot"} THEN Nothing ELSE book
<1>1. /\ BookRows(s, n + 1) = BookRows(s, n) \cup {n + 1}
      /\ LastOf(n + 1, s, n + 1) /\ \A m : LastOf(m, s, n + 1) => m = n + 1
  BY MoreRows
<1>2. /\ Len(s) \in Nat /\ n \in 0..Len(s) /\ n + 1 \in 0..Len(s)
      /\ \A i \in 1..n : i \in 1..Len(s) /\ i < n + 1
      /\ q \in Rows /\ q \in ToSet(s)
  BY TimeOrder
<1>3. q.size # 0 /\ q.id \in DOMAIN q.live /\ q.size = q.live[q.id]
  <2>1. q.size # 0
    BY <1>2 DEF Rows, Sound
  <2> QED
    BY <1>2, <2>1 DEF Faithful, SnapshotWhole
<1>4. Applied(kept, q) = [id \in DOMAIN kept \cup {q.id} |-> IF id = q.id THEN q.size ELSE kept[id]]
  BY <1>3 DEF Applied
<1>5. Shown(s, n + 1, n + 1) = [id \in {s[k].id : k \in LastRun(s, n + 1)} |-> q.live[id]]
  BY DEF Shown
<1>6. ASSUME kept = Nothing, LastRun(s, n + 1) = {n + 1}
      PROVE  Applied(kept, q) = Shown(s, n + 1, n + 1)
  <2>1. DOMAIN kept \cup {q.id} = {q.id}
    BY <1>6 DEF Nothing
  <2>2. {s[k].id : k \in LastRun(s, n + 1)} = {q.id}
    BY <1>6
  <2>3. Applied(kept, q) = [id \in {q.id} |-> q.live[id]]
    <3> HIDE DEF q, kept
    <3> QED
      BY <1>3, <1>4, <2>1
  <2> QED
    BY <1>5, <2>2, <2>3
<1>7. ASSUME Alone(s, n + 1, n + 1) PROVE Applied(kept, q) = Shown(s, n + 1, n + 1)
  <2>1. CASE BookRows(s, n) = {}
    <3>1. LastRun(s, n + 1) = {n + 1} /\ kept = Nothing
      BY <2>1, SnapshotMakesRun DEF Replayed
    <3> QED
      BY <1>6, <3>1
  <2>2. CASE BookRows(s, n) # {}
    <3>1. PICK m \in 1..n : LastOf(m, s, n)
      BY <2>2, LastExists
    <3>2. type = s[m].type /\ (Alone(s, n, m) => book = Shown(s, n, m)) /\ s[m].type \in Types \ {"trade"}
      <4>1. s[m] \in Rows
        BY <1>2, TimeOrder
      <4>2. s[m].type \in Types
        BY <4>1 DEF Rows
      <4> QED
        BY <3>1, <4>2 DEF Replayed, LastOf, BookRows
    <3>3. CASE s[m].type # "snapshot"
      <4>1. LastRun(s, n + 1) = {n + 1}
        BY <3>1, <3>3, SnapshotMakesRun
      <4>2. kept = Nothing
        BY <3>2, <3>3 DEF Types
      <4> QED
        BY <1>6, <4>1, <4>2
    <3>4. CASE s[m].type = "snapshot"
      <4>1. LastRun(s, n + 1) = LastRun(s, n) \cup {n + 1} /\ kept = book /\ m \in LastRun(s, n)
        BY <1>2, <3>1, <3>2, <3>4, SnapshotMakesRun, RunTells
      <4>2. \A k \in LastRun(s, n) : s[k].session = q.session
        BY <1>7, <4>1 DEF Alone
      <4>3. Alone(s, n, m)
        BY <4>1, <4>2 DEF Alone
      <4>4. book = [id \in {s[k].id : k \in LastRun(s, n)} |-> s[m].live[id]]
        BY <3>2, <3>4, <4>3 DEF Shown
      <4>5. q.live = s[m].live
        <5>1. m \in LastRun(s, n + 1)
          BY <4>1
        <5> QED
          BY <1>1, <1>2, <1>7, <5>1, RunTells
      <4>6. {s[k].id : k \in LastRun(s, n + 1)} = DOMAIN kept \cup {q.id}
        BY <4>1, <4>4
      <4> HIDE DEF q, kept
      <4>7. \A id \in DOMAIN kept \cup {q.id} : (IF id = q.id THEN q.size ELSE kept[id]) = q.live[id]
        BY <1>3, <4>1, <4>4, <4>5
      <4> QED
        BY <1>4, <1>5, <4>6, <4>7
    <3> QED
      BY <3>3, <3>4
  <2> QED
    BY <2>1, <2>2
<1> QED
  BY <1>1, <1>7 DEF Replayed, LastOf

\* A print changes neither the book nor what was last read of it.
LEMMA PrintRead ==
    ASSUME NEW s, NEW n \in Nat, NEW type, NEW book, Replayed(s, n, type, book), s[n + 1].type = "trade"
    PROVE  Replayed(s, n + 1, type, book)
<1>1. BookRows(s, n + 1) = BookRows(s, n)
  BY MoreRows
<1>2. LastRun(s, n + 1) = LastRun(s, n)
  BY <1>1 DEF LastRun
<1> QED
  BY <1>1, <1>2 DEF Replayed, Alone, Shown

\* The book of the replay, of what it has read, when no row is there twice.
BookInv == InTime(frame) => Replayed(frame, at, lastType, orders)

\* A row read.
LEMMA BookRead ==
    ASSUME CaptureAssumption, ReplayInv, FrameTold, BookInv, InTime(frame), Reads
    PROVE  BookInv'
<1> DEFINE r == frame[at + 1]
<1>1. /\ ReadTrade(r) \/ ReadSnapshot(r) \/ ReadHeartbeat(r) \/ ReadUpdate(r)
      /\ at' = at + 1 /\ frame' = frame /\ at < Len(frame)
  BY DEF Reads, Read
<1>2. /\ frame \in Seq(Rows) /\ InTime(frame) /\ Faithful(ToSet(frame))
      /\ at \in Nat /\ at + 1 \in 1..Len(frame)
  <2>1. frame \in Seq(Rows) /\ at \in 0..Len(frame) /\ Len(frame) \in Nat
    BY LenProperties DEF ReplayInv
  <2> QED
    BY <1>1, <2>1 DEF FrameTold
<1>3. Replayed(frame, at, lastType, orders)
  BY DEF BookInv
<1>4. Replayed(frame, at + 1, lastType', orders')
  <2>1. CASE ReadTrade(r)
    BY <1>2, <1>3, <2>1, PrintRead DEF ReadTrade
  <2>2. CASE ReadSnapshot(r)
    <3>1. /\ r.type = "snapshot" /\ lastType' = "snapshot"
          /\ orders' = Applied(IF lastType \notin {"none", "snapshot"} THEN Nothing ELSE orders, r)
      BY <2>2 DEF ReadSnapshot
    <3> QED
      BY <1>2, <1>3, <3>1, SnapshotRead
  <2>3. CASE ReadHeartbeat(r)
    <3>1. r.type = "heartbeat" /\ lastType' = "heartbeat" /\ orders' = Makes(r, orders)
      BY <2>3 DEF ReadHeartbeat, Makes
    <3> QED
      BY <1>2, <1>3, <3>1, ChangeRead
  <2>4. CASE ReadUpdate(r)
    <3>1. r.type = "update" /\ lastType' = "update" /\ orders' = Makes(r, orders)
      BY <2>4 DEF ReadUpdate, Makes
    <3> QED
      BY <1>2, <1>3, <3>1, ChangeRead
  <2> QED
    BY <1>1, <2>1, <2>2, <2>3, <2>4
<1> QED
  BY <1>1, <1>4 DEF BookInv

\* The replayed book is, in every state, what the rows read tell.
LEMMA BookHolds == Spec => []BookInv
<1>1. Init => BookInv
  <2> SUFFICES ASSUME Init PROVE BookInv
    OBVIOUS
  <2>1. at = 0 /\ lastType = "none" /\ orders = Nothing
    BY DEF Init, ReplayInit
  <2>2. BookRows(frame, at) = {}
    BY <2>1 DEF BookRows
  <2> QED
    BY <2>1, <2>2 DEF BookInv, Replayed
<1>2. CaptureAssumption /\ ReplayInv /\ FrameTold /\ BookInv /\ [Next]_vars => BookInv'
  <2> SUFFICES ASSUME CaptureAssumption, ReplayInv, FrameTold, BookInv, [Next]_vars PROVE BookInv'
    OBVIOUS
  <2>1. CASE Reads
    <3>1. frame' = frame
      BY <2>1 DEF Reads, Read
    <3>2. InTime(frame) => BookInv'
      BY <2>1, BookRead
    <3> QED
      BY <3>1, <3>2 DEF BookInv
  <2>2. CASE Load
    <3>1. at = 0 /\ UNCHANGED <<at, lastType, orders>> /\ frame = <<>>
      BY <2>2 DEF Load, ReplayInv
    <3>4. InTime(frame)
      <4>1. \A i : i \notin 1..0
        OBVIOUS
      <4> QED
        BY <3>1, <4>1, NoRows, TimeOrder
    <3>2. BookRows(frame, at) = {} /\ BookRows(frame', at) = {}
      BY <3>1 DEF BookRows
    <3>3. lastType = "none" /\ orders = Nothing
      BY <3>2, <3>4 DEF BookInv, Replayed
    <3> QED
      BY <3>1, <3>2, <3>3 DEF BookInv, Replayed
  <2>3. CASE ~Load /\ ~Reads
    BY <2>3, ReplayAlone DEF replayVars, BookInv
  <2> QED
    BY <2>1, <2>2, <2>3
<1>3. L3Inv => ReplayInv
  BY DEF L3Inv
<1> QED
  BY <1>1, <1>2, <1>3, L3Holds, FrameHolds, CaptureAssumption, PTL DEF Spec

\* The rows of the last snapshot of these rows of the book.
SnapshotOf(rows) ==
    LET others(i) == {j \in 1..i : rows[j].type # "snapshot"}
        last  == Max({0} \cup {i \in DOMAIN rows : rows[i].type = "snapshot"})
        first == Max({0} \cup others(last)) + 1
    IN  SubSeq(rows, first, last)

\* A row of it, and all after it up to another one.
InLast(j, rows) ==
    /\ j \in 1..Len(rows) /\ rows[j].type = "snapshot"
    /\ \A i, l \in 1..Len(rows) : j < l /\ l < i /\ rows[i].type = "snapshot" => rows[l].type = "snapshot"

\* They are the last that nothing but snapshot rows lies between.
LEMMA SnapshotOfRows ==
    ASSUME NEW rows \in Seq(Rows)
    PROVE  \A r : r \in ToSet(SnapshotOf(rows)) <=> \E j \in 1..Len(rows) : InLast(j, rows) /\ r = rows[j]
<1>1. /\ Len(rows) \in Nat /\ DOMAIN rows = 1..Len(rows) /\ IsFiniteSet(1..Len(rows))
      /\ \A j \in 1..Len(rows) : rows[j] \in Rows
  BY TimeOrder, FirstFew
<1> DEFINE S == {0} \cup {i \in DOMAIN rows : rows[i].type = "snapshot"}
<1>2. PICK last : last = Max(S)
  OBVIOUS
<1>3. last \in S /\ \A i \in S : i <= last
  <2>1. S \subseteq {0} \cup 1..Len(rows) /\ IsFiniteSet({0} \cup 1..Len(rows)) /\ 0 \in S
    BY <1>1, FS_Singleton, FS_Union
  <2>2. IsFiniteSet(S) /\ S \subseteq Int /\ S # {}
    BY <1>1, <2>1, FS_Subset
  <2> QED
    BY <1>2, <2>2, LeastAndGreatest
<1>4. last \in 0..Len(rows)
  BY <1>1, <1>3
<1> DEFINE O == {0} \cup {j \in 1..last : rows[j].type # "snapshot"}
<1>5. PICK gap : gap = Max(O)
  OBVIOUS
<1>6. gap \in O /\ \A i \in O : i <= gap
  <2>1. O \subseteq {0} \cup 1..last /\ IsFiniteSet({0} \cup 1..last) /\ 0 \in O
    <3>1. last \in Nat
      BY <1>4
    <3>2. IsFiniteSet(1..last) /\ IsFiniteSet({0})
      BY <3>1, FirstFew, FS_Singleton
    <3>3. IsFiniteSet({0} \cup 1..last)
      BY <3>2, FS_Union
    <3> QED
      BY <3>3
  <2>2. IsFiniteSet(O) /\ O \subseteq Int /\ O # {}
    BY <1>4, <2>1, FS_Subset
  <2> QED
    BY <1>5, <2>2, LeastAndGreatest
<1>7. gap \in 0..last
  BY <1>4, <1>6
<1>8. SnapshotOf(rows) = SubSeq(rows, gap + 1, last)
  BY <1>2, <1>5 DEF SnapshotOf
<1>9. \A i \in (gap + 1)..last : i \in 1..Len(rows) /\ rows[i] \in Rows
  BY <1>1, <1>4, <1>7
<1>10. PICK part : part = SubSeq(rows, gap + 1, last)
  OBVIOUS
<1>11. /\ part \in Seq(Rows) /\ Len(part) = last - gap
       /\ \A i \in 1..(last - gap) : part[i] = rows[gap + i]
  <2>1. gap + 1 \in Int /\ last \in Int
    BY <1>4, <1>7
  <2>2. /\ part \in Seq(Rows)
        /\ Len(part) = IF gap + 1 <= last THEN last - (gap + 1) + 1 ELSE 0
        /\ \A i \in 1..(last - (gap + 1) + 1) : part[i] = rows[gap + 1 + i - 1]
    BY <1>9, <1>10, <2>1, SubSeqProperties
  <2>3. last - (gap + 1) + 1 = last - gap /\ \A i \in 1..(last - gap) : gap + 1 + i - 1 = gap + i
    BY <1>4, <1>7
  <2>4. Len(part) = last - gap
    BY <1>4, <1>7, <2>2
  <2> QED
    BY <2>2, <2>3, <2>4
<1>12. ToSet(part) = {rows[j] : j \in (gap + 1)..last}
  <2>1. ToSet(part) = {part[i] : i \in 1..(last - gap)}
    BY <1>11, TimeOrder
  <2>2. \A i \in 1..(last - gap) : gap + i \in (gap + 1)..last
    BY <1>4, <1>7
  <2>3. \A j \in (gap + 1)..last : j - gap \in 1..(last - gap) /\ gap + (j - gap) = j
    BY <1>4, <1>7
  <2>4. \A i \in 1..(last - gap) : \E j \in (gap + 1)..last : part[i] = rows[j]
    BY <1>11, <2>2
  <2>5. \A j \in (gap + 1)..last : \E i \in 1..(last - gap) : part[i] = rows[j]
    BY <1>11, <2>3
  <2>6. \A r : (\E i \in 1..(last - gap) : r = part[i]) <=> \E j \in (gap + 1)..last : r = rows[j]
    BY ONLY <2>4, <2>5
  <2> QED
    BY ONLY <2>1, <2>6
<1>13. ASSUME NEW j \in (gap + 1)..last PROVE InLast(j, rows)
  <2>1. \A l \in (gap + 1)..last : rows[l].type = "snapshot"
    <3> TAKE l \in (gap + 1)..last
    <3>1. l \in 1..last /\ ~(l <= gap)
      BY <1>4, <1>7
    <3> QED
      BY <1>6, <3>1
  <2>2. ASSUME NEW i \in 1..Len(rows), NEW l \in 1..Len(rows), j < l, l < i, rows[i].type = "snapshot"
        PROVE  rows[l].type = "snapshot"
    <3>1. i <= last
      BY <1>1, <1>3, <2>2
    <3>2. l \in (gap + 1)..last
      BY <1>4, <1>7, <2>2, <3>1
    <3> QED
      BY <2>1, <3>2
  <2> QED
    BY <1>9, <2>1, <2>2 DEF InLast
<1>14. ASSUME NEW j, InLast(j, rows) PROVE j \in (gap + 1)..last
  <2>1. j \in 1..Len(rows) /\ rows[j].type = "snapshot" /\ j <= last
    BY <1>1, <1>3, <1>14 DEF InLast
  <2>2. ASSUME j <= gap PROVE FALSE
    <3>1. gap \in 1..last /\ rows[gap].type # "snapshot"
      BY <1>4, <1>6, <1>7, <2>1, <2>2
    <3>2. last \in 1..Len(rows) /\ rows[last].type = "snapshot" /\ gap # j /\ gap # last
      BY <1>3, <1>4, <2>1, <3>1
    <3>3. j < gap /\ gap < last /\ gap \in 1..Len(rows)
      BY <1>4, <1>7, <2>1, <2>2, <3>1, <3>2
    <3> QED
      BY <1>14, <3>1, <3>2, <3>3 DEF InLast
  <2> QED
    BY <1>4, <1>7, <2>1, <2>2
<1>15. ASSUME NEW r, r \in ToSet(SnapshotOf(rows))
       PROVE  \E j \in 1..Len(rows) : InLast(j, rows) /\ r = rows[j]
  <2>1. PICK j \in (gap + 1)..last : r = rows[j]
    BY <1>8, <1>10, <1>12, <1>15
  <2> QED
    BY <1>13, <2>1 DEF InLast
<1>16. ASSUME NEW j \in 1..Len(rows), InLast(j, rows) PROVE rows[j] \in ToSet(SnapshotOf(rows))
  BY <1>8, <1>10, <1>12, <1>14, <1>16
<1> QED
  BY <1>15, <1>16

\* Of the rows of the book among the first n, they are those where the last
\* snapshot is, and the last row is that of the last place.
LEMMA LastSnapshotAt ==
    ASSUME NEW s \in Seq(Rows), NEW n \in 0..Len(s), Picked(s, BookRows(s, n)) # <<>>
    PROVE  /\ ToSet(SnapshotOf(Picked(s, BookRows(s, n)))) = {s[k] : k \in LastRun(s, n)}
           /\ \E m : LastOf(m, s, n) /\ Last(Picked(s, BookRows(s, n))) = s[m]
<1>1. PICK W : W = BookRows(s, n)
  OBVIOUS
<1>2. PICK p : p = Picked(s, W)
  OBVIOUS
<1>3. PICK a : a = Ascending(W)
  OBVIOUS
<1>4. PICK c : c = Cardinality(W)
  OBVIOUS
<1>5. W \in SUBSET DOMAIN s /\ Len(s) \in Nat /\ W \subseteq 1..n /\ \A i \in 1..n : i \in Int
  <2>1. Len(s) \in Nat /\ DOMAIN s = 1..Len(s)
    BY TimeOrder
  <2> QED
    BY <1>1, <2>1 DEF BookRows
<1>6. /\ c \in Nat /\ p \in Seq(Rows) /\ Len(p) = c
      /\ a \in [1..c -> W] /\ \A i \in W : \E k \in 1..c : a[k] = i
      /\ \A k, l \in 1..c : k < l <=> a[k] < a[l]
      /\ \A k \in 1..c : p[k] = s[a[k]]
  BY <1>2, <1>3, <1>4, <1>5, PickedFrom
<1>7. c # 0
  BY <1>1, <1>2, <1>6, EmptySeq
<1>8. \A k \in 1..c : a[k] \in W
  BY <1>6
<1>9. LastOf(a[c], s, n) /\ Last(p) = s[a[c]]
  <2>1. c \in 1..c
    BY <1>6, <1>7
  <2>2. ASSUME NEW i \in W PROVE i <= a[c]
    <3>1. PICK k \in 1..c : a[k] = i
      BY <1>6
    <3>2. k = c \/ k < c
      BY <1>6, <3>1
    <3>3. a[k] = a[c] \/ a[k] < a[c]
      BY <1>6, <2>1, <3>1, <3>2
    <3>4. a[c] \in Int /\ i \in Int
      BY <1>5, <1>8, <2>1
    <3> QED
      BY <3>1, <3>3, <3>4
  <2>3. Last(p) = p[c]
    BY <1>6 DEF Last
  <2> QED
    BY <1>1, <1>6, <1>8, <2>1, <2>2, <2>3 DEF LastOf
<1>10. ASSUME NEW j \in 1..c PROVE InLast(j, p) <=> a[j] \in LastRun(s, n)
  <2>1. a[j] \in W /\ p[j] = s[a[j]]
    BY <1>6, <1>8
  <2>2. ASSUME InLast(j, p), NEW i \in W, NEW l \in W, a[j] < l, l < i, s[i].type = "snapshot"
        PROVE  s[l].type = "snapshot"
    <3>1. PICK x \in 1..c : a[x] = i
      BY <1>6
    <3>2. PICK y \in 1..c : a[y] = l
      BY <1>6
    <3>3. j < y /\ y < x /\ p[x] = s[i] /\ p[y] = s[l]
      BY <1>6, <2>2, <3>1, <3>2
    <3> QED
      BY <1>6, <2>2, <3>3 DEF InLast
  <2>3. ASSUME a[j] \in LastRun(s, n), NEW i \in 1..c, NEW l \in 1..c, j < l, l < i, p[i].type = "snapshot"
        PROVE  p[l].type = "snapshot"
    <3>1. a[j] < a[l] /\ a[l] < a[i] /\ p[i] = s[a[i]] /\ p[l] = s[a[l]] /\ a[i] \in W /\ a[l] \in W
      BY <1>6, <1>8, <2>3
    <3> QED
      BY <1>1, <2>3, <3>1 DEF LastRun
  <2>4. InLast(j, p) => a[j] \in LastRun(s, n)
    BY <1>1, <2>1, <2>2 DEF LastRun, InLast
  <2>5. a[j] \in LastRun(s, n) => InLast(j, p)
    BY <1>6, <2>1, <2>3 DEF LastRun, InLast
  <2> QED
    BY <2>4, <2>5
<1>11. \A r : r \in ToSet(SnapshotOf(p)) <=> \E j \in 1..c : InLast(j, p) /\ r = p[j]
  <2>1. \A r : r \in ToSet(SnapshotOf(p)) <=> \E j \in 1..Len(p) : InLast(j, p) /\ r = p[j]
    BY <1>6, SnapshotOfRows
  <2> QED
    BY <1>6, <2>1
<1>12. ASSUME NEW k \in LastRun(s, n) PROVE s[k] \in ToSet(SnapshotOf(p))
  <2>1. k \in W
    BY <1>1 DEF LastRun
  <2>2. PICK j \in 1..c : a[j] = k
    BY <1>6, <2>1
  <2> QED
    BY <1>6, <1>10, <1>11, <2>2
<1>13. ASSUME NEW r \in ToSet(SnapshotOf(p)) PROVE \E k \in LastRun(s, n) : r = s[k]
  <2>1. PICK j \in 1..c : InLast(j, p) /\ r = p[j]
    BY <1>11
  <2> QED
    BY <1>6, <1>10, <2>1
<1>14. ToSet(SnapshotOf(p)) = {s[k] : k \in LastRun(s, n)}
  BY <1>12, <1>13
<1> QED
  BY <1>1, <1>2, <1>9, <1>14

-----------------------------------------------------------------------------
(* Theorems                                                                *)

\* A file never holds rows of two connections: what waited is written before
\* the next is made (flush_on_reconnect, bitfinex_l3_listener.py).
THEOREM NoMixedEpochs == Spec => []EpochsApart
<1>1. L3Inv => EpochsApart
  <2> SUFFICES ASSUME FilesOK(files), NEW f \in DOMAIN files
               PROVE  Cardinality({files[f][i].session : i \in DOMAIN files[f]}) = 1
    BY DEF L3Inv, CaptureInv, WriterOK, EpochsApart
  <2> DEFINE s == files[f]
             S == {s[i].session : i \in DOMAIN s}
  <2>1. /\ s \in Seq(Rows) /\ s # <<>>
        /\ \A i, j \in 1..Len(s) : s[i].session = s[j].session
    BY DEF FilesOK, Batch
  <2>2. DOMAIN s = 1..Len(s) /\ Len(s) \in Nat /\ Len(s) # 0
    BY <2>1, LenProperties, EmptySeq
  <2>3. 1 \in DOMAIN s
    BY <2>2
  <2>4. S = {s[1].session}
    BY <2>1, <2>2, <2>3
  <2> HIDE DEF S
  <2>5. Cardinality(S) = 1
    BY <2>4, FS_Singleton
  <2> QED
    BY <2>5 DEF S
<1> QED
  BY <1>1, L3Holds, PTL

\* Displayed sizes, credits and ticks are as _LiveBook and replay_l3 promise,
\* and no file has a number that is still to be given.
THEOREM CaptureTypes == Spec => []TypeOK
<1>1. L3Inv => TypeOK
  <2> SUFFICES ASSUME CaptureInv, ReplayInv PROVE TypeOK
    BY DEF L3Inv
  <2>1. DOMAIN orders \subseteq L3Ids /\ \A id \in DOMAIN orders : orders[id] \in 1..MaxSize
    BY DEF ReplayInv, Books
  <2>2. \A p \in DOMAIN knownCancels : knownCancels[p] > 0
    <3>1. \A p \in DOMAIN knownCancels : knownCancels[p] \in Nat \ {0}
      BY DEF ReplayInv
    <3>2. \A x \in Nat \ {0} : x > 0
      OBVIOUS
    <3> QED
      BY <3>1, <3>2
  <2>3. /\ \A i \in DOMAIN emitted : DOMAIN emitted[i].bids # {} /\ DOMAIN emitted[i].asks # {}
        /\ Len(emitted) <= 2 /\ at \in 0..Len(frame)
        /\ lastType \in {"none", "snapshot", "update", "heartbeat"}
    <3>1. Len(emitted) \in 0..2
      BY DEF ReplayInv, TicksOK
    <3>2. \A x \in 0..2 : x <= 2
      OBVIOUS
    <3> QED
      BY <3>1, <3>2 DEF ReplayInv, TicksOK
  <2>4. DOMAIN files \subseteq [ts : Int, count : 0..(fileCount - 1)]
    <3>1. /\ fileCount \in Nat /\ DOMAIN files \subseteq [ts : Int, count : Nat]
          /\ \A f \in DOMAIN files : f.count < fileCount
      BY DEF CaptureInv, WriterOK, FilesOK
    <3>2. ASSUME NEW f \in DOMAIN files PROVE f \in [ts : Int, count : 0..(fileCount - 1)]
      <4>1. f \in [ts : Int, count : Nat] /\ f.count \in 0..(fileCount - 1)
        BY <3>1
      <4> QED
        BY <4>1
    <3> QED
      BY <3>2
  <2> QED
    BY <2>1, <2>2, <2>3, <2>4 DEF TypeOK
<1> QED
  BY <1>1, L3Holds, PTL

\* The numbers of rows are the numbers of what they hold.
LEMMA NumbersHeld ==
    ASSUME NEW s \in Seq(Rows)
    PROVE  ToSet(Numbers(s)) = {r.n : r \in ToSet(s)}
<1>1. DOMAIN Numbers(s) = DOMAIN s /\ \A i \in DOMAIN s : Numbers(s)[i] = s[i].n
  BY DEF Numbers
<1>2. ToSet(Numbers(s)) = {Numbers(s)[i] : i \in DOMAIN s} /\ ToSet(s) = {s[i] : i \in DOMAIN s}
  BY <1>1 DEF ToSet
<1> QED
  BY <1>1, <1>2

\* When the listener has stopped, however it was stopped, killed and cut off, a
\* replay of its directory reads every row it received but for those a killed
\* process had not written, in time and once each; twice those that merge_l3.py
\* wrote into that directory (l3_bitfinex.py 63-86, bitfinex_l3_listener.py).
THEOREM NothingElseLost == Spec => []CaptureComplete
<1>1. L3Inv => CaptureComplete
  <2> DEFINE read == Frame(files, Among)
  <2> SUFFICES ASSUME CaptureInv, MergedInv, pc = "done"
               PROVE  /\ ToSet(Numbers(read)) = (1..received) \ lost
                      /\ \A n \in ToSet(Numbers(read)) :
                            Times(read, n) = IF n \in ToSet(Numbers(Among)) THEN 2 ELSE 1
                      /\ Among = <<>> => InTime(read)
    BY DEF L3Inv, CaptureComplete
  <2>1. FilesOK(files) /\ buffer = <<>> /\ Held(files, buffer) = (1..received) \ lost
    BY DEF CaptureInv, WriterOK
  <2>2. Among \in Seq(Rows) /\ InTime(Among) /\ ToSet(Among) \subseteq Captured(files)
    BY AmongMerged
  <2>3. /\ read \in Seq(Rows) /\ ToSet(read) = Captured(files)
        /\ \A r \in Captured(files) : Times(read, r.n) = IF r \in ToSet(Among) THEN 2 ELSE 1
    BY <2>1, <2>2, FrameTwice
  <2>4. Among = <<>> => InTime(read)
    BY <2>1, FrameInTime
  <2> HIDE DEF read
  <2>5. ToSet(Numbers(read)) = {r.n : r \in Captured(files)}
    BY <2>3, NumbersHeld
  <2>6. Held(files, buffer) = {r.n : r \in Captured(files)}
    BY <2>1, NoRows DEF Held
  <2>7. ASSUME NEW n \in ToSet(Numbers(read))
        PROVE  Times(read, n) = IF n \in ToSet(Numbers(Among)) THEN 2 ELSE 1
    <3>1. PICK r \in Captured(files) : r.n = n
      BY <2>5
    <3>2. ToSet(Numbers(Among)) = {q.n : q \in ToSet(Among)}
      BY <2>2, NumbersHeld
    <3>3. n \in ToSet(Numbers(Among)) <=> r \in ToSet(Among)
      BY <2>1, <2>2, <3>1, <3>2, NumberedOnce
    <3> QED
      BY <2>3, <3>1, <3>3
  <2> QED
    BY <2>1, <2>4, <2>5, <2>6, <2>7
<1> QED
  BY <1>1, L3Holds, PTL

\* Merging while batches are written, again, or over its own output, yields what
\* a replay of the batches reads first (merge_l3.py 43-48).
THEOREM MergedReadsFirst == Spec => []MergedIsPrefix
<1>1. L3Inv => MergedIsPrefix
  <2> SUFFICES ASSUME CaptureInv, MergedInv PROVE MergedIsPrefix
    BY DEF L3Inv
  <2>1. FilesOK(files)
    BY DEF CaptureInv, WriterOK
  <2>2. /\ Frame(files, <<>>) \in Seq(Rows) /\ InTime(Frame(files, <<>>))
        /\ ToSet(Frame(files, <<>>)) = Captured(files)
    BY <2>1, FrameInTime
  <2>3. /\ merged \in Seq(Rows) /\ InTime(merged) /\ ToSet(merged) \subseteq Captured(files)
        /\ \A r \in Captured(files), q \in ToSet(merged) : r.n < q.n => r \in ToSet(merged)
    BY DEF MergedInv
  <2>4. InReceipt(Frame(files, <<>>)) => IsPrefix(merged, Frame(files, <<>>))
    BY <2>2, <2>3, FirstReceived
  <2> QED
    BY <2>3, <2>4 DEF MergedIsPrefix
<1> QED
  BY <1>1, L3Holds, PTL

\* A print is attached to one tick, in its order, or waits for the next.
THEOREM PrintsReachOneTick == Spec => []TradesOnce
<1>1. TradesInv => TradesOnce
  BY DEF TradesInv
<1> QED
  BY <1>1, TradesHold, PTL

\* No row is there twice, if the merged file is not among the batches.
FrameOnce == ~InPlace => \A i, j \in 1..Len(frame) : frame[i].n = frame[j].n => i = j

\* What is replayed is then the batches' rows or the merged ones, each once.
LEMMA FrameOnceHolds == Spec => []FrameOnce
<1>1. Init => FrameOnce
  <2> SUFFICES ASSUME Init PROVE FrameOnce
    OBVIOUS
  <2>1. Len(frame) = 0 /\ \A i : i \notin 1..0
    BY NoRows DEF Init, ReplayInit
  <2> QED
    BY <2>1 DEF FrameOnce
<1>2. L3Inv /\ FrameOnce /\ [Next]_vars => FrameOnce'
  <2> SUFFICES ASSUME L3Inv, FrameOnce, [Next]_vars PROVE FrameOnce'
    OBVIOUS
  <2>1. CASE Load
    <3>1. FilesOK(files) /\ CaptureInv /\ MergedInv
      BY DEF L3Inv, CaptureInv, WriterOK
    <3>2. merged \in Seq(Rows) /\ InTime(merged) /\ ToSet(merged) \subseteq Captured(files)
      BY <3>1 DEF MergedInv
    <3>3. Frame(NoFiles, merged) = merged
      BY <3>2, FrameAlone
    <3>4. ~InPlace => frame' = Frame(files, <<>>) \/ frame' = merged
      BY <2>1, <3>3 DEF Load, Among
    <3>5. ~InPlace => frame' \in Seq(Rows) /\ InTime(frame') /\ ToSet(frame') \subseteq Captured(files)
      BY <3>1, <3>2, <3>4, FrameInTime
    <3> DEFINE s == frame'
    <3>6. ASSUME s \in Seq(Rows), InTime(s), ToSet(s) \subseteq Captured(files)
          PROVE  \A i, j \in 1..Len(s) : s[i].n = s[j].n => i = j
      <4> HIDE DEF s
      <4> QED
        BY <3>1, <3>6, OncePerNumber
    <3> QED
      BY <3>5, <3>6 DEF FrameOnce
  <2>2. CASE Reads
    BY <2>2 DEF Reads, Read, FrameOnce
  <2>3. CASE ~Load /\ ~Reads
    BY <2>3, ReplayAlone DEF replayVars, FrameOnce
  <2> QED
    BY <2>1, <2>2, <2>3
<1> QED
  BY <1>1, <1>2, L3Holds, PTL DEF Spec

\* A tick holds "the prints that happened since the previous emitted tick"
\* (l3_bitfinex.py 14-16), so none that an earlier one held.
PrintsOnce == \A i, j \in DOMAIN delivered : delivered[i] = delivered[j] => i = j

\* No print is in two ticks as long as merge_l3.py writes into a directory of its
\* own: nothing is replayed twice then (l3_bitfinex.py 63-86).
THEOREM PrintsInOneTick == Spec => [](InPlace \/ PrintsOnce)
<1>1. ReplayInv /\ TradesInv /\ FrameOnce => InPlace \/ PrintsOnce
  <2> SUFFICES ASSUME ReplayInv, TradesInv, FrameOnce, ~InPlace,
                      NEW i \in DOMAIN delivered, NEW j \in DOMAIN delivered,
                      delivered[i] = delivered[j]
               PROVE  i = j
    BY DEF PrintsOnce
  <2> DEFINE W == {k \in 1..at : frame[k].type = "trade"}
             tb == Numbers(tradeBuffer)
             m == Cardinality(W)
             a == Ascending(W)
  <2>1. /\ frame \in Seq(Rows) /\ at \in 0..Len(frame) /\ Len(frame) \in Nat
        /\ DOMAIN frame = 1..Len(frame)
    BY LenProperties DEF ReplayInv
  <2>2. W \in SUBSET DOMAIN frame /\ Prints = Picked(frame, W)
    BY <2>1 DEF Prints
  <2> HIDE DEF W
  <2>3. /\ m \in Nat /\ DOMAIN Prints = 1..m /\ a \in [1..m -> W]
        /\ \A k, l \in 1..m : k < l <=> a[k] < a[l]
        /\ \A k \in 1..m : Prints[k] = frame[a[k]]
    BY <2>1, <2>2, PickedFrom
  <2>4. /\ delivered \in Seq(Nat) /\ tb \in Seq(Nat) /\ delivered \o tb = Numbers(Prints)
    BY Numbered DEF TradesInv, TradesOnce, ReplayInv
  <2>5. /\ \A k \in 1..Len(delivered) :
              k \in 1..Len(delivered \o tb) /\ (delivered \o tb)[k] = delivered[k]
        /\ DOMAIN delivered = 1..Len(delivered)
        /\ DOMAIN (delivered \o tb) = 1..Len(delivered \o tb)
    BY <2>4, Joined, LenProperties, ConcatProperties
  <2>6. DOMAIN Numbers(Prints) = 1..m /\ \A k \in 1..m : Numbers(Prints)[k] = frame[a[k]].n
    BY <2>3 DEF Numbers
  <2>7. i \in 1..m /\ j \in 1..m /\ frame[a[i]].n = frame[a[j]].n
    BY <2>4, <2>5, <2>6
  <2>8. a[i] \in 1..Len(frame) /\ a[j] \in 1..Len(frame)
    BY <2>1, <2>2, <2>3, <2>7
  <2>9. a[i] = a[j]
    BY <2>7, <2>8 DEF FrameOnce
  <2>10. ~(i < j) /\ ~(j < i)
    BY <2>1, <2>3, <2>7, <2>8, <2>9
  <2> QED
    BY <2>3, <2>7, <2>10
<1>2. L3Inv => ReplayInv
  BY DEF L3Inv
<1> QED
  BY <1>1, <1>2, L3Holds, TradesHold, FrameOnceHolds, PTL

\* A removal that follows the print that caused it adds nothing to what is
\* credited at its price, in the buffer and the ticks together.
LEMMA RemovalExplained ==
    ASSUME ReplayInv, TradesInv, Reads, RemovesFilled, NEW price
    PROVE  CreditsKept(price)
<1> DEFINE r       == frame[at + 1]
           book    == Applied(orders, r)
           trades  == IF FlushesSnapshot THEN <<>> ELSE tradeBuffer
           pending == IF FlushesSnapshot THEN Nothing ELSE knownCancels
           cancels == IF IsCancel(r) THEN Credit(pending, PriceOf[r.id], orders[r.id]) ELSE pending
           was == CreditAt(knownCancels, price)
<1>1. ReadUpdate(r)
  BY DEF RemovesFilled, Reads, Read, ReadTrade, ReadSnapshot, ReadHeartbeat
<1>2. /\ emitted' = SnapshotTick \o (IF Shows(book) THEN <<TickOf(book, trades, cancels)>> ELSE <<>>)
      /\ knownCancels' = IF Shows(book) THEN Nothing ELSE cancels
  BY <1>1 DEF ReadUpdate
<1>3. ~IsCancel(r)
  <2>1. /\ tradeBuffer \in Seq(Rows) /\ tradeBuffer # <<>>
        /\ tradeBuffer[Len(tradeBuffer)] = frame[at]
    BY DEF TradesInv, ReplayInv, RemovesFilled
  <2>2. Len(tradeBuffer) \in DOMAIN tradeBuffer
    <3>1. Len(tradeBuffer) \in Nat /\ Len(tradeBuffer) # 0 /\ DOMAIN tradeBuffer = 1..Len(tradeBuffer)
      BY <2>1, LenProperties, EmptySeq
    <3> QED
      BY <3>1
  <2>3. Explained(r.id, tradeBuffer)
    BY <2>1, <2>2 DEF Explained, RemovesFilled
  <2> QED
    BY <2>3 DEF IsCancel
<1>4. cancels = pending
  BY <1>3
<1>5. was \in Nat /\ CreditAt(Nothing, price) = 0
  <2>1. \A p \in DOMAIN knownCancels : knownCancels[p] \in Nat \ {0}
    BY DEF ReplayInv
  <2> QED
    BY <2>1 DEF CreditAt, Nothing
<1>6. \A b, t, c : TickOf(b, t, c).cancels = c
  BY DEF TickOf
<1> HIDE DEF book, trades, cancels, r
<1>7. CASE FlushesSnapshot /\ Shows(book)
  <2> DEFINE one == TickOf(orders, tradeBuffer, knownCancels)
             two == TickOf(book, trades, cancels)
  <2>1. emitted' = <<one, two>> /\ knownCancels' = Nothing /\ cancels = Nothing
    BY <1>2, <1>4, <1>7, TicksMade DEF SnapshotTick
  <2>2. one.cancels = knownCancels /\ two.cancels = Nothing
    BY <1>6, <2>1
  <2> HIDE DEF one, two
  <2>3. TickSays(<<one, two>>, 1, price) = was /\ TickSays(<<one, two>>, 2, price) = 0
    BY <1>5, <2>2, TicksMade DEF TickSays
  <2> HIDE DEF was
  <2>4. CreditAt(knownCancels', price) = 0 /\ TickSays(emitted', 1, price) = was /\ TickSays(emitted', 2, price) = 0
    BY <1>5, <2>1, <2>3
  <2> QED
    BY <1>5, <2>4 DEF was, CreditsKept
<1>8. CASE FlushesSnapshot /\ ~Shows(book)
  <2> DEFINE one == TickOf(orders, tradeBuffer, knownCancels)
  <2>1. emitted' = <<one>> /\ knownCancels' = Nothing
    BY <1>2, <1>4, <1>8, TicksMade DEF SnapshotTick
  <2>2. one.cancels = knownCancels
    BY <1>6
  <2> HIDE DEF one
  <2>3. TickSays(<<one>>, 1, price) = was /\ TickSays(<<one>>, 2, price) = 0
    BY <2>2, TicksMade DEF TickSays
  <2> HIDE DEF was
  <2>4. CreditAt(knownCancels', price) = 0 /\ TickSays(emitted', 1, price) = was /\ TickSays(emitted', 2, price) = 0
    BY <1>5, <2>1, <2>3
  <2> QED
    BY <1>5, <2>4 DEF was, CreditsKept
<1>9. CASE ~FlushesSnapshot /\ Shows(book)
  <2> DEFINE one == TickOf(book, trades, cancels)
  <2>1. emitted' = <<one>> /\ knownCancels' = Nothing /\ cancels = knownCancels
    BY <1>2, <1>4, <1>9, TicksMade DEF SnapshotTick
  <2>2. one.cancels = knownCancels
    BY <1>6, <2>1
  <2> HIDE DEF one
  <2>3. TickSays(<<one>>, 1, price) = was /\ TickSays(<<one>>, 2, price) = 0
    BY <2>2, TicksMade DEF TickSays
  <2> HIDE DEF was
  <2>4. CreditAt(knownCancels', price) = 0 /\ TickSays(emitted', 1, price) = was /\ TickSays(emitted', 2, price) = 0
    BY <1>5, <2>1, <2>3
  <2> QED
    BY <1>5, <2>4 DEF was, CreditsKept
<1>10. CASE ~FlushesSnapshot /\ ~Shows(book)
  <2>1. emitted' = <<>> /\ knownCancels' = knownCancels
    BY <1>2, <1>4, <1>10, TicksMade DEF SnapshotTick
  <2>2. TickSays(<<>>, 1, price) = 0 /\ TickSays(<<>>, 2, price) = 0
    BY TicksMade DEF TickSays
  <2>3. CreditAt(knownCancels', price) = was /\ TickSays(emitted', 1, price) = 0 /\ TickSays(emitted', 2, price) = 0
    BY <2>1, <2>2
  <2> HIDE DEF was
  <2> QED
    BY <1>5, <2>3 DEF was, CreditsKept
<1> QED
  BY <1>7, <1>8, <1>9, <1>10

\* A fill told as a print and a removal is never counted as a cancel as well
\* (_removal_explained_by_trade, l3_bitfinex.py).
THEOREM FilledOrCancelled == Spec => FillsNotCancels
<1> DEFINE Stay == \A id \in L3Ids : CreditsKept(PriceOf[id])
<1>1. L3Inv /\ TradesInv /\ [Next]_vars => (RemovesFilled => Stay)
  <2> SUFFICES ASSUME L3Inv, TradesInv, [Next]_vars, RemovesFilled PROVE Stay
    OBVIOUS
  <2>1. ReplayInv /\ at \in Nat
    <3>1. ReplayInv /\ at \in 0..Len(frame) /\ Len(frame) \in Nat
      BY LenProperties DEF L3Inv, ReplayInv
    <3> QED
      BY <3>1
  <2>2. at' # at
    BY <2>1 DEF RemovesFilled
  <2>3. Reads
    <3>1. ~Load
      BY <2>1, <2>2 DEF Load
    <3> QED
      BY <2>2, <3>1, ReplayAlone DEF replayVars
  <2> QED
    BY <2>1, <2>3, RemovalExplained
<1> QED
  BY <1>1, L3Holds, TradesHold, PTL DEF Spec, FillsNotCancels

\* The replayed book is the exchange's whenever the last snapshot is whole and
\* one connection's alone (_LiveBook and the loop of replay_l3, l3_bitfinex.py
\* 181-236): what the listener writes, in whatever files and with whatever killed
\* processes, tells the exchange's book from a snapshot on, and the loop over
\* the rows keeps the book they tell.  The premise on the clock is not needed, as
\* the rows of a connection are of one second and so stay together.
THEOREM ReplayedBookInStep == Spec => []BookInStep
<1>1. L3Inv /\ FrameTold /\ BookInv => BookInStep
  <2> SUFFICES ASSUME L3Inv, FrameTold, BookInv, InTime(frame), BookSeen # <<>>,
                      at = Len(frame) \/ frame[at + 1].type # "snapshot",
                      {r.session : r \in ToSet(LastSnapshot)} = {Last(BookSeen).session}
               PROVE  orders = Last(BookSeen).live
    BY DEF BookInStep, InStep
  <2>1. /\ frame \in Seq(Rows) /\ at \in 0..Len(frame) /\ Faithful(ToSet(frame))
    BY DEF L3Inv, ReplayInv, FrameTold
  <2>2. BookSeen = Picked(frame, BookRows(frame, at)) /\ LastSnapshot = SnapshotOf(BookSeen)
    BY DEF BookSeen, BookRows, LastSnapshot, SnapshotOf
  <2>3. PICK m : LastOf(m, frame, at) /\ Last(BookSeen) = frame[m]
    BY <2>1, <2>2, LastSnapshotAt
  <2>4. ToSet(LastSnapshot) = {frame[k] : k \in LastRun(frame, at)}
    BY <2>1, <2>2, LastSnapshotAt
  <2>5. Alone(frame, at, m)
    <3>1. {r.session : r \in ToSet(LastSnapshot)} = {frame[k].session : k \in LastRun(frame, at)}
      BY <2>4
    <3> QED
      BY <2>3, <3>1 DEF Alone
  <2>6. orders = Shown(frame, at, m)
    BY <2>3, <2>5 DEF BookInv, Replayed, LastOf
  <2>7. Shown(frame, at, m) = frame[m].live
    <3>1. CASE frame[m].type = "snapshot"
      BY <2>1, <2>3, <2>5, <3>1, RunComplete
    <3>2. CASE frame[m].type # "snapshot"
      BY <3>2 DEF Shown
    <3> QED
      BY <3>1, <3>2
  <2> QED
    BY <2>3, <2>6, <2>7
<1> QED
  BY <1>1, L3Holds, FrameHolds, BookHolds, PTL
=============================================================================
