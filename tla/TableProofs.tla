----------------------------- MODULE TableProofs -----------------------------
(***************************************************************************)
(* The properties of Tables, for any number of workers and connections,   *)
(* any names and rows, and any bounds.                                     *)
(*                                                                         *)
(* First what the two sorts of the offline messages return: StableSort,   *)
(* used with a strict weak order, is a permutation of its rows, in that   *)
(* order and stable, and the order of the query and the comparator of     *)
(* sortOfflineMessages are such orders.  StableSort puts every row where  *)
(* its rank says.  That this fills every place with one row rests on the  *)
(* pigeonhole principle: of two rows one is ahead of the other, and has   *)
(* the smaller rank (RanksDiffer).                                         *)
(*                                                                         *)
(* Then the inductive invariant TablesInv, which follows the creation of  *)
(* a group: it says of every worker what the connection it holds is in    *)
(* the middle of (Fits), so that in front of the commit the transaction   *)
(* holds the group and its creator and nothing else, or has been undone   *)
(* at the server.  That is a statement about one worker and one           *)
(* connection, and others do not disturb it, as nobody shares a           *)
(* connection (Exclusive).                                                 *)
(***************************************************************************)
EXTENDS Tables, FunctionTheorems, FiniteSetTheorems, SequenceTheorems, TLAPS

StrictWeakOrder(R, S) ==
    /\ \A p, q \in S : <<p, q>> \in R => <<q, p>> \notin R
    /\ \A p, q, r \in S : <<p, r>> \in R => <<p, q>> \in R \/ <<q, r>> \in R

\* Row i of s is to stand before row j.
Ahead(s, R, i, j) == \/ <<s[i], s[j]>> \in R
                     \/ i < j /\ <<s[j], s[i]>> \notin R

Rank(s, R, i) == Cardinality({j \in 1..Len(s) : Ahead(s, R, j, i)})

\* Of two rows one is ahead; and rows ahead of a row are ahead of what it is ahead of.
LEMMA AheadIsTotalOrder ==
    ASSUME NEW S, NEW s \in Seq(S), NEW R, StrictWeakOrder(R, S)
    PROVE  /\ \A i \in 1..Len(s) : ~Ahead(s, R, i, i)
           /\ \A i, j \in 1..Len(s) : i # j => (Ahead(s, R, i, j) <=> ~Ahead(s, R, j, i))
           /\ \A i, j, k \in 1..Len(s) :
                 Ahead(s, R, i, j) /\ Ahead(s, R, j, k) => Ahead(s, R, i, k)
  <1>1. \A i \in 1..Len(s) : s[i] \in S /\ i \in Int
    BY ElementOfSeq, LenProperties
  <1>2. \A i \in 1..Len(s) : ~Ahead(s, R, i, i)
    BY <1>1 DEF Ahead, StrictWeakOrder
  <1>3. \A i, j \in 1..Len(s) : i # j => (Ahead(s, R, i, j) <=> ~Ahead(s, R, j, i))
    <2> SUFFICES ASSUME NEW i \in 1..Len(s), NEW j \in 1..Len(s), i # j
                 PROVE  Ahead(s, R, i, j) <=> ~Ahead(s, R, j, i)
      OBVIOUS
    <2>1. i < j \/ j < i
      BY <1>1
    <2>2. ~(i < j /\ j < i)
      BY <1>1
    <2>3. ~(<<s[i], s[j]>> \in R /\ <<s[j], s[i]>> \in R)
      BY <1>1 DEF StrictWeakOrder
    <2> QED
      BY <2>1, <2>2, <2>3 DEF Ahead
  <1>4. ASSUME NEW i \in 1..Len(s), NEW j \in 1..Len(s), NEW k \in 1..Len(s),
               Ahead(s, R, i, j), Ahead(s, R, j, k)
        PROVE  Ahead(s, R, i, k)
    <2> DEFINE before(a, b) == <<s[a], s[b]>> \in R
    <2>1. \A a, b, c \in {i, j, k} : /\ before(a, b) => ~before(b, a)
                                     /\ before(a, c) => before(a, b) \/ before(b, c)
      BY <1>1 DEF StrictWeakOrder
    <2>2. i < j /\ j < k => i < k
      BY <1>1
    <2>3. /\ before(i, j) \/ (i < j /\ ~before(j, i))
          /\ before(j, k) \/ (j < k /\ ~before(k, j))
      BY <1>4 DEF Ahead
    <2> HIDE DEF before
    <2>4. before(i, k) \/ (i < k /\ ~before(k, i))
      BY <2>1, <2>2, <2>3
    <2> QED
      BY <2>4 DEF Ahead, before
  <1> QED
    BY <1>2, <1>3, <1>4

\* Ranks are places, and no two rows have the same; who is ahead has the smaller one.
LEMMA RanksDiffer ==
    ASSUME NEW S, NEW s \in Seq(S), NEW R, StrictWeakOrder(R, S)
    PROVE  /\ \A i \in 1..Len(s) : Rank(s, R, i) \in 0..Len(s) - 1
           /\ \A i, j \in 1..Len(s) : Ahead(s, R, i, j) <=> Rank(s, R, i) < Rank(s, R, j)
           /\ \A i, j \in 1..Len(s) : Rank(s, R, i) = Rank(s, R, j) => i = j
  <1> DEFINE n == Len(s)
             B(i) == {j \in 1..n : Ahead(s, R, j, i)}
  <1>1. n \in Nat /\ IsFiniteSet(1..n) /\ Cardinality(1..n) = n
    <2>1. n \in Nat
      BY LenProperties
    <2> QED
      BY <2>1, FS_Interval
  <1>2. \A i \in 1..n : B(i) \subseteq 1..n /\ i \notin B(i)
    BY AheadIsTotalOrder
  <1>3. \A i, j \in 1..n : Ahead(s, R, i, j) => B(i) \subseteq B(j) /\ i \in B(j)
    BY AheadIsTotalOrder
  <1>4. \A i \in 1..n : Rank(s, R, i) = Cardinality(B(i))
    BY DEF Rank
  <1> HIDE DEF n, B
  <1>5. \A i \in 1..n : /\ IsFiniteSet(B(i)) /\ Cardinality(B(i)) \in Nat
                        /\ Cardinality(B(i)) < n
    <2> SUFFICES ASSUME NEW i \in 1..n
                 PROVE  /\ IsFiniteSet(B(i)) /\ Cardinality(B(i)) \in Nat
                        /\ Cardinality(B(i)) < n
      OBVIOUS
    <2>1. B(i) \in SUBSET (1..n) /\ B(i) # 1..n
      BY <1>2
    <2>2. IsFiniteSet(B(i)) /\ Cardinality(B(i)) =< n /\ Cardinality(B(i)) # n
      BY <1>1, <2>1, FS_Subset
    <2>3. Cardinality(B(i)) \in Nat
      BY <2>2, FS_CardinalityType
    <2> QED
      BY <1>1, <2>2, <2>3
  <1>6. \A i, j \in 1..n : Ahead(s, R, i, j) => Cardinality(B(i)) < Cardinality(B(j))
    <2> SUFFICES ASSUME NEW i \in 1..n, NEW j \in 1..n, Ahead(s, R, i, j)
                 PROVE  Cardinality(B(i)) < Cardinality(B(j))
      OBVIOUS
    <2>1. B(i) \in SUBSET B(j) /\ B(i) # B(j)
      BY <1>2, <1>3
    <2>2. Cardinality(B(i)) =< Cardinality(B(j)) /\ Cardinality(B(i)) # Cardinality(B(j))
      BY <1>5, <2>1, FS_Subset
    <2> QED
      BY <1>5, <2>2
  <1>7. \A i, j \in 1..n : Ahead(s, R, i, j) \/ Ahead(s, R, j, i) \/ i = j
    BY AheadIsTotalOrder DEF n
  <1>8. \A i \in 1..n : Cardinality(B(i)) \in 0..n - 1
    BY <1>1, <1>5
  <1>9. \A i, j \in 1..n : Ahead(s, R, i, j) <=> Cardinality(B(i)) < Cardinality(B(j))
    BY <1>6, <1>7, <1>8
  <1>10. \A i, j \in 1..n : Cardinality(B(i)) = Cardinality(B(j)) => i = j
    BY <1>6, <1>7, <1>8
  <1> QED
    BY <1>4, <1>8, <1>9, <1>10 DEF n
-----------------------------------------------------------------------------
\* t is s in another order: place k has what stood at f[k], and no two rows swap
\* places unless R wants it.
SortedBy(t, s, R, f) ==
    /\ f \in Bijection(1..Len(s), 1..Len(s))
    /\ t = [k \in 1..Len(s) |-> s[f[k]]]
    /\ \A k, l \in 1..Len(s) : k < l => Ahead(s, R, f[k], f[l])

\* StableSort sorts, and is stable: it returns every row once, in the order of R, and
\* rows that R does not tell apart in the order they came.
THEOREM StableSortSorts ==
    ASSUME NEW S, NEW s \in Seq(S), NEW R, StrictWeakOrder(R, S)
    PROVE  \E f : SortedBy(StableSort(s, R), s, R, f)
  <1> DEFINE n == Len(s)
             rank == [i \in 1..n |-> Rank(s, R, i)]
             f == [k \in 1..n |-> CHOOSE i \in 1..n : Rank(s, R, i) = k - 1]
  <1>1. n \in Nat /\ IsFiniteSet(0..n - 1) /\ Cardinality(0..n - 1) = n
                  /\ IsFiniteSet(1..n) /\ Cardinality(1..n) = n
    <2>1. n \in Nat
      BY LenProperties
    <2>2. \A a, b \in Int : /\ IsFiniteSet(a..b)
                            /\ Cardinality(a..b) = IF a > b THEN 0 ELSE b - a + 1
      BY FS_Interval
    <2>3. IsFiniteSet(0..n - 1) /\ Cardinality(0..n - 1) = n
      <3>1. n - 1 \in Int
        BY <2>1
      <3> DEFINE m == n - 1
      <3> HIDE DEF m
      <3>2. IsFiniteSet(0..m) /\ Cardinality(0..m) = IF 0 > m THEN 0 ELSE m + 1
        BY <2>2, <3>1 DEF m
      <3>3. Cardinality(0..m) = n
        BY <2>1, <3>2 DEF m
      <3> QED
        BY <3>2, <3>3 DEF m
    <2>4. IsFiniteSet(1..n) /\ Cardinality(1..n) = n
      BY <2>1, <2>2
    <2> QED
      BY <2>1, <2>3, <2>4
  <1>2. StableSort(s, R) = [k \in 1..n |-> s[f[k]]]
    BY DEF StableSort, Rank, Ahead
  <1>3. /\ rank \in [1..n -> 0..n - 1]
        /\ \A i, j \in 1..n : rank[i] = rank[j] => i = j
    BY RanksDiffer
  <1>4. \A i \in 1..n : Rank(s, R, i) = rank[i]
    OBVIOUS
  <1> HIDE DEF n, rank
  <1>5. rank \in Injection(1..n, 0..n - 1)
    BY <1>3, Fun_IsInj
  <1>6. rank \in Surjection(1..n, 0..n - 1)
    BY <1>1, <1>5, FS_Injection
  <1>7. \A m \in 0..n - 1 : \E i \in 1..n : rank[i] = m
    BY <1>6 DEF Surjection
  <1>8. \A k \in 1..n : f[k] \in 1..n /\ rank[f[k]] = k - 1
    <2> SUFFICES ASSUME NEW k \in 1..n PROVE f[k] \in 1..n /\ rank[f[k]] = k - 1
      OBVIOUS
    <2>1. \E i \in 1..n : Rank(s, R, i) = k - 1
      <3>1. k - 1 \in 0..n - 1
        BY <1>1
      <3> QED
        BY <1>4, <1>7, <3>1
    <2>2. f[k] \in 1..n /\ Rank(s, R, f[k]) = k - 1
      BY <2>1
    <2> QED
      BY <1>4, <2>2
  <1>9. f \in [1..n -> 1..n]
    BY <1>8
  <1> HIDE DEF f
  <1>10. \A k, l \in 1..n : f[k] = f[l] => k = l
    <2> SUFFICES ASSUME NEW k \in 1..n, NEW l \in 1..n, f[k] = f[l] PROVE k = l
      OBVIOUS
    <2>1. k - 1 = l - 1
      BY <1>8
    <2> QED
      BY <2>1
  <1>11. \A i \in 1..n : \E k \in 1..n : f[k] = i
    <2> SUFFICES ASSUME NEW i \in 1..n PROVE \E k \in 1..n : f[k] = i
      OBVIOUS
    <2>1. rank[i] + 1 \in 1..n /\ rank[f[rank[i] + 1]] = rank[i] /\ f[rank[i] + 1] \in 1..n
      BY <1>1, <1>3, <1>8
    <2> QED
      BY <1>3, <2>1
  <1>12. f \in Bijection(1..n, 1..n)
    BY <1>9, <1>10, <1>11, Fun_IsBij
  <1>13. \A k, l \in 1..n : k < l => Ahead(s, R, f[k], f[l])
    <2> SUFFICES ASSUME NEW k \in 1..n, NEW l \in 1..n, k < l PROVE Ahead(s, R, f[k], f[l])
      OBVIOUS
    <2>1. rank[f[k]] < rank[f[l]] /\ f[k] \in 1..n /\ f[l] \in 1..n
      BY <1>8
    <2> QED
      BY <1>4, <2>1, RanksDiffer DEF n
  <1> QED
    BY <1>2, <1>12, <1>13 DEF SortedBy, n

\* What the places of a sorted sequence say of its rows: none is lost or made up,
\* and none that is to come before another comes after it.
LEMMA SortedRows ==
    ASSUME NEW S, NEW s \in Seq(S), NEW R, StrictWeakOrder(R, S)
    PROVE  LET t == StableSort(s, R)
           IN  /\ t \in Seq(S) /\ Len(t) = Len(s)
               /\ \A k \in 1..Len(t) : \E i \in 1..Len(s) : t[k] = s[i]
               /\ \A i \in 1..Len(s) : \E k \in 1..Len(t) : t[k] = s[i]
               /\ \A k, l \in 1..Len(t) : k < l => <<t[l], t[k]>> \notin R
  <1> DEFINE t == StableSort(s, R)
             n == Len(s)
  <1>1. PICK f : SortedBy(t, s, R, f)
    BY StableSortSorts
  <1> HIDE DEF t
  <1>2. n \in Nat /\ \A i \in 1..n : s[i] \in S
    BY LenProperties, ElementOfSeq
  <1>3. /\ f \in [1..n -> 1..n]
        /\ \A i \in 1..n : \E k \in 1..n : f[k] = i
        /\ t = [k \in 1..n |-> s[f[k]]]
    BY <1>1 DEF SortedBy, Bijection, Injection, Surjection
  <1>4. \A k \in 1..n : s[f[k]] \in S
    BY <1>2, <1>3
  <1>5. t \in Seq(S) /\ Len(t) = n
    BY <1>2, <1>3, <1>4, IsASeq
  <1>6. \A k, l \in 1..n : k < l => <<t[l], t[k]>> \notin R
    <2> SUFFICES ASSUME NEW k \in 1..n, NEW l \in 1..n, k < l PROVE <<t[l], t[k]>> \notin R
      OBVIOUS
    <2>1. Ahead(s, R, f[k], f[l]) /\ t[k] = s[f[k]] /\ t[l] = s[f[l]]
      BY <1>1, <1>3 DEF SortedBy
    <2>2. s[f[k]] \in S /\ s[f[l]] \in S
      BY <1>4
    <2> QED
      BY <2>1, <2>2 DEF Ahead, StrictWeakOrder
  <1>7. \A k \in 1..n : \E i \in 1..n : t[k] = s[i]
    BY <1>3
  <1>8. \A i \in 1..n : \E k \in 1..n : t[k] = s[i]
    BY <1>3
  <1> QED
    BY <1>5, <1>6, <1>7, <1>8 DEF t
-----------------------------------------------------------------------------
Rows == 1..Len(Payloads)

\* The order of the query: the collation may not tell two conversations apart.
LEMMA SqlOrderIsWeak ==
    ASSUME NEW A \in SUBSET Rows
    PROVE  StrictWeakOrder({pq \in A \X A : SqlBefore(pq[1], pq[2])}, A)
  <1> DEFINE R == {pq \in A \X A : SqlBefore(pq[1], pq[2])}
  <1>1. \A p \in A : Columns(p).conv \in Int /\ Columns(p).seq \in Int
    <2> SUFFICES ASSUME NEW p \in A PROVE Columns(p).conv \in Int /\ Columns(p).seq \in Int
      OBVIOUS
    <2>1. Payloads[p] \in [conv: Nat, seq: Nat, numbered: BOOLEAN, long: BOOLEAN]
      BY ConstantsAssumption, ElementOfSeq DEF Rows
    <2>2. Collation[Payloads[p].conv] \in Nat
      BY ConstantsAssumption DEF Rows
    <2> QED
      BY <2>1, <2>2 DEF Columns
  <1>2. \A p, q \in A : <<p, q>> \in R
           <=> \/ Columns(p).conv < Columns(q).conv
               \/ Columns(p).conv = Columns(q).conv /\ Columns(p).seq < Columns(q).seq
    BY DEF SqlBefore
  <1> HIDE DEF R
  <1>3. \A p, q \in A : <<p, q>> \in R => <<q, p>> \notin R
    BY <1>1, <1>2
  <1>4. \A p, q, r \in A : <<p, r>> \in R => <<p, q>> \in R \/ <<q, r>> \in R
    BY <1>1, <1>2
  <1> QED
    BY <1>3, <1>4 DEF R, StrictWeakOrder

\* The comparator given to std::stable_sort is one it may be given.
LEMMA ListedOrderIsWeak ==
    ASSUME NEW A \in SUBSET Rows
    PROVE  StrictWeakOrder({pq \in A \X A : ListedBefore(pq[1], pq[2])}, A)
  <1> DEFINE R == {pq \in A \X A : ListedBefore(pq[1], pq[2])}
             num(p) == Payloads[p].numbered
             c(p) == Payloads[p].conv
             q(p) == Payloads[p].seq
  <1>1. \A p \in A : c(p) \in Int /\ q(p) \in Int
    <2>1. \A p \in A :
             Payloads[p] \in [conv: Nat, seq: Nat, numbered: BOOLEAN, long: BOOLEAN]
      BY ConstantsAssumption, ElementOfSeq DEF Rows
    <2> QED
      BY <2>1
  <1>2. \A a, b \in A : <<a, b>> \in R
           <=> num(a) /\ (num(b) => (c(a) < c(b) \/ (c(a) = c(b) /\ q(a) < q(b))))
    BY DEF ListedBefore
  <1> HIDE DEF R, num, c, q
  <1>3. \A a, b \in A : <<a, b>> \in R => <<b, a>> \notin R
    BY <1>1, <1>2
  <1>4. \A a, b, d \in A : <<a, d>> \in R => <<a, b>> \in R \/ <<b, d>> \in R
    BY <1>1, <1>2
  <1> QED
    BY <1>3, <1>4 DEF R, StrictWeakOrder

\* A fetch is cut short at the first row that is too long, if there is one.
LEMMA FetchIsPrefix ==
    ASSUME NEW S, NEW s \in Seq(S)
    PROVE  /\ Fetch(s) \in Seq(S) /\ Len(Fetch(s)) =< Len(s)
           /\ \A i \in 1..Len(Fetch(s)) : Fetch(s)[i] = s[i]
           /\ Len(Fetch(s)) < Len(s) => Payloads[s[Len(Fetch(s)) + 1]].long
  <1> DEFINE cut == {i \in 1..Len(s) : Payloads[s[i]].long}
  <1>1. Len(s) \in Nat /\ \A i \in 1..Len(s) : s[i] \in S
    BY LenProperties, ElementOfSeq
  <1>2. CASE cut = {}
    BY <1>1, <1>2 DEF Fetch
  <1>3. CASE cut # {}
    <2> DEFINE first == CHOOSE i \in cut : \A j \in cut : i =< j
    <2>1. cut \subseteq Nat
      BY <1>1
    <2> HIDE DEF cut
    <2>2. PICK x \in cut : \A y \in cut : ~(<<y, x>> \in OpToRel(<, Nat))
      BY <1>3, <2>1, NatLessThanWellFounded, WFMin, Zenon
    <2>3. \A y \in cut : x =< y
      <3> SUFFICES ASSUME NEW y \in cut PROVE x =< y
        OBVIOUS
      <3>1. <<y, x>> \notin {ss \in Nat \X Nat : ss[1] < ss[2]}
        BY <2>2 DEF OpToRel
      <3> QED
        BY <2>1, <3>1
    <2>4. first \in cut
      BY <2>3
    <2>5. Fetch(s) = SubSeq(s, 1, first - 1)
      BY <1>3 DEF Fetch, cut
    <2> HIDE DEF first
    <2>6. first \in 1..Len(s) /\ Payloads[s[first]].long
      BY <2>4 DEF cut
    <2>7. /\ Fetch(s) \in Seq(S) /\ Len(Fetch(s)) = first - 1
          /\ \A i \in 1..first - 1 : Fetch(s)[i] = s[i]
      <3>1. \A i \in 1..first - 1 : s[i] \in S
        BY <1>1, <2>6
      <3>2. /\ SubSeq(s, 1, first - 1) \in Seq(S)
            /\ Len(SubSeq(s, 1, first - 1))
                  = IF 1 <= first - 1 THEN first - 1 - 1 + 1 ELSE 0
            /\ \A i \in 1..first - 1 - 1 + 1 : SubSeq(s, 1, first - 1)[i] = s[1 + i - 1]
        BY <1>1, <2>6, <3>1, SubSeqProperties
      <3> QED
        BY <1>1, <2>5, <2>6, <3>2
    <2> QED
      BY <1>1, <2>6, <2>7
  <1> QED
    BY <1>2, <1>3
-----------------------------------------------------------------------------
Listed(A) == {pq \in A \X A : ListedBefore(pq[1], pq[2])}

\* What a login makes of the rows it reads.
Handed(rows) ==
    LET ordered == SqlOrder(rows)
    IN  StableSort(Fetch(ordered), Listed(Range(ordered)))

\* The rows in the order of the query.
LEMMA OrderedRows ==
    ASSUME NEW rows \in Seq(Rows)
    PROVE  LET o == SqlOrder(rows)
           IN  /\ o \in Seq(Range(rows)) /\ Len(o) = Len(rows)
               /\ \A k \in 1..Len(o) : \E i \in 1..Len(rows) : o[k] = rows[i]
               /\ \A i \in 1..Len(rows) : \E k \in 1..Len(o) : o[k] = rows[i]
               /\ \A k, l \in 1..Len(o) : k < l => ~SqlBefore(o[l], o[k])
  <1> DEFINE A == Range(rows)
             R == {pq \in A \X A : SqlBefore(pq[1], pq[2])}
             o == StableSort(rows, R)
  <1>1. /\ Len(rows) \in Nat /\ DOMAIN rows = 1..Len(rows) /\ rows \in [1..Len(rows) -> Rows]
        /\ \A i \in 1..Len(rows) : rows[i] \in Rows
    BY LenProperties, ElementOfSeq
  <1>2. A \in SUBSET Rows /\ \A i \in 1..Len(rows) : rows[i] \in A
    BY <1>1 DEF Range
  <1> HIDE DEF A
  <1>3. rows = [i \in 1..Len(rows) |-> rows[i]]
    BY <1>1
  <1>4. rows \in Seq(A)
    BY <1>1, <1>2, <1>3, IsASeq
  <1>5. StrictWeakOrder(R, A)
    BY <1>2, SqlOrderIsWeak
  <1> HIDE DEF R
  <1>6. /\ o \in Seq(A) /\ Len(o) = Len(rows)
        /\ \A k \in 1..Len(o) : \E i \in 1..Len(rows) : o[k] = rows[i]
        /\ \A i \in 1..Len(rows) : \E k \in 1..Len(o) : o[k] = rows[i]
        /\ \A k, l \in 1..Len(o) : k < l => <<o[l], o[k]>> \notin R
    BY <1>4, <1>5, SortedRows
  <1>7. \A k, l \in 1..Len(o) : k < l => ~SqlBefore(o[l], o[k])
    <2>1. \A k \in 1..Len(o) : o[k] \in A
      BY <1>6, ElementOfSeq
    <2> QED
      BY <1>6, <2>1 DEF R
  <1>8. SqlOrder(rows) = o
    BY DEF SqlOrder, A, R
  <1> HIDE DEF o
  <1> QED
    BY <1>6, <1>7, <1>8 DEF A

\* What a login hands out comes from the rows, numbered messages first and every
\* conversation by its numbers; with a message it has those of its conversation that
\* come before it; and a row it lacks is a row too long, or one behind such a row.
THEOREM HandedRows ==
    ASSUME NEW rows \in Seq(Rows)
    PROVE  LET out == Handed(rows)
           IN  /\ out \in Seq(Rows)
               /\ \A i \in 1..Len(out) : \E k \in 1..Len(rows) : out[i] = rows[k]
               /\ \A i, j \in 1..Len(out) : i < j => ~ListedBefore(out[j], out[i])
               /\ \A i \in 1..Len(out), k \in 1..Len(rows) :
                     SqlBefore(rows[k], out[i]) => \E j \in 1..Len(out) : out[j] = rows[k]
               /\ \A k \in 1..Len(rows) :
                     \/ \E j \in 1..Len(out) : out[j] = rows[k]
                     \/ \E l \in 1..Len(rows) :
                           /\ Payloads[rows[l]].long
                           /\ rows[l] = rows[k] \/ ~SqlBefore(rows[k], rows[l])
  <1> DEFINE o == SqlOrder(rows)
             A == Range(rows)
             B == Range(o)
             f == Fetch(o)
             R == Listed(B)
             out == StableSort(f, R)
  <1>1. /\ o \in Seq(A)
        /\ \A k \in 1..Len(o) : \E i \in 1..Len(rows) : o[k] = rows[i]
        /\ \A i \in 1..Len(rows) : \E k \in 1..Len(o) : o[k] = rows[i]
        /\ \A k, l \in 1..Len(o) : k < l => ~SqlBefore(o[l], o[k])
    BY OrderedRows
  <1>2. /\ Len(o) \in Nat /\ DOMAIN o = 1..Len(o)
        /\ \A k \in 1..Len(o) : o[k] \in Rows
    BY <1>1, LenProperties, ElementOfSeq
  <1>3. B \in SUBSET Rows /\ \A k \in 1..Len(o) : o[k] \in B
    BY <1>2 DEF Range
  <1>4. o \in Seq(B)
    <2>1. o = [k \in 1..Len(o) |-> o[k]]
      BY <1>1, <1>2, LenProperties
    <2> QED
      BY <1>2, <1>3, <2>1, IsASeq
  <1> HIDE DEF o, B
  <1>5. /\ f \in Seq(B) /\ Len(f) =< Len(o) /\ Len(f) \in Nat
        /\ \A i \in 1..Len(f) : f[i] = o[i]
        /\ Len(f) < Len(o) => Payloads[o[Len(f) + 1]].long
    BY <1>4, FetchIsPrefix, LenProperties
  <1> HIDE DEF f
  <1>6. StrictWeakOrder(R, B)
    BY <1>3, ListedOrderIsWeak DEF Listed
  <1>7. /\ out \in Seq(B) /\ Len(out) = Len(f)
        /\ \A k \in 1..Len(out) : \E i \in 1..Len(f) : out[k] = f[i]
        /\ \A i \in 1..Len(f) : \E k \in 1..Len(out) : out[k] = f[i]
        /\ \A k, l \in 1..Len(out) : k < l => <<out[l], out[k]>> \notin R
    BY <1>5, <1>6, SortedRows
  <1>8. out = Handed(rows)
    BY DEF Handed, o, B, f
  <1> HIDE DEF out
  <1>9. \A i \in 1..Len(out) : out[i] \in B
    BY <1>7, ElementOfSeq
  <1>10. out \in Seq(Rows)
    BY <1>3, <1>7, SeqMonotonic
  <1>11. \A i \in 1..Len(out) : \E k \in 1..Len(o) : k =< Len(f) /\ out[i] = o[k]
    <2> SUFFICES ASSUME NEW i \in 1..Len(out)
                 PROVE  \E k \in 1..Len(o) : k =< Len(f) /\ out[i] = o[k]
      OBVIOUS
    <2>1. PICK k \in 1..Len(f) : out[i] = f[k]
      BY <1>7
    <2>2. k \in 1..Len(o) /\ k =< Len(f) /\ f[k] = o[k]
      BY <1>2, <1>5
    <2> QED
      BY <2>1, <2>2
  <1>12. \A k \in 1..Len(o) : k =< Len(f) => \E j \in 1..Len(out) : out[j] = o[k]
    BY <1>5, <1>7
  <1>13. \A i, j \in 1..Len(out) : i < j => ~ListedBefore(out[j], out[i])
    BY <1>7, <1>9 DEF Listed
  <1>14. ASSUME NEW i \in 1..Len(out), NEW k \in 1..Len(rows), SqlBefore(rows[k], out[i])
         PROVE  \E j \in 1..Len(out) : out[j] = rows[k]
    <2>1. PICK m \in 1..Len(o) : m =< Len(f) /\ out[i] = o[m]
      BY <1>11
    <2>2. PICK l \in 1..Len(o) : o[l] = rows[k]
      BY <1>1
    <2>3. ~(m < l)
      BY <1>1, <1>14, <2>1, <2>2
    <2>4. l =< Len(f)
      BY <1>2, <1>5, <2>1, <2>3
    <2> QED
      BY <1>12, <2>2, <2>4
  <1>15. ASSUME NEW k \in 1..Len(rows), ~\E j \in 1..Len(out) : out[j] = rows[k]
         PROVE  \E l \in 1..Len(rows) : /\ Payloads[rows[l]].long
                                        /\ rows[l] = rows[k] \/ ~SqlBefore(rows[k], rows[l])
    <2>1. PICK m \in 1..Len(o) : o[m] = rows[k]
      BY <1>1
    <2>2. Len(f) < m
      BY <1>2, <1>5, <1>12, <1>15, <2>1
    <2>3. Len(f) + 1 \in 1..Len(o) /\ (Len(f) + 1 = m \/ Len(f) + 1 < m)
      BY <1>2, <1>5, <2>2
    <2>4. PICK l \in 1..Len(rows) : o[Len(f) + 1] = rows[l]
      BY <1>1, <2>3
    <2>5. Payloads[rows[l]].long
      BY <1>2, <1>5, <2>2, <2>4
    <2>6. rows[l] = rows[k] \/ ~SqlBefore(rows[k], rows[l])
      BY <1>1, <2>1, <2>3, <2>4
    <2> QED
      BY <2>5, <2>6
  <1>16. \A i \in 1..Len(out) : \E k \in 1..Len(rows) : out[i] = rows[k]
    BY <1>1, <1>11
  <1> QED
    BY <1>8, <1>10, <1>13, <1>14, <1>15, <1>16
-----------------------------------------------------------------------------
Places == {"idle", "register", "answer", "begin", "group", "creator", "commit",
           "rollback", "list", "members", "remove"}

\* Calls that have not yet taken the id they were started for.
Starting == {w \in Workers : op[w].pc \in {"register", "begin", "group"}}
CallsCounted ==
    (nextId["User"] - 1) + (nextId["AllGroup"] - 1) + Cardinality(Starting) =< calls

\* The server and the library agree on the transaction as long as the link is there;
\* what waits for a commit is in a transaction.
LinkOK(c) ==
    /\ c.open => c.up /\ c.believed
    /\ c.up /\ c.believed => c.open
    /\ ~c.open => c.groups = {} /\ c.members = {}

Exclusive == \A v, w \in Workers : op[v].db = op[w].db /\ op[v].db # NoDb => v = w

\* What an operation o is in the middle of, on its connection c.
Fits(o, c) ==
    /\ o.pc \in {"register", "answer", "begin", "list", "members"} => ~c.believed
    /\ o.pc \in {"group", "creator", "commit"} => c.believed
    /\ o.pc = "group" => c.groups = {} /\ c.members = {}
    /\ o.pc \in {"answer", "creator", "commit"} => c.last # 0
    /\ o.pc = "creator" /\ c.open => c.groups = {c.last} /\ c.members = {}
    /\ o.pc = "commit" /\ c.open =>
          /\ c.groups = {c.last}
          /\ c.members = {[group |-> c.last, user |-> o.name, role |-> "creator"]}

\* The operation of a worker, its connection, and what it knows of the tables.
WorkerOK(w) ==
    /\ op[w].db = NoDb <=> op[w].pc \in {"idle", "remove"}
    /\ op[w].db # NoDb => op[w].name # NoName /\ Fits(op[w], conn[op[w].db])
    /\ op[w].pc = "answer" => [id |-> conn[op[w].db].last, name |-> op[w].name] \in users
    /\ op[w].todo \subseteq groups
    /\ op[w].fetched = IF op[w].pc = "remove" THEN Handed(op[w].seen) ELSE <<>>

\* Groups that wait for a commit are new, and wait in one transaction only.
Fresh ==
    /\ \A g \in groups : g < nextId["AllGroup"]
    /\ \A d \in Dbs : \A g \in conn[d].groups : g < nextId["AllGroup"] /\ g \notin groups
    /\ \A d, e \in Dbs : d # e => conn[d].groups \cap conn[e].groups = {}

CreatorRow(g, n) == [group |-> g, user |-> n, role |-> "creator"]

Created ==
    \A g \in Ids : /\ g \in groups => \E n \in Names : Creators(g) = {CreatorRow(g, n)}
                   /\ g \notin groups => Creators(g) = {}

Pairs == /\ \A d \in Dbs : LinkOK(conn[d])
         /\ NoTransactionInPool
         /\ Exclusive
         /\ \A w \in Workers : WorkerOK(w)

TablesInv ==
    TypeOK /\ CallsCounted /\ Pairs /\ Fresh /\ Created /\ AnswerHasOwnId
-----------------------------------------------------------------------------
\* A worker whose operation and connection nobody touches, in tables that only grow.
LEMMA Untouched ==
    ASSUME NEW v \in Workers, WorkerOK(v), op'[v] = op[v],
           op[v].db # NoDb => conn'[op[v].db] = conn[op[v].db],
           groups \subseteq groups', users \subseteq users'
    PROVE  WorkerOK(v)'
  BY DEF WorkerOK, Fits

\* A step of worker w that touches no connection but d.
Touches(w, d) ==
    /\ \A v \in Workers \ {w} : op'[v] = op[v]
    /\ \A e \in Dbs \ {d} : conn'[e] = conn[e]
    /\ groups \subseteq groups' /\ users \subseteq users'

\* It is enough to look at w and d, if w holds d, or nobody does.
LEMMA OnlyOwnConnection ==
    ASSUME Pairs, op \in [Workers -> Operation], op' \in [Workers -> Operation],
           NEW w \in Workers, NEW d \in Dbs, Touches(w, d), NoDb \notin Dbs,
           op[w].db \in {d, NoDb}, \A v \in Workers \ {w} : op[v].db # d,
           op'[w].db \in {d, NoDb}, WorkerOK(w)', LinkOK(conn'[d]),
           op'[w].db = NoDb => ~conn'[d].open /\ ~conn'[d].believed
    PROVE  Pairs'
  <1>1. \A e \in Dbs : LinkOK(conn'[e])
    BY DEF Pairs, Touches
  <1>2. NoTransactionInPool'
    <2> SUFFICES ASSUME NEW e \in Dbs, \A v \in Workers : op'[v].db # e
                 PROVE  ~conn'[e].open /\ ~conn'[e].believed
      BY DEF NoTransactionInPool, Free
    <2>1. CASE e = d
      BY <2>1
    <2>2. CASE e # d
      <3>1. \A v \in Workers : op[v].db # e
        BY <2>2 DEF Touches
      <3>2. ~conn[e].open /\ ~conn[e].believed
        BY <3>1 DEF Pairs, NoTransactionInPool, Free
      <3>3. conn'[e] = conn[e]
        BY <2>2 DEF Touches
      <3> QED
        BY <3>2, <3>3
    <2> QED
      BY <2>1, <2>2
  <1>3. Exclusive'
    <2> SUFFICES ASSUME NEW u \in Workers, NEW v \in Workers,
                        op'[u].db = op'[v].db, op'[u].db # NoDb
                 PROVE  u = v
      BY DEF Exclusive
    <2>1. CASE u # w /\ v # w
      BY <2>1 DEF Touches, Pairs, Exclusive
    <2>2. CASE u = w \/ v = w
      BY <2>2 DEF Touches
    <2> QED
      BY <2>1, <2>2
  <1>4. ASSUME NEW v \in Workers \ {w} PROVE WorkerOK(v)'
    <2>1. op'[v] = op[v] /\ WorkerOK(v) /\ op[v].db \in Dbs \cup {NoDb} /\ op[v].db # d
      BY DEF Touches, Pairs, Operation
    <2>2. op[v].db # NoDb => conn'[op[v].db] = conn[op[v].db]
      BY <2>1 DEF Touches
    <2> QED
      BY <2>1, <2>2, Untouched DEF Touches
  <1>5. \A v \in Workers : WorkerOK(v)'
    BY <1>4
  <1> QED
    BY <1>1, <1>2, <1>3, <1>5 DEF Pairs
-----------------------------------------------------------------------------
\* The workers at the start of a call can be counted.
LEMMA StartingCounted ==
    IsFiniteSet(Starting) /\ Cardinality(Starting) \in Nat
  <1>1. Starting \in SUBSET Workers
    BY DEF Starting
  <1>2. IsFiniteSet(Starting)
    BY <1>1, ConstantsAssumption, FS_Subset
  <1> QED
    BY <1>2, FS_CardinalityType

\* A worker starts a call, stays in it, or leaves its start.
LEMMA OneMoreStarts ==
    ASSUME NEW w \in Workers, w \notin Starting,
           op'[w].pc \in {"register", "begin", "group"},
           \A v \in Workers \ {w} : op'[v] = op[v]
    PROVE  Cardinality(Starting') = Cardinality(Starting) + 1
  <1>1. Starting' = Starting \cup {w}
    BY DEF Starting
  <1> QED
    BY <1>1, StartingCounted, FS_AddElement

LEMMA OneLessStarts ==
    ASSUME NEW w \in Workers, w \in Starting,
           op'[w].pc \notin {"register", "begin", "group"},
           \A v \in Workers \ {w} : op'[v] = op[v]
    PROVE  Cardinality(Starting') = Cardinality(Starting) - 1
  <1>1. Starting' = Starting \ {w}
    BY DEF Starting
  <1> QED
    BY <1>1, StartingCounted, FS_RemoveElement

\* Nobody takes an id.
LEMMA NoIdTaken ==
    ASSUME CallsCounted, TypeOK, NEW w \in Workers, calls' = calls, nextId' = nextId,
           op'[w].pc \in {"register", "begin", "group"} => w \in Starting,
           \A v \in Workers \ {w} : op'[v] = op[v]
    PROVE  CallsCounted'
  <1>1. Cardinality(Starting') \in Nat /\ Cardinality(Starting) \in Nat
        /\ Cardinality(Starting') =< Cardinality(Starting)
    <2>1. Starting' \in SUBSET Starting
      BY DEF Starting
    <2>2. IsFiniteSet(Starting) /\ Cardinality(Starting) \in Nat
      BY StartingCounted
    <2>3. IsFiniteSet(Starting') /\ Cardinality(Starting') =< Cardinality(Starting)
      BY <2>1, <2>2, FS_Subset
    <2> QED
      BY <2>2, <2>3, FS_CardinalityType
  <1>2. nextId["User"] \in Int /\ nextId["AllGroup"] \in Int /\ calls \in Int
    BY ConstantsAssumption DEF TypeOK
  <1> QED
    BY <1>1, <1>2 DEF CallsCounted

\* The group tables stay as they are, and no more groups wait for a commit.
LEMMA GroupsStay ==
    ASSUME Fresh, Created, UNCHANGED <<groups, members, nextId>>,
           \A d \in Dbs : conn'[d].groups \subseteq conn[d].groups
    PROVE  Fresh' /\ Created'
  <1>1. Fresh'
    BY DEF Fresh
  <1>2. Created'
    BY DEF Created, Creators
  <1> QED
    BY <1>1, <1>2
-----------------------------------------------------------------------------
\* What a record of a connection becomes: a link that is made anew, one that breaks,
\* a transaction that the library forgets, one that is over.
LEMMA LinkUp ==
    ASSUME NEW c \in Connection, LinkOK(c), c.up \/ ~c.believed
    PROVE  LET e == [c EXCEPT !.up = TRUE]
           IN  /\ e \in Connection /\ LinkOK(e)
               /\ e.believed <=> c.believed
               /\ e.open <=> c.open
               /\ e.groups = c.groups /\ e.members = c.members /\ e.last = c.last
  BY DEF Connection, LinkOK

LEMMA LinkDown ==
    ASSUME NEW d \in Dbs, conn[d] \in Connection, LinkOK(conn[d])
    PROVE  LET e == Broken(d)
           IN  /\ e \in Connection /\ LinkOK(e)
               /\ e.believed <=> conn[d].believed
               /\ ~e.open /\ ~e.up
               /\ e.groups = {} /\ e.members = {} /\ e.last = conn[d].last
  BY DEF Connection, LinkOK, Broken

LEMMA LinkLost ==
    ASSUME NEW c \in Connection, LinkOK(c), ~c.up
    PROVE  LET e == [c EXCEPT !.believed = FALSE]
           IN  /\ e \in Connection /\ LinkOK(e)
               /\ ~e.believed /\ ~e.open
               /\ e.groups = {} /\ e.members = {} /\ e.last = c.last
  BY DEF Connection, LinkOK

LEMMA LinkClosed ==
    ASSUME NEW d \in Dbs, conn[d] \in Connection, LinkOK(conn[d]),
           NEW e, \/ e = Closed(d) \/ \E up \in BOOLEAN : e = [Closed(d) EXCEPT !.up = up]
                  \/ e = [Broken(d) EXCEPT !.believed = FALSE]
    PROVE  /\ e \in Connection /\ LinkOK(e)
           /\ ~e.believed /\ ~e.open
           /\ e.groups = {} /\ e.members = {} /\ e.last = conn[d].last
  BY DEF Connection, LinkOK, Closed, Broken
-----------------------------------------------------------------------------
\* Operations that go on, and that end.
LEMMA NoOperationTyped == NoOperation \in Operation
  <1>1. <<>> \in Seq(1..Len(Payloads))
    BY EmptySeq
  <1> QED
    BY <1>1 DEF NoOperation, Operation

LEMMA Goes ==
    ASSUME op \in [Workers -> Operation], NEW w \in Workers, NEW p \in Places, Goto(w, p)
    PROVE  /\ op' \in [Workers -> Operation]
           /\ op'[w].pc = p /\ op'[w].db = op[w].db /\ op'[w].name = op[w].name
           /\ op'[w].todo = op[w].todo /\ op'[w].listed = op[w].listed
           /\ op'[w].seen = op[w].seen /\ op'[w].fetched = op[w].fetched
           /\ \A v \in Workers \ {w} : op'[v] = op[v]
  BY DEF Goto, Operation, Places

LEMMA Returns ==
    ASSUME op \in [Workers -> Operation], NEW w \in Workers, Return(w)
    PROVE  /\ op' \in [Workers -> Operation]
           /\ op'[w] = NoOperation
           /\ \A v \in Workers \ {w} : op'[v] = op[v]
  BY NoOperationTyped DEF Return

LEMMA IdleIsOK ==
    ASSUME NEW w \in Workers, op'[w] = NoOperation
    PROVE  WorkerOK(w)' /\ op'[w].db = NoDb /\ op'[w].pc = "idle"
  BY DEF WorkerOK, NoOperation

\* A worker takes a connection that nobody has.
LEMMA Acquires ==
    ASSUME TablesInv, NEW w \in Workers, NEW place \in {"register", "begin", "list"},
           NEW n \in Names, At(w, "idle"), Acquire(w, place, n), UNCHANGED <<tables, told>>
    PROVE  /\ op' \in [Workers -> Operation] /\ conn' \in [Dbs -> Connection]
           /\ faults' \in 0..MaxFaults
           /\ op'[w].pc = place /\ \A v \in Workers \ {w} : op'[v] = op[v]
           /\ Pairs' /\ Fresh' /\ Created'
  <1>1. PICK d \in Free :
           /\ \/ conn' = [conn EXCEPT ![d].up = TRUE] /\ UNCHANGED faults
              \/ ~conn[d].up /\ Fault /\ UNCHANGED conn
           /\ op' = [op EXCEPT ![w] = [NoOperation EXCEPT !.pc = place, !.db = d, !.name = n]]
    BY DEF Acquire
  <1>2. /\ op \in [Workers -> Operation] /\ conn \in [Dbs -> Connection]
        /\ faults \in 0..MaxFaults /\ MaxFaults \in Nat /\ NoDb \notin Dbs /\ NoName \notin Names
        /\ Pairs /\ Fresh /\ Created
    BY ConstantsAssumption DEF TablesInv, TypeOK
  <1>3. d \in Dbs /\ (\A v \in Workers : op[v].db # d) /\ d # NoDb
    BY <1>1, <1>2 DEF Free
  <1>4. LinkOK(conn[d]) /\ ~conn[d].open /\ ~conn[d].believed /\ conn[d] \in Connection
    BY <1>1, <1>2, <1>3 DEF Pairs, NoTransactionInPool
  <1> DEFINE c == conn[d]
             e == [c EXCEPT !.up = TRUE]
  <1>5. e \in Connection /\ LinkOK(e) /\ ~e.believed /\ ~e.open /\ e.groups = c.groups
    BY <1>4, LinkUp
  <1>6. conn' = [conn EXCEPT ![d] = e] \/ UNCHANGED conn
    BY <1>1, <1>2, <1>3
  <1> HIDE DEF e, c
  <1>7. /\ conn' \in [Dbs -> Connection] /\ LinkOK(conn'[d])
        /\ ~conn'[d].believed /\ ~conn'[d].open /\ conn'[d].groups = conn[d].groups
        /\ \A x \in Dbs \ {d} : conn'[x] = conn[x]
    BY <1>2, <1>3, <1>4, <1>5, <1>6 DEF c
  <1> DEFINE o == [NoOperation EXCEPT !.pc = place, !.db = d, !.name = n]
  <1>8. o \in Operation
    BY <1>3, NoOperationTyped DEF Operation
  <1>9. /\ o.pc = place /\ o.db = d /\ o.name = n /\ o.todo = {} /\ o.listed = {}
        /\ o.fetched = <<>>
    BY DEF NoOperation
  <1>10. op' = [op EXCEPT ![w] = o]
    BY <1>1
  <1> HIDE DEF o
  <1>11. /\ op' \in [Workers -> Operation] /\ op'[w] = o
         /\ \A v \in Workers \ {w} : op'[v] = op[v]
    BY <1>2, <1>8, <1>10
  <1>12. faults' \in 0..MaxFaults
    BY <1>1, <1>2 DEF Fault
  <1>13. WorkerOK(w)'
    <2>1. Fits(o, conn'[d])
      BY <1>7, <1>9 DEF Fits
    <2> QED
      BY <1>2, <1>3, <1>9, <1>11, <2>1 DEF WorkerOK
  <1>14. Touches(w, d)
    BY <1>7, <1>11 DEF Touches, tables
  <1>15. op[w].db = NoDb
    BY <1>2 DEF Pairs, WorkerOK, At
  <1>16. Pairs'
    BY <1>2, <1>3, <1>7, <1>9, <1>11, <1>13, <1>14, <1>15, OnlyOwnConnection
  <1>17. Fresh' /\ Created'
    BY <1>2, <1>3, <1>7, GroupsStay DEF tables
  <1> QED
    BY <1>7, <1>9, <1>11, <1>12, <1>16, <1>17
-----------------------------------------------------------------------------
\* What holds of a worker in an operation that holds a connection.
LEMMA OwnConnection ==
    ASSUME TablesInv, NEW w \in Workers, op[w].pc \notin {"idle", "remove"}
    PROVE  /\ op[w].db \in Dbs /\ conn[op[w].db] \in Connection /\ NoDb \notin Dbs
           /\ LinkOK(conn[op[w].db]) /\ Fits(op[w], conn[op[w].db])
           /\ op[w].name \in Names
           /\ \A v \in Workers \ {w} : op[v].db # op[w].db
           /\ op \in [Workers -> Operation] /\ conn \in [Dbs -> Connection]
           /\ faults \in 0..MaxFaults /\ MaxFaults \in Nat
           /\ Pairs /\ WorkerOK(w)
  <1>1. /\ op \in [Workers -> Operation] /\ conn \in [Dbs -> Connection] /\ Pairs
        /\ faults \in 0..MaxFaults /\ MaxFaults \in Nat /\ NoDb \notin Dbs
    BY ConstantsAssumption DEF TablesInv, TypeOK
  <1>2. op[w] \in Operation /\ WorkerOK(w)
    BY <1>1 DEF Pairs
  <1>3. /\ op[w].db # NoDb /\ op[w].name # NoName /\ Fits(op[w], conn[op[w].db])
        /\ op[w].db \in Dbs /\ op[w].name \in Names
    BY <1>2 DEF WorkerOK, Operation
  <1>4. LinkOK(conn[op[w].db]) /\ conn[op[w].db] \in Connection
    BY <1>1, <1>3 DEF Pairs
  <1>5. \A v \in Workers \ {w} : op[v].db # op[w].db
    BY <1>1, <1>3 DEF Pairs, Exclusive
  <1> QED
    BY <1>1, <1>2, <1>3, <1>4, <1>5

\* A statement that writes nothing: the link of d may be made anew or break, and a
\* transaction may be lost, but none begins.
Calm(d) ==
    /\ conn' \in [Dbs -> Connection] /\ LinkOK(conn'[d])
    /\ conn'[d].believed => conn[d].believed
    /\ conn'[d].open => conn[d].open
    /\ conn'[d].groups \subseteq conn[d].groups
    /\ conn'[d].last = conn[d].last
    /\ \A e \in Dbs \ {d} : conn'[e] = conn[e]
    /\ faults' \in 0..MaxFaults

LEMMA RefusedIsCalm ==
    ASSUME TablesInv, NEW w \in Workers, op[w].pc \notin {"idle", "remove"}, Refused(w)
    PROVE  Calm(op[w].db)
  <1> DEFINE d == op[w].db
             e == [conn[d] EXCEPT !.believed = FALSE]
  <1>1. d \in Dbs /\ conn \in [Dbs -> Connection] /\ conn[d] \in Connection /\ LinkOK(conn[d])
        /\ faults \in 0..MaxFaults /\ MaxFaults \in Nat
    BY OwnConnection
  <1>2. CASE ~conn[d].up /\ conn' = [conn EXCEPT ![d].believed = FALSE] /\ UNCHANGED faults
    <2>1. e \in Connection /\ LinkOK(e) /\ ~e.believed /\ ~e.open /\ e.groups = {}
          /\ e.last = conn[d].last
      BY <1>1, <1>2, LinkLost
    <2>2. conn' = [conn EXCEPT ![d] = e]
      BY <1>1, <1>2
    <2> HIDE DEF e
    <2>3. conn'[d] = e /\ conn' \in [Dbs -> Connection] /\ \A x \in Dbs \ {d} : conn'[x] = conn[x]
      BY <1>1, <2>1, <2>2
    <2> QED
      BY <1>1, <1>2, <2>1, <2>3 DEF Calm
  <1>3. CASE Fault /\ UNCHANGED conn
    BY <1>1, <1>3 DEF Calm, Fault
  <1> QED
    BY <1>2, <1>3 DEF Refused

LEMMA UnansweredIsCalm ==
    ASSUME TablesInv, NEW w \in Workers, op[w].pc \notin {"idle", "remove"}, Unanswered(w)
    PROVE  Calm(op[w].db)
  <1> DEFINE d == op[w].db
             e == Broken(d)
  <1>1. d \in Dbs /\ conn \in [Dbs -> Connection] /\ conn[d] \in Connection /\ LinkOK(conn[d])
        /\ faults \in 0..MaxFaults /\ MaxFaults \in Nat
    BY OwnConnection
  <1>2. /\ e \in Connection /\ LinkOK(e) /\ (e.believed <=> conn[d].believed) /\ ~e.open
        /\ e.groups = {} /\ e.last = conn[d].last
    BY <1>1, LinkDown
  <1>3. conn' = [conn EXCEPT ![d] = e] /\ Fault
    BY DEF Unanswered
  <1> HIDE DEF e
  <1>4. conn'[d] = e /\ conn' \in [Dbs -> Connection] /\ \A x \in Dbs \ {d} : conn'[x] = conn[x]
    BY <1>1, <1>2, <1>3
  <1> QED
    BY <1>1, <1>2, <1>3, <1>4 DEF Calm, Fault

LEMMA RunIsCalm ==
    ASSUME TablesInv, NEW w \in Workers, op[w].pc \notin {"idle", "remove"}, Runs(w),
           conn' = [conn EXCEPT ![op[w].db].up = TRUE]
    PROVE  Calm(op[w].db)
  <1> DEFINE d == op[w].db
             e == [conn[d] EXCEPT !.up = TRUE]
  <1>1. d \in Dbs /\ conn \in [Dbs -> Connection] /\ conn[d] \in Connection /\ LinkOK(conn[d])
        /\ faults \in 0..MaxFaults /\ MaxFaults \in Nat
    BY OwnConnection
  <1>2. /\ e \in Connection /\ LinkOK(e) /\ (e.believed <=> conn[d].believed)
        /\ (e.open <=> conn[d].open) /\ e.groups = conn[d].groups /\ e.last = conn[d].last
    BY <1>1, LinkUp DEF Runs
  <1>3. conn' = [conn EXCEPT ![d] = e]
    BY <1>1
  <1> HIDE DEF e
  <1>4. conn'[d] = e /\ conn' \in [Dbs -> Connection] /\ \A x \in Dbs \ {d} : conn'[x] = conn[x]
    BY <1>1, <1>2, <1>3
  <1> QED
    BY <1>1, <1>2, <1>4 DEF Calm, Runs

\* The operation of w goes on, or is over and in no transaction.
LEMMA CalmStep ==
    ASSUME TablesInv, NEW w \in Workers, op[w].pc \notin {"idle", "remove"},
           Calm(op[w].db), op' \in [Workers -> Operation],
           \A v \in Workers \ {w} : op'[v] = op[v], groups \subseteq groups',
           users \subseteq users', WorkerOK(w)',
           \/ op'[w].db = op[w].db
           \/ op'[w].db = NoDb /\ ~conn'[op[w].db].believed
    PROVE  Pairs'
  <1> DEFINE d == op[w].db
  <1>1. /\ d \in Dbs /\ NoDb \notin Dbs /\ op \in [Workers -> Operation]
        /\ \A v \in Workers \ {w} : op[v].db # d
        /\ Pairs
    BY OwnConnection
  <1>2. LinkOK(conn'[d]) /\ \A e \in Dbs \ {d} : conn'[e] = conn[e]
    BY DEF Calm
  <1>3. Touches(w, d)
    BY <1>2 DEF Touches
  <1>4. op'[w].db = NoDb => ~conn'[d].open /\ ~conn'[d].believed
    BY <1>1, <1>2 DEF LinkOK
  <1> HIDE DEF d
  <1>5. op[w].db \in {d, NoDb} /\ op'[w].db \in {d, NoDb}
    BY DEF d
  <1> QED
    BY <1>1, <1>2, <1>3, <1>4, <1>5, OnlyOwnConnection

LEMMA CalmEnd ==
    ASSUME TablesInv, NEW w \in Workers, op[w].pc \notin {"idle", "remove"},
           Calm(op[w].db), ~conn'[op[w].db].believed, Return(w),
           groups \subseteq groups', users \subseteq users'
    PROVE  Pairs'
  <1>1. /\ op' \in [Workers -> Operation] /\ \A v \in Workers \ {w} : op'[v] = op[v]
        /\ op'[w] = NoOperation
    BY OwnConnection, Returns
  <1>2. WorkerOK(w)' /\ op'[w].db = NoDb
    BY <1>1, IdleIsOK
  <1> QED
    BY <1>1, <1>2, CalmStep

\* No group waits for a commit that did not wait before.
LEMMA CalmGroups ==
    ASSUME TablesInv, NEW d \in Dbs, Calm(d), UNCHANGED <<groups, members, nextId>>
    PROVE  Fresh' /\ Created'
  <1>1. \A e \in Dbs : conn'[e].groups \subseteq conn[e].groups
    BY DEF Calm
  <1> QED
    BY <1>1, GroupsStay DEF TablesInv
-----------------------------------------------------------------------------
(* The steps, one by one. *)

LEMMA StartStep ==
    ASSUME TablesInv, NEW w \in Workers, NEW n \in Names,
           Register(w, n) \/ CreateGroup(w, n) \/ ListGroups(w, n)
    PROVE  TablesInv'
  <1>1. PICK place \in {"register", "begin", "list"} :
           /\ At(w, "idle") /\ Acquire(w, place, n) /\ UNCHANGED <<tables, told>>
           /\ calls < MaxCalls /\ calls' = calls + 1
    BY DEF Register, CreateGroup, ListGroups, Call
  <1>2. /\ op' \in [Workers -> Operation] /\ conn' \in [Dbs -> Connection]
        /\ faults' \in 0..MaxFaults
        /\ op'[w].pc = place /\ \A v \in Workers \ {w} : op'[v] = op[v]
        /\ Pairs' /\ Fresh' /\ Created'
    BY <1>1, Acquires
  <1>3. calls \in 0..MaxCalls /\ MaxCalls \in Nat /\ calls' \in 0..MaxCalls
    BY <1>1, ConstantsAssumption DEF TablesInv, TypeOK
  <1>4. TypeOK'
    BY <1>1, <1>2, <1>3 DEF TablesInv, TypeOK, tables
  <1>5. CallsCounted'
    <2>1. w \notin Starting
      BY <1>1 DEF Starting, At
    <2>2. \/ Cardinality(Starting') = Cardinality(Starting) + 1
          \/ Starting' = Starting
      <3>1. CASE place = "list"
        BY <1>2, <2>1, <3>1 DEF Starting
      <3>2. CASE place # "list"
        BY <1>2, <2>1, <3>2, OneMoreStarts
      <3> QED
        BY <3>1, <3>2
    <2>3. nextId["User"] \in Int /\ nextId["AllGroup"] \in Int /\ nextId' = nextId
      BY <1>1, <1>3 DEF TablesInv, TypeOK, tables
    <2> QED
      BY <1>1, <1>3, <2>2, <2>3, StartingCounted DEF TablesInv, CallsCounted
  <1>6. AnswerHasOwnId'
    BY <1>1 DEF TablesInv, AnswerHasOwnId, tables
  <1> QED
    BY <1>2, <1>4, <1>5, <1>6 DEF TablesInv

LEMMA RegisterAnswerStep ==
    ASSUME TablesInv, NEW w \in Workers, RegisterAnswer(w)
    PROVE  TablesInv'
  <1> DEFINE d == op[w].db
             row == [id |-> conn[d].last, name |-> op[w].name]
  <1>1. /\ op[w].pc = "answer" /\ told' = told \cup {row} /\ Return(w)
        /\ UNCHANGED <<users, groups, members, offline, nextId, conn, calls, faults>>
    BY DEF RegisterAnswer, At, tables
  <1>2. d \in Dbs /\ Fits(op[w], conn[d]) /\ WorkerOK(w) /\ op[w].name \in Names
        /\ LinkOK(conn[d]) /\ conn[d] \in Connection /\ conn \in [Dbs -> Connection]
        /\ op \in [Workers -> Operation]
    BY <1>1, OwnConnection
  <1>3. /\ op' \in [Workers -> Operation] /\ op'[w] = NoOperation
        /\ \A v \in Workers \ {w} : op'[v] = op[v]
    BY <1>1, <1>2, Returns
  <1>4. op'[w].pc = "idle"
    BY <1>3, IdleIsOK
  <1>5. row \in users
    BY <1>1, <1>2 DEF WorkerOK
  <1>6. AnswerHasOwnId' /\ told' \subseteq [id: Ids, name: Names]
    BY <1>1, <1>5 DEF TablesInv, AnswerHasOwnId, TypeOK
  <1>7. TypeOK'
    BY <1>1, <1>3, <1>6 DEF TablesInv, TypeOK
  <1>8. ~conn[d].believed /\ conn' = conn
    BY <1>1, <1>2 DEF Fits
  <1>9. Calm(d)
    BY <1>1, <1>2, <1>8 DEF Calm, TablesInv, TypeOK
  <1>10. Pairs'
    BY <1>1, <1>8, <1>9, CalmEnd
  <1>11. Fresh' /\ Created'
    BY <1>1, <1>2, <1>9, CalmGroups
  <1>12. CallsCounted'
    BY <1>1, <1>3, <1>4, NoIdTaken DEF TablesInv
  <1> QED
    BY <1>6, <1>7, <1>10, <1>11, <1>12 DEF TablesInv

\* A call that is about to take an id finds one below the bound.
LEMMA IdsLeft ==
    ASSUME TablesInv, NEW w \in Workers, w \in Starting
    PROVE  /\ nextId["User"] \in Ids /\ nextId["AllGroup"] \in Ids
           /\ MaxCalls \in Nat /\ calls \in 0..MaxCalls
           /\ \A m \in Int : (m =< Cardinality(Starting) - 1)
                 => (nextId["User"] - 1) + (nextId["AllGroup"] - 1) + m + 1 =< calls
  <1>1. Cardinality(Starting) \in Nat /\ Cardinality(Starting) # 0
    BY StartingCounted, FS_EmptySet
  <1>2. nextId["User"] \in 1..MaxCalls + 1 /\ nextId["AllGroup"] \in 1..MaxCalls + 1
        /\ calls \in 0..MaxCalls /\ MaxCalls \in Nat
    BY ConstantsAssumption DEF TablesInv, TypeOK
  <1> QED
    BY <1>1, <1>2 DEF TablesInv, CallsCounted, Ids

\* It takes the id, or none.
LEMMA OneIdTaken ==
    ASSUME TablesInv, NEW w \in Workers, w \in Starting, calls' = calls,
           NEW t \in {"User", "AllGroup"},
           nextId' = [nextId EXCEPT ![t] = @ + 1],
           op'[w].pc \notin {"register", "begin", "group"},
           \A v \in Workers \ {w} : op'[v] = op[v]
    PROVE  CallsCounted' /\ nextId' \in [{"User", "AllGroup"} -> 1..(MaxCalls + 1)]
  <1>1. Cardinality(Starting') = Cardinality(Starting) - 1 /\ Cardinality(Starting) \in Nat
    BY OneLessStarts, StartingCounted
  <1>2. /\ nextId \in [{"User", "AllGroup"} -> 1..(MaxCalls + 1)]
        /\ nextId["User"] \in 1..MaxCalls /\ nextId["AllGroup"] \in 1..MaxCalls
        /\ calls \in 0..MaxCalls /\ MaxCalls \in Nat
    BY IdsLeft DEF TablesInv, TypeOK, Ids
  <1>3. nextId' \in [{"User", "AllGroup"} -> 1..(MaxCalls + 1)]
    BY <1>2
  <1>4. nextId'["User"] + nextId'["AllGroup"] = nextId["User"] + nextId["AllGroup"] + 1
        /\ nextId'["User"] \in Int /\ nextId'["AllGroup"] \in Int
    BY <1>2
  <1>5. CallsCounted'
    BY <1>1, <1>2, <1>4 DEF TablesInv, CallsCounted
  <1> QED
    BY <1>3, <1>5

LEMMA RegisterInsertStep ==
    ASSUME TablesInv, NEW w \in Workers, RegisterInsert(w)
    PROVE  TablesInv'
  <1> DEFINE d == op[w].db
             n == op[w].name
             row == [id |-> nextId["User"], name |-> n]
  <1>1. /\ op[w].pc = "register"
        /\ UNCHANGED <<groups, members, offline, told, calls>>
    BY DEF RegisterInsert, At
  <1>2. /\ d \in Dbs /\ Fits(op[w], conn[d]) /\ WorkerOK(w) /\ n \in Names
        /\ LinkOK(conn[d]) /\ conn[d] \in Connection /\ conn \in [Dbs -> Connection]
        /\ op \in [Workers -> Operation] /\ d # NoDb /\ NoName \notin Names
        /\ faults \in 0..MaxFaults
    BY <1>1, OwnConnection, ConstantsAssumption
  <1>3. ~conn[d].believed /\ ~conn[d].open
    BY <1>1, <1>2 DEF Fits, LinkOK
  <1>4. w \in Starting
    BY <1>1 DEF Starting
  <1>5. row \in [id: Ids, name: Names]
    BY <1>2, <1>4, IdsLeft
  <1>6. CASE Runs(w) /\ NewUser(n) /\ Goto(w, "answer")
             /\ conn' = [conn EXCEPT ![d].up = TRUE, ![d].last = nextId["User"]]
    <2> DEFINE e == [conn[d] EXCEPT !.up = TRUE]
               f == [e EXCEPT !.last = nextId["User"]]
    <2>1. nextId["User"] \in Ids /\ nextId["User"] # 0
      BY <1>4, IdsLeft DEF Ids
    <2>2. /\ e \in Connection /\ LinkOK(e) /\ ~e.believed /\ e.groups = conn[d].groups
      BY <1>2, <1>3, LinkUp
    <2>3. conn' = [conn EXCEPT ![d] = f]
      BY <1>2, <1>6
    <2> HIDE DEF e
    <2>4. /\ f \in Connection /\ LinkOK(f) /\ ~f.believed /\ f.groups = conn[d].groups
          /\ f.last = nextId["User"]
      BY <2>1, <2>2 DEF Connection, LinkOK
    <2> HIDE DEF f
    <2>5. conn' \in [Dbs -> Connection] /\ conn'[d] = f /\ \A x \in Dbs \ {d} : conn'[x] = conn[x]
      BY <1>2, <2>3, <2>4
    <2>6. /\ op' \in [Workers -> Operation]
          /\ op'[w].pc = "answer" /\ op'[w].db = d /\ op'[w].name = n
          /\ op'[w].todo = op[w].todo /\ op'[w].listed = op[w].listed
          /\ op'[w].fetched = op[w].fetched
          /\ \A v \in Workers \ {w} : op'[v] = op[v]
      BY <1>2, <1>6, Goes DEF Places
    <2>7. users' = users \cup {row} /\ nextId' = [nextId EXCEPT !["User"] = @ + 1]
      BY <1>6 DEF NewUser
    <2>8. CallsCounted' /\ nextId' \in [{"User", "AllGroup"} -> 1..(MaxCalls + 1)]
      BY <1>1, <1>4, <2>6, <2>7, OneIdTaken
    <2>9. TypeOK'
      BY <1>1, <1>2, <1>5, <1>6, <2>5, <2>6, <2>7, <2>8 DEF TablesInv, TypeOK, Runs
    <2>10. WorkerOK(w)'
      <3>1. Fits(op'[w], f)
        BY <2>1, <2>4, <2>6 DEF Fits
      <3> QED
        BY <1>1, <1>2, <2>4, <2>5, <2>6, <2>7, <3>1 DEF WorkerOK
    <2>11. Pairs'
      <3>1. Touches(w, d)
        BY <1>1, <2>5, <2>6, <2>7 DEF Touches
      <3>2. op[w].db \in {d, NoDb} /\ op'[w].db \in {d, NoDb} /\ op'[w].db # NoDb
        BY <1>2, <2>6
      <3>3. LinkOK(conn'[d]) /\ Pairs /\ NoDb \notin Dbs /\ \A v \in Workers \ {w} : op[v].db # d
        BY <1>1, <2>4, <2>5, OwnConnection
      <3> HIDE DEF d
      <3> QED
        BY <1>2, <2>6, <2>10, <3>1, <3>2, <3>3, OnlyOwnConnection
    <2>12. Fresh' /\ Created'
      <3>1. nextId'["AllGroup"] = nextId["AllGroup"]
        BY <2>7 DEF TablesInv, TypeOK
      <3>2. \A x \in Dbs : conn'[x].groups = conn[x].groups
        BY <2>4, <2>5
      <3>3. Fresh'
        BY <1>1, <3>1, <3>2 DEF TablesInv, Fresh
      <3> QED
        BY <1>1, <3>3 DEF TablesInv, Created, Creators
    <2>13. AnswerHasOwnId'
      BY <1>1, <2>7 DEF TablesInv, AnswerHasOwnId
    <2> QED
      BY <2>8, <2>9, <2>11, <2>12, <2>13 DEF TablesInv
  <1>7. ASSUME Return(w), Calm(d), \/ UNCHANGED <<users, nextId>>
                                   \/ NewUser(n)
        PROVE  TablesInv'
    <2>1. /\ op' \in [Workers -> Operation] /\ op'[w] = NoOperation
          /\ \A v \in Workers \ {w} : op'[v] = op[v]
      BY <1>2, <1>7, Returns
    <2>2. op'[w].pc = "idle"
      BY <2>1, IdleIsOK
    <2>3. conn' \in [Dbs -> Connection] /\ faults' \in 0..MaxFaults /\ ~conn'[d].believed
          /\ \A x \in Dbs : conn'[x].groups \subseteq conn[x].groups
      BY <1>3, <1>7 DEF Calm
    <2>4. users \subseteq users' /\ users' \subseteq [id: Ids, name: Names]
      BY <1>5, <1>7 DEF NewUser, TablesInv, TypeOK
    <2>5. /\ CallsCounted' /\ nextId' \in [{"User", "AllGroup"} -> 1..(MaxCalls + 1)]
          /\ nextId'["AllGroup"] = nextId["AllGroup"]
      <3>1. CASE UNCHANGED nextId
        BY <1>1, <1>4, <2>1, <2>2, <3>1, NoIdTaken DEF TablesInv, TypeOK
      <3>2. CASE NewUser(n)
        <4>1. nextId' = [nextId EXCEPT !["User"] = @ + 1]
          BY <3>2 DEF NewUser
        <4>2. nextId'["AllGroup"] = nextId["AllGroup"]
          BY <4>1 DEF TablesInv, TypeOK
        <4>3. op'[w].pc \notin {"register", "begin", "group"}
          BY <2>2
        <4> QED
          BY <1>1, <1>4, <2>1, <4>1, <4>2, <4>3, OneIdTaken
      <3> QED
        BY <1>7, <3>1, <3>2
    <2>6. TypeOK'
      BY <1>1, <2>1, <2>3, <2>4, <2>5 DEF TablesInv, TypeOK
    <2>7. Pairs'
      BY <1>1, <1>7, <2>3, <2>4, CalmEnd
    <2>8. Fresh' /\ Created'
      <3>1. Fresh'
        BY <1>1, <2>3, <2>5 DEF TablesInv, Fresh
      <3> QED
        BY <1>1, <3>1 DEF TablesInv, Created, Creators
    <2>9. AnswerHasOwnId'
      BY <1>1, <2>4 DEF TablesInv, AnswerHasOwnId
    <2> QED
      BY <2>5, <2>6, <2>7, <2>8, <2>9 DEF TablesInv
  <1>8. CASE Runs(w) /\ conn' = [conn EXCEPT ![d].up = TRUE] /\ Return(w)
             /\ UNCHANGED <<users, nextId>>
    BY <1>1, <1>7, <1>8, RunIsCalm
  <1>9. CASE Unanswered(w) /\ NewUser(n) /\ Return(w)
    BY <1>1, <1>7, <1>9, UnansweredIsCalm
  <1>10. CASE Refused(w) /\ Return(w) /\ UNCHANGED <<users, nextId>>
    BY <1>1, <1>7, <1>10, RefusedIsCalm
  <1> QED
    BY <1>6, <1>8, <1>9, <1>10 DEF RegisterInsert

\* A step that writes no table, and starts no call.
LEMMA NothingWritten ==
    ASSUME TablesInv, NEW w \in Workers, UNCHANGED <<tables, told, calls>>,
           op' \in [Workers -> Operation], conn' \in [Dbs -> Connection],
           faults' \in 0..MaxFaults, Pairs',
           op'[w].pc \in {"register", "begin", "group"} => w \in Starting,
           \A v \in Workers \ {w} : op'[v] = op[v],
           \A e \in Dbs : conn'[e].groups \subseteq conn[e].groups
    PROVE  TablesInv'
  <1>1. UNCHANGED <<users, groups, members, offline, nextId>>
    BY DEF tables
  <1>2. TypeOK'
    BY <1>1 DEF TablesInv, TypeOK
  <1>3. CallsCounted'
    BY <1>1, NoIdTaken DEF TablesInv
  <1>4. Fresh' /\ Created'
    BY <1>1, GroupsStay DEF TablesInv
  <1>5. AnswerHasOwnId'
    BY <1>1 DEF TablesInv, AnswerHasOwnId
  <1> QED
    BY <1>2, <1>3, <1>4, <1>5 DEF TablesInv

\* A statement that fails outside a transaction ends its operation.
LEMMA FailedStep ==
    ASSUME TablesInv, NEW w \in Workers, op[w].pc \notin {"idle", "remove"},
           ~conn[op[w].db].believed, Refused(w), Return(w), UNCHANGED <<tables, told, calls>>
    PROVE  TablesInv'
  <1>1. op \in [Workers -> Operation] /\ op[w].db \in Dbs
    BY OwnConnection
  <1>2. /\ op' \in [Workers -> Operation] /\ op'[w] = NoOperation
        /\ \A v \in Workers \ {w} : op'[v] = op[v]
    BY <1>1, Returns
  <1>3. op'[w].pc = "idle"
    BY <1>2, IdleIsOK
  <1>4. Calm(op[w].db)
    BY RefusedIsCalm
  <1>5. Pairs'
    BY <1>4, CalmEnd DEF tables, Calm
  <1> QED
    BY <1>1, <1>2, <1>3, <1>4, <1>5, NothingWritten DEF Calm

LEMMA GroupBeginStep ==
    ASSUME TablesInv, NEW w \in Workers, GroupBegin(w)
    PROVE  TablesInv'
  <1> DEFINE d == op[w].db
             e == [conn[d] EXCEPT !.up = TRUE, !.open = TRUE, !.believed = TRUE]
  <1>1. op[w].pc = "begin" /\ UNCHANGED <<tables, told, calls>>
    BY DEF GroupBegin, At
  <1>2. /\ d \in Dbs /\ Fits(op[w], conn[d]) /\ WorkerOK(w) /\ Pairs
        /\ LinkOK(conn[d]) /\ conn[d] \in Connection /\ conn \in [Dbs -> Connection]
        /\ op \in [Workers -> Operation] /\ d # NoDb /\ NoDb \notin Dbs
        /\ \A v \in Workers \ {w} : op[v].db # d
        /\ faults \in 0..MaxFaults
    BY <1>1, OwnConnection
  <1>3. ~conn[d].believed /\ ~conn[d].open /\ conn[d].groups = {} /\ conn[d].members = {}
    BY <1>1, <1>2 DEF Fits, LinkOK
  <1>4. CASE Refused(w) /\ Return(w)
    BY <1>1, <1>3, <1>4, FailedStep
  <1>5. CASE Runs(w) /\ conn' = [conn EXCEPT ![d] = e] /\ Goto(w, "group")
    <2>1. /\ e \in Connection /\ LinkOK(e) /\ e.believed /\ e.groups = {} /\ e.members = {}
      BY <1>2, <1>3 DEF Connection, LinkOK
    <2> HIDE DEF e
    <2>2. conn' \in [Dbs -> Connection] /\ conn'[d] = e /\ \A x \in Dbs \ {d} : conn'[x] = conn[x]
      BY <1>2, <1>5, <2>1
    <2>3. /\ op' \in [Workers -> Operation]
          /\ op'[w].pc = "group" /\ op'[w].db = d /\ op'[w].name = op[w].name
          /\ op'[w].todo = op[w].todo /\ op'[w].listed = op[w].listed
          /\ op'[w].fetched = op[w].fetched
          /\ \A v \in Workers \ {w} : op'[v] = op[v]
      BY <1>2, <1>5, Goes DEF Places
    <2>4. WorkerOK(w)'
      <3>1. Fits(op'[w], e)
        BY <2>1, <2>3 DEF Fits
      <3> QED
        BY <1>1, <1>2, <2>2, <2>3, <3>1 DEF WorkerOK, tables
    <2>5. Pairs'
      <3>1. Touches(w, d)
        BY <1>1, <2>2, <2>3 DEF Touches, tables
      <3>2. op[w].db \in {d, NoDb} /\ op'[w].db \in {d, NoDb} /\ op'[w].db # NoDb
            /\ LinkOK(conn'[d])
        BY <1>2, <2>1, <2>2, <2>3
      <3> HIDE DEF d
      <3> QED
        BY <1>2, <2>3, <2>4, <3>1, <3>2, OnlyOwnConnection
    <2>6. \A x \in Dbs : conn'[x].groups \subseteq conn[x].groups
      BY <1>3, <2>1, <2>2
    <2>7. w \in Starting /\ faults' \in 0..MaxFaults
      BY <1>1, <1>2, <1>5 DEF Starting, Runs
    <2> QED
      BY <1>1, <2>2, <2>3, <2>5, <2>6, <2>7, NothingWritten
  <1> QED
    BY <1>4, <1>5 DEF GroupBegin

\* In front of the rollback anything goes.
LEMMA ToRollback ==
    ASSUME TablesInv, NEW w \in Workers, op[w].pc \in {"group", "creator"},
           Refused(w), Goto(w, "rollback"), UNCHANGED <<tables, told, calls>>
    PROVE  TablesInv'
  <1> DEFINE d == op[w].db
  <1>1. /\ d \in Dbs /\ WorkerOK(w) /\ op \in [Workers -> Operation] /\ d # NoDb
        /\ op[w].name \in Names /\ NoName \notin Names
    BY OwnConnection, ConstantsAssumption
  <1>2. Calm(d)
    BY RefusedIsCalm
  <1>3. /\ op' \in [Workers -> Operation]
        /\ op'[w].pc = "rollback" /\ op'[w].db = d /\ op'[w].name = op[w].name
        /\ op'[w].todo = op[w].todo /\ op'[w].listed = op[w].listed
        /\ op'[w].fetched = op[w].fetched
        /\ \A v \in Workers \ {w} : op'[v] = op[v]
    BY <1>1, Goes DEF Places
  <1>4. WorkerOK(w)'
    BY <1>1, <1>3 DEF WorkerOK, Fits, tables
  <1>5. Pairs'
    BY <1>2, <1>3, <1>4, CalmStep DEF tables
  <1>6. \A x \in Dbs : conn'[x].groups \subseteq conn[x].groups
    BY <1>1, <1>2 DEF Calm
  <1> QED
    BY <1>2, <1>3, <1>5, <1>6, NothingWritten DEF Calm

\* In the transaction a statement runs only over the link it began on.
LEMMA StillOpen ==
    ASSUME TablesInv, NEW w \in Workers, op[w].pc \in {"group", "creator"}, Runs(w)
    PROVE  conn[op[w].db].up /\ conn[op[w].db].believed /\ conn[op[w].db].open
  <1>1. Fits(op[w], conn[op[w].db]) /\ LinkOK(conn[op[w].db])
    BY OwnConnection
  <1>2. conn[op[w].db].believed
    BY <1>1 DEF Fits
  <1> QED
    BY <1>1, <1>2 DEF Runs, LinkOK

LEMMA GroupInsertStep ==
    ASSUME TablesInv, NEW w \in Workers, GroupInsert(w)
    PROVE  TablesInv'
  <1> DEFINE d == op[w].db
             g == nextId["AllGroup"]
             e == [conn[d] EXCEPT !.up = TRUE, !.last = g, !.groups = {g}]
  <1>1. op[w].pc = "group" /\ UNCHANGED <<users, members, offline, told, calls>>
    BY DEF GroupInsert, At
  <1>2. /\ d \in Dbs /\ Fits(op[w], conn[d]) /\ WorkerOK(w) /\ Pairs
        /\ LinkOK(conn[d]) /\ conn[d] \in Connection /\ conn \in [Dbs -> Connection]
        /\ op \in [Workers -> Operation] /\ d # NoDb /\ NoDb \notin Dbs
        /\ \A v \in Workers \ {w} : op[v].db # d
        /\ faults \in 0..MaxFaults
    BY <1>1, OwnConnection
  <1>3. CASE Refused(w) /\ Goto(w, "rollback") /\ UNCHANGED <<groups, nextId>>
    BY <1>1, <1>3, ToRollback DEF tables
  <1>4. ASSUME Runs(w), Goto(w, "creator"), nextId' = [nextId EXCEPT !["AllGroup"] = @ + 1],
               conn' = [conn EXCEPT ![d] = [@ EXCEPT !.up = TRUE, !.last = g,
                           !.groups = IF conn[d].open THEN {g} ELSE @]],
               groups' = IF conn[d].open THEN groups ELSE groups \cup {g}
        PROVE  TablesInv'
    <2>1. w \in Starting /\ g \in Ids /\ g \in Nat \ {0}
      BY <1>1, IdsLeft DEF Starting, Ids
    <2>2. conn[d].up /\ conn[d].believed /\ conn[d].open
      BY <1>1, <1>4, StillOpen
    <2>3. conn' = [conn EXCEPT ![d] = e] /\ groups' = groups
      BY <1>2, <1>4, <2>2
    <2>4. /\ e \in Connection /\ LinkOK(e) /\ e.believed /\ e.open
          /\ e.groups = {g} /\ e.members = {} /\ e.last = g
      <3>1. conn[d].members = {}
        BY <1>1, <1>2 DEF Fits
      <3> HIDE DEF g, d
      <3> QED
        BY <1>2, <2>1, <2>2, <3>1 DEF Connection, LinkOK
    <2> HIDE DEF e
    <2>5. conn' \in [Dbs -> Connection] /\ conn'[d] = e /\ \A x \in Dbs \ {d} : conn'[x] = conn[x]
      BY <1>2, <2>3, <2>4
    <2>6. /\ op' \in [Workers -> Operation]
          /\ op'[w].pc = "creator" /\ op'[w].db = d /\ op'[w].name = op[w].name
          /\ op'[w].todo = op[w].todo /\ op'[w].listed = op[w].listed
          /\ op'[w].fetched = op[w].fetched
          /\ \A v \in Workers \ {w} : op'[v] = op[v]
      BY <1>2, <1>4, Goes DEF Places
    <2>7. CallsCounted' /\ nextId' \in [{"User", "AllGroup"} -> 1..(MaxCalls + 1)]
      BY <1>1, <1>4, <2>1, <2>6, OneIdTaken
    <2>8. TypeOK'
      BY <1>1, <1>2, <1>4, <2>3, <2>5, <2>6, <2>7 DEF TablesInv, TypeOK, Runs
    <2>9. WorkerOK(w)'
      <3>1. Fits(op'[w], e)
        BY <2>1, <2>4, <2>6 DEF Fits
      <3> QED
        BY <1>1, <1>2, <2>3, <2>5, <2>6, <3>1 DEF WorkerOK
    <2>10. Pairs'
      <3>1. Touches(w, d)
        BY <1>1, <2>3, <2>5, <2>6 DEF Touches
      <3>2. op[w].db \in {d, NoDb} /\ op'[w].db \in {d, NoDb} /\ op'[w].db # NoDb
            /\ LinkOK(conn'[d])
        BY <1>2, <2>4, <2>5, <2>6
      <3> HIDE DEF d
      <3> QED
        BY <1>2, <2>6, <2>9, <3>1, <3>2, OnlyOwnConnection
    <2>11. nextId'["AllGroup"] = g + 1
      BY <1>4 DEF TablesInv, TypeOK
    <2>12. /\ \A x \in groups : x < g /\ x \in Int
           /\ \A x \in Dbs : \A y \in conn[x].groups : y < g /\ y \in Int /\ y \notin groups
           /\ \A x, y \in Dbs : x # y => conn[x].groups \cap conn[y].groups = {}
      BY DEF TablesInv, Fresh, TypeOK, Connection, Ids
    <2>13. \A x \in Dbs : conn'[x].groups = IF x = d THEN {g} ELSE conn[x].groups
      BY <2>4, <2>5
    <2>14. Fresh'
      <3> HIDE DEF g, d
      <3>1. \A x \in groups' : x < nextId'["AllGroup"]
        BY <2>1, <2>3, <2>11, <2>12
      <3>2. \A x \in Dbs : \A y \in conn'[x].groups : y < nextId'["AllGroup"] /\ y \notin groups'
        BY <2>1, <2>3, <2>11, <2>12, <2>13
      <3>3. \A x, y \in Dbs : x # y => conn'[x].groups \cap conn'[y].groups = {}
        BY <2>1, <2>12, <2>13
      <3> QED
        BY <3>1, <3>2, <3>3 DEF Fresh
    <2>15. Created' /\ AnswerHasOwnId'
      BY <1>1, <2>3 DEF TablesInv, Created, Creators, AnswerHasOwnId
    <2> QED
      BY <2>7, <2>8, <2>10, <2>14, <2>15 DEF TablesInv
  <1> QED
    BY <1>3, <1>4 DEF GroupInsert

LEMMA CreatorInsertStep ==
    ASSUME TablesInv, NEW w \in Workers, CreatorInsert(w)
    PROVE  TablesInv'
  <1> DEFINE d == op[w].db
             row == CreatorRow(conn[d].last, op[w].name)
             e == [conn[d] EXCEPT !.up = TRUE, !.members = {row}]
  <1>1. op[w].pc = "creator" /\ UNCHANGED <<users, groups, offline, nextId, told, calls>>
    BY DEF CreatorInsert, At
  <1>2. /\ d \in Dbs /\ Fits(op[w], conn[d]) /\ WorkerOK(w) /\ Pairs
        /\ LinkOK(conn[d]) /\ conn[d] \in Connection /\ conn \in [Dbs -> Connection]
        /\ op \in [Workers -> Operation] /\ d # NoDb /\ NoDb \notin Dbs
        /\ op[w].name \in Names
        /\ \A v \in Workers \ {w} : op[v].db # d
        /\ faults \in 0..MaxFaults
    BY <1>1, OwnConnection
  <1>3. CASE Refused(w) /\ Goto(w, "rollback") /\ UNCHANGED members
    BY <1>1, <1>3, ToRollback DEF tables
  <1>4. ASSUME Runs(w), Goto(w, "commit"),
               conn' = [conn EXCEPT ![d] = [@ EXCEPT !.up = TRUE,
                           !.members = IF conn[d].open THEN {row} ELSE @]],
               members' = IF conn[d].open THEN members ELSE members \cup {row}
        PROVE  TablesInv'
    <2>1. conn[d].up /\ conn[d].believed /\ conn[d].open
      BY <1>1, <1>4, StillOpen
    <2>2. conn' = [conn EXCEPT ![d] = e] /\ members' = members
      BY <1>2, <1>4, <2>1
    <2>3. conn[d].last \in Ids /\ conn[d].last # 0 /\ conn[d].groups = {conn[d].last}
      BY <1>1, <1>2, <2>1 DEF Fits, Connection
    <2>4. row \in MemberRow
      BY <1>2, <2>3 DEF MemberRow, CreatorRow
    <2>5. /\ e \in Connection /\ LinkOK(e) /\ e.believed /\ e.open
          /\ e.groups = {conn[d].last} /\ e.members = {row} /\ e.last = conn[d].last
      <3> HIDE DEF row, d
      <3> QED
        BY <1>2, <2>1, <2>3, <2>4 DEF Connection, LinkOK
    <2> HIDE DEF e
    <2>6. conn' \in [Dbs -> Connection] /\ conn'[d] = e /\ \A x \in Dbs \ {d} : conn'[x] = conn[x]
      BY <1>2, <2>2, <2>5
    <2>7. /\ op' \in [Workers -> Operation]
          /\ op'[w].pc = "commit" /\ op'[w].db = d /\ op'[w].name = op[w].name
          /\ op'[w].todo = op[w].todo /\ op'[w].listed = op[w].listed
          /\ op'[w].fetched = op[w].fetched
          /\ \A v \in Workers \ {w} : op'[v] = op[v]
      BY <1>2, <1>4, Goes DEF Places
    <2>8. WorkerOK(w)'
      <3>1. Fits(op'[w], e)
        BY <2>3, <2>5, <2>7 DEF Fits, CreatorRow
      <3> QED
        BY <1>1, <1>2, <2>6, <2>7, <3>1 DEF WorkerOK
    <2>9. Pairs'
      <3>1. Touches(w, d)
        BY <1>1, <2>6, <2>7 DEF Touches
      <3>2. op[w].db \in {d, NoDb} /\ op'[w].db \in {d, NoDb} /\ op'[w].db # NoDb
            /\ LinkOK(conn'[d])
        BY <1>2, <2>5, <2>6, <2>7
      <3> HIDE DEF d
      <3> QED
        BY <1>2, <2>7, <2>8, <3>1, <3>2, OnlyOwnConnection
    <2>10. \A x \in Dbs : conn'[x].groups \subseteq conn[x].groups
      BY <2>3, <2>5, <2>6
    <2>11. UNCHANGED <<tables, told, calls>> /\ faults' \in 0..MaxFaults
      BY <1>1, <1>2, <1>4, <2>2 DEF tables, Runs
    <2> QED
      BY <2>6, <2>7, <2>9, <2>10, <2>11, NothingWritten
  <1> QED
    BY <1>3, <1>4 DEF CreatorInsert, CreatorRow

\* The end of a transaction: the connection goes back to the pool, with a record e.
LEMMA TransactionEnds ==
    ASSUME TablesInv, NEW w \in Workers, op[w].pc \in {"commit", "rollback"}, Return(w),
           NEW e \in Connection, LinkOK(e), ~e.believed, e.groups = {},
           conn' = [conn EXCEPT ![op[w].db] = e], groups \subseteq groups', users' = users
    PROVE  /\ op' \in [Workers -> Operation] /\ conn' \in [Dbs -> Connection]
           /\ op'[w].pc = "idle" /\ \A v \in Workers \ {w} : op'[v] = op[v]
           /\ \A x \in Dbs : conn'[x].groups = IF x = op[w].db THEN {} ELSE conn[x].groups
           /\ Pairs'
  <1> DEFINE d == op[w].db
  <1>1. /\ d \in Dbs /\ Pairs /\ conn \in [Dbs -> Connection]
        /\ op \in [Workers -> Operation] /\ d # NoDb /\ NoDb \notin Dbs
        /\ \A v \in Workers \ {w} : op[v].db # d
    BY OwnConnection
  <1>2. conn' \in [Dbs -> Connection] /\ conn'[d] = e /\ \A x \in Dbs \ {d} : conn'[x] = conn[x]
    BY <1>1
  <1>3. /\ op' \in [Workers -> Operation] /\ op'[w] = NoOperation
        /\ \A v \in Workers \ {w} : op'[v] = op[v]
    BY <1>1, Returns
  <1>4. WorkerOK(w)' /\ op'[w].db = NoDb /\ op'[w].pc = "idle"
    BY <1>3, IdleIsOK
  <1>5. Pairs'
    <2>1. Touches(w, d)
      BY <1>2, <1>3 DEF Touches
    <2>2. op[w].db \in {d, NoDb} /\ op'[w].db \in {d, NoDb} /\ LinkOK(conn'[d])
          /\ ~conn'[d].open /\ ~conn'[d].believed
      BY <1>2, <1>4 DEF LinkOK
    <2> HIDE DEF d
    <2> QED
      BY <1>1, <1>3, <1>4, <2>1, <2>2, OnlyOwnConnection
  <1> QED
    BY <1>2, <1>3, <1>4, <1>5

LEMMA GroupCommitStep ==
    ASSUME TablesInv, NEW w \in Workers, GroupCommit(w)
    PROVE  TablesInv'
  <1> DEFINE d == op[w].db
             G == conn[d].groups
  <1>1. /\ op[w].pc = "commit" /\ Return(w)
        /\ UNCHANGED <<users, offline, nextId, told, calls>>
    BY DEF GroupCommit, At
  <1>2. /\ d \in Dbs /\ Fits(op[w], conn[d])
        /\ LinkOK(conn[d]) /\ conn[d] \in Connection /\ conn \in [Dbs -> Connection]
        /\ op[w].name \in Names /\ faults \in 0..MaxFaults /\ MaxFaults \in Nat
    BY <1>1, OwnConnection
  <1>3. CASE ~conn[d].up /\ conn' = [conn EXCEPT ![d].believed = FALSE]
             /\ UNCHANGED <<groups, members, faults>>
    <2> DEFINE e == [conn[d] EXCEPT !.believed = FALSE]
    <2>1. e \in Connection /\ LinkOK(e) /\ ~e.believed /\ e.groups = {}
      BY <1>2, <1>3, LinkLost
    <2>2. conn' = [conn EXCEPT ![d] = e]
      BY <1>2, <1>3
    <2> HIDE DEF e
    <2>3. /\ op' \in [Workers -> Operation] /\ conn' \in [Dbs -> Connection]
          /\ op'[w].pc = "idle" /\ \A v \in Workers \ {w} : op'[v] = op[v]
          /\ \A x \in Dbs : conn'[x].groups = IF x = d THEN {} ELSE conn[x].groups
          /\ Pairs'
      BY <1>1, <1>3, <2>1, <2>2, TransactionEnds
    <2>4. UNCHANGED <<tables, told, calls>> /\ faults' \in 0..MaxFaults
      BY <1>1, <1>2, <1>3 DEF tables
    <2>5. \A x \in Dbs : conn'[x].groups \subseteq conn[x].groups
      BY <2>3
    <2>6. op'[w].pc \in {"register", "begin", "group"} => w \in Starting
      BY <2>3
    <2> QED
      BY <2>3, <2>4, <2>5, <2>6, NothingWritten
  <1>4. ASSUME conn[d].up, groups' = groups \cup G, members' = members \cup conn[d].members,
               \/ conn' = [conn EXCEPT ![d] = Closed(d)] /\ UNCHANGED faults
               \/ Fault /\ conn' = [conn EXCEPT ![d] = [Closed(d) EXCEPT !.up = FALSE]]
        PROVE  TablesInv'
    <2>1. PICK e : /\ e = Closed(d) \/ \E up \in BOOLEAN : e = [Closed(d) EXCEPT !.up = up]
                   /\ conn' = [conn EXCEPT ![d] = e]
      BY <1>4
    <2>2. e \in Connection /\ LinkOK(e) /\ ~e.believed /\ e.groups = {}
      BY <1>2, <2>1, LinkClosed
    <2>3. /\ op' \in [Workers -> Operation] /\ conn' \in [Dbs -> Connection]
          /\ op'[w].pc = "idle" /\ \A v \in Workers \ {w} : op'[v] = op[v]
          /\ \A x \in Dbs : conn'[x].groups = IF x = d THEN {} ELSE conn[x].groups
          /\ Pairs'
      BY <1>1, <1>4, <2>1, <2>2, TransactionEnds
    <2> DEFINE g == conn[d].last
               row == CreatorRow(g, op[w].name)
    <2>4. /\ G = {g} /\ conn[d].members = {row} /\ g \in Ids
          /\ G \subseteq Ids /\ conn[d].members \subseteq MemberRow
      <3>1. conn[d].open
        BY <1>1, <1>2, <1>4 DEF Fits, LinkOK
      <3> QED
        BY <1>1, <1>2, <3>1 DEF Fits, CreatorRow, Connection
    <2>5. faults' \in 0..MaxFaults
      BY <1>2, <1>4 DEF Fault
    <2>6. TypeOK'
      BY <1>1, <1>4, <2>3, <2>4, <2>5 DEF TablesInv, TypeOK
    <2>7. CallsCounted'
      BY <1>1, <2>3, NoIdTaken DEF TablesInv
    <2>8. /\ \A y \in G : y < nextId["AllGroup"] /\ y \notin groups
          /\ \A x \in Dbs : x # d => G \cap conn[x].groups = {}
          /\ Fresh
      BY <1>2 DEF TablesInv, Fresh
    <2>9. Fresh'
      <3> HIDE DEF G, d
      <3>1. \A x \in groups' : x < nextId'["AllGroup"]
        BY <1>1, <1>4, <2>8 DEF Fresh
      <3>2. \A x \in Dbs : \A y \in conn'[x].groups : y < nextId'["AllGroup"] /\ y \notin groups'
        <4> SUFFICES ASSUME NEW x \in Dbs, NEW y \in conn'[x].groups
                     PROVE  y < nextId'["AllGroup"] /\ y \notin groups'
          OBVIOUS
        <4>1. x # d /\ y \in conn[x].groups
          BY <2>3
        <4> QED
          BY <1>1, <1>4, <2>8, <4>1 DEF Fresh
      <3>3. \A x, y \in Dbs : x # y => conn'[x].groups \cap conn'[y].groups = {}
        BY <2>3, <2>8 DEF Fresh
      <3> QED
        BY <3>1, <3>2, <3>3 DEF Fresh
    <2>10. Created'
      <3> SUFFICES ASSUME NEW x \in Ids
                   PROVE  /\ x \in groups' => \E n \in Names : Creators(x)' = {CreatorRow(x, n)}
                          /\ x \notin groups' => Creators(x)' = {}
        BY DEF Created
      <3>1. /\ x \in groups => \E n \in Names : Creators(x) = {CreatorRow(x, n)}
            /\ x \notin groups => Creators(x) = {}
        BY DEF TablesInv, Created
      <3>2. CASE x = g
        <4>1. Creators(x) = {} /\ x \in groups'
          BY <1>4, <2>4, <2>8, <3>1, <3>2
        <4>2. Creators(x)' = {row}
          BY <1>4, <2>4, <3>2, <4>1 DEF Creators, CreatorRow
        <4> QED
          BY <1>2, <3>2, <4>1, <4>2
      <3>3. CASE x # g
        <4>1. Creators(x)' = Creators(x)
          BY <1>4, <2>4, <3>3 DEF Creators, CreatorRow
        <4>2. x \in groups' <=> x \in groups
          BY <1>4, <2>4, <3>3
        <4> QED
          BY <3>1, <4>1, <4>2
      <3> QED
        BY <3>2, <3>3
    <2>11. AnswerHasOwnId'
      BY <1>1 DEF TablesInv, AnswerHasOwnId
    <2> QED
      BY <2>3, <2>6, <2>7, <2>9, <2>10, <2>11 DEF TablesInv
  <1> QED
    BY <1>3, <1>4 DEF GroupCommit

LEMMA GroupRollbackStep ==
    ASSUME TablesInv, NEW w \in Workers, GroupRollback(w)
    PROVE  TablesInv'
  <1> DEFINE d == op[w].db
  <1>1. op[w].pc = "rollback" /\ Return(w) /\ UNCHANGED <<tables, told, calls>>
    BY DEF GroupRollback, At
  <1>2. /\ d \in Dbs /\ LinkOK(conn[d]) /\ conn[d] \in Connection
        /\ faults \in 0..MaxFaults /\ MaxFaults \in Nat
    BY <1>1, OwnConnection
  <1>3. PICK e : /\ \/ \E up \in BOOLEAN : e = [Closed(d) EXCEPT !.up = up]
                    \/ e = [Broken(d) EXCEPT !.believed = FALSE]
                 /\ conn' = [conn EXCEPT ![d] = e]
    BY DEF GroupRollback
  <1>4. e \in Connection /\ LinkOK(e) /\ ~e.believed /\ e.groups = {}
    BY <1>2, <1>3, LinkClosed
  <1>5. /\ op' \in [Workers -> Operation] /\ conn' \in [Dbs -> Connection]
        /\ op'[w].pc = "idle" /\ \A v \in Workers \ {w} : op'[v] = op[v]
        /\ \A x \in Dbs : conn'[x].groups = IF x = d THEN {} ELSE conn[x].groups
        /\ Pairs'
    BY <1>1, <1>3, <1>4, TransactionEnds DEF tables
  <1>6. faults' \in 0..MaxFaults
    BY <1>2 DEF GroupRollback, Fault
  <1> QED
    BY <1>1, <1>2, <1>5, <1>6, NothingWritten

\* addGroup adds no creator.
LEMMA AddGroupStep ==
    ASSUME TablesInv, NEW n \in Names, NEW g \in Ids, AddGroup(n, g)
    PROVE  TablesInv'
  <1> DEFINE row == [group |-> g, user |-> n, role |-> "normal"]
  <1>1. /\ members' = members \cup {row} /\ calls' = calls + 1 /\ calls < MaxCalls
        /\ UNCHANGED <<users, groups, offline, nextId, conn, op, told, faults>>
    BY DEF AddGroup, Call
  <1>2. calls \in 0..MaxCalls /\ MaxCalls \in Nat /\ calls' \in 0..MaxCalls
    BY <1>1, ConstantsAssumption DEF TablesInv, TypeOK
  <1>3. row \in MemberRow
    BY DEF MemberRow
  <1>4. TypeOK'
    BY <1>1, <1>2, <1>3 DEF TablesInv, TypeOK
  <1>5. CallsCounted'
    <2>1. Starting' = Starting
      BY <1>1 DEF Starting
    <2>2. nextId["User"] \in Int /\ nextId["AllGroup"] \in Int
      BY <1>2 DEF TablesInv, TypeOK
    <2> QED
      BY <1>1, <1>2, <2>1, <2>2, StartingCounted DEF TablesInv, CallsCounted
  <1>6. Pairs'
    <2>1. \A w \in Workers : WorkerOK(w)'
      BY <1>1, Untouched DEF TablesInv, Pairs
    <2> QED
      BY <1>1, <2>1 DEF TablesInv, Pairs, NoTransactionInPool, Free, Exclusive
  <1>7. Fresh'
    BY <1>1 DEF TablesInv, Fresh
  <1>8. Created'
    <2>1. \A x \in Ids : Creators(x)' = Creators(x)
      BY <1>1 DEF Creators
    <2> QED
      BY <1>1, <2>1 DEF TablesInv, Created
  <1>9. AnswerHasOwnId'
    BY <1>1 DEF TablesInv, AnswerHasOwnId
  <1> QED
    BY <1>4, <1>5, <1>6, <1>7, <1>8, <1>9 DEF TablesInv

LEMMA QueryGroupsStep ==
    ASSUME TablesInv, NEW w \in Workers, QueryGroups(w)
    PROVE  TablesInv'
  <1> DEFINE d == op[w].db
             found == {g \in groups : \E r \in members : r.group = g /\ r.user = op[w].name}
  <1>1. op[w].pc = "list" /\ UNCHANGED <<tables, told, calls>>
    BY DEF QueryGroups, At
  <1>2. /\ d \in Dbs /\ Fits(op[w], conn[d]) /\ WorkerOK(w) /\ op[w].name \in Names
        /\ op \in [Workers -> Operation] /\ d # NoDb /\ NoName \notin Names
        /\ groups \subseteq Ids
    BY <1>1, OwnConnection, ConstantsAssumption DEF TablesInv, TypeOK
  <1>3. ~conn[d].believed
    BY <1>1, <1>2 DEF Fits
  <1>4. CASE Refused(w) /\ Return(w)
    BY <1>1, <1>3, <1>4, FailedStep
  <1>5. CASE Runs(w) /\ conn' = [conn EXCEPT ![d].up = TRUE]
             /\ op' = [op EXCEPT ![w].pc = "members", ![w].todo = found]
    <2>1. Calm(d)
      BY <1>1, <1>5, RunIsCalm
    <2>2. found \subseteq groups /\ found \in SUBSET Ids
      BY <1>2
    <2> HIDE DEF found
    <2>3. /\ op' \in [Workers -> Operation]
          /\ op'[w].pc = "members" /\ op'[w].db = d /\ op'[w].name = op[w].name
          /\ op'[w].todo = found /\ op'[w].listed = op[w].listed
          /\ op'[w].fetched = op[w].fetched
          /\ \A v \in Workers \ {w} : op'[v] = op[v]
      BY <1>2, <1>5, <2>2, ZenonT(30) DEF Operation
    <2>4. WorkerOK(w)'
      <3>1. Fits(op'[w], conn'[d])
        BY <1>3, <2>1, <2>3 DEF Fits, Calm
      <3> QED
        BY <1>1, <1>2, <2>2, <2>3, <3>1 DEF WorkerOK, tables
    <2>5. Pairs'
      BY <1>1, <2>1, <2>3, <2>4, CalmStep DEF tables
    <2>6. \A x \in Dbs : conn'[x].groups \subseteq conn[x].groups
      BY <2>1 DEF Calm
    <2> QED
      BY <1>1, <2>1, <2>3, <2>5, <2>6, NothingWritten DEF Calm
  <1> QED
    BY <1>4, <1>5 DEF QueryGroups

LEMMA QueryMembersStep ==
    ASSUME TablesInv, NEW w \in Workers, NEW g \in Ids, QueryMembers(w, g)
    PROVE  TablesInv'
  <1> DEFINE d == op[w].db
             answer(R) == op' = [op EXCEPT ![w].todo = @ \ {g},
                                    ![w].listed = @ \cup {[group |-> g, rows |-> R]}]
  <1>1. op[w].pc = "members" /\ g \in op[w].todo /\ UNCHANGED <<tables, told, calls>>
    BY DEF QueryMembers, At
  <1>2. /\ d \in Dbs /\ Fits(op[w], conn[d]) /\ WorkerOK(w) /\ op[w].name \in Names
        /\ op \in [Workers -> Operation] /\ d # NoDb /\ NoName \notin Names
        /\ members \subseteq MemberRow
    BY <1>1, OwnConnection, ConstantsAssumption DEF TablesInv, TypeOK
  <1>3. PICK R : /\ R = {r \in members : r.group = g /\ Taken(r.user)} \/ R = {}
                 /\ answer(R)
                 /\ \/ Runs(w) /\ conn' = [conn EXCEPT ![d].up = TRUE]
                    \/ Refused(w)
    BY DEF QueryMembers
  <1>4. Calm(d)
    BY <1>1, <1>3, RunIsCalm, RefusedIsCalm
  <1>5. R \subseteq members
    BY <1>3
  <1>6. R \in SUBSET MemberRow
    BY <1>2, <1>5
  <1> DEFINE l == [group |-> g, rows |-> R]
  <1>7. l \in [group: Ids, rows: SUBSET MemberRow] /\ l.rows = R
    BY <1>6
  <1> HIDE DEF l
  <1>8. op' = [op EXCEPT ![w].todo = @ \ {g}, ![w].listed = @ \cup {l}]
    BY <1>3 DEF l
  <1>9. /\ op' \in [Workers -> Operation]
        /\ op'[w].pc = "members" /\ op'[w].db = d /\ op'[w].name = op[w].name
        /\ op'[w].todo = op[w].todo \ {g} /\ op'[w].listed = op[w].listed \cup {l}
        /\ op'[w].fetched = op[w].fetched
        /\ \A v \in Workers \ {w} : op'[v] = op[v]
    BY <1>1, <1>2, <1>7, <1>8, ZenonT(30) DEF Operation
  <1>10. WorkerOK(w)'
    <2>1. Fits(op'[w], conn'[d])
      BY <1>1, <1>2, <1>4, <1>9 DEF Fits, Calm
    <2> QED
      BY <1>1, <1>2, <1>9, <2>1 DEF WorkerOK, tables
  <1>11. Pairs'
    BY <1>1, <1>4, <1>9, <1>10, CalmStep DEF tables
  <1>12. \A x \in Dbs : conn'[x].groups \subseteq conn[x].groups
    BY <1>4 DEF Calm
  <1> QED
    BY <1>1, <1>4, <1>9, <1>11, <1>12, NothingWritten DEF Calm

LEMMA ListDoneStep ==
    ASSUME TablesInv, NEW w \in Workers, ListDone(w)
    PROVE  TablesInv'
  <1> DEFINE d == op[w].db
  <1>1. op[w].pc = "members" /\ Return(w) /\ UNCHANGED <<tables, conn, told, calls, faults>>
    BY DEF ListDone, At
  <1>2. /\ d \in Dbs /\ Fits(op[w], conn[d]) /\ LinkOK(conn[d])
        /\ op \in [Workers -> Operation] /\ conn \in [Dbs -> Connection]
        /\ faults \in 0..MaxFaults
    BY <1>1, OwnConnection
  <1>3. Calm(d) /\ ~conn'[d].believed
    BY <1>1, <1>2 DEF Calm, Fits
  <1>4. /\ op' \in [Workers -> Operation] /\ op'[w] = NoOperation
        /\ \A v \in Workers \ {w} : op'[v] = op[v]
    BY <1>1, <1>2, Returns
  <1>5. op'[w].pc = "idle"
    BY <1>4, IdleIsOK
  <1>6. Pairs'
    BY <1>1, <1>3, CalmEnd DEF tables
  <1> QED
    BY <1>1, <1>2, <1>4, <1>5, <1>6, NothingWritten

\* A step of w, if of any worker, that touches no connection.
LEMMA NoConnectionTouched ==
    ASSUME TablesInv, NEW w \in Workers, conn' = conn, op'[w].db = op[w].db, WorkerOK(w)',
           \A v \in Workers \ {w} : op'[v] = op[v], UNCHANGED <<groups, users>>
    PROVE  Pairs'
  <1>1. \A v \in Workers : WorkerOK(v)' /\ op'[v].db = op[v].db
    BY Untouched DEF TablesInv, Pairs
  <1> QED
    BY <1>1 DEF TablesInv, Pairs, NoTransactionInPool, Free, Exclusive

LEMMA StoreOfflineStep ==
    ASSUME TablesInv, NEW p \in 1..Len(Payloads), StoreOffline(p)
    PROVE  TablesInv'
  <1>1. /\ calls' = calls + 1 /\ calls < MaxCalls
        /\ \/ offline' = Append(offline, p) /\ UNCHANGED faults
           \/ Fault /\ UNCHANGED offline
        /\ UNCHANGED <<users, groups, members, nextId, conn, op, told>>
    BY DEF StoreOffline, Call
  <1>2. /\ calls \in 0..MaxCalls /\ MaxCalls \in Nat /\ calls' \in 0..MaxCalls
        /\ faults \in 0..MaxFaults /\ MaxFaults \in Nat
    BY <1>1, ConstantsAssumption DEF TablesInv, TypeOK
  <1>3. offline' \in Seq(1..Len(Payloads)) /\ faults' \in 0..MaxFaults
    <2>1. offline \in Seq(1..Len(Payloads))
      BY DEF TablesInv, TypeOK
    <2>2. Append(offline, p) \in Seq(1..Len(Payloads))
      BY <2>1, AppendProperties
    <2>3. offline' \in Seq(1..Len(Payloads))
      BY <1>1, <2>1, <2>2
    <2>4. faults' = faults \/ (faults < MaxFaults /\ faults' = faults + 1)
      BY <1>1 DEF Fault
    <2>5. faults' \in 0..MaxFaults
      BY <1>2, <2>4
    <2> QED
      BY <2>3, <2>5
  <1>4. TypeOK'
    BY <1>1, <1>2, <1>3 DEF TablesInv, TypeOK
  <1>5. CallsCounted'
    <2>1. Starting' = Starting
      BY <1>1 DEF Starting
    <2>2. nextId["User"] \in Int /\ nextId["AllGroup"] \in Int
      BY <1>2 DEF TablesInv, TypeOK
    <2> QED
      BY <1>1, <1>2, <2>1, <2>2, StartingCounted DEF TablesInv, CallsCounted
  <1>6. Pairs'
    <2>1. \A w \in Workers : WorkerOK(w)'
      BY <1>1, Untouched DEF TablesInv, Pairs
    <2> QED
      BY <1>1, <2>1 DEF TablesInv, Pairs, NoTransactionInPool, Free, Exclusive
  <1>7. Fresh' /\ Created'
    BY <1>1, GroupsStay DEF TablesInv
  <1>8. AnswerHasOwnId'
    BY <1>1 DEF TablesInv, AnswerHasOwnId
  <1> QED
    BY <1>4, <1>5, <1>6, <1>7, <1>8 DEF TablesInv

LEMMA LoginQueryStep ==
    ASSUME TablesInv, NEW w \in Workers, LoginQuery(w)
    PROVE  TablesInv'
  <1> DEFINE o == [NoOperation EXCEPT !.pc = "remove", !.seen = offline,
                                      !.fetched = Handed(offline)]
  <1>1. /\ op[w].pc = "idle" /\ calls' = calls + 1 /\ calls < MaxCalls
        /\ op' = [op EXCEPT ![w] = o]
        /\ UNCHANGED <<users, groups, members, offline, nextId, conn, told, faults>>
    BY DEF LoginQuery, At, Call, Handed, Listed, tables
  <1>2. /\ calls \in 0..MaxCalls /\ MaxCalls \in Nat /\ calls' \in 0..MaxCalls
        /\ op \in [Workers -> Operation] /\ WorkerOK(w)
        /\ offline \in Seq(Rows)
    BY <1>1, ConstantsAssumption DEF TablesInv, TypeOK, Pairs, Rows
  <1>3. Handed(offline) \in Seq(Rows)
    BY <1>2, HandedRows
  <1>4. o \in Operation
    BY <1>2, <1>3, NoOperationTyped DEF Operation, Rows
  <1>5. /\ o.pc = "remove" /\ o.db = NoDb /\ o.todo = {} /\ o.listed = {}
        /\ o.seen = offline /\ o.fetched = Handed(offline)
    BY DEF NoOperation
  <1> HIDE DEF o
  <1>6. /\ op' \in [Workers -> Operation] /\ op'[w] = o
        /\ \A v \in Workers \ {w} : op'[v] = op[v]
    BY <1>1, <1>2, <1>4
  <1>7. TypeOK'
    BY <1>1, <1>2, <1>6 DEF TablesInv, TypeOK
  <1>8. CallsCounted'
    <2>1. Starting' = Starting
      BY <1>1, <1>5, <1>6 DEF Starting
    <2>2. nextId["User"] \in Int /\ nextId["AllGroup"] \in Int
      BY <1>2 DEF TablesInv, TypeOK
    <2> QED
      BY <1>1, <1>2, <2>1, <2>2, StartingCounted DEF TablesInv, CallsCounted
  <1>9. Pairs'
    <2>1. WorkerOK(w)'
      BY <1>5, <1>6 DEF WorkerOK
    <2>2. op[w].db = NoDb
      BY <1>1, <1>2 DEF WorkerOK
    <2> QED
      BY <1>1, <1>5, <1>6, <2>1, <2>2, NoConnectionTouched
  <1>10. Fresh' /\ Created'
    BY <1>1, GroupsStay DEF TablesInv
  <1>11. AnswerHasOwnId'
    BY <1>1 DEF TablesInv, AnswerHasOwnId
  <1> QED
    BY <1>7, <1>8, <1>9, <1>10, <1>11 DEF TablesInv

LEMMA LoginRemoveStep ==
    ASSUME TablesInv, NEW w \in Workers, LoginRemove(w)
    PROVE  TablesInv'
  <1>1. /\ op[w].pc = "remove" /\ Return(w)
        /\ \/ offline' = <<>> /\ UNCHANGED faults
           \/ Fault /\ UNCHANGED offline
        /\ UNCHANGED <<users, groups, members, nextId, conn, told, calls>>
    BY DEF LoginRemove, At
  <1>2. /\ faults \in 0..MaxFaults /\ MaxFaults \in Nat
        /\ op \in [Workers -> Operation] /\ WorkerOK(w)
        /\ offline \in Seq(1..Len(Payloads))
    BY ConstantsAssumption DEF TablesInv, TypeOK, Pairs
  <1>3. offline' \in Seq(1..Len(Payloads)) /\ faults' \in 0..MaxFaults
    <2>1. <<>> \in Seq(1..Len(Payloads))
      BY EmptySeq
    <2>2. offline' \in Seq(1..Len(Payloads))
      BY <1>1, <1>2, <2>1
    <2>3. faults' = faults \/ (faults < MaxFaults /\ faults' = faults + 1)
      BY <1>1 DEF Fault
    <2>4. faults' \in 0..MaxFaults
      BY <1>2, <2>3
    <2> QED
      BY <2>2, <2>4
  <1>4. /\ op' \in [Workers -> Operation] /\ op'[w] = NoOperation
        /\ \A v \in Workers \ {w} : op'[v] = op[v]
    BY <1>1, <1>2, Returns
  <1>5. WorkerOK(w)' /\ op'[w].db = NoDb /\ op'[w].pc = "idle"
    BY <1>4, IdleIsOK
  <1>6. TypeOK'
    BY <1>1, <1>3, <1>4 DEF TablesInv, TypeOK
  <1>7. CallsCounted'
    BY <1>1, <1>4, <1>5, NoIdTaken DEF TablesInv
  <1>8. Pairs'
    <2>1. op[w].db = NoDb
      BY <1>1, <1>2 DEF WorkerOK
    <2> QED
      BY <1>1, <1>4, <1>5, <2>1, NoConnectionTouched
  <1>9. Fresh' /\ Created'
    BY <1>1, GroupsStay DEF TablesInv
  <1>10. AnswerHasOwnId'
    BY <1>1 DEF TablesInv, AnswerHasOwnId
  <1> QED
    BY <1>6, <1>7, <1>8, <1>9, <1>10 DEF TablesInv

\* A link that breaks takes its transaction with it, whatever its worker is doing.
LEMMA LinkBreaksStep ==
    ASSUME TablesInv, NEW d \in Dbs, LinkBreaks(d)
    PROVE  TablesInv'
  <1> DEFINE e == Broken(d)
  <1>1. /\ conn' = [conn EXCEPT ![d] = e] /\ Fault
        /\ UNCHANGED <<users, groups, members, offline, nextId, op, told, calls>>
    BY DEF LinkBreaks, tables
  <1>2. /\ conn \in [Dbs -> Connection] /\ conn[d] \in Connection /\ LinkOK(conn[d]) /\ Pairs
        /\ faults \in 0..MaxFaults /\ MaxFaults \in Nat
    BY ConstantsAssumption DEF TablesInv, TypeOK, Pairs
  <1>3. /\ e \in Connection /\ LinkOK(e)
        /\ e.believed <=> conn[d].believed
        /\ ~e.open /\ e.groups = {} /\ e.members = {} /\ e.last = conn[d].last
    BY <1>2, LinkDown
  <1> HIDE DEF e
  <1>4. conn' \in [Dbs -> Connection] /\ conn'[d] = e /\ \A x \in Dbs \ {d} : conn'[x] = conn[x]
    BY <1>1, <1>2, <1>3
  <1>5. TypeOK'
    BY <1>1, <1>2, <1>4 DEF TablesInv, TypeOK, Fault
  <1>6. CallsCounted'
    BY <1>1 DEF TablesInv, CallsCounted, Starting
  <1>7. ASSUME NEW w \in Workers PROVE WorkerOK(w)'
    <2>1. WorkerOK(w)
      BY <1>2 DEF Pairs
    <2>2. op[w].db # NoDb => Fits(op[w], conn'[op[w].db])
                             /\ conn'[op[w].db].last = conn[op[w].db].last
      <3>1. op[w].db # NoDb => Fits(op[w], conn[op[w].db]) /\ op[w].db \in Dbs
        BY <2>1 DEF WorkerOK, TablesInv, TypeOK, Operation
      <3>2. CASE op[w].db = d
        BY <1>3, <1>4, <3>1, <3>2 DEF Fits
      <3>3. CASE op[w].db # d
        BY <1>4, <3>1, <3>3
      <3> QED
        BY <3>2, <3>3
    <2>3. op[w].pc = "answer" => op[w].db # NoDb
      BY <2>1 DEF WorkerOK
    <2> QED
      BY <1>1, <2>1, <2>2, <2>3 DEF WorkerOK
  <1>8. Pairs'
    <2>1. \A x \in Dbs : LinkOK(conn'[x])
      BY <1>2, <1>3, <1>4 DEF Pairs
    <2>2. NoTransactionInPool'
      BY <1>1, <1>2, <1>3, <1>4 DEF Pairs, NoTransactionInPool, Free
    <2>3. Exclusive'
      BY <1>1, <1>2 DEF Pairs, Exclusive
    <2> QED
      BY <1>7, <2>1, <2>2, <2>3 DEF Pairs
  <1>9. Fresh' /\ Created'
    <2>1. \A x \in Dbs : conn'[x].groups \subseteq conn[x].groups
      BY <1>3, <1>4
    <2> QED
      BY <1>1, <2>1, GroupsStay DEF TablesInv
  <1>10. AnswerHasOwnId'
    BY <1>1 DEF TablesInv, AnswerHasOwnId
  <1> QED
    BY <1>5, <1>6, <1>8, <1>9, <1>10 DEF TablesInv
-----------------------------------------------------------------------------
\* Every step keeps the invariant.
LEMMA TablesStep == TablesInv /\ [Next]_vars => TablesInv'
  <1> SUFFICES ASSUME TablesInv, [Next]_vars PROVE TablesInv'
    OBVIOUS
  <1>1. ASSUME NEW w \in Workers, NEW n \in Names,
               Register(w, n) \/ CreateGroup(w, n) \/ ListGroups(w, n)
        PROVE  TablesInv'
    BY <1>1, StartStep
  <1>2. ASSUME NEW w \in Workers, RegisterStep(w) PROVE TablesInv'
    BY <1>2, RegisterInsertStep, RegisterAnswerStep DEF RegisterStep
  <1>3. ASSUME NEW w \in Workers, CreateStep(w) PROVE TablesInv'
    BY <1>3, GroupBeginStep, GroupInsertStep, CreatorInsertStep, GroupCommitStep,
       GroupRollbackStep DEF CreateStep
  <1>4. ASSUME NEW w \in Workers, ListStep(w) PROVE TablesInv'
    BY <1>4, QueryGroupsStep, QueryMembersStep, ListDoneStep DEF ListStep
  <1>5. ASSUME NEW w \in Workers, LoginQuery(w) \/ LoginRemove(w) PROVE TablesInv'
    BY <1>5, LoginQueryStep, LoginRemoveStep
  <1>6. ASSUME NEW n \in Names, NEW g \in Ids, AddGroup(n, g) PROVE TablesInv'
    BY <1>6, AddGroupStep
  <1>7. ASSUME NEW p \in 1..Len(Payloads), StoreOffline(p) PROVE TablesInv'
    BY <1>7, StoreOfflineStep
  <1>8. ASSUME NEW d \in Dbs, LinkBreaks(d) PROVE TablesInv'
    BY <1>8, LinkBreaksStep
  <1>9. CASE UNCHANGED vars
    <2>1. UNCHANGED <<users, groups, members, offline, nextId, conn, op, told, calls, faults>>
      BY <1>9 DEF vars, tables
    <2>2. TypeOK' /\ CallsCounted'
      BY <2>1 DEF TablesInv, TypeOK, CallsCounted, Starting
    <2>3. Pairs'
      <3>1. \A w \in Workers : WorkerOK(w)'
        BY <2>1, Untouched DEF TablesInv, Pairs
      <3> QED
        BY <2>1, <3>1 DEF TablesInv, Pairs, NoTransactionInPool, Free, Exclusive
    <2>4. Fresh' /\ Created' /\ AnswerHasOwnId'
      BY <2>1, GroupsStay DEF TablesInv, AnswerHasOwnId
    <2> QED
      BY <2>2, <2>3, <2>4 DEF TablesInv
  <1> QED
    BY <1>1, <1>2, <1>3, <1>4, <1>5, <1>6, <1>7, <1>8, <1>9 DEF Next

(* What a list of groups shows: creators have a row in User. *)

Creating == {"begin", "group", "creator", "commit"}
ShowsCreator(l) == l.rows = {} \/ \E r \in l.rows : r.role = "creator"

ListInv ==
    /\ \A w \in Workers : op[w].pc \in Creating => Taken(op[w].name)
    /\ \A r \in members : r.role = "creator" => Taken(r.user)
    /\ \A w \in Workers : \A l \in op[w].listed : ShowsCreator(l)

\* A step of worker w.
LEMMA ListKept ==
    ASSUME ListInv, users \subseteq users', NEW w \in Workers,
           \A v \in Workers \ {w} : op'[v] = op[v],
           \A r \in members' : r \in members \/ (r.role = "creator" => Taken(r.user)),
           op'[w].pc \in Creating => Taken(op'[w].name),
           \A l \in op'[w].listed : l \in op[w].listed \/ ShowsCreator(l)
    PROVE  ListInv'
  <1>1. \A n : Taken(n) => Taken(n)'
    BY DEF Taken
  <1> QED
    BY <1>1 DEF ListInv, ShowsCreator

\* The member rows stay, and w goes on with what it has.
LEMMA ListGoesOn ==
    ASSUME ListInv, users \subseteq users', members' = members, NEW w \in Workers,
           NEW p \in Places, op \in [Workers -> Operation], p \in Creating => op[w].pc \in Creating,
           Goto(w, p)
    PROVE  ListInv'
  <1>1. /\ op'[w].pc = p /\ op'[w].name = op[w].name /\ op'[w].listed = op[w].listed
        /\ \A v \in Workers \ {w} : op'[v] = op[v]
    BY Goes
  <1> QED
    BY <1>1, ListKept DEF ListInv

\* The member rows stay, and w is done.
LEMMA ListReturns ==
    ASSUME ListInv, users \subseteq users', members' = members, NEW w \in Workers,
           op \in [Workers -> Operation], Return(w)
    PROVE  ListInv'
  <1>1. /\ op'[w] = NoOperation /\ \A v \in Workers \ {w} : op'[v] = op[v]
    BY Returns
  <1>2. NoOperation.pc \notin Creating /\ NoOperation.listed = {}
    BY DEF NoOperation, Creating
  <1> QED
    BY <1>1, <1>2, ListKept

LEMMA ListStarts ==
    ASSUME TablesInv, ListInv, NEW w \in Workers, NEW n \in Names,
           Register(w, n) \/ CreateGroup(w, n) \/ ListGroups(w, n)
    PROVE  ListInv'
  <1>1. UNCHANGED tables /\ op \in [Workers -> Operation] /\ (CreateGroup(w, n) => Taken(n))
    BY DEF Register, CreateGroup, ListGroups, TablesInv, TypeOK
  <1>2. PICK p \in {"register", "begin", "list"} :
           Acquire(w, p, n) /\ (p = "begin" => CreateGroup(w, n))
    BY DEF Register, CreateGroup, ListGroups
  <1>3. PICK d \in Dbs :
           op' = [op EXCEPT ![w] = [NoOperation EXCEPT !.pc = p, !.db = d, !.name = n]]
    BY <1>2 DEF Acquire, Free
  <1> DEFINE o == [NoOperation EXCEPT !.pc = p, !.db = d, !.name = n]
  <1>4. o.pc = p /\ o.name = n /\ o.listed = {}
    BY DEF NoOperation
  <1> HIDE DEF o
  <1>5. op'[w] = o /\ \A v \in Workers \ {w} : op'[v] = op[v]
    BY <1>1, <1>3 DEF o
  <1>6. op'[w].pc \in Creating => Taken(op'[w].name)
    BY <1>1, <1>2, <1>4, <1>5 DEF Creating
  <1> QED
    BY <1>1, <1>4, <1>5, <1>6, ListKept DEF tables

LEMMA ListCommits ==
    ASSUME TablesInv, ListInv, NEW w \in Workers, GroupCommit(w)
    PROVE  ListInv'
  <1> DEFINE d == op[w].db
  <1>1. op[w].pc = "commit" /\ Return(w) /\ users' = users
    BY DEF GroupCommit, At
  <1>2. /\ Fits(op[w], conn[d]) /\ LinkOK(conn[d]) /\ op \in [Workers -> Operation]
    BY <1>1, OwnConnection
  <1>3. \A r \in members' : r \in members \/ r.user = op[w].name
    <2>1. conn[d].up => \A r \in conn[d].members : r.user = op[w].name
      BY <1>1, <1>2 DEF Fits, LinkOK
    <2>2. \/ conn[d].up /\ members' = members \cup conn[d].members
          \/ members' = members
      BY DEF GroupCommit
    <2> QED
      BY <2>1, <2>2
  <1>4. Taken(op[w].name)
    BY <1>1 DEF ListInv, Creating
  <1>5. /\ op'[w] = NoOperation /\ \A v \in Workers \ {w} : op'[v] = op[v]
    BY <1>1, <1>2, Returns
  <1>6. NoOperation.pc \notin Creating /\ NoOperation.listed = {}
    BY DEF NoOperation, Creating
  <1> QED
    BY <1>1, <1>3, <1>4, <1>5, <1>6, ListKept

LEMMA ListShows ==
    ASSUME TablesInv, ListInv, NEW w \in Workers, NEW g \in Ids, QueryMembers(w, g)
    PROVE  ListInv'
  <1>1. op[w].pc = "members" /\ g \in op[w].todo /\ UNCHANGED tables
    BY DEF QueryMembers, At
  <1>2. WorkerOK(w) /\ op \in [Workers -> Operation]
    BY <1>1, OwnConnection
  <1>3. PICK R : /\ R = {r \in members : r.group = g /\ Taken(r.user)} \/ R = {}
                 /\ op' = [op EXCEPT ![w].todo = @ \ {g},
                                     ![w].listed = @ \cup {[group |-> g, rows |-> R]}]
    BY DEF QueryMembers
  <1>4. R = {} \/ \E r \in R : r.role = "creator"
    <2>1. PICK n \in Names : Creators(g) = {CreatorRow(g, n)}
      BY <1>1, <1>2 DEF TablesInv, Created, WorkerOK
    <2>2. CreatorRow(g, n) \in members /\ CreatorRow(g, n).group = g
          /\ CreatorRow(g, n).role = "creator"
      BY <2>1 DEF Creators, CreatorRow
    <2>3. Taken(CreatorRow(g, n).user)
      BY <2>2 DEF ListInv
    <2> QED
      BY <1>3, <2>2, <2>3
  <1> DEFINE l == [group |-> g, rows |-> R]
  <1>5. ShowsCreator(l)
    BY <1>4 DEF ShowsCreator
  <1> HIDE DEF l
  <1>6. op' = [op EXCEPT ![w].todo = @ \ {g}, ![w].listed = @ \cup {l}]
    BY <1>3 DEF l
  <1>7. /\ op'[w].pc = op[w].pc /\ op'[w].listed = op[w].listed \cup {l}
        /\ \A v \in Workers \ {w} : op'[v] = op[v]
    BY <1>2, <1>6, ZenonT(30) DEF Operation
  <1>8. op'[w].pc \notin Creating
    BY <1>1, <1>7 DEF Creating
  <1> QED
    BY <1>1, <1>5, <1>7, <1>8, ListKept DEF tables

\* Every step keeps it.
LEMMA ListStepKeeps == TablesInv /\ ListInv /\ [Next]_vars => ListInv'
  <1> SUFFICES ASSUME TablesInv, ListInv, [Next]_vars PROVE ListInv'
    OBVIOUS
  <1>0. op \in [Workers -> Operation]
    BY DEF TablesInv, TypeOK
  <1>1. ASSUME NEW w \in Workers, RegisterStep(w) PROVE ListInv'
    <2>1. users \subseteq users' /\ members' = members
      BY <1>1 DEF RegisterStep, RegisterInsert, RegisterAnswer, NewUser, tables
    <2>2. Goto(w, "answer") \/ Return(w)
      BY <1>1 DEF RegisterStep, RegisterInsert, RegisterAnswer
    <2>3. "answer" \in Places /\ "answer" \notin Creating
      BY DEF Places, Creating
    <2> QED
      BY <1>0, <2>1, <2>2, <2>3, ListGoesOn, ListReturns
  <1>2. ASSUME NEW w \in Workers, GroupBegin(w) \/ GroupInsert(w) \/ CreatorInsert(w)
        PROVE  ListInv'
    <2>1. users' = users /\ members' = members
      <3>1. ASSUME CreatorInsert(w) PROVE members' = members
        <4>1. op[w].pc = "creator"
          BY <3>1 DEF CreatorInsert, At
        <4>2. Runs(w) => conn[op[w].db].open
          BY <4>1, StillOpen
        <4> QED
          BY <3>1, <4>2 DEF CreatorInsert
      <3> QED
        BY <1>2, <3>1 DEF GroupBegin, GroupInsert, CreatorInsert, tables
    <2>2. \/ Return(w)
          \/ op[w].pc \in Creating
             /\ (Goto(w, "group") \/ Goto(w, "creator") \/ Goto(w, "commit") \/ Goto(w, "rollback"))
      BY <1>2 DEF GroupBegin, GroupInsert, CreatorInsert, At, Creating
    <2>3. {"group", "creator", "commit", "rollback"} \subseteq Places
      BY DEF Places
    <2> QED
      BY <1>0, <2>1, <2>2, <2>3, ListGoesOn, ListReturns
  <1>3. ASSUME NEW w \in Workers, GroupRollback(w) \/ ListDone(w) \/ LoginRemove(w)
        PROVE  ListInv'
    <2>1. users' = users /\ members' = members /\ Return(w)
      BY <1>3 DEF GroupRollback, ListDone, LoginRemove, tables
    <2> QED
      BY <1>0, <2>1, ListReturns
  <1>4. ASSUME NEW w \in Workers, QueryGroups(w) PROVE ListInv'
    <2>1. users' = users /\ members' = members
      BY <1>4 DEF QueryGroups, tables
    <2>2. CASE Return(w)
      BY <1>0, <2>1, <2>2, ListReturns
    <2>3. ASSUME NEW T, op' = [op EXCEPT ![w].pc = "members", ![w].todo = T] PROVE ListInv'
      <3>1. /\ op'[w].pc = "members" /\ op'[w].listed = op[w].listed
            /\ \A v \in Workers \ {w} : op'[v] = op[v]
        BY <1>0, <2>3 DEF Operation
      <3>2. op'[w].pc \notin Creating
        BY <3>1 DEF Creating
      <3> QED
        BY <2>1, <3>1, <3>2, ListKept
    <2> QED
      BY <1>4, <2>2, <2>3 DEF QueryGroups
  <1>5. ASSUME NEW w \in Workers, LoginQuery(w) PROVE ListInv'
    <2>1. UNCHANGED tables
      BY <1>5 DEF LoginQuery
    <2>2. PICK x, y : op' = [op EXCEPT ![w] = [NoOperation EXCEPT !.pc = "remove", !.seen = x,
                                                                !.fetched = y]]
      BY <1>5 DEF LoginQuery
    <2> DEFINE o == [NoOperation EXCEPT !.pc = "remove", !.seen = x, !.fetched = y]
    <2>3. o.pc \notin Creating /\ o.listed = {}
      BY DEF NoOperation, Creating
    <2> HIDE DEF o
    <2>4. op'[w] = o /\ \A v \in Workers \ {w} : op'[v] = op[v]
      BY <1>0, <2>2 DEF o
    <2> QED
      BY <2>1, <2>3, <2>4, ListKept DEF tables
  <1>6. ASSUME NEW n \in Names, NEW g \in Ids, AddGroup(n, g) PROVE ListInv'
    <2>1. /\ UNCHANGED <<users, op>>
          /\ members' = members \cup {[group |-> g, user |-> n, role |-> "normal"]}
      BY <1>6 DEF AddGroup
    <2>2. \A r \in members' : r \in members \/ r.role # "creator"
      BY <2>1
    <2> QED
      BY <2>1, <2>2 DEF ListInv, ShowsCreator, Taken
  <1>7. ASSUME UNCHANGED <<users, members, op>> PROVE ListInv'
    BY <1>7 DEF ListInv, ShowsCreator, Taken
  <1>8. ASSUME NEW p \in 1..Len(Payloads), StoreOffline(p) PROVE ListInv'
    BY <1>7, <1>8 DEF StoreOffline
  <1>9. ASSUME NEW d \in Dbs, LinkBreaks(d) PROVE ListInv'
    BY <1>7, <1>9 DEF LinkBreaks, tables
  <1>10. CASE UNCHANGED vars
    BY <1>7, <1>10 DEF vars, tables
  <1>11. ASSUME NEW w \in Workers, CreateStep(w) \/ ListStep(w) PROVE ListInv'
    BY <1>2, <1>3, <1>4, <1>11, ListCommits, ListShows DEF CreateStep, ListStep
  <1> QED
    BY <1>1, <1>3, <1>5, <1>6, <1>8, <1>9, <1>10, <1>11, ListStarts DEF Next

\* The empty tables, with the old rows of offline messages.
LEMMA TablesInit == Init => TablesInv
  <1> SUFFICES ASSUME Init PROVE TablesInv
    OBVIOUS
  <1>1. /\ users = {} /\ groups = {} /\ members = {} /\ offline = OldRows /\ told = {}
        /\ nextId = [t \in {"User", "AllGroup"} |-> 1]
        /\ conn = [d \in Dbs |-> Connected] /\ op = [w \in Workers |-> NoOperation]
        /\ calls = 0 /\ faults = 0
    BY DEF Init
  <1>2. Connected \in Connection /\ LinkOK(Connected) /\ ~Connected.open
        /\ ~Connected.believed /\ Connected.groups = {}
    BY DEF Connected, Connection, LinkOK
  <1>3. \A w \in Workers : op[w] = NoOperation /\ op[w].pc = "idle" /\ op[w].db = NoDb
    BY <1>1 DEF NoOperation
  <1>4. TypeOK
    <2>1. op \in [Workers -> Operation]
      BY <1>1, NoOperationTyped
    <2>2. nextId \in [{"User", "AllGroup"} -> 1..(MaxCalls + 1)]
      BY <1>1, ConstantsAssumption
    <2>3. conn \in [Dbs -> Connection]
      BY <1>1, <1>2
    <2>4. calls \in 0..MaxCalls /\ faults \in 0..MaxFaults
          /\ offline \in Seq(1..Len(Payloads))
      BY <1>1, ConstantsAssumption
    <2> QED
      BY <1>1, <2>1, <2>2, <2>3, <2>4 DEF TypeOK
  <1>5. CallsCounted
    <2>1. Starting = {}
      BY <1>3 DEF Starting
    <2> QED
      BY <1>1, <2>1, FS_EmptySet DEF CallsCounted
  <1>6. Pairs
    <2>1. \A w \in Workers : WorkerOK(w)
      BY <1>1 DEF WorkerOK, NoOperation
    <2> QED
      BY <1>1, <1>2, <1>3, <2>1 DEF Pairs, NoTransactionInPool, Free, Exclusive
  <1>7. Fresh
    BY <1>1, <1>2 DEF Fresh
  <1>8. Created /\ AnswerHasOwnId
    BY <1>1 DEF Created, Creators, AnswerHasOwnId
  <1> QED
    BY <1>4, <1>5, <1>6, <1>7, <1>8 DEF TablesInv

\* The invariant holds in every reachable state.
THEOREM Invariance == Spec => []TablesInv
  BY TablesInit, TablesStep, PTL DEF Spec

\* Every variable keeps its type; in particular no more ids are given out than calls
\* were started.
THEOREM TypeCorrect == Spec => []TypeOK
  BY Invariance, PTL DEF TablesInv

\* createGroupWithCreator leaves no transaction on the connection it gives back, on
\* whatever path it ends, with broken links and lost answers in between.
THEOREM PoolIsClean == Spec => []NoTransactionInPool
  BY Invariance, PTL DEF TablesInv, Pairs

\* lastInsertId of the own connection: the answer to a registration carries the id of
\* the row made for it.
THEOREM OwnIds == Spec => []AnswerHasOwnId
  BY Invariance, PTL DEF TablesInv

\* ListInv holds in every reachable state.
LEMMA ListInvariance == Spec => []ListInv
  <1>1. Init => ListInv
    BY DEF Init, ListInv, NoOperation, Creating
  <1> QED
    BY <1>1, ListStepKeeps, Invariance, PTL DEF Spec

\* A group exists exactly if its creator is its member, and a list of groups never
\* shows a group half made.
THEOREM CompleteGroups == Spec => []GroupsAreComplete
  <1>1. TablesInv /\ ListInv => GroupsAreComplete
    <2> SUFFICES ASSUME TablesInv, ListInv PROVE GroupsAreComplete
      OBVIOUS
    <2>1. ASSUME NEW g \in Ids PROVE Cardinality(Creators(g)) = IF g \in groups THEN 1 ELSE 0
      <3>1. CASE g \in groups
        <4>1. PICK n \in Names : Creators(g) = {CreatorRow(g, n)}
          BY <3>1 DEF TablesInv, Created
        <4> QED
          BY <3>1, <4>1, FS_Singleton
      <3>2. CASE g \notin groups
        BY <3>2, FS_EmptySet DEF TablesInv, Created
      <3> QED
        BY <3>1, <3>2
    <2>2. \A w \in Workers : \A l \in op[w].listed :
             l.rows = {} \/ \E r \in l.rows : r.role = "creator"
      BY DEF ListInv, ShowsCreator
    <2> QED
      BY <2>1, <2>2 DEF GroupsAreComplete
  <1> QED
    BY <1>1, Invariance, ListInvariance, PTL
-----------------------------------------------------------------------------
\* The offline messages of worker w are what Handed makes of the rows it has read.
LEMMA HandedOut ==
    ASSUME TablesInv, NEW w \in Workers
    PROVE  /\ op[w].seen \in Seq(Rows) /\ op[w].fetched \in Seq(Rows)
           /\ op[w].pc = "remove" => op[w].fetched = Handed(op[w].seen)
           /\ op[w].pc # "remove" => op[w].fetched = <<>>
  <1>1. op[w] \in Operation /\ WorkerOK(w)
    BY DEF TablesInv, TypeOK, Pairs
  <1> QED
    BY <1>1 DEF Operation, WorkerOK, Rows

\* A login hands out every conversation in the order of its numbers, and what has no
\* number last; with a message it has those of the conversation that come before it.
THEOREM InOrder == Spec => []HandedOutInOrder
  <1>1. TablesInv => HandedOutInOrder
    <2> SUFFICES ASSUME TablesInv, NEW w \in Workers
                 PROVE  LET out == op[w].fetched
                            at(i) == Payloads[out[i]]
                        IN  /\ \A i, j \in 1..Len(out) :
                                  /\ i < j /\ at(i).conv = at(j).conv /\ at(i).numbered
                                        /\ at(j).numbered => at(i).seq =< at(j).seq
                                  /\ i < j /\ at(j).numbered => at(i).numbered
                            /\ \A i \in 1..Len(out) : \A k \in 1..Len(op[w].seen) :
                                  LET p == Payloads[op[w].seen[k]]
                                  IN  at(i).numbered /\ p.numbered /\ p.conv = at(i).conv
                                            /\ p.seq < at(i).seq
                                      => \E j \in 1..i : out[j] = op[w].seen[k]
      BY DEF HandedOutInOrder
    <2> DEFINE out == op[w].fetched
               seen == op[w].seen
    <2>1. /\ seen \in Seq(Rows) /\ out \in Seq(Rows)
          /\ op[w].pc = "remove" => out = Handed(seen)
          /\ op[w].pc # "remove" => out = <<>>
      BY HandedOut
    <2> HIDE DEF out, seen
    <2>2. CASE out = <<>>
      BY <2>2 DEF out
    <2>3. CASE out = Handed(seen)
      <3>1. /\ Len(out) \in Nat /\ \A i \in 1..Len(out) : out[i] \in Rows
            /\ Len(seen) \in Nat /\ \A k \in 1..Len(seen) : seen[k] \in Rows
        BY <2>1, LenProperties, ElementOfSeq
      <3>2. \A p \in Rows : /\ Payloads[p].conv \in Nat /\ Payloads[p].seq \in Nat
                            /\ Columns(p).conv = Collation[Payloads[p].conv]
                            /\ Payloads[p].numbered => Columns(p).seq = Payloads[p].seq
        <4>1. \A p \in Rows :
                 Payloads[p] \in [conv: Nat, seq: Nat, numbered: BOOLEAN, long: BOOLEAN]
          BY ConstantsAssumption, ElementOfSeq DEF Rows
        <4> QED
          BY <4>1 DEF Columns
      <3>3. /\ \A i, j \in 1..Len(out) : i < j => ~ListedBefore(out[j], out[i])
            /\ \A i \in 1..Len(out), k \in 1..Len(seen) :
                  SqlBefore(seen[k], out[i]) => \E j \in 1..Len(out) : out[j] = seen[k]
        BY <2>1, <2>3, HandedRows
      <3>4. ASSUME NEW i \in 1..Len(out), NEW j \in 1..Len(out), i < j, 
                   Payloads[out[j]].numbered
            PROVE  /\ Payloads[out[i]].numbered
                   /\ Payloads[out[i]].conv = Payloads[out[j]].conv
                        => Payloads[out[i]].seq =< Payloads[out[j]].seq
        BY <3>1, <3>2, <3>3, <3>4 DEF ListedBefore
      <3>5. ASSUME NEW i \in 1..Len(out), NEW k \in 1..Len(seen),
                   Payloads[out[i]].numbered, Payloads[seen[k]].numbered,
                   Payloads[seen[k]].conv = Payloads[out[i]].conv,
                   Payloads[seen[k]].seq < Payloads[out[i]].seq
            PROVE  \E j \in 1..i : out[j] = seen[k]
        <4>1. SqlBefore(seen[k], out[i])
          BY <3>1, <3>2, <3>5 DEF SqlBefore
        <4>2. PICK j \in 1..Len(out) : out[j] = seen[k]
          BY <3>3, <4>1
        <4>3. ListedBefore(out[j], out[i])
          BY <3>5, <4>2 DEF ListedBefore
        <4>4. ~(i < j)
          BY <3>3, <4>3
        <4> QED
          BY <3>1, <4>2, <4>4
      <3> QED
        BY <3>4, <3>5 DEF out, seen
    <2> QED
      BY <2>1, <2>2, <2>3
  <1> QED
    BY <1>1, Invariance, PTL

\* A message of a user is removed unread only if it came after the rows had been read,
\* or if it is, or stands behind, a row too long to be fetched.
THEOREM UnreadExplained == Spec => UnreadOnlyBehindLongOrLate
  <1> DEFINE Explained ==
         \A w \in Workers : At(w, "remove") /\ op'[w].pc = "idle" =>
            \A i \in 1..Len(offline) :
               LET p == offline[i]
               IN  \/ \E j \in 1..Len(op[w].fetched) : op[w].fetched[j] = p
                   \/ \E j \in 1..Len(offline') : offline'[j] = p
                   \/ ~\E k \in 1..Len(op[w].seen) : op[w].seen[k] = p
                   \/ \E k \in 1..Len(op[w].seen) :
                         LET q == op[w].seen[k]
                         IN  Payloads[q].long /\ (q = p \/ ~SqlBefore(p, q))
  <1>1. TablesInv => Explained
    <2> SUFFICES ASSUME TablesInv, NEW w \in Workers, At(w, "remove"),
                        NEW k \in 1..Len(op[w].seen)
                 PROVE  \/ \E j \in 1..Len(op[w].fetched) : op[w].fetched[j] = op[w].seen[k]
                        \/ \E l \in 1..Len(op[w].seen) :
                              /\ Payloads[op[w].seen[l]].long
                              /\ op[w].seen[l] = op[w].seen[k]
                                 \/ ~SqlBefore(op[w].seen[k], op[w].seen[l])
      BY SMTT(30)
    <2> DEFINE seen == op[w].seen
               out == op[w].fetched
    <2>1. seen \in Seq(Rows) /\ out = Handed(seen)
      BY HandedOut DEF At
    <2> HIDE DEF seen, out
    <2>2. \/ \E j \in 1..Len(out) : out[j] = seen[k]
          \/ \E l \in 1..Len(seen) :
                /\ Payloads[seen[l]].long
                /\ seen[l] = seen[k] \/ ~SqlBefore(seen[k], seen[l])
      BY <2>1, HandedRows DEF seen
    <2> QED
      BY <2>2 DEF seen, out
  <1> QED
    BY <1>1, Invariance, PTL DEF UnreadOnlyBehindLongOrLate
=============================================================================
