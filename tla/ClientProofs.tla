---------------------------- MODULE ClientProofs ----------------------------
(***************************************************************************)
(* What a connection keeps for every length of the header, any number of  *)
(* frames and any way of cutting the bytes: both ends take the frames of   *)
(* the other whole, once and in order, and a response is taken as that of *)
(* the request it answers.                                                 *)
(*                                                                         *)
(* The invariant says of each direction that what is buffered and on its  *)
(* way is, cell for cell, the frames written and not yet taken (Laid);     *)
(* and of the menu, that at most one request is outstanding, and where it  *)
(* is: on its way, in the handler, or answered and not yet taken.          *)
(***************************************************************************)
EXTENDS ClientSession, FiniteSetTheorems, SequenceTheorems, TLAPS

(* Cells *)

LEMMA SizeTyped ==
    ASSUME NEW f \in Frame
    PROVE  Size(f) \in Nat /\ Size(f) > HeaderLen /\ Size(f) =< HeaderLen + 3 /\ HeaderLen \in Nat
                            /\ HeaderLen >= 2
  BY ConstantsAssumption DEF Size

LEMMA CellsTyped ==
    ASSUME NEW f \in Frame
    PROVE  /\ Cells(f) \in Seq(Cell) /\ Len(Cells(f)) = Size(f)
           /\ \A j \in 1..Size(f) : Cells(f)[j] = [frame |-> f, at |-> j]
  <1>1. Size(f) \in Nat /\ Size(f) =< HeaderLen + 3 /\ HeaderLen \in Nat
    BY SizeTyped
  <1>2. \A j \in 1..Size(f) : [frame |-> f, at |-> j] \in Cell
    BY <1>1 DEF Cell
  <1>3. Cells(f) = [j \in 1..Size(f) |-> [frame |-> f, at |-> j]]
    BY DEF Cells
  <1>4. Cells(f) \in Seq(Cell)
    BY <1>1, <1>2, <1>3, IsASeq
  <1> QED
    BY <1>1, <1>3, <1>4

\* w is, cell for cell, the frames of s behind the h-th; b[k] is where the k-th begins.
LaidAt(w, s, h, b) ==
    /\ b \in [h + 1..Len(s) + 1 -> Nat]
    /\ b[h + 1] = 0 /\ b[Len(s) + 1] = Len(w)
    /\ \A k \in h + 1..Len(s) : b[k + 1] = b[k] + Size(s[k])
    /\ \A k, l \in h + 1..Len(s) + 1 : k =< l => b[k] =< b[l]
    /\ \A k \in h + 1..Len(s) : \A j \in 1..Size(s[k]) :
          w[b[k] + j] = [frame |-> s[k], at |-> j]

Laid(w, s, h) == h =< Len(s) /\ \E b : LaidAt(w, s, h, b)

\* Nothing is laid out exactly if everything has been taken.
LEMMA NothingLaid ==
    ASSUME NEW w \in Seq(Cell), NEW s \in Seq(Frame), NEW h \in Nat, Laid(w, s, h)
    PROVE  Len(w) = 0 <=> h = Len(s)
  <1>1. Len(s) \in Nat /\ h =< Len(s) /\ Len(w) \in Nat
    BY LenProperties DEF Laid
  <1>2. PICK b : LaidAt(w, s, h, b)
    BY DEF Laid
  <1>3. CASE h = Len(s)
    BY <1>1, <1>2, <1>3 DEF LaidAt
  <1>4. CASE h # Len(s)
    <2>1. h + 1 \in h + 1..Len(s) /\ h + 2 \in h + 1..Len(s) + 1 /\ Len(s) + 1 \in h + 1..Len(s) + 1
      BY <1>1, <1>4
    <2>2. s[h + 1] \in Frame
      BY <1>1, <2>1, ElementOfSeq
    <2>3. b[h + 2] = b[h + 1] + Size(s[h + 1]) /\ b[h + 1] = 0 /\ b[h + 2] =< b[Len(s) + 1]
      BY <1>1, <1>2, <2>1 DEF LaidAt
    <2>4. b[Len(s) + 1] = Len(w) /\ b[h + 2] \in Nat
      BY <1>2, <2>1 DEF LaidAt
    <2> QED
      BY <1>1, <1>4, <2>2, <2>3, <2>4, SizeTyped
  <1> QED
    BY <1>3, <1>4

\* What is laid out begins with the whole of the next frame.
LEMMA FirstLaid ==
    ASSUME NEW w \in Seq(Cell), NEW s \in Seq(Frame), NEW h \in Nat, Laid(w, s, h), h # Len(s)
    PROVE  /\ h + 1 \in 1..Len(s) /\ s[h + 1] \in Frame /\ Size(s[h + 1]) =< Len(w)
           /\ \A j \in 1..Size(s[h + 1]) : w[j] = [frame |-> s[h + 1], at |-> j]
           /\ Laid(SubSeq(w, Size(s[h + 1]) + 1, Len(w)), s, h + 1)
  <1> DEFINE f == s[h + 1]
             n == Size(f)
             r == SubSeq(w, n + 1, Len(w))
  <1>1. Len(s) \in Nat /\ h =< Len(s) /\ Len(w) \in Nat
    BY LenProperties DEF Laid
  <1>2. PICK b : LaidAt(w, s, h, b)
    BY DEF Laid
  <1>3. h + 1 \in 1..Len(s) /\ h + 1 =< Len(s)
    BY <1>1
  <1>4. f \in Frame
    BY <1>3, ElementOfSeq
  <1>5. f = s[h + 1]
    OBVIOUS
  <1> HIDE DEF f
  <1>6. n \in Nat /\ n > 0 /\ n = Size(f)
    BY <1>4, SizeTyped
  <1> HIDE DEF n
  <1>7. /\ \A k \in h + 1..Len(s) + 1 : b[k] \in Nat
        /\ b[h + 1] = 0 /\ b[h + 2] = n /\ b[Len(s) + 1] = Len(w)
        /\ \A k, l \in h + 1..Len(s) + 1 : k =< l => b[k] =< b[l]
    <2>1. h + 1 \in h + 1..Len(s) /\ (h + 1) + 1 = h + 2
      BY <1>1, <1>3
    <2>2. b \in [h + 1..Len(s) + 1 -> Nat]
      BY <1>2 DEF LaidAt
    <2>3. \A k \in h + 1..Len(s) + 1 : b[k] \in Nat
      BY <2>2
    <2>4. /\ b[h + 1] = 0 /\ b[Len(s) + 1] = Len(w)
          /\ \A k, l \in h + 1..Len(s) + 1 : k =< l => b[k] =< b[l]
      BY <1>2 DEF LaidAt
    <2>5. b[(h + 1) + 1] = b[h + 1] + Size(s[h + 1])
      BY <1>2, <2>1 DEF LaidAt
    <2>6. b[h + 2] = b[h + 1] + n
      BY <1>5, <1>6, <2>1, <2>5
    <2>7. b[h + 2] = n
      BY <1>6, <2>4, <2>6
    <2> QED
      BY <2>3, <2>4, <2>7
  <1>8. \A k \in h + 2..Len(s) + 1 : n =< b[k] /\ b[k] =< Len(w)
    <2> SUFFICES ASSUME NEW k \in h + 2..Len(s) + 1 PROVE n =< b[k] /\ b[k] =< Len(w)
      OBVIOUS
    <2>1. /\ k \in h + 1..Len(s) + 1 /\ h + 2 \in h + 1..Len(s) + 1
          /\ Len(s) + 1 \in h + 1..Len(s) + 1 /\ h + 2 =< k /\ k =< Len(s) + 1
      BY <1>1, <1>3
    <2>2. b[h + 2] =< b[k] /\ b[k] =< b[Len(s) + 1]
      BY <1>7, <2>1
    <2> QED
      BY <1>7, <2>2
  <1>9. n =< Len(w)
    <2>1. Len(s) + 1 \in h + 2..Len(s) + 1 /\ Len(s) + 1 \in h + 1..Len(s) + 1
      BY <1>1, <1>3
    <2>2. n =< b[Len(s) + 1]
      BY <1>8, <2>1
    <2> QED
      BY <1>7, <2>2
  <1>10. \A j \in 1..n : w[j] = [frame |-> f, at |-> j]
    <2>1. h + 1 \in h + 1..Len(s)
      BY <1>1, <1>3
    <2>2. \A j \in 1..n : w[b[h + 1] + j] = [frame |-> f, at |-> j]
      BY <1>2, <1>5, <1>6, <2>1 DEF LaidAt
    <2> QED
      BY <1>7, <2>2
  <1>11. /\ Len(r) = Len(w) - n
         /\ \A i \in 1..Len(w) - n : r[i] = w[n + i]
    <2>1. \A i \in n + 1..Len(w) : w[i] \in Cell
      BY <1>1, <1>6, ElementOfSeq
    <2>2. /\ Len(r) = IF n + 1 =< Len(w) THEN Len(w) - (n + 1) + 1 ELSE 0
          /\ \A i \in 1..Len(w) - (n + 1) + 1 : r[i] = w[(n + 1) + i - 1]
      BY <1>1, <1>6, <2>1, SubSeqProperties
    <2>3. Len(r) = Len(w) - n
      BY <1>1, <1>6, <1>9, <2>2
    <2>4. \A i \in 1..Len(w) - n : i \in 1..Len(w) - (n + 1) + 1 /\ (n + 1) + i - 1 = n + i
      BY <1>1, <1>6
    <2> QED
      BY <2>2, <2>3, <2>4
  <1> HIDE DEF r
  <1> DEFINE c == [k \in (h + 1) + 1..Len(s) + 1 |-> b[k] - n]
  <1>12. LaidAt(r, s, h + 1, c)
    <2>1. (h + 1) + 1 = h + 2
      BY <1>1
    <2>2. \A k \in h + 2..Len(s) + 1 : c[k] = b[k] - n /\ c[k] \in Nat
      BY <1>1, <1>6, <1>7, <1>8, <2>1
    <2>3. c \in [(h + 1) + 1..Len(s) + 1 -> Nat]
      BY <2>1, <2>2
    <2>4. c[h + 2] = 0 /\ c[Len(s) + 1] = Len(r)
      <3>1. h + 2 \in h + 2..Len(s) + 1 /\ Len(s) + 1 \in h + 2..Len(s) + 1
        BY <1>1, <1>3
      <3>2. c[h + 2] = b[h + 2] - n /\ c[Len(s) + 1] = b[Len(s) + 1] - n
        BY <2>2, <3>1
      <3> HIDE DEF c
      <3> QED
        BY <1>1, <1>6, <1>7, <1>11, <3>2
    <2>5. \A k \in h + 2..Len(s) : k \in h + 2..Len(s) + 1 /\ k + 1 \in h + 2..Len(s) + 1
                                   /\ k \in h + 1..Len(s) /\ s[k] \in Frame
      BY <1>1, ElementOfSeq
    <2>6. \A k \in h + 2..Len(s) : c[k + 1] = c[k] + Size(s[k])
      <3> SUFFICES ASSUME NEW k \in h + 2..Len(s) PROVE c[k + 1] = c[k] + Size(s[k])
        OBVIOUS
      <3>1. b[k + 1] = b[k] + Size(s[k])
        BY <1>2, <2>5 DEF LaidAt
      <3>2. c[k + 1] = b[k + 1] - n /\ c[k] = b[k] - n
        BY <2>2, <2>5
      <3>3. b[k] \in Nat /\ Size(s[k]) \in Nat
        BY <1>7, <2>5, SizeTyped
      <3> HIDE DEF c
      <3> QED
        BY <1>6, <3>1, <3>2, <3>3
    <2>7. \A k, l \in h + 2..Len(s) + 1 : k =< l => c[k] =< c[l]
      <3> SUFFICES ASSUME NEW k \in h + 2..Len(s) + 1, NEW l \in h + 2..Len(s) + 1, k =< l
                   PROVE  c[k] =< c[l]
        OBVIOUS
      <3>1. b[k] =< b[l] /\ b[k] \in Nat /\ b[l] \in Nat
        BY <1>1, <1>7
      <3>2. c[k] = b[k] - n /\ c[l] = b[l] - n
        BY <2>2
      <3> HIDE DEF c
      <3> QED
        BY <1>6, <3>1, <3>2
    <2>8. \A k \in h + 2..Len(s) : \A j \in 1..Size(s[k]) :
             r[c[k] + j] = [frame |-> s[k], at |-> j]
      <3> SUFFICES ASSUME NEW k \in h + 2..Len(s), NEW j \in 1..Size(s[k])
                   PROVE  r[c[k] + j] = [frame |-> s[k], at |-> j]
        OBVIOUS
      <3>1. w[b[k] + j] = [frame |-> s[k], at |-> j]
        BY <1>2, <2>5 DEF LaidAt
      <3>2. c[k] = b[k] - n /\ c[k] \in Nat
        BY <2>2, <2>5
      <3> HIDE DEF c
      <3>3. b[k] \in Nat /\ Size(s[k]) \in Nat
        BY <1>7, <2>5, SizeTyped, SMTT(30)
      <3>4. b[k + 1] = b[k] + Size(s[k]) /\ b[k + 1] =< Len(w)
        BY <1>2, <1>8, <2>5 DEF LaidAt
      <3>5. n + (c[k] + j) = b[k] + j
        BY <1>6, <3>2, <3>3
      <3>6. b[k] + j =< Len(w)
        BY <1>1, <3>3, <3>4
      <3>7. c[k] + j \in 1..Len(w) - n
        BY <1>1, <1>6, <3>2, <3>3, <3>5, <3>6, SMTT(30)
      <3>8. r[c[k] + j] = w[n + (c[k] + j)]
        BY <1>11, <3>7
      <3> QED
        BY <3>1, <3>5, <3>8
    <2> HIDE DEF c
    <2> QED
      BY <2>1, <2>3, <2>4, <2>6, <2>7, <2>8 DEF LaidAt
  <1>13. Laid(r, s, h + 1)
    BY <1>3, <1>12 DEF Laid
  <1> QED
    BY <1>3, <1>4, <1>5, <1>6, <1>9, <1>10, <1>13 DEF r, n, f

\* A frame that is written is laid out behind the others.
LEMMA WriteLaid ==
    ASSUME NEW w \in Seq(Cell), NEW s \in Seq(Frame), NEW h \in Nat, Laid(w, s, h),
           NEW f \in Frame
    PROVE  Laid(w \o Cells(f), Append(s, f), h)
  <1> DEFINE n == Size(f)
             t == Append(s, f)
             v == w \o Cells(f)
             m == Len(s)
  <1>1. m \in Nat /\ h =< m /\ Len(w) \in Nat
    BY LenProperties DEF Laid
  <1>2. PICK b : LaidAt(w, s, h, b)
    BY DEF Laid
  <1>3. n \in Nat
    BY SizeTyped
  <1>4. Len(t) = m + 1 /\ t[m + 1] = f /\ \A i \in 1..m : t[i] = s[i]
    BY AppendProperties
  <1>5. /\ Len(v) = Len(w) + n
        /\ \A i \in 1..Len(w) : v[i] = w[i]
        /\ \A j \in 1..n : v[Len(w) + j] = [frame |-> f, at |-> j]
    <2>1. /\ Len(v) = Len(w) + Len(Cells(f))
          /\ \A i \in 1..Len(w) + Len(Cells(f)) :
                v[i] = IF i <= Len(w) THEN w[i] ELSE Cells(f)[i - Len(w)]
      BY CellsTyped, ConcatProperties
    <2>2. Len(Cells(f)) = n /\ \A j \in 1..n : Cells(f)[j] = [frame |-> f, at |-> j]
      BY CellsTyped
    <2> HIDE DEF v, n
    <2>3. \A j \in 1..n : Len(w) + j \in 1..Len(w) + n /\ ~(Len(w) + j <= Len(w))
                          /\ (Len(w) + j) - Len(w) = j
      BY <1>1, <1>3
    <2>4. \A i \in 1..Len(w) : i \in 1..Len(w) + n /\ i <= Len(w)
      BY <1>1, <1>3
    <2> QED
      BY <2>1, <2>2, <2>3, <2>4
  <1> HIDE DEF n, v, t
  <1> DEFINE c == [k \in h + 1..(m + 1) + 1 |-> IF k = m + 2 THEN Len(w) + n ELSE b[k]]
  <1>6. LaidAt(v, t, h, c)
    <2>0. (m + 1) + 1 = m + 2 /\ h + 1 \in h + 1..m + 1 /\ m + 1 \in h + 1..m + 1
      BY <1>1
    <2>1. /\ \A k \in h + 1..m + 1 : c[k] = b[k] /\ b[k] \in Nat
          /\ c[m + 2] = Len(w) + n
      BY <1>1, <1>2, <2>0 DEF LaidAt
    <2>2. c \in [h + 1..(m + 1) + 1 -> Nat]
      <3>1. \A k \in h + 1..(m + 1) + 1 : k = m + 2 \/ k \in h + 1..m + 1
        BY <1>1
      <3>2. Len(w) + n \in Nat
        BY <1>1, <1>3
      <3>3. \A k \in h + 1..(m + 1) + 1 : (IF k = m + 2 THEN Len(w) + n ELSE b[k]) \in Nat
        BY <2>1, <3>1, <3>2
      <3> QED
        BY <3>3
    <2> HIDE DEF c
    <2>3. c[h + 1] = 0 /\ c[m + 2] = Len(v) /\ b[m + 1] = Len(w)
      BY <1>2, <1>5, <2>0, <2>1 DEF LaidAt
    <2>4. \A k \in h + 1..m + 1 : c[k + 1] = c[k] + Size(t[k])
      <3> SUFFICES ASSUME NEW k \in h + 1..m + 1 PROVE c[k + 1] = c[k] + Size(t[k])
        OBVIOUS
      <3>1. CASE k = m + 1
        BY <1>1, <1>4, <2>1, <2>3, <3>1 DEF n
      <3>2. CASE k # m + 1
        <4>1. k \in h + 1..m /\ k + 1 \in h + 1..m + 1 /\ k \in 1..m
          BY <1>1, <3>2
        <4>2. b[k + 1] = b[k] + Size(s[k])
          BY <1>2, <4>1 DEF LaidAt
        <4> QED
          BY <1>4, <2>1, <4>1, <4>2
      <3> QED
        BY <3>1, <3>2
    <2>5. \A k, l \in h + 1..m + 2 : k =< l => c[k] =< c[l]
      <3> SUFFICES ASSUME NEW k \in h + 1..m + 2, NEW l \in h + 1..m + 2, k =< l
                   PROVE  c[k] =< c[l]
        OBVIOUS
      <3>1. CASE l # m + 2
        <4>1. k \in h + 1..m + 1 /\ l \in h + 1..m + 1
          BY <1>1, <3>1
        <4>2. b[k] =< b[l]
          BY <1>2, <4>1 DEF LaidAt
        <4> QED
          BY <2>1, <4>1, <4>2
      <3>2. CASE l = m + 2 /\ k # m + 2
        <4>1. k \in h + 1..m + 1 /\ m + 1 \in h + 1..m + 1 /\ k =< m + 1
          BY <1>1, <3>2
        <4>2. b[k] =< b[m + 1] /\ b[k] \in Nat
          BY <1>2, <4>1 DEF LaidAt
        <4> QED
          BY <1>1, <1>3, <2>1, <2>3, <3>2, <4>1, <4>2
      <3>3. CASE l = m + 2 /\ k = m + 2
        BY <1>1, <1>3, <2>1, <3>3
      <3> QED
        BY <3>1, <3>2, <3>3
    <2>6. \A k \in h + 1..m + 1 : \A j \in 1..Size(t[k]) :
             v[c[k] + j] = [frame |-> t[k], at |-> j]
      <3> SUFFICES ASSUME NEW k \in h + 1..m + 1, NEW j \in 1..Size(t[k])
                   PROVE  v[c[k] + j] = [frame |-> t[k], at |-> j]
        OBVIOUS
      <3>1. CASE k = m + 1
        BY <1>4, <1>5, <2>1, <2>3, <3>1 DEF n
      <3>2. CASE k # m + 1
        <4>1. k \in h + 1..m /\ k + 1 \in h + 1..m + 1 /\ k \in 1..m /\ t[k] = s[k]
          BY <1>1, <1>4, <3>2
        <4>2. b[k + 1] = b[k] + Size(s[k]) /\ w[b[k] + j] = [frame |-> s[k], at |-> j]
          BY <1>2, <4>1 DEF LaidAt
        <4>3. b[k + 1] =< b[m + 1] /\ b[k + 1] \in Nat /\ b[k] \in Nat /\ c[k] = b[k]
          BY <1>1, <1>2, <2>1, <4>1 DEF LaidAt
        <4>4. s[k] \in Frame /\ Size(s[k]) \in Nat
          BY <4>1, ElementOfSeq, SizeTyped
        <4>5. b[k] + j \in 1..Len(w)
          BY <1>1, <2>3, <4>1, <4>2, <4>3, <4>4, SMTT(30)
        <4> QED
          BY <1>5, <4>1, <4>2, <4>3, <4>5
      <3> QED
        BY <3>1, <3>2
    <2> QED
      BY <1>4, <2>0, <2>2, <2>3, <2>4, <2>5, <2>6 DEF LaidAt
  <1>7. h =< Len(t)
    BY <1>1, <1>4
  <1> QED
    BY <1>6, <1>7 DEF Laid, v, t

\* A part of what is on its way is received: nothing is lost, nothing changes place.
LEMMA PortionMoved ==
    ASSUME NEW a \in Seq(Cell), NEW b \in Seq(Cell), NEW n \in 1..Len(b)
    PROVE  /\ a \o SubSeq(b, 1, n) \in Seq(Cell) /\ SubSeq(b, n + 1, Len(b)) \in Seq(Cell)
           /\ (a \o SubSeq(b, 1, n)) \o SubSeq(b, n + 1, Len(b)) = a \o b
           /\ a \o SubSeq(b, 1, n) # <<>>
           /\ a # <<>> => (a \o SubSeq(b, 1, n))[1] = a[1]
  <1> DEFINE p == SubSeq(b, 1, n)
             q == SubSeq(b, n + 1, Len(b))
             la == Len(a)
             lb == Len(b)
  <1>1. la \in Nat /\ lb \in Nat /\ n \in Nat /\ n >= 1 /\ n =< lb
    BY LenProperties
  <1>2. \A i \in 1..lb : b[i] \in Cell
    BY ElementOfSeq
  <1>3. p \in Seq(Cell) /\ Len(p) = n /\ \A i \in 1..n : p[i] = b[i]
    <2>1. \A i \in 1..n : b[i] \in Cell
      BY <1>1, <1>2
    <2>2. /\ p \in Seq(Cell)
          /\ Len(p) = IF 1 <= n THEN n - 1 + 1 ELSE 0
          /\ \A i \in 1..n - 1 + 1 : p[i] = b[1 + i - 1]
      BY <1>1, <2>1, SubSeqProperties
    <2> HIDE DEF p
    <2>3. \A i \in 1..n : i \in 1..n - 1 + 1 /\ 1 + i - 1 = i
      BY <1>1
    <2>4. n - 1 + 1 = n
      BY <1>1
    <2> QED
      BY <1>1, <2>2, <2>3, <2>4
  <1>4. q \in Seq(Cell) /\ Len(q) = lb - n /\ \A i \in 1..lb - n : q[i] = b[n + i]
    <2>1. \A i \in n + 1..lb : b[i] \in Cell
      BY <1>1, <1>2
    <2>2. /\ q \in Seq(Cell)
          /\ Len(q) = IF n + 1 <= lb THEN lb - (n + 1) + 1 ELSE 0
          /\ \A i \in 1..lb - (n + 1) + 1 : q[i] = b[(n + 1) + i - 1]
      BY <1>1, <2>1, SubSeqProperties, SMTT(30)
    <2> HIDE DEF q
    <2>3. \A i \in 1..lb - n : i \in 1..lb - (n + 1) + 1 /\ (n + 1) + i - 1 = n + i
      BY <1>1
    <2>4. (IF n + 1 <= lb THEN lb - (n + 1) + 1 ELSE 0) = lb - n
      BY <1>1
    <2> QED
      BY <2>2, <2>3, <2>4
  <1> HIDE DEF p, q
  <1> DEFINE ap == a \o p
  <1>5. /\ ap \in Seq(Cell) /\ Len(ap) = la + n
        /\ \A i \in 1..la + n : ap[i] = IF i <= la THEN a[i] ELSE p[i - la]
    BY <1>1, <1>3, ConcatProperties
  <1> HIDE DEF ap
  <1> DEFINE l == ap \o q
             r == a \o b
  <1>6. /\ l \in Seq(Cell) /\ Len(l) = la + n + (lb - n)
        /\ \A i \in 1..la + n + (lb - n) : l[i] = IF i <= la + n THEN ap[i] ELSE q[i - (la + n)]
    <2>1. /\ l \in Seq(Cell) /\ Len(l) = Len(ap) + Len(q)
          /\ \A i \in 1..Len(ap) + Len(q) : l[i] = IF i <= Len(ap) THEN ap[i] ELSE q[i - Len(ap)]
      BY <1>4, <1>5, ConcatProperties
    <2> HIDE DEF l
    <2> QED
      BY <1>4, <1>5, <2>1
  <1>7. /\ r \in Seq(Cell) /\ Len(r) = la + lb
        /\ \A i \in 1..la + lb : r[i] = IF i <= la THEN a[i] ELSE b[i - la]
    BY <1>1, ConcatProperties
  <1> HIDE DEF l, r
  <1>8. la + n + (lb - n) = la + lb
    BY <1>1
  <1>9. \A i \in 1..la + lb : l[i] = r[i]
    <2> SUFFICES ASSUME NEW i \in 1..la + lb PROVE l[i] = r[i]
      OBVIOUS
    <2>1. CASE i =< la
      <3>1. i \in 1..la + n /\ i <= la + n
        BY <1>1, <2>1
      <3> QED
        BY <1>5, <1>6, <1>7, <1>8, <2>1, <3>1
    <2>2. CASE ~(i =< la) /\ i =< la + n
      <3>1. i \in 1..la + n /\ i - la \in 1..n
        BY <1>1, <2>2
      <3>2. ap[i] = p[i - la] /\ p[i - la] = b[i - la]
        BY <1>3, <1>5, <2>2, <3>1
      <3> QED
        BY <1>6, <1>7, <1>8, <2>2, <3>2
    <2>3. CASE ~(i =< la + n)
      <3>1. i - (la + n) \in 1..lb - n /\ n + (i - (la + n)) = i - la /\ ~(i =< la)
        BY <1>1, <2>3
      <3>2. q[i - (la + n)] = b[i - la]
        BY <1>4, <3>1
      <3> QED
        BY <1>6, <1>7, <1>8, <2>3, <3>1, <3>2
    <2> QED
      BY <1>1, <2>1, <2>2, <2>3
  <1>10. l = r
    BY <1>6, <1>7, <1>8, <1>9, SeqEqual
  <1>11. ap # <<>>
    <2> SUFFICES ASSUME ap = <<>> PROVE FALSE
      OBVIOUS
    <2>1. Len(ap) = 0
      OBVIOUS
    <2> QED
      BY <1>1, <1>5, <2>1
  <1>12. ASSUME a # <<>> PROVE ap[1] = a[1]
    <2>1. la # 0
      BY <1>12, EmptySeq
    <2>2. 1 \in 1..la + n /\ 1 <= la
      BY <1>1, <2>1
    <2> QED
      BY <1>5, <2>2
  <1> QED
    BY <1>4, <1>5, <1>10, <1>11, <1>12 DEF ap, l, r, p, q

\* What a receiver finds at the start of its buffer is the start of the next frame.
LEMMA StartIsNext ==
    ASSUME NEW a \in Seq(Cell), NEW b \in Seq(Cell), NEW s \in Seq(Frame), NEW h \in Nat,
           Laid(a \o b, s, h), a # <<>>
    PROVE  /\ h # Len(s) /\ h + 1 \in 1..Len(s) /\ s[h + 1] \in Frame
           /\ Aligned(a) /\ First(a) = s[h + 1] /\ Size(s[h + 1]) =< Len(a) + Len(b)
  <1>1. Len(a) \in Nat /\ Len(b) \in Nat /\ Len(a) > 0
    BY LenProperties, EmptySeq
  <1>2. /\ a \o b \in Seq(Cell) /\ Len(a \o b) = Len(a) + Len(b)
        /\ \A i \in 1..Len(a) + Len(b) : (a \o b)[i] = IF i <= Len(a) THEN a[i] ELSE b[i - Len(a)]
    BY ConcatProperties
  <1>3. (a \o b)[1] = a[1]
    <2>1. 1 \in 1..Len(a) + Len(b) /\ 1 <= Len(a)
      BY <1>1
    <2> QED
      BY <1>2, <2>1
  <1>4. h # Len(s)
    <2>1. Len(a \o b) # 0
      BY <1>1, <1>2
    <2> QED
      BY <1>2, <2>1, NothingLaid
  <1>5. /\ h + 1 \in 1..Len(s) /\ s[h + 1] \in Frame /\ Size(s[h + 1]) =< Len(a \o b)
        /\ \A j \in 1..Size(s[h + 1]) : (a \o b)[j] = [frame |-> s[h + 1], at |-> j]
    <2> DEFINE w == a \o b
    <2>1. w \in Seq(Cell) /\ Laid(w, s, h)
      BY <1>2
    <2> HIDE DEF w
    <2>2. /\ h + 1 \in 1..Len(s) /\ s[h + 1] \in Frame /\ Size(s[h + 1]) =< Len(w)
          /\ \A j \in 1..Size(s[h + 1]) : w[j] = [frame |-> s[h + 1], at |-> j]
      BY <1>4, <2>1, FirstLaid
    <2> QED
      BY <2>2 DEF w
  <1>6. 1 \in 1..Size(s[h + 1])
    BY <1>5, SizeTyped
  <1>7. a[1] = [frame |-> s[h + 1], at |-> 1]
    BY <1>3, <1>5, <1>6
  <1> QED
    BY <1>2, <1>4, <1>5, <1>7 DEF Aligned, First

\* A whole frame at the start of a buffer is the next one, and it leaves the others as
\* they were.
LEMMA WholeTaken ==
    ASSUME NEW a \in Seq(Cell), NEW b \in Seq(Cell), NEW s \in Seq(Frame), NEW h \in Nat,
           Laid(a \o b, s, h), Whole(a)
    PROVE  /\ h + 1 \in 1..Len(s) /\ First(a) = s[h + 1] /\ First(a) \in Frame
           /\ Rest(a) \in Seq(Cell) /\ Laid(Rest(a) \o b, s, h + 1)
  <1>1. Len(a) \in Nat /\ Len(b) \in Nat
    BY LenProperties
  <1>2. a # <<>>
    <2> SUFFICES ASSUME a = <<>> PROVE FALSE
      OBVIOUS
    <2>1. Len(a) = 0
      OBVIOUS
    <2> QED
      BY <2>1, ConstantsAssumption DEF Whole, HasHeader
  <1>3. /\ h # Len(s) /\ h + 1 \in 1..Len(s) /\ s[h + 1] \in Frame /\ First(a) = s[h + 1]
    BY <1>2, StartIsNext
  <1> DEFINE n == Size(First(a))
  <1>4. n \in Nat /\ n > 0 /\ n =< Len(a) /\ n = Size(s[h + 1])
    BY <1>3, SizeTyped DEF Whole
  <1>5. Rest(a) = SubSeq(a, n + 1, Len(a))
    BY DEF Rest
  <1> HIDE DEF n
  <1>6. /\ a \o b \in Seq(Cell) /\ Len(a \o b) = Len(a) + Len(b)
        /\ \A i \in 1..Len(a) + Len(b) : (a \o b)[i] = IF i <= Len(a) THEN a[i] ELSE b[i - Len(a)]
    BY ConcatProperties
  <1> DEFINE w == a \o b
             m == Len(a) + Len(b)
             x == SubSeq(w, n + 1, Len(w))
             r == SubSeq(a, n + 1, Len(a))
  <1>7. Laid(x, s, h + 1)
    BY <1>3, <1>4, <1>6, FirstLaid
  <1>8. /\ r \in Seq(Cell) /\ Len(r) = Len(a) - n
        /\ \A i \in 1..Len(a) - n : r[i] = a[n + i]
    <2>1. \A i \in n + 1..Len(a) : a[i] \in Cell
      BY <1>1, <1>4, ElementOfSeq
    <2>2. /\ r \in Seq(Cell)
          /\ Len(r) = IF n + 1 <= Len(a) THEN Len(a) - (n + 1) + 1 ELSE 0
          /\ \A i \in 1..Len(a) - (n + 1) + 1 : r[i] = a[(n + 1) + i - 1]
      BY <1>1, <1>4, <2>1, SubSeqProperties
    <2> HIDE DEF r
    <2>3. \A i \in 1..Len(a) - n : i \in 1..Len(a) - (n + 1) + 1 /\ (n + 1) + i - 1 = n + i
      BY <1>1, <1>4
    <2>4. (IF n + 1 <= Len(a) THEN Len(a) - (n + 1) + 1 ELSE 0) = Len(a) - n
      BY <1>1, <1>4
    <2> QED
      BY <2>2, <2>3, <2>4
  <1>9. /\ x \in Seq(Cell) /\ Len(x) = m - n
        /\ \A i \in 1..m - n : x[i] = w[n + i]
    <2>1. \A i \in n + 1..m : w[i] \in Cell
      BY <1>1, <1>4, <1>6, ElementOfSeq
    <2>2. Len(w) = m /\ m \in Nat /\ n =< m
      BY <1>1, <1>4, <1>6
    <2> HIDE DEF w, m
    <2>3. /\ x \in Seq(Cell)
          /\ Len(x) = IF n + 1 <= m THEN m - (n + 1) + 1 ELSE 0
          /\ \A i \in 1..m - (n + 1) + 1 : x[i] = w[(n + 1) + i - 1]
      BY <1>4, <2>1, <2>2, SubSeqProperties, SMTT(30)
    <2> HIDE DEF x
    <2>4. \A i \in 1..m - n : i \in 1..m - (n + 1) + 1 /\ (n + 1) + i - 1 = n + i
      BY <1>4, <2>2
    <2>5. (IF n + 1 <= m THEN m - (n + 1) + 1 ELSE 0) = m - n
      BY <1>4, <2>2
    <2> QED
      BY <2>3, <2>4, <2>5
  <1> HIDE DEF r, x
  <1> DEFINE y == r \o b
  <1>10. /\ y \in Seq(Cell) /\ Len(y) = (Len(a) - n) + Len(b)
         /\ \A i \in 1..(Len(a) - n) + Len(b) :
               y[i] = IF i <= Len(a) - n THEN r[i] ELSE b[i - (Len(a) - n)]
    <2>1. /\ y \in Seq(Cell) /\ Len(y) = Len(r) + Len(b)
          /\ \A i \in 1..Len(r) + Len(b) : y[i] = IF i <= Len(r) THEN r[i] ELSE b[i - Len(r)]
      BY <1>8, ConcatProperties
    <2> HIDE DEF y
    <2> QED
      BY <1>8, <2>1
  <1> HIDE DEF y
  <1>11. (Len(a) - n) + Len(b) = m - n
    BY <1>1, <1>4
  <1>12. \A i \in 1..m - n : y[i] = x[i]
    <2> SUFFICES ASSUME NEW i \in 1..m - n PROVE y[i] = x[i]
      OBVIOUS
    <2>0. n + i \in 1..m /\ i \in 1..(Len(a) - n) + Len(b)
      BY <1>1, <1>4
    <2>1. x[i] = IF n + i <= Len(a) THEN a[n + i] ELSE b[(n + i) - Len(a)]
      BY <1>6, <1>9, <2>0
    <2>2. CASE i =< Len(a) - n
      <3>1. i \in 1..Len(a) - n /\ n + i <= Len(a)
        BY <1>1, <1>4, <2>2
      <3>2. y[i] = a[n + i]
        BY <1>8, <1>10, <2>0, <2>2, <3>1
      <3> QED
        BY <2>1, <3>1, <3>2
    <2>3. CASE ~(i =< Len(a) - n)
      <3>1. ~(n + i <= Len(a)) /\ i - (Len(a) - n) = (n + i) - Len(a)
        BY <1>1, <1>4, <2>3
      <3> QED
        BY <1>10, <2>0, <2>1, <2>3, <3>1
    <2> QED
      BY <2>2, <2>3
  <1>13. y = x
    <2> HIDE DEF m
    <2> QED
      BY <1>9, <1>10, <1>11, <1>12, SeqEqual
  <1> QED
    BY <1>3, <1>5, <1>7, <1>8, <1>13 DEF y, r

\* A receiver that has everything, and neither a whole frame nor an illegal length,
\* has nothing.
LEMMA NothingLeft ==
    ASSUME NEW a \in Seq(Cell), NEW s \in Seq(Frame), NEW h \in Nat, Laid(a \o <<>>, s, h),
           ~Whole(a), ~BadLength(a)
    PROVE  h = Len(s)
  <1> SUFFICES ASSUME h # Len(s) PROVE FALSE
    OBVIOUS
  <1>1. a \o <<>> = a
    BY ConcatEmptySeq
  <1>2. Len(a) # 0
    BY <1>1, NothingLaid
  <1>3. a # <<>> /\ Len(a) \in Nat
    BY <1>2, LenProperties
  <1>4. <<>> \in Seq(Cell) /\ Len(<<>>) = 0
    OBVIOUS
  <1>5. /\ s[h + 1] \in Frame /\ Aligned(a) /\ First(a) = s[h + 1]
        /\ Size(s[h + 1]) =< Len(a) + Len(<<>>)
    BY <1>3, <1>4, StartIsNext
  <1>6. Size(First(a)) \in Nat /\ Size(First(a)) > HeaderLen /\ HeaderLen \in Nat
    BY <1>5, SizeTyped
  <1>7. Len(a) >= Size(First(a)) /\ Len(a) >= HeaderLen
    BY <1>3, <1>4, <1>5, <1>6
  <1> QED
    BY <1>5, <1>7 DEF Whole, BadLength, HasHeader
-----------------------------------------------------------------------------
(* The inductive invariant. *)

\* The requests that are answered, and the responses the client has not taken.
AskKinds == {"login", "register", "long"}
Untaken == {k \in Len(taken) + 1..Len(replied) : replied[k].kind # "push"}

\* The way up: the server has handled a prefix of the client's frames, and what is in
\* its buffer and on the way is the rest.
Upward ==
    /\ link # "closed" => Laid(buffer \o up, sent, Len(handled))
    /\ Len(handled) =< Len(sent)
    /\ \A i \in 1..Len(handled) : handled[i] = sent[i]
    /\ \A i \in 1..Len(sent) : sent[i].no = i

\* The way down, until a frame over the limit comes.
Downward == ~misread =>
    /\ client # "gone" => Laid(recvBuf \o down, replied, Len(taken))
    /\ Len(taken) =< Len(replied)
    /\ \A i \in 1..Len(taken) : taken[i].frame = replied[i]
    /\ \A i \in 1..Len(taken) :
          \/ taken[i].for \in {0, taken[i].frame.no}
          \/ taken[i].frame.kind = "push" /\ client = "gone"

\* Where the IO thread can be.
Control ==
    /\ server \in {"loop", "login"} => link # "closed"
    /\ server = "login" => Len(handled) > 0
    /\ link = "closed" => client = "gone"
    /\ server = "idle" /\ link = "open" => ~Whole(buffer) /\ ~BadLength(buffer)

\* One response at most is on its way, to the last frame of a client that waits.
OneResponse == ~misread /\ client # "gone" =>
    /\ \A k \in Untaken : replied[k].no = Len(sent) /\ client = "await"
    /\ \A k, l \in Untaken : k = l

\* Somebody is in the map with the connection, or online.
Seated == session \cup online # {}

\* While the connection is open, what the client waits for is in one place: not handled
\* yet, in the handler, or answered.  A session that the client has not entered is one
\* whose login is in the handler or answered.
OnePlace == ~misread /\ client # "gone" /\ link = "open" =>
    /\ \A k \in Len(handled) + 1..Len(sent) : sent[k].kind \in AskKinds =>
          k = Len(sent) /\ client = "await" /\ Untaken = {}
    /\ server = "login" => client = "await" /\ Len(handled) = Len(sent) /\ Untaken = {}
    /\ Seated => \/ client = "in"
                  \/ /\ client = "await"
                     /\ \/ server = "login"
                        \/ \E k \in Untaken : replied[k].kind \in Answers

SessionInv == TypeOK /\ Upward /\ Downward /\ Control /\ OneResponse /\ OnePlace

-----------------------------------------------------------------------------
(* What the parts of an action do to the invariant. *)

LEMMA TypesOfState ==
    ASSUME TypeOK
    PROVE  /\ sent \in Seq(Frame) /\ handled \in Seq(Frame) /\ replied \in Seq(Frame)
           /\ up \in Seq(Cell) /\ buffer \in Seq(Cell) /\ down \in Seq(Cell)
           /\ recvBuf \in Seq(Cell) /\ taken \in Seq([frame: Frame, for: Nat])
           /\ Len(sent) \in Nat /\ Len(handled) \in Nat /\ Len(replied) \in Nat
           /\ Len(taken) \in Nat
  <1>1. /\ sent \in Seq(Frame) /\ handled \in Seq(Frame) /\ replied \in Seq(Frame)
        /\ up \in Seq(Cell) /\ buffer \in Seq(Cell) /\ down \in Seq(Cell)
        /\ recvBuf \in Seq(Cell) /\ taken \in Seq([frame: Frame, for: Nat])
    BY DEF TypeOK
  <1> QED
    BY <1>1, LenProperties

\* The client writes a frame.
SentTyped == sent' \in Seq(Frame) /\ up' \in Seq(Cell)

LEMMA SendKeeps ==
    ASSUME SessionInv, NEW k \in Kinds, Send(k)
    PROVE  /\ SentTyped /\ Upward'
           /\ Len(sent') = Len(sent) + 1 /\ sent'[Len(sent) + 1].kind = k
           /\ \A i \in 1..Len(sent) : sent'[i] = sent[i]
  <1> DEFINE f == [kind |-> k, no |-> Len(sent) + 1]
  <1>1. /\ sent \in Seq(Frame) /\ up \in Seq(Cell) /\ buffer \in Seq(Cell)
        /\ Len(sent) \in Nat /\ Len(handled) \in Nat
    BY TypesOfState DEF SessionInv
  <1>2. f \in Frame /\ f.kind = k /\ f.no = Len(sent) + 1
    BY <1>1 DEF Frame
  <1>3. sent' = Append(sent, f) /\ up' = up \o Cells(f)
    BY DEF Send
  <1>4. UNCHANGED <<buffer, link, handled>>
    BY DEF Send, serverVars, userVars
  <1> HIDE DEF f
  <1>5. Cells(f) \in Seq(Cell)
    BY <1>2, CellsTyped
  <1>6. up' \in Seq(Cell)
    BY <1>1, <1>3, <1>5, ConcatProperties
  <1>7. /\ sent' \in Seq(Frame) /\ Len(sent') = Len(sent) + 1 /\ sent'[Len(sent) + 1] = f
        /\ \A i \in 1..Len(sent) : sent'[i] = sent[i]
    BY <1>1, <1>2, <1>3, AppendProperties
  <1>8. ASSUME link # "closed" PROVE Laid(buffer \o up', sent', Len(handled))
    <2>1. Laid(buffer \o up, sent, Len(handled)) /\ buffer \o up \in Seq(Cell)
      BY <1>1, <1>8, ConcatProperties DEF SessionInv, Upward
    <2>2. Laid((buffer \o up) \o Cells(f), Append(sent, f), Len(handled))
      BY <1>1, <1>2, <2>1, WriteLaid
    <2>3. (buffer \o up) \o Cells(f) = buffer \o (up \o Cells(f))
      BY <1>1, <1>5, ConcatAssociative
    <2> QED
      BY <1>3, <2>2, <2>3
  <1>9. Upward'
    <2>1. /\ Len(handled) =< Len(sent) /\ \A i \in 1..Len(handled) : handled[i] = sent[i]
          /\ \A i \in 1..Len(sent) : sent[i].no = i
      BY DEF SessionInv, Upward
    <2>2. Len(handled) =< Len(sent')
      BY <1>1, <1>7, <2>1
    <2>3. \A i \in 1..Len(handled) : handled[i] = sent'[i]
      <3>1. \A i \in 1..Len(handled) : i \in 1..Len(sent)
        BY <1>1, <2>1
      <3> QED
        BY <1>7, <2>1, <3>1
    <2>4. \A i \in 1..Len(sent') : sent'[i].no = i
      <3>1. \A i \in 1..Len(sent') : i \in 1..Len(sent) \/ i = Len(sent) + 1
        BY <1>1, <1>7
      <3> QED
        BY <1>2, <1>7, <2>1, <3>1
    <2> QED
      BY <1>4, <1>8, <2>2, <2>3, <2>4 DEF Upward
  <1> QED
    BY <1>2, <1>6, <1>7, <1>9 DEF SentTyped

\* Nothing is written: what the invariant says of the way down stays.
LEMMA DownKept ==
    ASSUME SessionInv, UNCHANGED <<client, recvBuf, taken, misread, down, replied>>
    PROVE  Downward' /\ Untaken' = Untaken
  BY DEF SessionInv, Downward, Untaken

LEMMA UpKept ==
    ASSUME SessionInv, UNCHANGED <<sent, up, buffer, link, handled>>
    PROVE  Upward'
  BY DEF SessionInv, Upward

\* The server takes a frame out of its buffer.
LEMMA TakeKeeps ==
    ASSUME SessionInv, NEW kind, Take(kind), link' \in {link, "half"}
    PROVE  /\ link # "closed" /\ link' # "closed"
           /\ buffer' \in Seq(Cell) /\ (buffer' = <<>> \/ Aligned(buffer'))
           /\ handled' \in Seq(Frame) /\ Len(handled') = Len(handled) + 1
           /\ Len(handled) + 1 \in 1..Len(sent)
           /\ First(buffer) \in Frame /\ First(buffer).kind = kind
           /\ First(buffer) = sent[Len(handled) + 1] /\ First(buffer).no = Len(handled) + 1
           /\ handled'[Len(handled) + 1] = First(buffer)
           /\ Upward'
  <1> DEFINE f == First(buffer)
             h == Len(handled)
  <1>1. /\ sent \in Seq(Frame) /\ handled \in Seq(Frame) /\ up \in Seq(Cell)
        /\ buffer \in Seq(Cell) /\ Len(sent) \in Nat /\ Len(handled) \in Nat
    BY TypesOfState DEF SessionInv
  <1>2. /\ server = "loop" /\ Whole(buffer) /\ f.kind = kind
        /\ buffer' = Rest(buffer) /\ handled' = Append(handled, f)
        /\ UNCHANGED <<sent, up>>
    BY DEF Take, clientVars, userVars
  <1>3. link # "closed"
    BY <1>2 DEF SessionInv, Control
  <1>4. Laid(buffer \o up, sent, h)
    BY <1>3 DEF SessionInv, Upward
  <1> HIDE DEF h
  <1>5. /\ h + 1 \in 1..Len(sent) /\ f = sent[h + 1] /\ f \in Frame
        /\ Rest(buffer) \in Seq(Cell) /\ Laid(Rest(buffer) \o up, sent, h + 1)
    BY <1>1, <1>2, <1>4, WholeTaken DEF h
  <1>6. f.no = h + 1
    BY <1>5 DEF SessionInv, Upward
  <1> HIDE DEF f
  <1>7. /\ handled' \in Seq(Frame) /\ Len(handled') = h + 1 /\ handled'[h + 1] = f
        /\ \A i \in 1..h : handled'[i] = handled[i]
    BY <1>1, <1>2, <1>5, AppendProperties DEF h
  <1>8. buffer' = <<>> \/ Aligned(buffer')
    BY <1>1, <1>2, <1>5, StartIsNext DEF h
  <1>9. Upward'
    <2>1. /\ h =< Len(sent) /\ \A i \in 1..h : handled[i] = sent[i]
          /\ \A i \in 1..Len(sent) : sent[i].no = i
      BY DEF SessionInv, Upward, h
    <2>2. Laid(buffer' \o up', sent', Len(handled'))
      BY <1>2, <1>5, <1>7
    <2>3. Len(handled') =< Len(sent')
      BY <1>1, <1>2, <1>5, <1>7 DEF h
    <2>4. \A i \in 1..Len(handled') : handled'[i] = sent'[i]
      <3>1. \A i \in 1..Len(handled') : i \in 1..h \/ i = h + 1
        BY <1>1, <1>7 DEF h
      <3> QED
        BY <1>2, <1>5, <1>7, <2>1, <3>1
    <2>5. \A i \in 1..Len(sent') : sent'[i].no = i
      BY <1>2, <2>1
    <2> QED
      BY <2>2, <2>3, <2>4, <2>5 DEF Upward
  <1>10. link' # "closed"
    BY <1>3
  <1> QED
    BY <1>2, <1>3, <1>5, <1>6, <1>7, <1>8, <1>9, <1>10 DEF f, h

\* The server writes a frame, or not, if the connection is shut down.
LEMMA ReplyKeeps ==
    ASSUME SessionInv, NEW f \in Frame, SendWithHeader(f),
           UNCHANGED <<client, recvBuf, taken, misread>>
    PROVE  /\ replied' \in Seq(Frame) /\ down' \in Seq(Cell) /\ Downward'
           /\ link # "open" => UNCHANGED <<replied, Untaken>>
           /\ link = "open" => /\ Len(replied') = Len(replied) + 1
                               /\ replied'[Len(replied) + 1] = f
                               /\ \A i \in 1..Len(replied) : replied'[i] = replied[i]
           /\ link = "open" /\ ~misread =>
                 Untaken' = IF f.kind = "push" THEN Untaken ELSE Untaken \cup {Len(replied) + 1}
  <1>1. /\ replied \in Seq(Frame) /\ down \in Seq(Cell) /\ recvBuf \in Seq(Cell)
        /\ Len(replied) \in Nat /\ Len(taken) \in Nat
    BY TypesOfState DEF SessionInv
  <1>2. CASE link # "open"
    <2>1. UNCHANGED <<down, replied>>
      BY <1>2 DEF SendWithHeader
    <2>2. Downward' /\ Untaken' = Untaken
      BY <2>1, DownKept
    <2> QED
      BY <1>1, <1>2, <2>1, <2>2
  <1>3. CASE link = "open"
    <2>1. down' = down \o Cells(f) /\ replied' = Append(replied, f)
      BY <1>3 DEF SendWithHeader
    <2>2. Cells(f) \in Seq(Cell)
      BY CellsTyped
    <2>3. down' \in Seq(Cell)
      BY <1>1, <2>1, <2>2, ConcatProperties
    <2>4. /\ replied' \in Seq(Frame) /\ Len(replied') = Len(replied) + 1
          /\ replied'[Len(replied) + 1] = f
          /\ \A i \in 1..Len(replied) : replied'[i] = replied[i]
      BY <1>1, <2>1, AppendProperties
    <2>5. ASSUME ~misread
          PROVE  Len(taken) =< Len(replied) /\ \A i \in 1..Len(taken) : taken[i].frame = replied[i]
      BY <2>5 DEF SessionInv, Downward
    <2>6. ASSUME ~misread, client # "gone" PROVE Laid(recvBuf \o down', replied', Len(taken))
      <3>1. Laid(recvBuf \o down, replied, Len(taken)) /\ recvBuf \o down \in Seq(Cell)
        BY <1>1, <2>6, ConcatProperties DEF SessionInv, Downward
      <3>2. Laid((recvBuf \o down) \o Cells(f), Append(replied, f), Len(taken))
        BY <1>1, <3>1, WriteLaid
      <3>3. (recvBuf \o down) \o Cells(f) = recvBuf \o (down \o Cells(f))
        BY <1>1, <2>2, ConcatAssociative
      <3> QED
        BY <2>1, <3>2, <3>3
    <2>7. Downward'
      <3> SUFFICES ASSUME ~misread
                   PROVE  /\ client # "gone" => Laid(recvBuf \o down', replied', Len(taken))
                          /\ Len(taken) =< Len(replied')
                          /\ \A i \in 1..Len(taken) : taken[i].frame = replied'[i]
                          /\ \A i \in 1..Len(taken) :
                                \/ taken[i].for \in {0, taken[i].frame.no}
                                \/ taken[i].frame.kind = "push" /\ client = "gone"
        BY DEF Downward
      <3>1. Len(taken) =< Len(replied')
        BY <1>1, <2>4, <2>5
      <3>2. \A i \in 1..Len(taken) : taken[i].frame = replied'[i]
        <4>1. \A i \in 1..Len(taken) : i \in 1..Len(replied)
          BY <1>1, <2>5
        <4> QED
          BY <2>4, <2>5, <4>1
      <3>3. \A i \in 1..Len(taken) :
               \/ taken[i].for \in {0, taken[i].frame.no}
               \/ taken[i].frame.kind = "push" /\ client = "gone"
        BY DEF SessionInv, Downward
      <3> QED
        BY <2>6, <3>1, <3>2, <3>3
    <2>8. ASSUME ~misread
          PROVE  Untaken' = IF f.kind = "push" THEN Untaken ELSE Untaken \cup {Len(replied) + 1}
      <3>1. /\ Untaken' = {k \in Len(taken) + 1..Len(replied) + 1 : replied'[k].kind # "push"}
            /\ Untaken = {k \in Len(taken) + 1..Len(replied) : replied[k].kind # "push"}
        BY <2>4 DEF Untaken
      <3>2. \A k \in Len(taken) + 1..Len(replied) :
               k \in Len(taken) + 1..Len(replied) + 1 /\ k \in 1..Len(replied)
        BY <1>1
      <3>3. \A k \in Len(taken) + 1..Len(replied) + 1 :
               k \in Len(taken) + 1..Len(replied) \/ k = Len(replied) + 1
        BY <1>1
      <3>4. Len(replied) + 1 \in Len(taken) + 1..Len(replied) + 1
        BY <1>1, <2>5, <2>8
      <3>5. \A k : k \in Untaken' <=> k \in Untaken \/ (k = Len(replied) + 1 /\ f.kind # "push")
        BY <2>4, <3>1, <3>2, <3>3, <3>4
      <3> QED
        BY <3>5
    <2> QED
      BY <1>3, <2>3, <2>4, <2>7, <2>8
  <1> QED
    BY <1>2, <1>3
-----------------------------------------------------------------------------
(* The steps of the client. *)

\* A request, a command, or an odd frame.
LEMMA SendingKeeps ==
    ASSUME SessionInv, NEW k \in Requests, Ask(k) \/ Command(k) \/ SendOdd(k)
    PROVE  SessionInv'
  <1>1. k \in Kinds
    BY ConstantsAssumption DEF Kinds
  <1>2. Send(k)
    BY DEF Ask, Command, SendOdd
  <1>3. /\ SentTyped /\ Upward'
        /\ Len(sent') = Len(sent) + 1 /\ sent'[Len(sent) + 1].kind = k
        /\ \A i \in 1..Len(sent) : sent'[i] = sent[i]
    BY <1>1, <1>2, SendKeeps
  <1>4. UNCHANGED <<recvBuf, taken, misread, buffer, server, link, session, online, current,
                    handled, replied, down>>
    BY <1>2 DEF Send, serverVars, userVars
  <1>5. /\ client \in {"menu", "in"} /\ client' \in {"menu", "await", "in"}
        /\ k \in AskKinds => client = "menu" /\ client' = "await"
        /\ client = "in" => client' = "in"
    BY DEF Ask, Command, SendOdd, AskKinds
  <1>6. Len(sent) \in Nat /\ Len(handled) \in Nat
    BY TypesOfState DEF SessionInv
  <1>7. TypeOK'
    BY <1>3, <1>4, <1>5 DEF SessionInv, TypeOK, SentTyped
  <1>8. Downward'
    BY <1>4, <1>5 DEF SessionInv, Downward
  <1>9. Control'
    BY <1>4, <1>5 DEF SessionInv, Control
  <1>10. Untaken' = Untaken
    BY <1>4 DEF Untaken
  <1>11. ~misread => Untaken = {}
    BY <1>5 DEF SessionInv, OneResponse
  <1>12. OneResponse'
    BY <1>4, <1>10, <1>11 DEF OneResponse
  <1>13. OnePlace'
    <2> SUFFICES ASSUME ~misread, link = "open"
                 PROVE  /\ \A l \in Len(handled) + 1..Len(sent') : sent'[l].kind \in AskKinds =>
                              l = Len(sent') /\ client' = "await" /\ Untaken = {}
                        /\ server # "login" /\ (Seated => client' = "in")
      BY <1>4, <1>10 DEF OnePlace, Seated
    <2>1. /\ \A l \in Len(handled) + 1..Len(sent) : sent[l].kind \notin AskKinds
          /\ server # "login" /\ (Seated => client = "in")
      BY <1>5 DEF SessionInv, OnePlace, Seated
    <2>2. ASSUME NEW l \in Len(handled) + 1..Len(sent'), sent'[l].kind \in AskKinds
          PROVE  l = Len(sent') /\ client' = "await" /\ Untaken = {}
      <3>1. l = Len(sent) + 1 \/ (l \in Len(handled) + 1..Len(sent) /\ l \in 1..Len(sent))
        BY <1>3, <1>6
      <3>2. l = Len(sent) + 1
        BY <1>3, <2>1, <2>2, <3>1
      <3> QED
        BY <1>3, <1>5, <1>11, <2>2, <3>2
    <2> QED
      BY <1>5, <2>1, <2>2
  <1> QED
    BY <1>3, <1>7, <1>8, <1>9, <1>12, <1>13 DEF SessionInv

LEMMA QuitKeeps ==
    ASSUME SessionInv, Quit
    PROVE  SessionInv'
  <1>1. client' = "gone"
        /\ UNCHANGED <<sent, recvBuf, taken, misread, up, buffer, server, link, session, online,
                       current, handled, replied, down>>
    BY DEF Quit, serverVars, userVars
  <1>2. TypeOK'
    BY <1>1 DEF SessionInv, TypeOK
  <1>3. Upward'
    BY <1>1, UpKept
  <1>4. Downward'
    BY <1>1 DEF SessionInv, Downward
  <1>5. Control'
    BY <1>1 DEF SessionInv, Control
  <1>6. OneResponse' /\ OnePlace'
    BY <1>1 DEF OneResponse, OnePlace, Seated
  <1> QED
    BY <1>2, <1>3, <1>4, <1>5, <1>6 DEF SessionInv

LEMMA ReceiveKeeps ==
    ASSUME SessionInv, Receive
    PROVE  SessionInv'
  <1>1. UNCHANGED <<client, sent, taken, misread, up, buffer, server, link, session, online,
                    current, handled, replied>>
    BY DEF Receive, serverVars, userVars
  <1>2. PICK n \in 1..Len(down) : /\ recvBuf' = recvBuf \o SubSeq(down, 1, n)
                                  /\ down' = SubSeq(down, n + 1, Len(down))
    BY DEF Receive
  <1>3. recvBuf \in Seq(Cell) /\ down \in Seq(Cell)
    BY TypesOfState DEF SessionInv
  <1>4. recvBuf' \in Seq(Cell) /\ down' \in Seq(Cell) /\ recvBuf' \o down' = recvBuf \o down
    BY <1>2, <1>3, PortionMoved
  <1>5. TypeOK'
    BY <1>1, <1>4 DEF SessionInv, TypeOK
  <1>6. Upward'
    BY <1>1, UpKept
  <1>7. Downward'
    BY <1>1, <1>4 DEF SessionInv, Downward
  <1>8. Control'
    BY <1>1 DEF SessionInv, Control
  <1>9. Untaken' = Untaken
    BY <1>1 DEF Untaken
  <1>10. OneResponse'
    BY <1>1, <1>9 DEF SessionInv, OneResponse
  <1>11. OnePlace'
    BY <1>1, <1>9 DEF SessionInv, OnePlace, Seated
  <1> QED
    BY <1>5, <1>6, <1>7, <1>8, <1>10, <1>11 DEF SessionInv

LEMMA TakeFrameKeeps ==
    ASSUME SessionInv, TakeFrame
    PROVE  SessionInv'
  <1> DEFINE f == First(recvBuf)
             q == IF client = "await" THEN Len(sent) ELSE 0
             h == Len(taken)
  <1>1. UNCHANGED <<sent, misread, up, buffer, server, link, session, online, current, handled,
                    replied, down>>
    BY DEF TakeFrame, serverVars, userVars
  <1>2. /\ client \in {"await", "in"} /\ Whole(recvBuf)
        /\ client' = IF client = "await" THEN AfterResponse(f) ELSE client
        /\ taken' = Append(taken, [frame |-> f, for |-> q])
        /\ recvBuf' = Rest(recvBuf)
    BY DEF TakeFrame
  <1>3. /\ recvBuf \in Seq(Cell) /\ down \in Seq(Cell) /\ replied \in Seq(Frame)
        /\ taken \in Seq([frame: Frame, for: Nat])
        /\ Len(sent) \in Nat /\ Len(taken) \in Nat /\ Len(replied) \in Nat
    BY TypesOfState DEF SessionInv
  <1>4. Legal(f)
    BY <1>2 DEF Whole
  <1>5. client' \in {"menu", "in", "gone"}
    BY <1>2 DEF AfterResponse
  <1>6. f \in Frame /\ Rest(recvBuf) \in Seq(Cell)
    <2>1. recvBuf # <<>>
      <3> SUFFICES ASSUME recvBuf = <<>> PROVE FALSE
        OBVIOUS
      <3>1. Len(recvBuf) = 0
        OBVIOUS
      <3> QED
        BY <1>2, <3>1, ConstantsAssumption DEF Whole, HasHeader
    <2>2. Len(recvBuf) \in Nat /\ Len(recvBuf) # 0
      BY <1>3, <2>1, EmptySeq, LenProperties
    <2>3. 1 \in 1..Len(recvBuf)
      BY <2>2
    <2>4. recvBuf[1] \in Cell
      BY <1>3, <2>3, ElementOfSeq
    <2>5. f \in Frame
      BY <2>4 DEF Cell, First
    <2>6. Size(f) \in Nat
      BY <2>5, SizeTyped
    <2>7. \A i \in Size(f) + 1..Len(recvBuf) : recvBuf[i] \in Cell
      <3>1. \A i \in Size(f) + 1..Len(recvBuf) : i \in 1..Len(recvBuf)
        BY <2>2, <2>6
      <3> QED
        BY <1>3, <3>1, ElementOfSeq
    <2>8. SubSeq(recvBuf, Size(f) + 1, Len(recvBuf)) \in Seq(Cell)
      <3> DEFINE n == Size(f)
      <3>1. n \in Nat /\ \A i \in n + 1..Len(recvBuf) : recvBuf[i] \in Cell
        BY <2>6, <2>7
      <3> HIDE DEF n
      <3>2. SubSeq(recvBuf, n + 1, Len(recvBuf)) \in Seq(Cell)
        BY <1>3, <2>2, <3>1, SubSeqProperties
      <3> QED
        BY <3>2 DEF n
    <2> QED
      BY <2>5, <2>8 DEF Rest
  <1>7. q \in Nat
    BY <1>3
  <1>8. q = 0 \/ (client = "await" /\ q = Len(sent))
    <2>1. CASE client = "await"
      BY <2>1
    <2>2. CASE client # "await"
      BY <2>2
    <2> QED
      BY <2>1, <2>2
  <1> HIDE DEF f, q
  <1>9. /\ taken' \in Seq([frame: Frame, for: Nat]) /\ Len(taken') = h + 1
        /\ taken'[h + 1].frame = f /\ taken'[h + 1].for = q
        /\ \A i \in 1..h : taken'[i] = taken[i]
    <2> DEFINE e == [frame |-> f, for |-> q]
               T == [frame: Frame, for: Nat]
    <2>1. e \in T /\ e.frame = f /\ e.for = q
      BY <1>6, <1>7
    <2>2. taken' = Append(taken, e) /\ taken \in Seq(T)
      BY <1>2, <1>3
    <2> HIDE DEF e, T
    <2>3. /\ taken' \in Seq(T) /\ Len(taken') = h + 1 /\ taken'[h + 1] = e
          /\ \A i \in 1..h : taken'[i] = taken[i]
      BY <2>1, <2>2, AppendProperties
    <2> QED
      BY <2>1, <2>3 DEF T
  <1> HIDE DEF h
  <1>10. TypeOK'
    BY <1>1, <1>2, <1>5, <1>6, <1>9 DEF SessionInv, TypeOK
  <1>11. Upward'
    BY <1>1, UpKept
  <1>12. Control'
    BY <1>1, <1>2, <1>5 DEF SessionInv, Control
  <1>13. ASSUME ~misread
         PROVE  /\ h + 1 \in 1..Len(replied) /\ f = replied[h + 1]
                /\ Laid(Rest(recvBuf) \o down, replied, h + 1)
    <2>1. Laid(recvBuf \o down, replied, h)
      BY <1>2, <1>13 DEF SessionInv, Downward, h
    <2> QED
      BY <1>2, <1>3, <2>1, WholeTaken DEF f, h
  <1>14. ASSUME ~misread
         PROVE  /\ Untaken' = Untaken \ {h + 1}
                /\ h + 1 \in Untaken <=> f.kind # "push"
    <2>1. /\ Untaken' = {k \in (h + 1) + 1..Len(replied) : replied[k].kind # "push"}
          /\ Untaken = {k \in h + 1..Len(replied) : replied[k].kind # "push"}
      BY <1>1, <1>9 DEF Untaken, h
    <2>2. \A k : k \in (h + 1) + 1..Len(replied) <=> k \in h + 1..Len(replied) /\ k # h + 1
      BY <1>3 DEF h
    <2>3. h + 1 \in h + 1..Len(replied)
      BY <1>3, <1>13, <1>14 DEF h
    <2>4. \A k : k \in Untaken' <=> k \in Untaken /\ k # h + 1
      BY <2>1, <2>2
    <2>5. h + 1 \in Untaken <=> f.kind # "push"
      BY <1>13, <1>14, <2>1, <2>3
    <2> QED
      BY <2>4, <2>5
  <1>15. ASSUME ~misread, client = "await", f.kind # "push"
         PROVE  f.no = Len(sent) /\ Untaken' = {} /\ Untaken # {}
    <2>1. h + 1 \in Untaken /\ f = replied[h + 1] /\ Untaken' = Untaken \ {h + 1}
      BY <1>13, <1>14, <1>15
    <2>2. /\ \A k \in Untaken : replied[k].no = Len(sent)
          /\ \A k, l \in Untaken : k = l
      BY <1>15 DEF SessionInv, OneResponse
    <2> QED
      BY <2>1, <2>2
  <1>16. ASSUME ~misread, client = "in"
         PROVE  Untaken = {} /\ Untaken' = {}
    <2>1. Untaken = {}
      BY <1>16 DEF SessionInv, OneResponse
    <2> QED
      BY <1>14, <1>16, <2>1
  <1>17. f.kind = "push" /\ client = "await" => client' = "gone"
    BY <1>2 DEF AfterResponse
  <1>18. Downward'
    <2> SUFFICES ASSUME ~misread
                 PROVE  /\ Laid(recvBuf' \o down', replied', Len(taken'))
                        /\ Len(taken') =< Len(replied')
                        /\ \A i \in 1..Len(taken') : taken'[i].frame = replied'[i]
                        /\ \A i \in 1..Len(taken') :
                              \/ taken'[i].for \in {0, taken'[i].frame.no}
                              \/ taken'[i].frame.kind = "push" /\ client' = "gone"
      BY <1>1 DEF Downward
    <2>1. Laid(recvBuf' \o down', replied', Len(taken'))
      BY <1>1, <1>2, <1>9, <1>13
    <2>2. Len(taken') =< Len(replied')
      BY <1>1, <1>3, <1>9, <1>13 DEF h
    <2>3. \A i \in 1..Len(taken') : i \in 1..h \/ i = h + 1
      BY <1>3, <1>9 DEF h
    <2>4. \A i \in 1..h : taken[i].frame = replied[i] /\ taken[i].for \in {0, taken[i].frame.no}
      BY <1>2 DEF SessionInv, Downward, h
    <2>5. \A i \in 1..Len(taken') : taken'[i].frame = replied'[i]
      BY <1>1, <1>9, <1>13, <2>3, <2>4
    <2>6. \/ taken'[h + 1].for \in {0, taken'[h + 1].frame.no}
          \/ taken'[h + 1].frame.kind = "push" /\ client' = "gone"
      BY <1>8, <1>9, <1>15, <1>17
    <2>7. \A i \in 1..Len(taken') :
             \/ taken'[i].for \in {0, taken'[i].frame.no}
             \/ taken'[i].frame.kind = "push" /\ client' = "gone"
      BY <1>9, <2>3, <2>4, <2>6
    <2> QED
      BY <2>1, <2>2, <2>5, <2>7
  <1>19. ASSUME ~misread, client' # "gone"
         PROVE  Untaken' = {}
    BY <1>2, <1>15, <1>16, <1>17, <1>19
  <1>20. OneResponse'
    BY <1>1, <1>19 DEF OneResponse
  <1>21. OnePlace'
    <2> SUFFICES ASSUME ~misread, client' # "gone", link = "open"
                 PROVE  /\ \A k \in Len(handled) + 1..Len(sent) : sent[k].kind \notin AskKinds
                        /\ server # "login"
                        /\ Seated => client' = "in"
      BY <1>1 DEF OnePlace, Seated
    <2>1. CASE client = "in"
      BY <1>2, <2>1 DEF SessionInv, OnePlace, Seated
    <2>2. CASE client = "await"
      <3>1. f.kind # "push"
        BY <1>17, <2>2
      <3>2. Untaken # {} /\ \A k, l \in Untaken : k = l
        BY <1>15, <2>2, <3>1 DEF SessionInv, OneResponse
      <3>3. /\ \A k \in Len(handled) + 1..Len(sent) : sent[k].kind \notin AskKinds
            /\ server # "login"
            /\ Seated => \E k \in Untaken : replied[k].kind \in Answers
        BY <2>2, <3>2 DEF SessionInv, OnePlace, Seated
      <3>4. ASSUME Seated PROVE client' = "in"
        <4>1. f.kind \in Answers
          BY <1>13, <1>14, <3>1, <3>2, <3>3, <3>4
        <4>2. f.kind = "ok"
          BY <1>4, <4>1, ConstantsAssumption DEF Legal, f
        <4> QED
          BY <1>2, <2>2, <4>2 DEF AfterResponse
      <3> QED
        BY <3>3, <3>4
    <2> QED
      BY <1>2, <2>1, <2>2
  <1> QED
    BY <1>10, <1>11, <1>12, <1>18, <1>20, <1>21 DEF SessionInv

\* A frame over the limit, or what is no frame: from then on nothing is claimed.
LEMMA TakeIllegalKeeps ==
    ASSUME SessionInv, TakeIllegal
    PROVE  SessionInv'
  <1>1. /\ client \in {"await", "in"} /\ client' \in {"menu", "gone"}
        /\ recvBuf' = <<>> /\ misread' = TRUE
        /\ UNCHANGED <<sent, taken, up, buffer, server, link, session, online, current, handled,
                       replied, down>>
    BY DEF TakeIllegal, serverVars, userVars
  <1>2. <<>> \in Seq(Cell)
    OBVIOUS
  <1>3. TypeOK'
    BY <1>1, <1>2 DEF SessionInv, TypeOK
  <1>4. Upward'
    BY <1>1, UpKept
  <1>5. Control'
    BY <1>1 DEF SessionInv, Control
  <1>6. Downward' /\ OneResponse' /\ OnePlace'
    BY <1>1 DEF Downward, OneResponse, OnePlace, Seated
  <1> QED
    BY <1>3, <1>4, <1>5, <1>6 DEF SessionInv

LEMMA TakeGarbageKeeps ==
    ASSUME SessionInv, TakeGarbage
    PROVE  SessionInv'
  <1>1. Quit
    BY DEF TakeGarbage, Quit
  <1> QED
    BY <1>1, QuitKeeps

LEMMA TakeEndKeeps ==
    ASSUME SessionInv, TakeEnd
    PROVE  SessionInv'
  <1>1. /\ client \in {"await", "in"} /\ client' \in {"menu", "gone"} /\ link # "open"
        /\ down = <<>> /\ ~Whole(recvBuf) /\ ~BadLength(recvBuf)
        /\ UNCHANGED <<sent, recvBuf, taken, misread, up, buffer, server, link, session, online,
                       current, handled, replied, down>>
    BY DEF TakeEnd, serverVars, userVars
  <1>2. TypeOK'
    BY <1>1 DEF SessionInv, TypeOK
  <1>3. Upward'
    BY <1>1, UpKept
  <1>4. Control'
    BY <1>1 DEF SessionInv, Control
  <1>5. Downward'
    BY <1>1 DEF SessionInv, Downward
  <1>6. ASSUME ~misread PROVE Untaken' = {}
    <2>1. /\ recvBuf \in Seq(Cell) /\ replied \in Seq(Frame)
          /\ Len(taken) \in Nat /\ Len(replied) \in Nat
      BY TypesOfState DEF SessionInv
    <2>2. Laid(recvBuf \o <<>>, replied, Len(taken))
      BY <1>1, <1>6 DEF SessionInv, Downward
    <2>3. Len(taken) = Len(replied)
      BY <1>1, <2>1, <2>2, NothingLeft
    <2>4. Len(taken) + 1..Len(replied) = {}
      BY <2>1, <2>3
    <2> QED
      BY <1>1, <2>4 DEF Untaken
  <1>7. OneResponse'
    BY <1>1, <1>6 DEF OneResponse
  <1>8. OnePlace'
    BY <1>1 DEF OnePlace, Seated
  <1> QED
    BY <1>2, <1>3, <1>4, <1>5, <1>7, <1>8 DEF SessionInv
-----------------------------------------------------------------------------
(* The steps of the server. *)

LEMMA ReadableKeeps ==
    ASSUME SessionInv, Readable
    PROVE  SessionInv'
  <1>1. /\ server = "idle" /\ server' = "loop" /\ link # "closed"
        /\ UNCHANGED <<client, sent, recvBuf, taken, misread, link, session, online, current,
                       handled, replied, down>>
    BY DEF Readable, clientVars, userVars
  <1>2. PICK n \in 1..Len(up) : /\ buffer' = buffer \o SubSeq(up, 1, n)
                                /\ up' = SubSeq(up, n + 1, Len(up))
    BY DEF Readable
  <1>3. /\ buffer \in Seq(Cell) /\ up \in Seq(Cell) /\ sent \in Seq(Frame)
        /\ Len(handled) \in Nat
    BY TypesOfState DEF SessionInv
  <1>4. /\ buffer' \in Seq(Cell) /\ up' \in Seq(Cell) /\ buffer' \o up' = buffer \o up
        /\ buffer' # <<>>
    BY <1>2, <1>3, PortionMoved
  <1>5. Laid(buffer' \o up', sent, Len(handled))
    BY <1>1, <1>4 DEF SessionInv, Upward
  <1>6. Aligned(buffer')
    BY <1>3, <1>4, <1>5, StartIsNext
  <1>7. TypeOK'
    BY <1>1, <1>4, <1>6 DEF SessionInv, TypeOK
  <1>8. Upward'
    BY <1>1, <1>5 DEF SessionInv, Upward
  <1>9. Downward' /\ Untaken' = Untaken
    BY <1>1, DownKept
  <1>10. Control'
    BY <1>1 DEF SessionInv, Control
  <1>11. OneResponse'
    BY <1>1, <1>9 DEF SessionInv, OneResponse
  <1>12. OnePlace'
    BY <1>1, <1>9 DEF SessionInv, OnePlace, Seated
  <1> QED
    BY <1>7, <1>8, <1>9, <1>10, <1>11, <1>12 DEF SessionInv

LEMMA IncompleteKeeps ==
    ASSUME SessionInv, Incomplete
    PROVE  SessionInv'
  <1>1. /\ server = "loop" /\ server' = "idle" /\ ~Whole(buffer) /\ ~BadLength(buffer)
        /\ UNCHANGED <<client, sent, recvBuf, taken, misread, up, buffer, link, session, online,
                       current, handled, replied, down>>
    BY DEF Incomplete, clientVars, userVars
  <1>2. TypeOK'
    BY <1>1 DEF SessionInv, TypeOK
  <1>3. Upward'
    BY <1>1, UpKept
  <1>4. Downward' /\ Untaken' = Untaken
    BY <1>1, DownKept
  <1>5. Control'
    BY <1>1 DEF SessionInv, Control
  <1>6. OneResponse'
    BY <1>1, <1>4 DEF SessionInv, OneResponse
  <1>7. OnePlace'
    BY <1>1, <1>4 DEF SessionInv, OnePlace, Seated
  <1> QED
    BY <1>2, <1>3, <1>4, <1>5, <1>6, <1>7 DEF SessionInv

LEMMA IllegalKeeps ==
    ASSUME SessionInv, Illegal
    PROVE  SessionInv'
  <1>1. /\ server = "loop" /\ server' = "idle" /\ link' = "half"
        /\ UNCHANGED <<client, sent, recvBuf, taken, misread, up, buffer, session, online,
                       current, handled, replied, down>>
    BY DEF Illegal, clientVars, userVars
  <1>2. link # "closed"
    BY <1>1 DEF SessionInv, Control
  <1>3. TypeOK'
    BY <1>1 DEF SessionInv, TypeOK
  <1>4. Upward'
    BY <1>1, <1>2 DEF SessionInv, Upward
  <1>5. Downward' /\ Untaken' = Untaken
    BY <1>1, DownKept
  <1>6. Control'
    BY <1>1 DEF SessionInv, Control
  <1>7. OneResponse'
    BY <1>1, <1>5 DEF SessionInv, OneResponse
  <1>8. OnePlace'
    BY <1>1 DEF OnePlace, Seated
  <1> QED
    BY <1>3, <1>4, <1>5, <1>6, <1>7, <1>8 DEF SessionInv

\* A frame is handled and nobody is answered.
LEMMA UnansweredKeeps ==
    ASSUME SessionInv, NEW kind, Take(kind), kind \notin AskKinds,
           server' \in {"idle", "loop"}, server' = "idle" => link' = "half",
           link' \in {link, "half"}, session' \subseteq session, online' \subseteq online,
           UNCHANGED <<current, replied, down>>
    PROVE  SessionInv'
  <1>1. /\ server = "loop" /\ UNCHANGED <<client, sent, recvBuf, taken, misread, up>>
    BY DEF Take, clientVars, userVars
  <1>2. /\ link # "closed" /\ link' # "closed"
        /\ buffer' \in Seq(Cell) /\ (buffer' = <<>> \/ Aligned(buffer'))
        /\ handled' \in Seq(Frame) /\ Len(handled') = Len(handled) + 1
        /\ Upward'
    BY TakeKeeps
  <1>3. Len(sent) \in Nat /\ Len(handled) \in Nat
    BY TypesOfState DEF SessionInv
  <1>4. TypeOK'
    BY <1>1, <1>2 DEF SessionInv, TypeOK
  <1>5. Downward' /\ Untaken' = Untaken
    BY <1>1, DownKept
  <1>6. Control'
    BY <1>1, <1>2 DEF SessionInv, Control
  <1>7. OneResponse'
    BY <1>1, <1>5 DEF SessionInv, OneResponse
  <1>8. OnePlace'
    <2> SUFFICES ASSUME ~misread, client # "gone", link' = "open"
                 PROVE  /\ \A k \in Len(handled') + 1..Len(sent) : sent[k].kind \in AskKinds =>
                              k = Len(sent) /\ client = "await" /\ Untaken = {}
                        /\ server' # "login"
                        /\ Seated' => \/ client = "in"
                                       \/ /\ client = "await"
                                          /\ \/ server' = "login"
                                             \/ \E k \in Untaken : replied[k].kind \in Answers
      BY <1>1, <1>5 DEF OnePlace, Seated
    <2>1. link = "open"
      OBVIOUS
    <2>2. /\ \A k \in Len(handled) + 1..Len(sent) : sent[k].kind \in AskKinds =>
                k = Len(sent) /\ client = "await" /\ Untaken = {}
          /\ Seated => \/ client = "in"
                        \/ /\ client = "await"
                           /\ \E k \in Untaken : replied[k].kind \in Answers
      BY <1>1, <2>1 DEF SessionInv, OnePlace, Seated
    <2>3. \A k \in Len(handled') + 1..Len(sent) : k \in Len(handled) + 1..Len(sent)
      BY <1>2, <1>3
    <2>4. \A k \in Len(handled') + 1..Len(sent) : sent[k].kind \in AskKinds =>
             k = Len(sent) /\ client = "await" /\ Untaken = {}
      BY <2>2, <2>3
    <2>5. server' # "login"
      OBVIOUS
    <2>6. ASSUME Seated'
          PROVE  \/ client = "in"
                 \/ /\ client = "await"
                    /\ \E k \in Untaken : replied[k].kind \in Answers
      <3>1. Seated
        BY <2>6 DEF Seated
      <3> QED
        BY <2>2, <3>1
    <2> QED
      BY <2>4, <2>5, <2>6
  <1> QED
    BY <1>2, <1>4, <1>5, <1>6, <1>7, <1>8 DEF SessionInv

\* A frame is handled and answered at once.
LEMMA AnsweredKeeps ==
    ASSUME SessionInv, NEW kind \in {"login", "register"}, Take(kind),
           NEW answer \in Kinds \ {"push"}, SendWithHeader(Response(answer, First(buffer))),
           server' = "loop", UNCHANGED <<link, session, online, current>>
    PROVE  SessionInv'
  <1> DEFINE f == First(buffer)
             g == Response(answer, f)
             h == Len(handled)
  <1>1. /\ server = "loop" /\ UNCHANGED <<client, sent, recvBuf, taken, misread, up>>
    BY DEF Take, clientVars, userVars
  <1>2. /\ link # "closed"
        /\ buffer' \in Seq(Cell) /\ (buffer' = <<>> \/ Aligned(buffer'))
        /\ handled' \in Seq(Frame) /\ Len(handled') = h + 1
        /\ h + 1 \in 1..Len(sent) /\ f = sent[h + 1] /\ f \in Frame
        /\ f.kind = kind /\ f.no = h + 1
        /\ Upward'
    BY TakeKeeps
  <1>3. Len(sent) \in Nat /\ h \in Nat /\ Len(replied) \in Nat
    BY TypesOfState DEF SessionInv
  <1>4. g \in Frame /\ g.kind = answer /\ g.kind # "push" /\ g.no = h + 1
    BY <1>2, <1>3 DEF Response, Frame
  <1> HIDE DEF f, g, h
  <1>5. /\ replied' \in Seq(Frame) /\ down' \in Seq(Cell) /\ Downward'
        /\ link # "open" => UNCHANGED <<replied, Untaken>>
        /\ link = "open" => /\ Len(replied') = Len(replied) + 1
                            /\ replied'[Len(replied) + 1] = g
                            /\ \A i \in 1..Len(replied) : replied'[i] = replied[i]
        /\ link = "open" /\ ~misread => Untaken' = Untaken \cup {Len(replied) + 1}
    BY <1>1, <1>4, ReplyKeeps DEF g, f
  <1>6. TypeOK'
    BY <1>1, <1>2, <1>5 DEF SessionInv, TypeOK
  <1>7. Control'
    BY <1>1, <1>2 DEF SessionInv, Control
  <1>8. ASSUME ~misread, client # "gone", link = "open"
        PROVE  /\ h + 1 = Len(sent) /\ client = "await" /\ ~Seated
               /\ Untaken' = {Len(replied) + 1} /\ replied'[Len(replied) + 1] = g
    <2>1. h + 1 \in h + 1..Len(sent) /\ sent[h + 1].kind \in AskKinds
      BY <1>2, <1>3 DEF AskKinds
    <2>2. h + 1 = Len(sent) /\ client = "await" /\ Untaken = {}
      BY <1>8, <2>1 DEF SessionInv, OnePlace, h, Seated
    <2>3. ~Seated
      BY <1>1, <1>8, <2>2 DEF SessionInv, OnePlace, Seated
    <2> QED
      BY <1>5, <1>8, <2>2, <2>3
  <1>9. OneResponse'
    <2>1. CASE link = "open"
      BY <1>1, <1>4, <1>8, <2>1 DEF OneResponse
    <2>2. CASE link # "open"
      BY <1>1, <1>5, <2>2 DEF SessionInv, OneResponse
    <2> QED
      BY <2>1, <2>2
  <1>10. OnePlace'
    <2> SUFFICES ASSUME ~misread, client # "gone", link = "open"
                 PROVE  /\ Len(handled') + 1..Len(sent) = {} /\ ~Seated
      BY <1>1 DEF OnePlace, Seated
    <2> QED
      BY <1>2, <1>3, <1>8
  <1> QED
    BY <1>2, <1>5, <1>6, <1>7, <1>9, <1>10 DEF SessionInv

LEMMA AcceptKeeps ==
    ASSUME SessionInv, Accept
    PROVE  SessionInv'
  <1>1. /\ Take("login") /\ server' = "login"
        /\ session' \in SUBSET Users /\ current' \in SUBSET Users
        /\ UNCHANGED <<link, online, replied, down>>
    BY DEF Accept, SessionInv, TypeOK
  <1>2. /\ server = "loop" /\ UNCHANGED <<client, sent, recvBuf, taken, misread, up>>
    BY <1>1 DEF Take, clientVars, userVars
  <1>3. /\ link # "closed"
        /\ buffer' \in Seq(Cell) /\ (buffer' = <<>> \/ Aligned(buffer'))
        /\ handled' \in Seq(Frame) /\ Len(handled') = Len(handled) + 1
        /\ Len(handled) + 1 \in 1..Len(sent) /\ First(buffer) = sent[Len(handled) + 1]
        /\ First(buffer).kind = "login" /\ Upward'
    BY <1>1, TakeKeeps
  <1>4. Len(sent) \in Nat /\ Len(handled) \in Nat
    BY TypesOfState DEF SessionInv
  <1>5. TypeOK'
    BY <1>1, <1>2, <1>3 DEF SessionInv, TypeOK
  <1>6. Downward' /\ Untaken' = Untaken
    BY <1>1, <1>2, DownKept
  <1>7. Control'
    BY <1>1, <1>2, <1>3, <1>4 DEF SessionInv, Control
  <1>8. OneResponse'
    BY <1>1, <1>2, <1>6 DEF SessionInv, OneResponse
  <1>9. OnePlace'
    <2> SUFFICES ASSUME ~misread, client # "gone", link = "open"
                 PROVE  /\ Len(handled') + 1..Len(sent) = {} /\ client = "await"
                        /\ Len(handled') = Len(sent) /\ Untaken = {}
      BY <1>1, <1>2, <1>6 DEF OnePlace, Seated
    <2>1. /\ Len(handled) + 1 \in Len(handled) + 1..Len(sent)
          /\ sent[Len(handled) + 1].kind \in AskKinds
      BY <1>3, <1>4 DEF AskKinds
    <2>2. Len(handled) + 1 = Len(sent) /\ client = "await" /\ Untaken = {}
      BY <2>1 DEF SessionInv, OnePlace, Seated
    <2> QED
      BY <1>3, <1>4, <2>2
  <1> QED
    BY <1>3, <1>5, <1>6, <1>7, <1>8, <1>9 DEF SessionInv

LEMMA LoginAckKeeps ==
    ASSUME SessionInv, NEW kind \in Answers, LoginAck(kind)
    PROVE  SessionInv'
  <1> DEFINE g == Response(kind, Last(handled))
             h == Len(handled)
  <1>1. /\ server = "login" /\ server' = "loop"
        /\ UNCHANGED <<client, sent, recvBuf, taken, misread, up, buffer, link, session, current,
                       handled>>
        /\ online' \in {online, online \cup current}
    BY DEF LoginAck, clientVars, userVars
  <1>2. /\ sent \in Seq(Frame) /\ handled \in Seq(Frame) /\ Len(sent) \in Nat /\ h \in Nat
        /\ Len(replied) \in Nat
    BY TypesOfState DEF SessionInv
  <1>3. h \in 1..h /\ link # "closed"
    BY <1>1, <1>2 DEF SessionInv, Control
  <1>4. /\ Last(handled) = handled[h] /\ handled[h] \in Frame /\ handled[h].no = h
    <2>1. Last(handled) = handled[h]
      BY DEF Last
    <2>2. handled[h] \in Frame
      BY <1>2, <1>3, ElementOfSeq
    <2>3. handled[h] = sent[h] /\ h \in 1..Len(sent)
      BY <1>2, <1>3 DEF SessionInv, Upward
    <2>4. sent[h].no = h
      BY <2>3 DEF SessionInv, Upward
    <2> QED
      BY <2>1, <2>2, <2>3, <2>4
  <1>5. g \in Frame /\ g.kind = kind /\ g.kind # "push" /\ g.no = h
    BY <1>2, <1>4, ConstantsAssumption DEF Response, Frame, Kinds
  <1>6. SendWithHeader(g)
    BY DEF LoginAck
  <1> HIDE DEF g, h
  <1>7. /\ replied' \in Seq(Frame) /\ down' \in Seq(Cell) /\ Downward'
        /\ link # "open" => UNCHANGED <<replied, Untaken>>
        /\ link = "open" => replied'[Len(replied) + 1] = g
        /\ link = "open" /\ ~misread => Untaken' = Untaken \cup {Len(replied) + 1}
    BY <1>1, <1>5, <1>6, ReplyKeeps
  <1>8. TypeOK'
    BY <1>1, <1>7 DEF SessionInv, TypeOK
  <1>9. Upward'
    BY <1>1, UpKept
  <1>10. Control'
    BY <1>1 DEF SessionInv, Control
  <1>11. ASSUME ~misread, client # "gone", link = "open"
         PROVE  /\ h = Len(sent) /\ client = "await" /\ Untaken' = {Len(replied) + 1}
                /\ replied'[Len(replied) + 1] = g
    BY <1>1, <1>7, <1>11 DEF SessionInv, OnePlace, h, Seated
  <1>12. OneResponse'
    <2>1. CASE link = "open"
      BY <1>1, <1>5, <1>11, <2>1 DEF OneResponse
    <2>2. CASE link # "open"
      BY <1>1, <1>7, <2>2 DEF SessionInv, OneResponse
    <2> QED
      BY <2>1, <2>2
  <1>13. OnePlace'
    <2> SUFFICES ASSUME ~misread, client # "gone", link = "open"
                 PROVE  /\ Len(handled) + 1..Len(sent) = {} /\ client = "await"
                        /\ \E k \in Untaken' : replied'[k].kind \in Answers
      BY <1>1 DEF OnePlace, Seated
    <2> QED
      BY <1>2, <1>5, <1>11 DEF h
  <1> QED
    BY <1>7, <1>8, <1>9, <1>10, <1>12, <1>13 DEF SessionInv

LEMMA PushChatKeeps ==
    ASSUME SessionInv, PushChat
    PROVE  SessionInv'
  <1> DEFINE P == {i \in DOMAIN replied : replied[i].kind = "push"}
             g == [kind |-> "push", no |-> Cardinality(P) + 1]
  <1>1. /\ link = "open" /\ SendWithHeader(g)
        /\ UNCHANGED <<client, sent, recvBuf, taken, misread, up, buffer, server, link, session,
                       online, current, handled>>
    BY DEF PushChat, clientVars, userVars
  <1>2. replied \in Seq(Frame) /\ Len(replied) \in Nat
    BY TypesOfState DEF SessionInv
  <1>3. Cardinality(P) \in Nat
    <2>1. DOMAIN replied = 1..Len(replied)
      BY <1>2
    <2>2. IsFiniteSet(1..Len(replied))
      BY <1>2, FS_Interval
    <2>3. P \subseteq 1..Len(replied)
      BY <2>1
    <2>4. IsFiniteSet(P)
      BY <2>2, <2>3, FS_Subset
    <2> QED
      BY <2>4, FS_CardinalityType
  <1>4. g \in Frame /\ g.kind = "push"
    BY <1>3 DEF Frame, Kinds
  <1> HIDE DEF g
  <1>5. /\ replied' \in Seq(Frame) /\ down' \in Seq(Cell) /\ Downward'
        /\ \A i \in 1..Len(replied) : replied'[i] = replied[i]
        /\ ~misread => Untaken' = Untaken
    BY <1>1, <1>4, ReplyKeeps
  <1>6. \A k \in Untaken : ~misread => replied'[k] = replied[k]
    <2>1. Len(taken) \in Nat
      BY TypesOfState DEF SessionInv
    <2>2. \A k \in Untaken : k \in 1..Len(replied)
      BY <1>2, <2>1 DEF Untaken
    <2> QED
      BY <1>5, <2>2
  <1>7. TypeOK'
    BY <1>1, <1>5 DEF SessionInv, TypeOK
  <1>8. Upward'
    BY <1>1, UpKept
  <1>9. Control'
    BY <1>1 DEF SessionInv, Control
  <1>10. OneResponse'
    BY <1>1, <1>5, <1>6 DEF SessionInv, OneResponse
  <1>11. OnePlace'
    BY <1>1, <1>5, <1>6 DEF SessionInv, OnePlace, Seated
  <1> QED
    BY <1>5, <1>7, <1>8, <1>9, <1>10, <1>11 DEF SessionInv

LEMMA OnConnectionKeeps ==
    ASSUME SessionInv, OnConnection
    PROVE  SessionInv'
  <1>1. /\ client = "gone" /\ server = "idle" /\ link' = "closed"
        /\ session' \in SUBSET Users /\ online' \in SUBSET Users /\ current' = current
        /\ up' = <<>> /\ down' = <<>>
        /\ UNCHANGED <<client, sent, recvBuf, taken, misread, buffer, server, handled, replied>>
    BY DEF OnConnection, CloseException, clientVars, SessionInv, TypeOK, userVars
  <1>2. <<>> \in Seq(Cell)
    OBVIOUS
  <1>3. TypeOK'
    BY <1>1, <1>2 DEF SessionInv, TypeOK
  <1>4. Upward'
    BY <1>1 DEF SessionInv, Upward
  <1>5. Downward'
    BY <1>1 DEF SessionInv, Downward
  <1>6. Control'
    BY <1>1 DEF Control
  <1>7. OneResponse' /\ OnePlace'
    BY <1>1 DEF OneResponse, OnePlace, Seated
  <1> QED
    BY <1>3, <1>4, <1>5, <1>6, <1>7 DEF SessionInv

LEMMA OnMessageKeeps ==
    ASSUME SessionInv, OnMessage
    PROVE  SessionInv'
  <1>1. CASE Refuse
    <2>1. /\ Take("login") /\ SendWithHeader(Response("no", First(buffer)))
          /\ server' = "loop" /\ UNCHANGED <<link, session, online, current>>
      BY <1>1 DEF Refuse, userVars
    <2>2. "no" \in Kinds \ {"push"}
      BY DEF Kinds
    <2> QED
      BY <2>1, <2>2, AnsweredKeeps
  <1>2. CASE Register
    <2>1. /\ Take("register") /\ SendWithHeader(Response("done", First(buffer)))
          /\ server' = "loop" /\ UNCHANGED <<link, session, online, current>>
      BY <1>2 DEF Register, userVars
    <2>2. "done" \in Kinds \ {"push"}
      BY DEF Kinds
    <2> QED
      BY <2>1, <2>2, AnsweredKeeps
  <1>3. CASE Loginout
    <2>1. /\ Take("loginout") /\ server' = "loop"
          /\ session' \subseteq session /\ online' \subseteq online
          /\ UNCHANGED <<link, current, replied, down>> /\ "loginout" \notin AskKinds
      BY <1>3 DEF Loginout, AskKinds
    <2> QED
      BY <2>1, UnansweredKeeps
  <1>4. CASE Malformed
    <2>1. /\ Take("broken") /\ server' = "idle" /\ link' = "half"
          /\ UNCHANGED <<session, online, current, replied, down>> /\ "broken" \notin AskKinds
      BY <1>4 DEF Malformed, AskKinds, userVars
    <2> QED
      BY <2>1, UnansweredKeeps
  <1>5. ASSUME NEW k \in Kinds, Silent(k)
        PROVE  SessionInv'
    <2>1. /\ Take(k) /\ server' = "loop" /\ UNCHANGED <<link, session, online, current, replied,
                                                        down>>
          /\ k \notin AskKinds
      BY <1>5 DEF Silent, AskKinds, userVars
    <2> QED
      BY <2>1, UnansweredKeeps
  <1>6. ASSUME NEW k \in Answers, LoginAck(k)
        PROVE  SessionInv'
    BY <1>6, LoginAckKeeps
  <1> QED
    BY <1>1, <1>2, <1>3, <1>4, <1>5, <1>6, IncompleteKeeps, IllegalKeeps, AcceptKeeps
       DEF OnMessage
-----------------------------------------------------------------------------
(* The theorems. *)

LEMMA InitHolds == Init => SessionInv
  <1> SUFFICES ASSUME Init PROVE SessionInv
    OBVIOUS
  <1>1. /\ client = "menu" /\ server = "idle" /\ link = "open"
        /\ session = {} /\ online = {} /\ current = {} /\ misread = FALSE
        /\ sent = <<>> /\ up = <<>> /\ buffer = <<>> /\ handled = <<>>
        /\ down = <<>> /\ recvBuf = <<>> /\ replied = <<>> /\ taken = <<>>
    BY DEF Init
  <1>2. /\ <<>> \in Seq(Frame) /\ <<>> \in Seq(Cell) /\ <<>> \in Seq([frame: Frame, for: Nat])
        /\ Len(<<>>) = 0
    OBVIOUS
  <1>3. TypeOK
    BY <1>1, <1>2 DEF TypeOK
  <1>4. Laid(<<>> \o <<>>, <<>>, 0)
    <2>1. <<>> \o <<>> = <<>>
      BY <1>2, ConcatEmptySeq
    <2> DEFINE b == [k \in 1..1 |-> 0]
    <2>2. LaidAt(<<>>, <<>>, 0, b)
      BY <1>2 DEF LaidAt
    <2> QED
      BY <1>2, <2>1, <2>2 DEF Laid
  <1>5. Upward
    <2>1. 1..0 = {}
      OBVIOUS
    <2> QED
      BY <1>1, <1>2, <1>4, <2>1 DEF Upward
  <1>6. Downward
    <2>1. 1..0 = {}
      OBVIOUS
    <2> QED
      BY <1>1, <1>2, <1>4, <2>1 DEF Downward
  <1>7. Control
    BY <1>1, <1>2, ConstantsAssumption DEF Control, Whole, BadLength, HasHeader
  <1>8. Untaken = {} /\ Len(handled) + 1..Len(sent) = {}
    BY <1>1, <1>2 DEF Untaken
  <1>9. OneResponse
    BY <1>8 DEF OneResponse
  <1>10. OnePlace
    BY <1>1, <1>8 DEF OnePlace, Seated
  <1> QED
    BY <1>3, <1>5, <1>6, <1>7, <1>9, <1>10 DEF SessionInv

LEMMA StutterKeeps ==
    ASSUME SessionInv, UNCHANGED vars
    PROVE  SessionInv'
  <1>1. UNCHANGED <<client, sent, recvBuf, taken, misread, up, buffer, server, link, session,
                    online, current, handled, replied, down>>
    BY DEF vars, clientVars, serverVars, userVars
  <1>2. TypeOK'
    BY <1>1 DEF SessionInv, TypeOK
  <1>3. Upward'
    BY <1>1, UpKept
  <1>4. Downward' /\ Untaken' = Untaken
    BY <1>1, DownKept
  <1>5. Control'
    BY <1>1 DEF SessionInv, Control
  <1>6. OneResponse'
    BY <1>1, <1>4 DEF SessionInv, OneResponse
  <1>7. OnePlace'
    BY <1>1, <1>4 DEF SessionInv, OnePlace, Seated
  <1> QED
    BY <1>2, <1>3, <1>4, <1>5, <1>6, <1>7 DEF SessionInv

LEMMA NextKeeps ==
    ASSUME SessionInv, [Next]_vars
    PROVE  SessionInv'
  <1>1. ASSUME NEW k \in Requests, Ask(k) \/ Command(k) \/ SendOdd(k)
        PROVE  SessionInv'
    BY <1>1, SendingKeeps
  <1>2. CASE RecvFrame
    BY <1>2, ReceiveKeeps, TakeFrameKeeps, TakeIllegalKeeps, TakeGarbageKeeps, TakeEndKeeps
       DEF RecvFrame
  <1>3. CASE UNCHANGED vars
    BY <1>3, StutterKeeps
  <1> QED
    BY <1>1, <1>2, <1>3, QuitKeeps, ReadableKeeps, OnMessageKeeps, PushChatKeeps,
       OnConnectionKeeps DEF Next

\* Both ways of the connection, the place of what the client waits for, and the types,
\* in every state of every behaviour.
THEOREM Invariance == Spec => []SessionInv
  <1>1. SessionInv /\ [Next]_vars => SessionInv'
    BY NextKeeps
  <1> QED
    BY InitHolds, <1>1, PTL DEF Spec

\* Every variable holds a value of its kind.
THEOREM TypeCorrect == Spec => []TypeOK
  <1>1. SessionInv => TypeOK
    BY DEF SessionInv
  <1> QED
    BY Invariance, <1>1, PTL

\* A sequence that agrees with another as far as it goes is a prefix of it.
LEMMA AgreesIsPrefix ==
    ASSUME NEW S, NEW s \in Seq(S), NEW t \in Seq(S), Len(s) =< Len(t),
           \A i \in 1..Len(s) : s[i] = t[i]
    PROVE  IsPrefix(s, t)
  <1>1. Len(s) \in Nat /\ Len(t) \in Nat
    BY LenProperties
  <1>2. SubSeq(s, 1, Len(s)) = SubSeq(t, 1, Len(s))
    BY <1>1
  <1> QED
    BY <1>2 DEF IsPrefix

\* The server handles the client's frames whole, once and in order, however the bytes
\* are cut, and leaves no complete frame waiting (ChatServer::onMessage).
THEOREM FramesHandledInOrder == Spec => []HandledInOrder
  <1>1. SessionInv => HandledInOrder
    <2> SUFFICES ASSUME SessionInv PROVE HandledInOrder
      OBVIOUS
    <2>1. handled \in Seq(Frame) /\ sent \in Seq(Frame)
      BY TypesOfState DEF SessionInv
    <2>2. Len(handled) =< Len(sent) /\ \A i \in 1..Len(handled) : handled[i] = sent[i]
      BY DEF SessionInv, Upward
    <2>3. IsPrefix(handled, sent)
      BY <2>1, <2>2, AgreesIsPrefix
    <2> QED
      BY <2>3 DEF SessionInv, Control, HandledInOrder
  <1> QED
    BY Invariance, <1>1, PTL

\* The client takes the server's frames whole, once and in order, until one over the
\* limit comes, and every response as that of what it asked (recvFrame).
THEOREM FramesReceivedInOrder == Spec => []ReceivedInOrder
  <1>1. SessionInv => ReceivedInOrder
    <2> SUFFICES ASSUME SessionInv, ~misread
                 PROVE  /\ IsPrefix([i \in DOMAIN taken |-> taken[i].frame], replied)
                        /\ \A i \in DOMAIN taken :
                              \/ taken[i].for \in {0, taken[i].frame.no}
                              \/ taken[i].frame.kind = "push" /\ client = "gone"
      BY DEF ReceivedInOrder
    <2>1. /\ replied \in Seq(Frame) /\ taken \in Seq([frame: Frame, for: Nat])
          /\ Len(taken) \in Nat
      BY TypesOfState DEF SessionInv
    <2> DEFINE s == [i \in DOMAIN taken |-> taken[i].frame]
    <2>2. DOMAIN taken = 1..Len(taken)
      <3> DEFINE T == [frame: Frame, for: Nat]
      <3>1. taken \in Seq(T)
        BY <2>1
      <3> HIDE DEF T
      <3> QED
        BY <3>1, LenProperties
    <2>3. \A i \in 1..Len(taken) : taken[i].frame \in Frame
      <3> DEFINE T == [frame: Frame, for: Nat]
      <3>1. taken \in Seq(T) /\ \A e \in T : e.frame \in Frame
        BY <2>1
      <3> HIDE DEF T
      <3>2. \A i \in 1..Len(taken) : taken[i] \in T
        BY <3>1, ElementOfSeq
      <3> QED
        BY <3>1, <3>2
    <2>4. s \in Seq(Frame) /\ Len(s) = Len(taken) /\ \A i \in 1..Len(taken) : s[i] = taken[i].frame
      BY <2>1, <2>2, <2>3, IsASeq
    <2>5. Len(taken) =< Len(replied) /\ \A i \in 1..Len(taken) : taken[i].frame = replied[i]
      BY DEF SessionInv, Downward
    <2> HIDE DEF s
    <2>6. IsPrefix(s, replied)
      BY <2>1, <2>4, <2>5, AgreesIsPrefix
    <2>7. \A i \in DOMAIN taken :
             \/ taken[i].for \in {0, taken[i].frame.no}
             \/ taken[i].frame.kind = "push" /\ client = "gone"
      BY <2>2 DEF SessionInv, Downward
    <2> QED
      BY <2>6, <2>7 DEF s
  <1> QED
    BY Invariance, <1>1, PTL

\* When all is quiet, a client whose user is online is in mainMenu, except behind a
\* response over the limit or on a connection that is shut down (ChatService::login).
THEOREM OnlineInMenu == Spec => []OnlineMeansLoggedIn
  <1>1. SessionInv => OnlineMeansLoggedIn
    <2> SUFFICES ASSUME SessionInv, Seated, server = "idle", down = <<>>, recvBuf = <<>>,
                        client \notin {"in", "gone"}, ~misread, link # "half"
                 PROVE  FALSE
      BY DEF OnlineMeansLoggedIn, Seated
    <2>1. link = "open"
      BY DEF SessionInv, Control, TypeOK
    <2>2. Untaken # {}
      BY <2>1 DEF SessionInv, OnePlace, Seated
    <2>3. <<>> \o <<>> = <<>> /\ <<>> \in Seq(Cell) /\ Len(<<>>) = 0
      BY ConcatEmptySeq
    <2>4. replied \in Seq(Frame) /\ Len(taken) \in Nat /\ Len(replied) \in Nat
      BY TypesOfState DEF SessionInv
    <2>5. Laid(<<>>, replied, Len(taken))
      BY <2>3 DEF SessionInv, Downward
    <2>6. Len(taken) = Len(replied)
      BY <2>3, <2>4, <2>5, NothingLaid
    <2>7. Len(taken) + 1..Len(replied) = {}
      BY <2>4, <2>6
    <2> QED
      BY <2>2, <2>7 DEF Untaken
  <1> QED
    BY Invariance, <1>1, PTL
=============================================================================
