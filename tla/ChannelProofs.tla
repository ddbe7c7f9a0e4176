---------------------------- MODULE ChannelProofs ----------------------------
(***************************************************************************)
(* What the operations of OrdererChannel make of a channel, for every     *)
(* bound on the numbers and every size of the de-duplication set.         *)
(*                                                                         *)
(* ChannelOK is the invariant of one channel; Settled is what a step of   *)
(* OrderedDisplay lets one conversation do.  Each operation of the class  *)
(* keeps the first and makes the second.  OrdererProofs lifts this to the *)
(* orderer of a client.                                                    *)
(***************************************************************************)
EXTENDS OrdererChannel, TLAPS, WellFoundedInduction, SequenceTheorems

Rising(s) == \A i, j \in 1..Len(s) : i < j => s[i] < s[j]
OnScreen(s) == {s[i] : i \in 1..Len(s)}

\* t is s with the members of S appended in increasing order.
ExtendedBy(s, S, t) ==
    /\ Len(s) =< Len(t)
    /\ \A i \in 1..Len(s) : t[i] = s[i]
    /\ Rising(t)
    /\ OnScreen(t) = OnScreen(s) \cup S

\* A screen: increasing, made of numbers of A below e.
ScreenOK(s, A, e) ==
    /\ s \in Seq(Seqs)
    /\ \A i, j \in 1..Len(s) : i < j => s[i] < s[j]
    /\ \A i \in 1..Len(s) : s[i] \in A /\ s[i] < e

\* The channel h after the messages A have been handed to it.
ChannelOK(h, A) ==
    /\ h \in Channel
    /\ A \in SUBSET Seqs
    /\ h.pending = {s \in A : s >= h.expect}
    /\ h.expect \notin h.pending
    /\ h.gap = "none" <=> h.pending = {}
    /\ \A s \in h.delivered : s < h.expect
    /\ ScreenOK(h.shown, A, h.expect)
    /\ h.known => h.expect > 0
    /\ ~h.known => A = {} /\ h = NewChannel

\* A channel whose expected number is buffered, about to be drained.
Drainable(h, A) ==
    /\ h \in Channel
    /\ A \in SUBSET Seqs
    /\ h.known
    /\ {s \in h.pending : s >= h.expect} = {s \in A : s >= h.expect}
    /\ h.expect \in h.pending
    /\ \A s \in h.delivered : s < h.expect
    /\ ScreenOK(h.shown, A, h.expect)

\* h has become g while the messages handed over grew from A to B.
Settled(h, A, g, B) ==
    LET held == h.pending \cup {s \in B \ A : s >= h.expect}
    IN  /\ A \subseteq B
        /\ g.expect >= h.expect
        /\ g.pending = {s \in held : s >= g.expect}
        /\ ExtendedBy(h.shown, {s \in held : s < g.expect}, g.shown)
-----------------------------------------------------------------------------
LEMMA SeqsAreNaturals == Seqs \subseteq Nat
BY ConstantsAssumption DEF Seqs

\* A non-empty set of natural numbers has a least member, and Least yields it.
LEMMA LeastOfNaturals ==
    ASSUME NEW S, S \subseteq Nat, S # {}
    PROVE  Least(S) \in S /\ \A y \in S : Least(S) =< y
<1>1. PICK x \in S : \A y \in S : ~(<<y, x>> \in OpToRel(<, Nat))
  BY NatLessThanWellFounded, WFMin, Zenon
<1>2. ASSUME NEW y \in S PROVE x =< y
  <2>1. <<y, x>> \notin {ss \in Nat \X Nat : ss[1] < ss[2]}
    BY <1>1 DEF OpToRel
  <2>. QED BY <2>1
<1>. QED
  BY <1>2 DEF Least

\* Among the numbers there is always a first one that is not buffered.
LEMMA FirstMissingExists ==
    ASSUME NEW e \in 0..(MaxSeq + 1), NEW P \in SUBSET Seqs
    PROVE  LET k == FirstMissing(e, P)
           IN  /\ k \in e..(MaxSeq + 1)
               /\ k \notin P
               /\ \A t \in e..(k - 1) : t \in P
<1>. DEFINE S == {k \in e..(MaxSeq + 1) : k \notin P}
            m == Least(S)
<1>0. MaxSeq \in Nat
  BY ConstantsAssumption
<1>1. S \subseteq Nat /\ MaxSeq + 1 \in S
  BY <1>0 DEF Seqs
<1>2. m \in S /\ \A y \in S : m =< y
  <2>. HIDE DEF S
  <2>. QED BY <1>1, LeastOfNaturals
<1>3. \A t \in e..(m - 1) : t \in P
  BY <1>0, <1>2
<1>4. \E k \in e..(MaxSeq + 1) : k \notin P /\ \A t \in e..(k - 1) : t \in P
  BY <1>2, <1>3
<1>. QED
  BY <1>4 DEF FirstMissing

\* The de-duplication set stays below the expected number however often it is
\* emptied.
LEMMA RememberBelow ==
    ASSUME NEW D \in SUBSET Seqs, NEW e \in Nat, NEW k \in Nat, e =< k,
           e..(k - 1) \subseteq Seqs, \A s \in D : s < e
    PROVE  /\ Remember(D, e, k) \in SUBSET Seqs
           /\ \A s \in Remember(D, e, k) : s < k
<1>. DEFINE size == Cardinality(D) + (k - e)
<1>1. CASE size =< DeliveredCap
  BY <1>1 DEF Remember, Seqs
<1>2. CASE ~(size =< DeliveredCap)
  BY <1>2 DEF Remember
<1>. QED
  BY <1>1, <1>2

\* Appending a run of numbers, none of which is below e, to a screen whose
\* numbers are all below e keeps it increasing and adds exactly the run.
LEMMA AppendRun ==
    ASSUME NEW A \in SUBSET Seqs, NEW e \in Nat, NEW k \in Nat, e =< k,
           NEW s, ScreenOK(s, A, e), e..(k - 1) \subseteq A
    PROVE  /\ ScreenOK(s \o Run(e, k), A, k)
           /\ ExtendedBy(s, e..(k - 1), s \o Run(e, k))
<1>. DEFINE r == Run(e, k)
            t == s \o r
<1>1. /\ r \in Seq(Seqs)
      /\ Len(r) = k - e
      /\ \A i \in 1..(k - e) : r[i] = e + i - 1
  BY DEF Run, Seqs
<1>2. s \in Seq(Seqs) /\ Len(s) \in Nat
  BY DEF ScreenOK
<1>. HIDE DEF r
<1>3. /\ t \in Seq(Seqs)
      /\ Len(t) \in Nat
      /\ Len(t) = Len(s) + (k - e)
      /\ \A i \in 1..Len(s) : t[i] = s[i]
      /\ \A i \in (Len(s) + 1)..Len(t) : t[i] = e + (i - Len(s)) - 1
  <2>1. /\ t \in Seq(Seqs)
        /\ Len(t) = Len(s) + (k - e)
        /\ \A i \in 1..Len(t) :
              t[i] = IF i =< Len(s) THEN s[i] ELSE r[i - Len(s)]
    <3>1. /\ t \in Seq(Seqs)
          /\ Len(t) = Len(s) + Len(r)
          /\ \A i \in 1..(Len(s) + Len(r)) :
                t[i] = IF i =< Len(s) THEN s[i] ELSE r[i - Len(s)]
      BY <1>1, <1>2, ConcatProperties, Zenon
    <3>. HIDE DEF t
    <3>. QED BY <1>1, <3>1
  <2>. QED BY <1>1, <1>2, <2>1
<1>. HIDE DEF t
<1>4. ASSUME NEW i \in 1..Len(t)
      PROVE  t[i] \in A /\ t[i] < k /\ t[i] \in Nat /\ (i > Len(s) => t[i] >= e)
  <2>1. CASE i =< Len(s)
    <3>1. i \in 1..Len(s)
      BY <2>1, <1>2, <1>3
    <3>2. t[i] \in A /\ t[i] < e
      BY <3>1, <1>3 DEF ScreenOK
    <3>3. t[i] \in Nat
      BY <3>2, SeqsAreNaturals
    <3>. QED BY <2>1, <3>2, <3>3, <1>2
  <2>2. CASE i > Len(s)
    <3>1. t[i] = e + (i - Len(s)) - 1 /\ t[i] \in e..(k - 1)
      BY <2>2, <1>2, <1>3
    <3>. QED BY <3>1, <2>2
  <2>. QED BY <2>1, <2>2, <1>2
<1>5. ASSUME NEW i \in 1..Len(t), NEW j \in 1..Len(t), i < j
      PROVE  t[i] < t[j]
  <2>1. CASE j =< Len(s)
    BY <2>1, <1>2, <1>3, <1>5 DEF ScreenOK
  <2>2. CASE i =< Len(s) /\ j > Len(s)
    <3>1. t[i] < e
      BY <2>2, <1>2, <1>3 DEF ScreenOK
    <3>2. t[i] \in Nat /\ t[j] \in Nat /\ t[j] >= e
      BY <1>4, <2>2
    <3>. QED BY <3>1, <3>2
  <2>3. CASE i > Len(s)
    BY <2>3, <1>2, <1>3, <1>5
  <2>. QED BY <2>1, <2>2, <2>3, <1>2, <1>5
<1>6. OnScreen(t) = OnScreen(s) \cup e..(k - 1)
  <2>1. ASSUME NEW x \in e..(k - 1)
        PROVE  \E i \in 1..Len(t) : t[i] = x
    <3>. DEFINE i == Len(s) + (x - e) + 1
    <3>1. i \in (Len(s) + 1)..Len(t) /\ i \in 1..Len(t)
      BY <1>2, <1>3
    <3>2. t[i] = e + (i - Len(s)) - 1
      BY <1>3, <3>1
    <3>. QED BY <1>2, <3>1, <3>2
  <2>2. e..(k - 1) \subseteq OnScreen(t)
    BY <2>1 DEF OnScreen
  <2>3. OnScreen(s) \subseteq OnScreen(t)
    <3>1. 1..Len(s) \subseteq 1..Len(t)
      BY <1>2, <1>3
    <3>. QED BY <1>3, <3>1 DEF OnScreen
  <2>4. OnScreen(t) \subseteq OnScreen(s) \cup e..(k - 1)
    <3>1. ASSUME NEW i \in 1..Len(t)
          PROVE  t[i] \in OnScreen(s) \cup e..(k - 1)
      <4>1. CASE i =< Len(s)
        BY <4>1, <1>2, <1>3 DEF OnScreen
      <4>2. CASE i > Len(s)
        BY <4>2, <1>2, <1>3
      <4>. QED BY <4>1, <4>2, <1>2
    <3>. QED BY <3>1 DEF OnScreen
  <2>. QED BY <2>2, <2>3, <2>4
<1>7. ScreenOK(t, A, k)
  BY <1>3, <1>4, <1>5 DEF ScreenOK
<1>8. ExtendedBy(s, e..(k - 1), t)
  BY <1>2, <1>3, <1>5, <1>6 DEF ExtendedBy, Rising
<1>. QED
  BY <1>7, <1>8 DEF t, r
-----------------------------------------------------------------------------
\* drainPending on a channel whose expected number is buffered: the channel is
\* in order again, and what it has passed is on the screen.
LEMMA DrainSettles ==
    ASSUME NEW h, NEW A, Drainable(h, A)
    PROVE  LET g    == DrainPending(h)
               live == {s \in h.pending : s >= h.expect}
           IN  /\ ChannelOK(g, A)
               /\ g.known
               /\ g.expect > h.expect
               /\ g.pending = {s \in live : s >= g.expect}
               /\ ExtendedBy(h.shown, {s \in live : s < g.expect}, g.shown)
               /\ h.expect..(g.expect - 1) \subseteq OnScreen(g.shown)
<1>. DEFINE live == {s \in h.pending : s >= h.expect}
            k    == FirstMissing(h.expect, live)
            rest == {s \in live : s > k}
            D    == Remember(h.delivered, h.expect, k)
            g    == DrainPending(h)
<1>1. /\ h \in Channel
      /\ h.expect \in 0..(MaxSeq + 1) /\ h.expect \in Nat
      /\ h.pending \in SUBSET Seqs /\ h.delivered \in SUBSET Seqs
      /\ h.gap \in Gaps /\ h.shown \in Seq(Seqs) /\ h.known
      /\ A \in SUBSET Seqs
      /\ live = {s \in A : s >= h.expect}
      /\ h.expect \in live
  BY ConstantsAssumption DEF Drainable, Channel
<1>2. /\ k \in h.expect..(MaxSeq + 1)
      /\ k \notin live
      /\ \A t \in h.expect..(k - 1) : t \in live
  <2>. live \in SUBSET Seqs
    BY <1>1
  <2>. HIDE DEF live
  <2>. QED BY <1>1, FirstMissingExists
<1>3. k \in Nat /\ k > h.expect /\ h.expect =< k /\ k \in 0..(MaxSeq + 1)
  <2>1. k # h.expect
    BY <1>1, <1>2
  <2>. HIDE DEF k
  <2>. QED BY <1>1, <1>2, <2>1
<1>4. h.expect..(k - 1) \subseteq A /\ h.expect..(k - 1) \subseteq Seqs
  BY <1>1, <1>2
<1>5. /\ D \in SUBSET Seqs
      /\ \A s \in D : s < k
  <2>1. \A s \in h.delivered : s < h.expect
    BY DEF Drainable
  <2>. HIDE DEF k
  <2>. QED BY <1>1, <1>3, <1>4, <2>1, RememberBelow
<1>6. /\ ScreenOK(h.shown \o Run(h.expect, k), A, k)
      /\ ExtendedBy(h.shown, h.expect..(k - 1), h.shown \o Run(h.expect, k))
  <2>1. ScreenOK(h.shown, A, h.expect)
    BY DEF Drainable
  <2>. HIDE DEF k
  <2>2. \A e \in Nat, n \in Nat : \A s :
           /\ e =< n /\ ScreenOK(s, A, e) /\ e..(n - 1) \subseteq A
           => /\ ScreenOK(s \o Run(e, n), A, n)
              /\ ExtendedBy(s, e..(n - 1), s \o Run(e, n))
    BY <1>1, AppendRun
  <2>. QED BY <1>1, <1>3, <1>4, <2>1, <2>2
<1>. HIDE DEF k
<1>7. h.expect..(k - 1) = {s \in live : s < k}
  <2>1. ASSUME NEW s \in live, s < k PROVE s \in h.expect..(k - 1)
    <3>1. s \in Nat /\ s >= h.expect
      BY <1>1, SeqsAreNaturals
    <3>. HIDE DEF live
    <3>. QED BY <1>1, <1>3, <2>1, <3>1
  <2>2. ASSUME NEW s \in h.expect..(k - 1) PROVE s \in live /\ s < k
    <3>1. s \in live
      BY <1>2
    <3>. HIDE DEF live
    <3>. QED BY <1>1, <1>3, <3>1
  <2>. HIDE DEF live
  <2>. QED BY <2>1, <2>2
<1>8. /\ rest = {s \in live : s >= k}
      /\ rest = {s \in A : s >= k}
      /\ rest \in SUBSET Seqs
      /\ k \notin rest
  <2>1. \A s \in live : s \in Seqs /\ s \in Nat /\ s # k
    BY <1>1, <1>2, SeqsAreNaturals
  <2>2. \A s \in A : s \in Nat /\ (s >= k => s \in live)
    BY <1>1, <1>3, SeqsAreNaturals
  <2>3. live \subseteq A
    BY <1>1
  <2>. HIDE DEF live
  <2>. QED BY <1>3, <2>1, <2>2, <2>3
<1>9. g = [h EXCEPT !.expect = k, !.pending = rest, !.delivered = D,
                    !.gap = IF rest # {} THEN "waiting" ELSE "none",
                    !.shown = h.shown \o Run(h.expect, k)]
  BY <1>3 DEF DrainPending, k
<1>. HIDE DEF k, rest, D, g, live
<1>10. /\ g.expect = k /\ g.pending = rest /\ g.delivered = D
       /\ g.gap = IF rest # {} THEN "waiting" ELSE "none"
       /\ g.shown = h.shown \o Run(h.expect, k)
       /\ g.known
  BY <1>1, <1>9 DEF Channel
<1>11. g \in Channel
  <2>1. h.shown \o Run(h.expect, k) \in Seq(Seqs)
    BY <1>6 DEF ScreenOK
  <2>. QED BY <1>1, <1>3, <1>5, <1>8, <1>9, <2>1 DEF Channel, Gaps
<1>12. ChannelOK(g, A)
  <2>1. g.expect > 0
    BY <1>1, <1>3, <1>10
  <2>. QED BY <1>1, <1>5, <1>6, <1>8, <1>10, <1>11, <2>1 DEF ChannelOK
<1>13. /\ g.expect > h.expect
       /\ g.pending = {s \in live : s >= g.expect}
       /\ ExtendedBy(h.shown, {s \in live : s < g.expect}, g.shown)
  BY <1>3, <1>6, <1>7, <1>8, <1>10
<1>14. h.expect..(g.expect - 1) \subseteq OnScreen(g.shown)
  <2>1. OnScreen(g.shown) = OnScreen(g.shown)
    OBVIOUS
  <2>2. ExtendedBy(h.shown, h.expect..(k - 1), g.shown)
    BY <1>6, <1>10
  <2>3. h.expect..(k - 1) \subseteq OnScreen(g.shown)
    BY <2>2 DEF ExtendedBy
  <2>. QED BY <1>10, <2>1, <2>3
<1>. QED
  BY <1>10, <1>12, <1>13, <1>14 DEF g, live

\* A screen that has not changed has been extended by nothing.
LEMMA UnchangedScreen ==
    ASSUME NEW s, NEW A, NEW e, ScreenOK(s, A, e)
    PROVE  ExtendedBy(s, {}, s)
BY DEF ScreenOK, ExtendedBy, Rising

\* Two extensions in a row are one.
LEMMA ExtendedTwice ==
    ASSUME NEW s \in Seq(Seqs), NEW t \in Seq(Seqs), NEW u \in Seq(Seqs), NEW S, NEW T,
           ExtendedBy(s, S, t), ExtendedBy(t, T, u)
    PROVE  ExtendedBy(s, S \cup T, u)
<1>1. Len(s) =< Len(u) /\ \A i \in 1..Len(s) : u[i] = s[i]
  <2>1. 1..Len(s) \subseteq 1..Len(t)
    BY DEF ExtendedBy
  <2>. QED BY <2>1 DEF ExtendedBy
<1>2. Rising(u) /\ OnScreen(u) = OnScreen(s) \cup (S \cup T)
  BY DEF ExtendedBy
<1>. QED
  BY <1>1, <1>2 DEF ExtendedBy

\* The types of a channel's parts.
LEMMA ChannelFields ==
    ASSUME NEW h, NEW A, ChannelOK(h, A)
    PROVE  /\ h.expect \in Nat /\ h.expect \in 0..(MaxSeq + 1)
           /\ h.known \in BOOLEAN /\ h.gap \in Gaps
           /\ h.pending \in SUBSET Seqs /\ h.pending \subseteq Nat
           /\ h.delivered \in SUBSET Seqs /\ h.delivered \subseteq Nat
           /\ h.shown \in Seq(Seqs)
           /\ A \in SUBSET Seqs /\ A \subseteq Nat
<1>1. h \in Channel /\ A \in SUBSET Seqs
  BY DEF ChannelOK
<1>2. /\ h.expect \in 0..(MaxSeq + 1) /\ h.known \in BOOLEAN /\ h.gap \in Gaps
      /\ h.pending \in SUBSET Seqs /\ h.delivered \in SUBSET Seqs
      /\ h.shown \in Seq(Seqs)
  BY <1>1 DEF Channel
<1>3. h.expect \in Nat
  BY <1>2, ConstantsAssumption
<1>. QED
  BY <1>1, <1>2, <1>3, SeqsAreNaturals, Zenon

\* Messages that arrive below the expected number change nothing.
LEMMA StaleSettles ==
    ASSUME NEW h, NEW A, ChannelOK(h, A), NEW B, A \subseteq B, B \subseteq Seqs,
           h.known, \A s \in B \ A : ~(s >= h.expect)
    PROVE  ChannelOK(h, B) /\ Settled(h, A, h, B)
<1>1. h.pending = {s \in B : s >= h.expect}
  BY DEF ChannelOK
<1>2. ScreenOK(h.shown, B, h.expect)
  BY DEF ChannelOK, ScreenOK
<1>3. h.expect \in Nat /\ h.pending \subseteq Nat
  BY ChannelFields
<1>4. ChannelOK(h, B)
  BY <1>1, <1>2 DEF ChannelOK
<1>5. h.pending \cup {s \in B \ A : s >= h.expect} = h.pending
  OBVIOUS
<1>6. /\ h.pending = {s \in h.pending : s >= h.expect}
      /\ {} = {s \in h.pending : s < h.expect}
  <2>1. \A s \in h.pending : s \in Nat /\ s >= h.expect
    BY <1>1, <1>3
  <2>. QED BY <1>3, <2>1
<1>7. ExtendedBy(h.shown, {}, h.shown)
  BY <1>2, UnchangedScreen
<1>. QED
  BY <1>3, <1>4, <1>5, <1>6, <1>7, SMTT(30) DEF Settled

\* Giving up a hole: the buffered messages behind it are shown, none is lost.
LEMMA ReleaseSettles ==
    ASSUME NEW h, NEW A, ChannelOK(h, A)
    PROVE  ChannelOK(Release(h), A) /\ Settled(h, A, Release(h), A)
<1>. DEFINE l == Least(h.pending)
            j == [h EXCEPT !.expect = l]
            g == DrainPending(j)
<1>1. CASE h.pending = {}
  <2>1. Release(h) = h
    BY <1>1 DEF Release
  <2>2. A \in SUBSET Seqs /\ h.expect \in Nat /\ ScreenOK(h.shown, A, h.expect)
    BY ChannelFields DEF ChannelOK
  <2>3. ExtendedBy(h.shown, {}, h.shown)
    BY <2>2, UnchangedScreen
  <2>4. Settled(h, A, h, A)
    BY <1>1, <2>2, <2>3 DEF Settled
  <2>. QED BY <2>1, <2>4
<1>2. CASE h.pending # {}
  <2>1. /\ h \in Channel /\ A \in SUBSET Seqs
        /\ h.expect \in Nat /\ h.expect \in 0..(MaxSeq + 1)
        /\ h.pending \in SUBSET Seqs /\ h.pending \subseteq Nat
        /\ h.shown \in Seq(Seqs) /\ h.delivered \in SUBSET Seqs
        /\ h.pending = {s \in A : s >= h.expect}
        /\ h.expect \notin h.pending
        /\ \A s \in h.delivered : s < h.expect
        /\ ScreenOK(h.shown, A, h.expect)
    <3>1. /\ h \in Channel
          /\ h.pending = {s \in A : s >= h.expect}
          /\ h.expect \notin h.pending
          /\ \A s \in h.delivered : s < h.expect
          /\ ScreenOK(h.shown, A, h.expect)
      BY DEF ChannelOK
    <3>. QED BY <3>1, ChannelFields
  <2>2. h.known
    BY <1>2 DEF ChannelOK, NewChannel
  <2>3. l \in h.pending /\ \A y \in h.pending : l =< y
    BY <1>2, <2>1, LeastOfNaturals
  <2>. HIDE DEF l
  <2>4. l \in Nat /\ l > h.expect /\ l \in 0..(MaxSeq + 1)
    <3>1. l \in Nat /\ l \in 1..MaxSeq
      BY <2>1, <2>3 DEF Seqs
    <3>. QED BY <2>1, <2>3, <3>1, ConstantsAssumption
  <2>5. /\ j \in Channel /\ j.known /\ j.expect = l
        /\ j.pending = h.pending /\ j.shown = h.shown /\ j.delivered = h.delivered
    BY <2>1, <2>2, <2>4 DEF Channel
  <2>. HIDE DEF j
  <2>6. /\ {s \in j.pending : s >= j.expect} = h.pending
        /\ {s \in A : s >= l} = h.pending
    <3>1. \A s \in A : s \in Nat
      BY <2>1, SeqsAreNaturals
    <3>. QED BY <2>1, <2>3, <2>4, <2>5, <3>1
  <2>7. ScreenOK(j.shown, A, l)
    <3>1. \A i \in 1..Len(h.shown) : h.shown[i] < l
      <4>1. \A i \in 1..Len(h.shown) : h.shown[i] \in Nat /\ h.shown[i] < h.expect
        BY <2>1, SeqsAreNaturals DEF ScreenOK
      <4>. QED BY <2>1, <2>4, <4>1
    <3>. QED BY <2>1, <2>5, <3>1 DEF ScreenOK
  <2>8. \A s \in j.delivered : s < l
    <3>1. \A s \in j.delivered : s \in Nat /\ s < h.expect
      BY <2>1, <2>5, SeqsAreNaturals
    <3>. QED BY <2>1, <2>4, <3>1
  <2>9. Drainable(j, A)
    BY <2>1, <2>3, <2>5, <2>6, <2>7, <2>8 DEF Drainable
  <2>10. /\ ChannelOK(g, A)
         /\ g.expect > l
         /\ g.pending = {s \in h.pending : s >= g.expect}
         /\ ExtendedBy(h.shown, {s \in h.pending : s < g.expect}, g.shown)
    BY <2>5, <2>6, <2>9, DrainSettles
  <2>11. Release(h) = g
    BY <1>2 DEF Release, j, l
  <2>. HIDE DEF g
  <2>12. g.expect >= h.expect
    <3>1. g.expect \in Nat
      BY <2>10, ChannelFields
    <3>. QED BY <2>1, <2>4, <2>10, <3>1
  <2>13. h.pending \cup {s \in A \ A : s >= h.expect} = h.pending
    OBVIOUS
  <2>14. Settled(h, A, g, A)
    BY <2>10, <2>12, <2>13 DEF Settled
  <2>. QED BY <2>10, <2>11, <2>14
<1>. QED
  BY <1>1, <1>2
\* A message dispatched to a channel: shown with what it makes contiguous,
\* buffered behind a hole, or dropped because its number is settled.  No number
\* is passed over.
LEMMA OnMessageSettles ==
    ASSUME NEW h, NEW A, ChannelOK(h, A), NEW s \in Seqs
    PROVE  /\ ChannelOK(OnMessage(h, s), A \cup {s})
           /\ Settled(h, A, OnMessage(h, s), A \cup {s})
           /\ h.known => h.expect..(OnMessage(h, s).expect - 1)
                            \subseteq OnScreen(OnMessage(h, s).shown)
<1>. DEFINE B == A \cup {s}
            k == Known(h, s)
<1>0. /\ s \in Nat /\ s \in 0..(MaxSeq + 1)
      /\ h \in Channel
      /\ B \in SUBSET Seqs /\ B \subseteq Nat
      /\ h.expect \in Nat /\ h.pending \subseteq Nat /\ h.pending \subseteq Seqs
      /\ h.pending = {t \in A : t >= h.expect}
  <2>1. s \in Nat /\ s \in 0..(MaxSeq + 1)
    BY SeqsAreNaturals, ConstantsAssumption DEF Seqs
  <2>2. h \in Channel /\ h.pending = {t \in A : t >= h.expect}
    BY DEF ChannelOK
  <2>. QED BY <2>1, <2>2, ChannelFields, SeqsAreNaturals
\* the channel as Known leaves it
<1>1. /\ k \in Channel /\ k.known /\ k.expect \in Nat
      /\ k.pending = h.pending /\ k.shown = h.shown
      /\ k.delivered = h.delivered /\ k.gap = h.gap
      /\ k.expect >= h.expect
      /\ h.known => k = h
      /\ ~h.known => A = {} /\ h.expect = 0 /\ h.pending = {} /\ h.shown = <<>>
                     /\ h.delivered = {} /\ h.gap = "none" /\ k.expect = s
  <2>1. CASE h.known
    BY <2>1, <1>0 DEF Known
  <2>2. CASE ~h.known
    <3>1. A = {} /\ h = NewChannel
      BY <2>2 DEF ChannelOK
    <3>2. k = [h EXCEPT !.known = TRUE, !.expect = s]
      BY <2>2 DEF Known
    <3>3. /\ h.expect = 0 /\ h.pending = {} /\ h.shown = <<>>
          /\ h.delivered = {} /\ h.gap = "none"
      BY <3>1 DEF NewChannel
    <3>4. /\ k \in Channel /\ k.known /\ k.expect = s
          /\ k.pending = h.pending /\ k.shown = h.shown
          /\ k.delivered = h.delivered /\ k.gap = h.gap
      BY <1>0, <3>2 DEF Channel
    <3>. HIDE DEF k
    <3>. QED BY <2>2, <1>0, <3>1, <3>3, <3>4
  <2>. QED BY <2>1, <2>2
<1>2. CASE s < k.expect \/ s \in k.delivered
  <2>1. OnMessage(h, s) = k
    BY <1>2 DEF OnMessage
  <2>2. h.known
    BY <1>0, <1>1, <1>2
  <2>3. k = h
    BY <1>1, <2>2
  <2>. HIDE DEF k
  <2>4. s < h.expect
    BY <1>2, <2>3 DEF ChannelOK
  <2>5. \A t \in B \ A : ~(t >= h.expect)
    BY <1>0, <2>4
  <2>6. A \subseteq B /\ B \subseteq Seqs
    BY <1>0
  <2>7. ChannelOK(h, B) /\ Settled(h, A, h, B)
    BY <2>2, <2>5, <2>6, StaleSettles, Zenon
  <2>8. h.expect..(h.expect - 1) = {}
    BY <1>0
  <2>. QED BY <2>1, <2>3, <2>7, <2>8
<1>3. CASE ~(s < k.expect \/ s \in k.delivered) /\ s = k.expect
  <2>. DEFINE j == [k EXCEPT !.pending = @ \cup {k.expect}]
              g == DrainPending(j)
  <2>1. OnMessage(h, s) = g
    BY <1>3 DEF OnMessage, DeliverAndDrain
  <2>. HIDE DEF k
  <2>2. /\ j \in Channel /\ j.known /\ j.expect = s
        /\ j.pending = h.pending \cup {s} /\ j.shown = h.shown
        /\ j.delivered = h.delivered
    BY <1>0, <1>1, <1>3 DEF Channel
  <2>. HIDE DEF j
  <2>3. /\ {t \in j.pending : t >= s} = {t \in B : t >= s}
        /\ {t \in j.pending : t >= s} = h.pending \cup {s}
    <3>1. CASE h.known
      <4>1. s = h.expect
        BY <3>1, <1>1, <1>3
      <4>2. \A t \in A : t \in Nat
        BY <1>0
      <4>. QED BY <4>1, <4>2, <1>0, <2>2
    <3>2. CASE ~h.known
      BY <3>2, <1>0, <1>1, <2>2
    <3>. QED BY <3>1, <3>2
  <2>4. \A t \in j.delivered : t < s
    <3>1. CASE h.known
      BY <3>1, <1>1, <1>3, <2>2 DEF ChannelOK
    <3>2. CASE ~h.known
      BY <3>2, <1>1, <2>2
    <3>. QED BY <3>1, <3>2
  <2>5. ScreenOK(j.shown, B, s)
    <3>1. CASE h.known
      <4>1. ScreenOK(h.shown, A, s)
        BY <3>1, <1>1, <1>3 DEF ChannelOK
      <4>. QED BY <4>1, <2>2 DEF ScreenOK
    <3>2. CASE ~h.known
      <4>1. j.shown = <<>>
        BY <3>2, <1>1, <2>2
      <4>2. <<>> \in Seq(Seqs) /\ Len(<<>>) = 0
        OBVIOUS
      <4>. QED BY <4>1, <4>2 DEF ScreenOK
    <3>. QED BY <3>1, <3>2
  <2>6. Drainable(j, B)
    BY <1>0, <2>2, <2>3, <2>4, <2>5 DEF Drainable
  <2>7. /\ ChannelOK(g, B)
        /\ g.expect > s
        /\ g.pending = {t \in h.pending \cup {s} : t >= g.expect}
        /\ ExtendedBy(h.shown, {t \in h.pending \cup {s} : t < g.expect}, g.shown)
        /\ s..(g.expect - 1) \subseteq OnScreen(g.shown)
    BY <2>2, <2>3, <2>6, DrainSettles, ZenonT(30)
  <2>. HIDE DEF g
  <2>8. h.pending \cup {t \in B \ A : t >= h.expect} = h.pending \cup {s}
    <3>1. s >= h.expect
      BY <1>1, <1>3
    <3>2. s \notin A => s \in B \ A
      OBVIOUS
    <3>3. s \in A => s \in h.pending
      BY <1>0, <3>1
    <3>. QED BY <3>1, <3>2, <3>3
  <2>9. A \subseteq B /\ g.expect >= h.expect
    <3>1. g.expect \in Nat
      BY <2>7, ChannelFields
    <3>. QED BY <3>1, <1>0, <1>1, <1>3, <2>7
  <2>10. Settled(h, A, g, B)
    BY <2>7, <2>8, <2>9 DEF Settled
  <2>11. h.known => h.expect = s
    BY <1>1, <1>3
  <2>. QED BY <2>1, <2>7, <2>10, <2>11
<1>4. CASE ~(s < k.expect \/ s \in k.delivered) /\ s # k.expect
  <2>1. h.known /\ k = h
    BY <1>1, <1>4
  <2>2. OnMessage(h, s) = Buffer(h, s)
    BY <1>4, <2>1 DEF OnMessage
  <2>. DEFINE g == Buffer(h, s)
  <2>3. s > h.expect
    BY <1>0, <1>4, <2>1
  <2>4. /\ g \in Channel /\ g.known /\ g.expect = h.expect
        /\ g.pending = h.pending \cup {s} /\ g.shown = h.shown
        /\ g.delivered = h.delivered /\ g.gap # "none"
    BY <1>0, <2>1 DEF Buffer, Channel, Gaps
  <2>. HIDE DEF g
  <2>5. /\ g.pending = {t \in B : t >= g.expect}
        /\ g.expect \notin g.pending
    BY <1>0, <2>3, <2>4 DEF ChannelOK
  <2>6. ScreenOK(g.shown, B, g.expect)
    BY <2>4 DEF ChannelOK, ScreenOK
  <2>7. ChannelOK(g, B)
    <3>1. g.expect > 0
      BY <2>1, <2>4 DEF ChannelOK
    <3>. QED BY <1>0, <2>4, <2>5, <2>6, <3>1 DEF ChannelOK
  <2>8. h.pending \cup {t \in B \ A : t >= h.expect} = g.pending
    BY <1>0, <2>3, <2>4
  <2>9. /\ g.pending = {t \in g.pending : t >= g.expect}
        /\ {} = {t \in g.pending : t < g.expect}
    <3>1. \A t \in g.pending : t \in Nat /\ t >= h.expect
      BY <1>0, <2>4, <2>5
    <3>. QED BY <3>1, <2>4, <1>0
  <2>10. ExtendedBy(h.shown, {}, g.shown)
    BY <2>4, <2>6, UnchangedScreen
  <2>11. A \subseteq B /\ g.expect >= h.expect
    BY <1>0, <2>4
  <2>12. Settled(h, A, g, B)
    BY <2>8, <2>9, <2>10, <2>11 DEF Settled
  <2>13. h.expect..(g.expect - 1) = {}
    BY <1>0, <2>4
  <2>. QED BY <2>2, <2>7, <2>12, <2>13 DEF g
<1>. QED
  BY <1>2, <1>3, <1>4

\* The offline batch on a fresh channel: shown up to the first hole, then once
\* more from the first number behind it.
LEMMA OfflineBatchSettles ==
    ASSUME NEW B \in SUBSET Seqs
    PROVE  /\ ChannelOK(OnOfflineBatch(NewChannel, B), B)
           /\ Settled(NewChannel, {}, OnOfflineBatch(NewChannel, B), B)
<1>. DEFINE h == NewChannel
<1>0. /\ ChannelOK(h, {})
      /\ h.expect = 0 /\ h.pending = {} /\ h.shown = <<>> /\ ~h.known
      /\ h \in Channel
      /\ <<>> \in Seq(Seqs) /\ Len(<<>>) = 0
  <2>1. /\ h.expect = 0 /\ h.pending = {} /\ h.shown = <<>> /\ ~h.known
        /\ h.delivered = {} /\ h.gap = "none"
    BY DEF NewChannel
  <2>2. <<>> \in Seq(Seqs) /\ Len(<<>>) = 0
    OBVIOUS
  <2>3. h \in Channel
    BY <2>2, ConstantsAssumption DEF NewChannel, Channel, Gaps
  <2>4. ScreenOK(<<>>, {}, 0)
    BY <2>2 DEF ScreenOK
  <2>. QED BY <2>1, <2>2, <2>3, <2>4 DEF ChannelOK
<1>1. CASE B = {}
  <2>1. OnOfflineBatch(h, B) = h
    BY <1>1 DEF OnOfflineBatch
  <2>2. Settled(h, {}, h, {})
    <3>1. ExtendedBy(<<>>, {}, <<>>)
      BY <1>0 DEF ExtendedBy, Rising
    <3>. QED BY <1>0, <3>1 DEF Settled
  <2>. QED BY <1>0, <1>1, <2>1, <2>2
<1>2. CASE B # {}
  <2>. DEFINE l == Least(B)
              j == [Known(h, l) EXCEPT !.pending = B]
              g == DrainPending(j)
              r == Release(g)
  <2>1. l \in B /\ (\A y \in B : l =< y) /\ l \in Nat /\ l \in 0..(MaxSeq + 1)
    <3>1. l \in B /\ (\A y \in B : l =< y)
      BY <1>2, SeqsAreNaturals, LeastOfNaturals
    <3>2. \A x \in Seqs : x \in Nat /\ x \in 0..(MaxSeq + 1)
      BY SeqsAreNaturals, ConstantsAssumption DEF Seqs
    <3>. HIDE DEF l
    <3>. QED BY <3>1, <3>2
  <2>2. OnOfflineBatch(h, B) = r
    BY <1>2 DEF OnOfflineBatch
  <2>. HIDE DEF l
  <2>3. /\ j \in Channel /\ j.known /\ j.expect = l /\ j.pending = B
        /\ j.shown = <<>> /\ j.delivered = {}
    <3>1. Known(h, l) = [NewChannel EXCEPT !.known = TRUE, !.expect = l]
      BY <1>0 DEF Known
    <3>2. j = [NewChannel EXCEPT !.known = TRUE, !.expect = l, !.pending = B]
      BY <3>1 DEF NewChannel
    <3>3. j \in Channel
      BY <1>0, <2>1, <3>2 DEF Channel
    <3>. QED BY <3>2, <3>3 DEF NewChannel
  <2>. HIDE DEF j
  <2>4. B = {s \in B : s >= l}
    BY <2>1, SeqsAreNaturals
  <2>5. ScreenOK(j.shown, B, l)
    BY <1>0, <2>3 DEF ScreenOK
  <2>6. Drainable(j, B)
    BY <2>1, <2>3, <2>4, <2>5 DEF Drainable
  <2>7. /\ ChannelOK(g, B)
        /\ g.expect > l
        /\ g.pending = {s \in B : s >= g.expect}
        /\ ExtendedBy(<<>>, {s \in B : s < g.expect}, g.shown)
    BY <2>3, <2>4, <2>6, DrainSettles
  <2>. HIDE DEF g
  <2>8. ChannelOK(r, B) /\ Settled(g, B, r, B)
    BY <2>7, ReleaseSettles
  <2>. HIDE DEF r
  <2>9. /\ g.pending = g.pending \cup {s \in B \ B : s >= g.expect}
        /\ r.expect >= g.expect /\ r.expect \in Nat /\ g.expect \in Nat
        /\ r.pending = {s \in g.pending : s >= r.expect}
        /\ ExtendedBy(g.shown, {s \in g.pending : s < r.expect}, r.shown)
        /\ g.shown \in Seq(Seqs) /\ r.shown \in Seq(Seqs)
    <3>1. g.pending = g.pending \cup {s \in B \ B : s >= g.expect}
      OBVIOUS
    <3>2. /\ r.expect \in Nat /\ g.expect \in Nat
          /\ g.shown \in Seq(Seqs) /\ r.shown \in Seq(Seqs)
      BY <2>7, <2>8, ChannelFields
    <3>. QED BY <2>8, <3>1, <3>2 DEF Settled
  <2>10. \A s \in B : s \in Nat
    BY SeqsAreNaturals
  <2>11. /\ {s \in B : s < g.expect} \cup {s \in g.pending : s < r.expect}
              = {s \in B : s < r.expect}
         /\ r.pending = {s \in B : s >= r.expect}
    BY <2>7, <2>9, <2>10
  <2>12. ExtendedBy(<<>>, {s \in B : s < r.expect}, r.shown)
    <3>. DEFINE S == {s \in B : s < g.expect}
                T == {s \in g.pending : s < r.expect}
    <3>1. ExtendedBy(<<>>, S, g.shown) /\ ExtendedBy(g.shown, T, r.shown)
      BY <2>7, <2>9
    <3>2. <<>> \in Seq(Seqs) /\ g.shown \in Seq(Seqs) /\ r.shown \in Seq(Seqs)
      BY <2>9
    <3>3. S \cup T = {s \in B : s < r.expect}
      BY <2>11
    <3>. HIDE DEF S, T
    <3>4. ExtendedBy(<<>>, S \cup T, r.shown)
      BY <3>1, <3>2, ExtendedTwice
    <3>. QED BY <3>3, <3>4
  <2>13. h.pending \cup {s \in B \ {} : s >= h.expect} = B
    BY <1>0, <2>10
  <2>14. Settled(h, {}, r, B)
    <3>. HIDE DEF h
    <3>1. r.expect >= h.expect
      BY <1>0, <2>9
    <3>. QED BY <1>0, <2>11, <2>12, <2>13, <3>1 DEF Settled
  <2>. QED BY <2>2, <2>8, <2>14
<1>. QED
  BY <1>1, <1>2
=============================================================================
