---------------------------- MODULE OrdererProofs ----------------------------
(***************************************************************************)
(* Proofs about ConversationOrderer for every set of conversations, every *)
(* bound on the numbers and every size of the de-duplication set.  What   *)
(* each operation does to one channel is in ChannelProofs; here it is     *)
(* lifted to all channels of a client, and to OrderedDisplay.             *)
(*                                                                         *)
(* The second half shows that the loops as they are written, OrdererLoops, *)
(* do what the closed forms say.  `Drained` is where the loop of          *)
(* drainPending ends, and `Fed` where the first loop of onOfflineBatch    *)
(* ends; a round of either changes nothing about it.                      *)
(***************************************************************************)
EXTENDS OrdererLoops, ChannelProofs, FiniteSetTheorems

\* OrderedDisplay says of a screen what ChannelProofs says.
LEMMA SameExtension ==
    ASSUME NEW s, NEW S, NEW t
    PROVE  ExtendedBy(s, S, t) => OD!ExtendedBy(s, S, t)
BY DEF ExtendedBy, Rising, OnScreen, OD!ExtendedBy, OD!Increasing, OD!Numbers

LEMMA SameNumbers ==
    ASSUME NEW s
    PROVE  OnScreen(s) = Numbers(s)
BY DEF OnScreen, Numbers
-----------------------------------------------------------------------------
\* The inductive invariant: every channel agrees with what was handed to it,
\* and nothing is handed over before the login.
Inv ==
    /\ TypeOK
    /\ \A c \in Convs : ChannelOK(ch[c], arrived[c])
    /\ reader = "login" => \A c \in Convs : ch[c] = NewChannel /\ arrived[c] = {}

LEMMA InitInv == Init => Inv
<1>. SUFFICES ASSUME Init PROVE Inv
  OBVIOUS
<1>1. NewChannel \in Channel /\ ChannelOK(NewChannel, {})
  <2>1. OnOfflineBatch(NewChannel, {}) = NewChannel
    BY DEF OnOfflineBatch
  <2>2. ChannelOK(NewChannel, {})
    BY <2>1, OfflineBatchSettles
  <2>. QED BY <2>2 DEF ChannelOK
<1>2. TypeOK
  BY <1>1 DEF Init, TypeOK, Frames, Other
<1>3. \A c \in Convs : ChannelOK(ch[c], arrived[c])
  BY <1>1 DEF Init
<1>. QED
  BY <1>2, <1>3 DEF Init, Inv

\* What every step does to every channel.
LEMMA StepSettles ==
    ASSUME Inv, [Next]_vars
    PROVE  /\ ch' \in [Convs -> Channel]
           /\ arrived' \in [Convs -> SUBSET Seqs]
           /\ \A c \in Convs : /\ ChannelOK(ch'[c], arrived'[c])
                               /\ Settled(ch[c], arrived[c], ch'[c], arrived'[c])
<1>0. /\ ch \in [Convs -> Channel] /\ arrived \in [Convs -> SUBSET Seqs]
      /\ \A c \in Convs : ChannelOK(ch[c], arrived[c])
  BY DEF Inv, TypeOK
<1>. SUFFICES /\ ch' = [c \in Convs |-> ch'[c]]
              /\ arrived' = [c \in Convs |-> arrived'[c]]
              /\ \A c \in Convs :
                    /\ ChannelOK(ch'[c], arrived'[c])
                    /\ Settled(ch[c], arrived[c], ch'[c], arrived'[c])
  <2>1. \A h, A : ChannelOK(h, A) => h \in Channel /\ A \in SUBSET Seqs
    BY DEF ChannelOK
  <2>. QED BY <2>1
\* a channel that a step leaves alone, or whose timer it moves
<1>1. ASSUME NEW c \in Convs PROVE Settled(ch[c], arrived[c], ch[c], arrived[c])
  <2>. DEFINE h == ch[c]
              A == arrived[c]
  <2>1. h.pending \cup {s \in A \ A : s >= h.expect} = h.pending
    OBVIOUS
  <2>2. ChannelOK(h, A)
    BY <1>0
  <2>. HIDE DEF h, A
  <2>3. h.expect \in Nat /\ h.pending \subseteq Nat
    BY <2>2, ChannelFields
  <2>4. \A s \in h.pending : s >= h.expect
    BY <2>2 DEF ChannelOK
  <2>5. /\ h.pending = {s \in h.pending : s >= h.expect}
        /\ {} = {s \in h.pending : s < h.expect}
    BY <2>3, <2>4
  <2>6. ExtendedBy(h.shown, {}, h.shown)
    BY <2>2, UnchangedScreen DEF ChannelOK
  <2>7. Settled(h, A, h, A)
    BY <2>1, <2>3, <2>5, <2>6 DEF Settled
  <2>. QED BY <2>7 DEF h, A
<1>2. CASE UNCHANGED <<ch, arrived>>
  BY <1>0, <1>1, <1>2
<1>3. ASSUME NEW B \in [Convs -> SUBSET Seqs], LoginBatch(B)
      PROVE  /\ ch' = [c \in Convs |-> ch'[c]]
             /\ arrived' = [c \in Convs |-> arrived'[c]]
             /\ \A c \in Convs :
                   /\ ChannelOK(ch'[c], arrived'[c])
                   /\ Settled(ch[c], arrived[c], ch'[c], arrived'[c])
  <2>1. \A c \in Convs : /\ ch[c] = NewChannel /\ arrived[c] = {}
                        /\ ch'[c] = OnOfflineBatch(NewChannel, B[c])
                        /\ arrived'[c] = B[c] /\ B[c] \in SUBSET Seqs
    BY <1>3 DEF LoginBatch, Inv
  <2>. QED BY <1>3, <2>1, OfflineBatchSettles DEF LoginBatch
<1>4. CASE TickAll
  <2>1. ASSUME NEW c \in Convs
        PROVE  /\ ChannelOK(ch'[c], arrived'[c])
               /\ Settled(ch[c], arrived[c], ch'[c], arrived'[c])
    <3>1. ch'[c] = Tick(ch[c]) /\ arrived'[c] = arrived[c]
      BY <1>4 DEF TickAll
    <3>. QED BY <1>0, <1>1, <3>1, ReleaseSettles DEF Tick
  <2>. QED BY <1>0, <1>4, <2>1 DEF TickAll
<1>5. ASSUME NEW d \in Convs, NEW s \in Seqs, DispatchChat(d, s)
      PROVE  /\ ch' = [c \in Convs |-> ch'[c]]
             /\ arrived' = [c \in Convs |-> arrived'[c]]
             /\ \A c \in Convs :
                   /\ ChannelOK(ch'[c], arrived'[c])
                   /\ Settled(ch[c], arrived[c], ch'[c], arrived'[c])
  <2>1. /\ ch' = [ch EXCEPT ![d] = OnMessage(ch[d], s)]
        /\ arrived' = [arrived EXCEPT ![d] = arrived[d] \cup {s}]
    BY <1>5 DEF DispatchChat
  <2>2. ASSUME NEW c \in Convs
        PROVE  /\ ChannelOK(ch'[c], arrived'[c])
               /\ Settled(ch[c], arrived[c], ch'[c], arrived'[c])
    <3>1. CASE c = d
      <4>1. ch'[c] = OnMessage(ch[c], s) /\ arrived'[c] = arrived[c] \cup {s}
        BY <1>0, <2>1, <3>1
      <4>. QED BY <1>0, <4>1, OnMessageSettles
    <3>2. CASE c # d
      BY <1>0, <1>1, <2>1, <3>2
    <3>. QED BY <3>1, <3>2
  <2>. QED BY <1>0, <2>1, <2>2
<1>6. ASSUME NEW d \in Convs, GapExpires(d)
      PROVE  /\ ch' = [c \in Convs |-> ch'[c]]
             /\ arrived' = [c \in Convs |-> arrived'[c]]
             /\ \A c \in Convs :
                   /\ ChannelOK(ch'[c], arrived'[c])
                   /\ Settled(ch[c], arrived[c], ch'[c], arrived'[c])
  <2>1. /\ ch[d].gap = "waiting"
        /\ ch' = [ch EXCEPT ![d] = [ch[d] EXCEPT !.gap = "expired"]]
        /\ arrived' = arrived
    BY <1>6 DEF GapExpires
  <2>2. ASSUME NEW c \in Convs
        PROVE  /\ ChannelOK(ch'[c], arrived'[c])
               /\ Settled(ch[c], arrived[c], ch'[c], arrived'[c])
    <3>1. CASE c = d
      <4>. DEFINE h == ch[d]
                  g == [h EXCEPT !.gap = "expired"]
      <4>1. /\ g \in Channel /\ g.known = h.known /\ g.expect = h.expect
            /\ g.pending = h.pending /\ g.shown = h.shown
            /\ g.delivered = h.delivered /\ g.gap = "expired"
        BY <1>0 DEF Channel, Gaps
      <4>2. h.known /\ h.pending # {}
        BY <1>0, <2>1 DEF ChannelOK, NewChannel
      <4>3. ChannelOK(h, arrived[d])
        BY <1>0
      <4>4. Settled(h, arrived[d], h, arrived[d])
        BY <1>1
      <4>5. ch'[d] = g /\ arrived'[d] = arrived[d]
        BY <1>0, <2>1
      <4>. HIDE DEF g, h
      <4>6. ChannelOK(g, arrived[d])
        BY <4>1, <4>2, <4>3 DEF ChannelOK
      <4>7. Settled(h, arrived[d], g, arrived[d])
        BY <4>1, <4>4 DEF Settled
      <4>. QED BY <3>1, <4>5, <4>6, <4>7 DEF h
    <3>2. CASE c # d
      BY <1>0, <1>1, <2>1, <3>2
    <3>. QED BY <3>1, <3>2
  <2>. QED BY <1>0, <2>1, <2>2
<1>7. CASE Receive \/ DispatchOther \/ vars' = vars
  BY <1>2, <1>7 DEF Receive, ReceiveChat, ReceiveOther, DispatchOther, vars
<1>. QED
  BY <1>3, <1>4, <1>5, <1>6, <1>7 DEF Next, Dispatch

LEMMA StepInv == Inv /\ [Next]_vars => Inv'
<1>. SUFFICES ASSUME Inv, [Next]_vars PROVE Inv'
  OBVIOUS
<1>1. reader' \in {"login", "waiting", "received", "ticked"} /\ frame' \in Frames
  BY DEF Inv, TypeOK, Next, LoginBatch, Receive, ReceiveChat, ReceiveOther, TickAll,
         Dispatch, DispatchChat, DispatchOther, GapExpires, vars, Frames, Other
<1>2. TypeOK'
  BY <1>1, StepSettles DEF TypeOK
<1>3. reader' = "login" =>
        \A c \in Convs : ch'[c] = NewChannel /\ arrived'[c] = {}
  <2>1. ASSUME NEW c \in Convs, GapExpires(c), reader = "login" PROVE FALSE
    BY <2>1 DEF GapExpires, Inv, NewChannel
  <2>. QED
    BY <2>1 DEF Inv, Next, LoginBatch, Receive, ReceiveChat, ReceiveOther, TickAll,
                Dispatch, DispatchChat, DispatchOther, GapExpires, vars
<1>. QED
  BY <1>2, <1>3, StepSettles DEF Inv

THEOREM Invariance == Spec => []Inv
BY InitInv, StepInv, PTL DEF Spec

\* Every variable keeps its type, whatever arrives in whatever order.
THEOREM TypeCorrect == Spec => []TypeOK
<1>1. Inv => TypeOK
  BY DEF Inv
<1>. QED
  BY <1>1, Invariance, PTL

\* The buffer is exactly what has arrived and is not settled: onMessage, tick,
\* drainPending and onOfflineBatch lose no buffered message.
THEOREM BufferExact == Spec => []BufferIsExact
<1>1. Inv => BufferIsExact
  BY DEF Inv, ChannelOK, BufferIsExact
<1>. QED
  BY <1>1, Invariance, PTL

\* The timer of a channel runs exactly while there is a hole.
THEOREM TimerExact == Spec => []HoleIsTimed
<1>1. Inv => HoleIsTimed
  BY DEF Inv, ChannelOK, HoleIsTimed
<1>. QED
  BY <1>1, Invariance, PTL

\* The de-duplication set can be emptied at any size: expect says the same.
THEOREM DedupRedundant == Spec => []DedupIsBelowExpect
<1>1. Inv => DedupIsBelowExpect
  BY DEF Inv, ChannelOK, DedupIsBelowExpect
<1>. QED
  BY <1>1, Invariance, PTL

\* The screen of a conversation is always in order and without repeats.
THEOREM ScreenOrdered == Spec => []ScreenIsOrdered
<1>1. Inv => ScreenIsOrdered
  BY DEF Inv, ChannelOK, ScreenOK, ScreenIsOrdered, Numbers
<1>. QED
  BY <1>1, Invariance, PTL

\* After the login a number is passed over only by tick, on a hole that has been
\* open for the timeout.
THEOREM SkipsAreTimeouts == Spec => SkipsOnlyAfterTimeout
<1>. DEFINE Skips(c) == /\ reader # "login"
                        /\ ch[c].known
                        /\ \E n \in ch[c].expect..(ch'[c].expect - 1) :
                               n \notin Numbers(ch'[c].shown)
<1>1. ASSUME Inv, [Next]_vars, NEW c \in Convs, Skips(c)
      PROVE  reader = "received" /\ ch[c].gap = "expired"
  <2>1. /\ ch \in [Convs -> Channel]
        /\ ChannelOK(ch[c], arrived[c])
        /\ ch[c].expect \in Nat
    BY <1>1, ChannelFields DEF Inv, TypeOK
  <2>2. ch'[c].expect # ch[c].expect
    BY <1>1, <2>1
  <2>3. CASE TickAll
    <3>1. reader = "received" /\ ch'[c] = Tick(ch[c])
      BY <2>3 DEF TickAll
    <3>. QED BY <2>2, <3>1 DEF Tick
  <2>4. ASSUME NEW d \in Convs, NEW s \in Seqs, DispatchChat(d, s) PROVE FALSE
    <3>1. ch' = [ch EXCEPT ![d] = OnMessage(ch[d], s)]
      BY <2>4 DEF DispatchChat
    <3>2. c = d /\ ch'[c] = OnMessage(ch[c], s)
      BY <2>1, <2>2, <3>1
    <3>3. ch[c].expect..(ch'[c].expect - 1) \subseteq Numbers(ch'[c].shown)
      BY <1>1, <2>1, <3>2, OnMessageSettles, SameNumbers
    <3>. QED BY <1>1, <3>3
  <2>5. ASSUME NEW d \in Convs, GapExpires(d) PROVE FALSE
    BY <2>1, <2>2, <2>5 DEF GapExpires, Channel
  <2>6. CASE Receive \/ DispatchOther \/ vars' = vars
    BY <2>2, <2>6 DEF Receive, ReceiveChat, ReceiveOther, DispatchOther, vars
  <2>7. ASSUME NEW B \in [Convs -> SUBSET Seqs], LoginBatch(B) PROVE FALSE
    BY <1>1, <2>7 DEF LoginBatch
  <2>. QED
    BY <1>1, <2>3, <2>4, <2>5, <2>6, <2>7 DEF Next, Dispatch
<1>2. Inv /\ [Next]_vars
      => [\A c \in Convs : Skips(c) => reader = "received" /\ ch[c].gap = "expired"]_vars
  BY <1>1
<1>. QED
  BY <1>2, Invariance, PTL DEF Spec, SkipsOnlyAfterTimeout

\* The orderer keeps its promise: whatever the order of arrival, every step of
\* it is a step of OrderedDisplay.
THEOREM Implements == Spec => ImplementsOrderedDisplay
<1>1. Init => OD!Init
  BY DEF Init, OD!Init, NewChannel
<1>2. Inv /\ [Next]_vars => [OD!Next]_OD!vars
  <2>. SUFFICES ASSUME Inv, [Next]_vars PROVE OD!Next
    OBVIOUS
  <2>. SUFFICES ASSUME NEW c \in Convs PROVE OD!Settle(c)
    BY DEF OD!Next
  <2>1. Settled(ch[c], arrived[c], ch'[c], arrived'[c])
    BY StepSettles
  <2>. QED BY <2>1, SameExtension DEF OD!Settle, Settled
<1>. QED
  BY <1>1, <1>2, Invariance, PTL DEF Spec, OD!Spec, ImplementsOrderedDisplay
-----------------------------------------------------------------------------
(* A loop with a body f, unrolled.                                         *)

\* F lists x and what the rounds 1 to n of a loop with the body f make of it.
Unrolled(F, f, x, n) == F = [i \in 0..n |-> IF i = 0 THEN x ELSE f[F[i - 1]]]

\* The recursion of Rounds has a solution.
LEMMA UnrollingExists ==
    ASSUME NEW f, NEW x, NEW n \in Nat
    PROVE  \E F : Unrolled(F, f, x, n)
<1>. DEFINE Missing == {k \in Nat : ~\E F : Unrolled(F, f, x, k)}
            k == Least(Missing)
<1>. SUFFICES ASSUME Missing # {} PROVE FALSE
  OBVIOUS
<1>1. k \in Missing /\ \A j \in Missing : k =< j
  <2>1. Missing \subseteq Nat
    OBVIOUS
  <2>. HIDE DEF Missing
  <2>. QED BY <2>1, LeastOfNaturals
<1>. HIDE DEF k
<1>2. CASE k = 0
  <2>. DEFINE z == [i \in 0..0 |-> x]
  <2>1. Unrolled(z, f, x, 0)
    BY DEF Unrolled
  <2>. QED BY <1>1, <1>2, <2>1
<1>3. CASE k # 0
  <2>1. k - 1 \in Nat /\ k - 1 \notin Missing /\ k \in Nat
    BY <1>1, <1>3
  <2>2. PICK F : Unrolled(F, f, x, k - 1)
    BY <2>1
  <2>. DEFINE last == f[F[k - 1]]
              G == [i \in 0..k |-> IF i = k THEN last ELSE F[i]]
  <2>3. /\ \A i \in 0..k - 1 : G[i] = F[i]
        /\ G[k] = last
    BY <2>1
  <2>4. \A i \in 0..k - 1 : F[i] = IF i = 0 THEN x ELSE f[F[i - 1]]
    BY <2>2 DEF Unrolled
  <2>. HIDE DEF G, last
  <2>5. ASSUME NEW i \in 0..k PROVE G[i] = IF i = 0 THEN x ELSE f[G[i - 1]]
    <3>1. CASE i = k
      <4>1. G[i - 1] = F[k - 1]
        BY <2>1, <2>3, <3>1
      <4>. QED BY <1>3, <2>3, <3>1, <4>1 DEF last
    <3>2. CASE i # k
      <4>1. i \in 0..k - 1 /\ (i # 0 => i - 1 \in 0..k - 1)
        BY <2>1, <3>2
      <4>2. G[i] = F[i] /\ (i # 0 => G[i - 1] = F[i - 1])
        BY <2>3, <4>1
      <4>. QED BY <2>4, <4>1, <4>2
    <3>. QED BY <3>1, <3>2
  <2>6. Unrolled(G, f, x, k)
    BY <2>5 DEF Unrolled, G
  <2>. QED BY <1>1, <2>6
<1>. QED
  BY <1>2, <1>3

\* Rounds is the last entry of such a list.
LEMMA RoundsUnrolled ==
    ASSUME NEW f, NEW x, NEW n \in Nat
    PROVE  \E F : /\ Rounds(f, x, n) = F[n]
                  /\ F[0] = x
                  /\ \A i \in 1..n : F[i] = f[F[i - 1]]
<1>. DEFINE F == CHOOSE G : Unrolled(G, f, x, n)
<1>1. Unrolled(F, f, x, n)
  BY UnrollingExists
<1>2. Rounds(f, x, n) = F[n]
  BY DEF Rounds, Unrolled
<1>. HIDE DEF F
<1>3. \A i \in 0..n : F[i] = IF i = 0 THEN x ELSE f[F[i - 1]]
  BY <1>1 DEF Unrolled
<1>4. F[0] = x /\ \A i \in 1..n : F[i] = f[F[i - 1]]
  BY <1>3
<1>. QED
  BY <1>2, <1>4

\* A multiple of n that is closer to 0 than n is 0.
LEMMA SmallMultiple ==
    ASSUME NEW n \in Nat, NEW q \in Int, NEW r \in Int, n > 0,
           n * q = r, r < n, -n < r
    PROVE  q = 0
BY SMT

\* A dividend that is larger by the divisor leaves the same remainder.
LEMMA RemainderPeriodic ==
    ASSUME NEW a \in Nat, NEW n \in Nat, n > 0
    PROVE  (a + n) % n = a % n
<1>. DEFINE q == a \div n
            r == a % n
            p == (a + n) \div n
            s == (a + n) % n
<1>1. q \in Int /\ r \in 0..(n-1) /\ a = n * q + r
  BY SMT
<1>2. p \in Int /\ s \in 0..(n-1) /\ a + n = n * p + s
  BY SMT
<1>. HIDE DEF q, r, p, s
<1>3. n * ((q + 1) - p) = s - r
  BY <1>1, <1>2, SMT
<1>4. (q+1) - p = 0
  <2>. DEFINE d == (q+1) - p
              x == s - r
  <2>1. d \in Int /\ n * d = x /\ x < n /\ -n < x /\ x \in Int
    BY <1>1, <1>2, <1>3
  <2>. HIDE DEF d, x
  <2>2. d = 0
    BY <2>1, SmallMultiple
  <2>. QED BY <2>2 DEF d
<1>. QED
  BY <1>3, <1>4, <1>1, <1>2 DEF r, s

LEMMA RemainderBounds ==
    ASSUME NEW a \in Nat, NEW n \in Nat, n > 0
    PROVE  /\ a % n \in Nat /\ a % n < n
           /\ a < n => a % n = a
           /\ a >= n => a % n =< a - n
<1>1. a % n \in Nat /\ a % n < n /\ (a < n => a % n = a)
  BY SMT
<1>2. CASE a >= n
  <2>1. a - n \in Nat /\ (a - n) + n = a
    BY <1>2
  <2>2. a % n = (a - n) % n
    BY <2>1, RemainderPeriodic
  <2>3. (a - n) % n =< a - n
    BY <2>1, SMT
  <2>. QED BY <1>1, <2>2, <2>3
<1>. QED
  BY <1>1, <1>2

LEMMA FiniteNumbers ==
    ASSUME NEW D \in SUBSET Seqs
    PROVE  IsFiniteSet(D) /\ Cardinality(D) \in Nat
<1>1. IsFiniteSet(Seqs)
  BY ConstantsAssumption, FS_Interval DEF Seqs
<1>. QED
  BY <1>1, FS_Subset, FS_CardinalityType

\* The de-duplication set after e has been inserted.
Inserted(D, e) == IF Cardinality(D \cup {e}) > DeliveredCap THEN {} ELSE D \cup {e}

\* To insert e first and then e+1, ..., k-1 is to insert e, ..., k-1.
LEMMA RememberFirst ==
    ASSUME NEW D \in SUBSET Seqs, NEW e \in Seqs, NEW k \in Nat, e < k, e \notin D,
           Cardinality(D) =< DeliveredCap
    PROVE  /\ Inserted(D, e) \in SUBSET Seqs
           /\ Cardinality(Inserted(D, e)) =< DeliveredCap
           /\ Remember(Inserted(D, e), e + 1, k) = Remember(D, e, k)
<1>. DEFINE n == DeliveredCap + 1
            d == Cardinality(D)
            size == d + (k - e)
<1>1. /\ n \in Nat /\ n > 0 /\ DeliveredCap \in Nat /\ d \in Nat /\ d =< DeliveredCap
      /\ e \in Nat /\ size \in Nat /\ size >= 1
      /\ Cardinality(D \cup {e}) = d + 1
      /\ Cardinality({}) = 0
  BY ConstantsAssumption, FiniteNumbers, FS_AddElement, FS_EmptySet, SeqsAreNaturals
<1>2. /\ Inserted(D, e) \in SUBSET Seqs
      /\ Cardinality(Inserted(D, e)) =< DeliveredCap
  BY <1>1 DEF Inserted
<1>3. Remember(D, e, k) = IF size =< DeliveredCap THEN D \cup e..(k - 1)
                          ELSE {s \in e..(k - 1) : k - s =< size % n}
  BY DEF Remember
<1>4. /\ size % n \in Nat /\ size % n < n
      /\ size < n => size % n = size
      /\ size >= n => size % n =< size - n
  <2>. HIDE DEF size, n
  <2>. QED BY <1>1, RemainderBounds
<1>. HIDE DEF d
<1>5. CASE d < DeliveredCap
  <2>1. Inserted(D, e) = D \cup {e}
    BY <1>1, <1>5 DEF Inserted
  <2>2. Remember(D \cup {e}, e + 1, k) =
          IF size =< DeliveredCap THEN (D \cup {e}) \cup (e + 1)..(k - 1)
          ELSE {s \in (e + 1)..(k - 1) : k - s =< size % n}
    <3>1. Cardinality(D \cup {e}) + (k - (e + 1)) = size
      BY <1>1
    <3>. QED BY <3>1 DEF Remember
  <2>3. CASE size =< DeliveredCap
    <3>1. D \cup e..(k - 1) = (D \cup {e}) \cup (e + 1)..(k - 1)
      BY <1>1
    <3>. QED BY <1>2, <1>3, <2>1, <2>2, <2>3, <3>1
  <2>4. CASE size > DeliveredCap
    <3>1. size % n < k - e
      BY <1>1, <1>4, <1>5, <2>4
    <3>. DEFINE r == size % n
    <3>. HIDE DEF r
    <3>2. \A s \in e..(k - 1) : k - s =< r => s \in (e + 1)..(k - 1)
      BY <1>1, <1>4, <3>1 DEF r
    <3>3. {s \in e..(k - 1) : k - s =< r} = {s \in (e + 1)..(k - 1) : k - s =< r}
      BY <1>1, <3>2
    <3>. HIDE DEF size, n
    <3>4. ~(size =< DeliveredCap)
      BY <1>1, <2>4
    <3>5. Remember(D, e, k) = {s \in e..(k - 1) : k - s =< r}
      BY <1>3, <3>4 DEF r
    <3>6. Remember(D \cup {e}, e + 1, k) = {s \in (e + 1)..(k - 1) : k - s =< r}
      BY <2>2, <3>4 DEF r
    <3>. QED BY <1>2, <2>1, <3>3, <3>5, <3>6
  <2>. QED BY <1>1, <2>3, <2>4
<1>6. CASE d = DeliveredCap
  <2>. DEFINE rest == k - (e + 1)
  <2>1. /\ Inserted(D, e) = {}
        /\ rest \in Nat /\ size = rest + n /\ size > DeliveredCap
    BY <1>1, <1>6 DEF Inserted
  <2>2. Remember({}, e + 1, k) =
          IF rest =< DeliveredCap THEN (e + 1)..(k - 1)
          ELSE {s \in (e + 1)..(k - 1) : k - s =< rest % n}
    <3>1. Cardinality({}) + (k - (e + 1)) = rest
      BY <1>1, <2>1
    <3>. QED BY <3>1 DEF Remember
  <2>3. size % n = rest % n
    <3>. HIDE DEF size, n, rest
    <3>. QED BY <1>1, <2>1, RemainderPeriodic
  <2>4. /\ rest % n \in Nat
        /\ rest < n => rest % n = rest
        /\ rest >= n => rest % n =< rest - n
    <3>. HIDE DEF size, n, rest
    <3>. QED BY <1>1, <2>1, RemainderBounds
  <2>. DEFINE r == rest % n
  <2>. HIDE DEF r
  <2>5. /\ r \in Nat /\ r =< rest
        /\ rest =< DeliveredCap => r = rest
    BY <1>1, <2>1, <2>4 DEF r
  <2>6. {s \in e..(k - 1) : k - s =< r} = {s \in (e + 1)..(k - 1) : k - s =< r}
    BY <1>1, <2>5
  <2>7. rest =< DeliveredCap =>
          {s \in (e + 1)..(k - 1) : k - s =< r} = (e + 1)..(k - 1)
    BY <1>1, <2>5
  <2>8. Remember(D, e, k) = {s \in e..(k - 1) : k - s =< r}
    BY <1>1, <1>3, <2>1, <2>3 DEF r
  <2>9. Remember({}, e + 1, k) = {s \in (e + 1)..(k - 1) : k - s =< r}
    BY <2>2, <2>7 DEF r
  <2>. QED BY <1>2, <2>1, <2>6, <2>8, <2>9
<1>. QED
  BY <1>1, <1>5, <1>6

LEMMA RememberNothing ==
    ASSUME NEW D \in SUBSET Seqs, NEW e \in Nat, Cardinality(D) =< DeliveredCap
    PROVE  Remember(D, e, e) = D
<1>1. Cardinality(D) + (e - e) = Cardinality(D) /\ e..(e - 1) = {}
  BY FiniteNumbers
<1>. QED
  BY <1>1 DEF Remember
-----------------------------------------------------------------------------
LEMMA SameChannel ==
    ASSUME NEW h \in Channel, NEW g \in Channel,
           h.known = g.known, h.expect = g.expect, h.pending = g.pending,
           h.delivered = g.delivered, h.gap = g.gap, h.shown = g.shown
    PROVE  h = g
BY DEF Channel

\* The first number of a run appended before the rest of it.
LEMMA RunFirst ==
    ASSUME NEW s \in Seq(Seqs), NEW e \in Nat, NEW k \in Nat, e < k,
           e..(k - 1) \subseteq Seqs
    PROVE  /\ Run(e, k) \in Seq(Seqs)
           /\ Append(s, e) \o Run(e + 1, k) = s \o Run(e, k)
<1>1. e \in Seqs /\ (e + 1)..(k - 1) \subseteq Seqs
  BY SeqsAreNaturals
<1>. DEFINE r == Run(e, k)
            q == Run(e + 1, k)
<1>2. /\ r \in Seq(Seqs) /\ Len(r) = k - e
      /\ \A i \in 1..(k - e) : r[i] = e + i - 1
  BY DEF Run
<1>3. /\ q \in Seq(Seqs) /\ Len(q) = k - e - 1
      /\ \A i \in 1..(k - e - 1) : q[i] = e + i
  <2>1. k - (e + 1) = k - e - 1 /\ \A i \in Int : (e + 1) + i - 1 = e + i
    OBVIOUS
  <2>2. q = [i \in 1..(k - e - 1) |-> e + i]
    BY <2>1 DEF Run
  <2>3. \A i \in 1..(k - e - 1) : e + i \in (e + 1)..(k - 1)
    OBVIOUS
  <2>. QED BY <1>1, <2>2, <2>3
<1>. HIDE DEF r, q
<1>4. r = <<e>> \o q
  <2>1. /\ <<e>> \o q \in Seq(Seqs) /\ Len(<<e>> \o q) = k - e
        /\ \A i \in 1..(k - e) : (<<e>> \o q)[i] = r[i]
    <3>. DEFINE a == <<e>>
    <3>1. a \in Seq(Seqs) /\ Len(a) = 1 /\ a[1] = e
      BY <1>1
    <3>. HIDE DEF a
    <3>2. /\ a \o q \in Seq(Seqs) /\ Len(a \o q) = Len(a) + Len(q)
          /\ \A i \in 1..(Len(a) + Len(q)) :
                (a \o q)[i] = IF i =< Len(a) THEN a[i] ELSE q[i - Len(a)]
      BY <1>3, <3>1, ConcatProperties
    <3>3. Len(a) + Len(q) = k - e
      BY <1>3, <3>1
    <3>4. ASSUME NEW i \in 1..(k - e) PROVE (a \o q)[i] = r[i]
      <4>1. CASE i = 1
        BY <1>2, <3>1, <3>2, <3>3, <4>1
      <4>2. CASE i # 1
        <5>1. i - 1 \in 1..(k - e - 1) /\ ~(i =< 1)
          BY <4>2
        <5>2. (a \o q)[i] = q[i - 1]
          BY <3>1, <3>2, <3>3, <5>1
        <5>3. q[i - 1] = e + (i - 1) /\ r[i] = e + i - 1
          BY <1>2, <1>3, <5>1
        <5>. QED BY <5>2, <5>3
      <4>. QED BY <4>1, <4>2
    <3>. QED BY <3>2, <3>3, <3>4 DEF a
  <2>. QED BY <1>2, <2>1, SeqEqual
<1>5. Append(s, e) = s \o <<e>>
  BY <1>1, AppendIsConcat
<1>6. (s \o <<e>>) \o q = s \o (<<e>> \o q)
  BY <1>1, <1>3, ConcatAssociative
<1>. QED
  BY <1>2, <1>4, <1>5, <1>6 DEF r, q

LEMMA FirstMissingIs ==
    ASSUME NEW e \in 0..(MaxSeq + 1), NEW P \in SUBSET Seqs, NEW k \in e..(MaxSeq + 1),
           k \notin P, \A t \in e..(k - 1) : t \in P
    PROVE  FirstMissing(e, P) = k
<1>. DEFINE m == FirstMissing(e, P)
<1>1. /\ m \in e..(MaxSeq + 1) /\ m \notin P /\ \A t \in e..(m - 1) : t \in P
  BY FirstMissingExists
<1>. HIDE DEF m
<1>2. ~(m < k) /\ ~(k < m)
  BY <1>1, ConstantsAssumption
<1>. QED
  BY <1>1, <1>2, ConstantsAssumption DEF m

\* What the loop relies on: the de-duplication set is below what is expected, and is
\* not too large.
Bounded(h) ==
    /\ h \in Channel
    /\ \A s \in h.delivered : s < h.expect
    /\ Cardinality(h.delivered) =< DeliveredCap

Live(h) == {s \in h.pending : s >= h.expect}

\* DrainPending, field by field, without the timer of the hole that is left.
Drained(h) ==
    LET k == FirstMissing(h.expect, Live(h))
    IN  [known     |-> h.known,
         expect    |-> k,
         pending   |-> {s \in Live(h) : s > k},
         delivered |-> Remember(h.delivered, h.expect, k),
         gap       |-> IF k > h.expect THEN "none" ELSE h.gap,
         shown     |-> h.shown \o Run(h.expect, k)]

Timed(h) ==
    IF h.pending # {} /\ h.gap = "none" THEN [h EXCEPT !.gap = "waiting"] ELSE h

LEMMA DrainPendingParts ==
    ASSUME NEW h \in Channel
    PROVE  DrainPending(h) = Timed(Drained(h))
<1>. DEFINE k    == FirstMissing(h.expect, Live(h))
            rest == {s \in Live(h) : s > k}
            gap  == IF k > h.expect THEN "none" ELSE h.gap
            D    == Remember(h.delivered, h.expect, k)
            w    == h.shown \o Run(h.expect, k)
<1>1. DrainPending(h) = [h EXCEPT !.expect = k, !.pending = rest, !.delivered = D,
                           !.gap = IF rest # {} /\ gap = "none" THEN "waiting" ELSE gap,
                           !.shown = w]
  BY DEF DrainPending, Live
<1>2. Drained(h) = [known |-> h.known, expect |-> k, pending |-> rest, delivered |-> D,
                    gap |-> gap, shown |-> w]
  BY DEF Drained
<1>3. h = [known |-> h.known, expect |-> h.expect, pending |-> h.pending,
           delivered |-> h.delivered, gap |-> h.gap, shown |-> h.shown]
  BY DEF Channel
<1>. HIDE DEF k, rest, gap, D, w
<1>4. DrainPending(h) = [known |-> h.known, expect |-> k, pending |-> rest, delivered |-> D,
          gap |-> IF rest # {} /\ gap = "none" THEN "waiting" ELSE gap, shown |-> w]
  BY <1>1, <1>3
<1>5. CASE rest # {} /\ gap = "none"
  BY <1>2, <1>4, <1>5 DEF Timed
<1>6. CASE ~(rest # {} /\ gap = "none")
  BY <1>2, <1>4, <1>6 DEF Timed
<1>. QED
  BY <1>5, <1>6

LEMMA LiveNumbers ==
    ASSUME NEW h \in Channel
    PROVE  LET k == FirstMissing(h.expect, Live(h))
           IN  /\ h.expect \in 0..(MaxSeq + 1) /\ h.expect \in Nat
               /\ h.pending \in SUBSET Seqs /\ h.pending \subseteq Nat
               /\ IsFiniteSet(h.pending) /\ Cardinality(h.pending) \in Nat
               /\ Live(h) \in SUBSET Seqs
               /\ k \in h.expect..(MaxSeq + 1) /\ k \in Nat
               /\ k \notin Live(h)
               /\ \A t \in h.expect..(k - 1) : t \in Live(h)
<1>1. /\ h.expect \in 0..(MaxSeq + 1) /\ h.expect \in Nat /\ h.pending \in SUBSET Seqs
      /\ Live(h) \in SUBSET Seqs
  BY ConstantsAssumption DEF Channel, Live
<1>2. IsFiniteSet(h.pending) /\ Cardinality(h.pending) \in Nat /\ h.pending \subseteq Nat
  BY <1>1, FiniteNumbers, SeqsAreNaturals
<1>. QED
  BY <1>1, <1>2, FirstMissingExists, ConstantsAssumption

\* The round that delivers the expected number changes nothing about where the loop
\* ends.
LEMMA DeliverRound ==
    ASSUME NEW h, Bounded(h), h.expect \in h.pending
    PROVE  LET g == DeliverStep([h EXCEPT !.pending = @ \ {h.expect}], h.expect)
           IN  /\ Bounded(g)
               /\ g.pending = h.pending \ {h.expect}
               /\ Drained(g) = Drained(h)
<1>. DEFINE e == h.expect
            t == [h EXCEPT !.pending = @ \ {e}]
            g == DeliverStep(t, e)
            k == FirstMissing(e, Live(h))
<1>1. /\ h \in Channel /\ h.shown \in Seq(Seqs) /\ h.delivered \in SUBSET Seqs
      /\ \A s \in h.delivered : s < e
      /\ Cardinality(h.delivered) =< DeliveredCap
  BY DEF Bounded, Channel
<1>2. /\ e \in 0..(MaxSeq + 1) /\ e \in Nat /\ h.pending \in SUBSET Seqs
      /\ h.pending \subseteq Nat
      /\ Live(h) \in SUBSET Seqs
      /\ k \in e..(MaxSeq + 1) /\ k \in Nat /\ k \notin Live(h)
      /\ \A s \in e..(k - 1) : s \in Live(h)
  BY <1>1, LiveNumbers
<1>. HIDE DEF k
<1>3. /\ e \in Seqs /\ e \in Live(h) /\ e < k /\ e \notin h.delivered
      /\ e + 1 \in 0..(MaxSeq + 1) /\ e..(k - 1) \subseteq Seqs /\ k >= e + 1
  BY <1>1, <1>2, ConstantsAssumption DEF Live, Seqs
<1>4. /\ Inserted(h.delivered, e) \in SUBSET Seqs
      /\ Cardinality(Inserted(h.delivered, e)) =< DeliveredCap
      /\ Remember(Inserted(h.delivered, e), e + 1, k) = Remember(h.delivered, e, k)
  BY <1>1, <1>2, <1>3, RememberFirst
<1>5. /\ Append(h.shown, e) \in Seq(Seqs)
      /\ Append(h.shown, e) \o Run(e + 1, k) = h.shown \o Run(e, k)
  <2>1. Append(h.shown, e) \in Seq(Seqs)
    BY <1>1, <1>3, AppendProperties
  <2>2. Append(h.shown, e) \o Run(e + 1, k) = h.shown \o Run(e, k)
    <3>. HIDE DEF e
    <3>. QED BY <1>1, <1>2, <1>3, RunFirst
  <2>. QED BY <2>1, <2>2
<1>6. /\ g.known = h.known /\ g.expect = e + 1 /\ g.pending = h.pending \ {e}
      /\ g.delivered = Inserted(h.delivered, e) /\ g.gap = "none"
      /\ g.shown = Append(h.shown, e)
      /\ g \in Channel
  <2>1. /\ t \in Channel /\ t.known = h.known /\ t.pending = h.pending \ {e}
        /\ t.delivered = h.delivered /\ t.shown = h.shown
    <3>. HIDE DEF e
    <3>1. h.pending \ {e} \in SUBSET Seqs
      BY <1>2
    <3>. QED BY <1>1, <3>1 DEF Channel
  <2>. HIDE DEF t, e
  <2>2. /\ g.known = t.known /\ g.expect = e + 1 /\ g.pending = t.pending
        /\ g.delivered = Inserted(t.delivered, e) /\ g.gap = "none"
        /\ g.shown = Append(t.shown, e)
    BY <2>1 DEF DeliverStep, Inserted, Channel
  <2>3. g \in Channel
    BY <1>3, <1>4, <1>5, <2>1 DEF DeliverStep, Inserted, Channel, Gaps
  <2>. QED BY <2>1, <2>2, <2>3
<1>. HIDE DEF g
<1>7. Bounded(g)
  <2>1. \A s \in Inserted(h.delivered, e) : s < e + 1
    <3>1. \A s \in h.delivered : s \in Nat /\ s < e
      BY <1>1, SeqsAreNaturals
    <3>. HIDE DEF e
    <3>. QED BY <1>2, <3>1 DEF Inserted
  <2>. QED BY <1>4, <1>6, <2>1 DEF Bounded
<1>8. Live(g) = Live(h) \ {e}
  BY <1>2, <1>6 DEF Live
<1>9. FirstMissing(e + 1, Live(g)) = k
  <2>1. /\ Live(g) \in SUBSET Seqs /\ k \in (e + 1)..(MaxSeq + 1) /\ k \notin Live(g)
        /\ \A s \in (e + 1)..(k - 1) : s \in Live(g)
    BY <1>2, <1>3, <1>8
  <2>. QED BY <1>3, <2>1, FirstMissingIs
<1>10. {s \in Live(g) : s > k} = {s \in Live(h) : s > k}
  <2>1. \A s \in Live(h) : s > k => s # e
    <3>. HIDE DEF e
    <3>. QED BY <1>2, <1>3
  <2>. QED BY <1>8, <2>1
<1>11. Drained(g) = Drained(h)
  BY <1>3, <1>4, <1>5, <1>6, <1>9, <1>10 DEF Drained, k
<1>. QED
  BY <1>6, <1>7, <1>11 DEF g

\* Where the loop stops.
Stopped(h) == \A s \in h.pending : s > h.expect

LEMMA StoppedIsDrained ==
    ASSUME NEW h, Bounded(h), Stopped(h)
    PROVE  Drained(h) = h
<1>. DEFINE e == h.expect
            d == Drained(h)
<1>1. /\ h \in Channel /\ h.shown \in Seq(Seqs) /\ h.delivered \in SUBSET Seqs
      /\ Cardinality(h.delivered) =< DeliveredCap
      /\ e \in 0..(MaxSeq + 1) /\ e \in Nat /\ h.pending \in SUBSET Seqs
      /\ h.pending \subseteq Nat
  BY LiveNumbers DEF Bounded, Channel
<1>2. Live(h) = h.pending /\ {s \in Live(h) : s > e} = h.pending
  BY <1>1 DEF Live, Stopped
<1>3. FirstMissing(e, Live(h)) = e
  <2>1. e \in e..(MaxSeq + 1) /\ e..(e - 1) = {} /\ ~(e > e)
    BY <1>1, ConstantsAssumption
  <2>2. e \notin Live(h)
    BY <1>1, <1>2, <2>1 DEF Stopped
  <2>. HIDE DEF e
  <2>. QED BY <1>1, <1>2, <2>1, <2>2, FirstMissingIs
<1>4. Remember(h.delivered, e, e) = h.delivered
  <2>. HIDE DEF e
  <2>. QED BY <1>1, RememberNothing
<1>5. h.shown \o Run(e, e) = h.shown
  <2>1. Run(e, e) = <<>>
    <3>1. e - e = 0 /\ 1..0 = {}
      BY <1>1
    <3>. QED BY <3>1 DEF Run
  <2>. QED BY <1>1, <2>1, ConcatEmptySeq
<1>6. ~(e > e)
  BY <1>1
<1>7. /\ d.known = h.known /\ d.expect = h.expect /\ d.pending = h.pending
      /\ d.delivered = h.delivered /\ d.gap = h.gap /\ d.shown = h.shown
      /\ d = [known |-> h.known, expect |-> h.expect, pending |-> h.pending,
              delivered |-> h.delivered, gap |-> h.gap, shown |-> h.shown]
  BY <1>2, <1>3, <1>4, <1>5, <1>6 DEF Drained
<1>. QED
  BY <1>1, <1>7 DEF Channel

\* A round of the loop changes nothing about where it ends, and takes a message out
\* unless the loop stops.
LEMMA RoundKeeps ==
    ASSUME NEW h, Bounded(h)
    PROVE  LET g == DrainRound(h)
           IN  /\ Bounded(g)
               /\ Drained(g) = Drained(h)
               /\ Stopped(h) => g = h
               /\ ~Stopped(h) => Cardinality(g.pending) = Cardinality(h.pending) - 1
<1>. DEFINE g == DrainRound(h)
            first == Least(h.pending)
<1>1. /\ h \in Channel /\ h.expect \in Nat /\ h.pending \in SUBSET Seqs
      /\ h.pending \subseteq Nat /\ IsFiniteSet(h.pending)
      /\ Cardinality(h.pending) \in Nat
  BY LiveNumbers DEF Bounded
<1>2. h.pending # {} => first \in h.pending /\ \A s \in h.pending : first =< s
  BY <1>1, LeastOfNaturals
<1>. HIDE DEF first
<1>3. CASE h.pending = {} \/ first > h.expect
  <2>1. g = h
    BY <1>3 DEF DrainRound, first
  <2>2. Stopped(h)
    BY <1>1, <1>2, <1>3 DEF Stopped
  <2>. QED BY <2>1, <2>2
<1>4. CASE h.pending # {} /\ first < h.expect
  <2>1. g = [h EXCEPT !.pending = @ \ {first}]
    BY <1>1, <1>2, <1>4 DEF DrainRound, first
  <2>. HIDE DEF g
  <2>2. /\ g \in Channel /\ g.pending = h.pending \ {first} /\ g.known = h.known
        /\ g.expect = h.expect /\ g.delivered = h.delivered /\ g.gap = h.gap
        /\ g.shown = h.shown
    BY <1>1, <2>1 DEF Channel
  <2>3. Live(g) = Live(h)
    BY <1>1, <1>2, <1>4, <2>2 DEF Live
  <2>4. Drained(g) = Drained(h)
    BY <2>2, <2>3 DEF Drained
  <2>5. Bounded(g)
    BY <2>2 DEF Bounded
  <2>6. ~Stopped(h)
    BY <1>1, <1>2, <1>4 DEF Stopped
  <2>7. Cardinality(g.pending) = Cardinality(h.pending) - 1
    <3>1. Cardinality(h.pending \ {first}) = Cardinality(h.pending) - 1
      BY <1>1, <1>2, <1>4, FS_RemoveElement
    <3>. QED BY <2>2, <3>1
  <2>. QED BY <2>4, <2>5, <2>6, <2>7 DEF g
<1>5. CASE h.pending # {} /\ first = h.expect
  <2>1. g = DeliverStep([h EXCEPT !.pending = @ \ {h.expect}], h.expect)
    BY <1>1, <1>2, <1>5 DEF DrainRound, first
  <2>2. h.expect \in h.pending
    BY <1>2, <1>5
  <2>3. Bounded(g) /\ Drained(g) = Drained(h) /\ g.pending = h.pending \ {h.expect}
    BY <2>1, <2>2, DeliverRound
  <2>4. ~Stopped(h)
    BY <1>1, <2>2 DEF Stopped
  <2>5. Cardinality(g.pending) = Cardinality(h.pending) - 1
    <3>. DEFINE e == h.expect
    <3>. HIDE DEF e, g
    <3>1. Cardinality(h.pending \ {e}) = Cardinality(h.pending) - 1
      BY <1>1, <2>2, FS_RemoveElement DEF e
    <3>. QED BY <2>3, <3>1 DEF e
  <2>. QED BY <2>3, <2>4, <2>5
<1>6. h.pending = {} \/ first > h.expect \/ first < h.expect \/ first = h.expect
  BY <1>1, <1>2
<1>. QED
  BY <1>3, <1>4, <1>5, <1>6

\* The loop of drainPending, run to its end, is the closed form.
LEMMA DrainLoopIsDrained ==
    ASSUME NEW h, Bounded(h)
    PROVE  /\ DrainLoop(h) = Drained(h)
           /\ Bounded(Drained(h)) /\ Stopped(Drained(h))
<1>. DEFINE f == [g \in Channel |-> DrainRound(g)]
            n == Cardinality(h.pending)
<1>1. n \in Nat
  BY LiveNumbers DEF Bounded
<1>2. PICK F : /\ Rounds(f, h, n) = F[n] /\ F[0] = h
               /\ \A i \in 1..n : F[i] = f[F[i - 1]]
  <2>. HIDE DEF f, n
  <2>. QED BY <1>1, RoundsUnrolled
<1>. HIDE DEF n
<1>. DEFINE Good(i) == /\ Bounded(F[i]) /\ Drained(F[i]) = Drained(h)
                       /\ Stopped(F[i]) \/ Cardinality(F[i].pending) = n - i
            Bad == {i \in 0..n : ~Good(i)}
            b == Least(Bad)
<1>3. Bad = {}
  <2>. SUFFICES ASSUME Bad # {} PROVE FALSE
    OBVIOUS
  <2>1. b \in Bad /\ \A i \in Bad : b =< i
    <3>1. Bad \subseteq Nat
      BY <1>1
    <3>. HIDE DEF Bad
    <3>. QED BY <3>1, LeastOfNaturals
  <2>. HIDE DEF b
  <2>2. b # 0
    <3>1. n - 0 = n
      BY <1>1
    <3>2. Good(0)
      BY <1>2, <3>1 DEF n
    <3>. QED BY <2>1, <3>2
  <2>3. b \in 1..n /\ b - 1 \in 0..n /\ b - 1 \notin Bad
    BY <1>1, <2>1, <2>2
  <2>. DEFINE x == F[b - 1]
  <2>4. /\ Bounded(x) /\ Drained(x) = Drained(h)
        /\ Stopped(x) \/ Cardinality(x.pending) = n - (b - 1)
    BY <2>3
  <2>5. F[b] = DrainRound(x)
    <3>1. F[b] = f[x] /\ x \in Channel
      BY <1>2, <2>3, <2>4 DEF Bounded
    <3>. HIDE DEF x
    <3>. QED BY <3>1
  <2>. HIDE DEF x
  <2>6. Bounded(F[b]) /\ Drained(F[b]) = Drained(h)
    BY <2>4, <2>5, RoundKeeps
  <2>7. Stopped(F[b]) \/ Cardinality(F[b].pending) = n - b
    <3>1. CASE Stopped(x)
      BY <2>4, <2>5, <3>1, RoundKeeps
    <3>2. CASE ~Stopped(x)
      <4>1. /\ Cardinality(F[b].pending) = Cardinality(x.pending) - 1
            /\ Cardinality(x.pending) = n - (b - 1)
        BY <2>4, <2>5, <3>2, RoundKeeps
      <4>. QED BY <1>1, <2>3, <4>1
    <3>. QED BY <3>1, <3>2
  <2>8. Good(b)
    BY <2>6, <2>7
  <2>. QED BY <2>1, <2>8
<1>4. Good(n)
  <2>1. n \in 0..n
    BY <1>1
  <2>. QED BY <1>3, <2>1
<1>5. Stopped(F[n])
  <2>1. CASE Cardinality(F[n].pending) = n - n
    <3>1. IsFiniteSet(F[n].pending) /\ Cardinality(F[n].pending) = 0
      BY <1>1, <1>4, <2>1, LiveNumbers DEF Bounded
    <3>2. F[n].pending = {}
      BY <3>1, FS_EmptySet
    <3>. QED BY <3>2 DEF Stopped
  <2>. QED BY <1>4, <2>1
<1>6. Drained(F[n]) = F[n]
  BY <1>4, <1>5, StoppedIsDrained
<1>7. DrainLoop(h) = F[n]
  BY <1>2 DEF DrainLoop, n
<1>. QED
  BY <1>4, <1>5, <1>6, <1>7

LEMMA DrainByLoopIsDrainPending ==
    ASSUME NEW h, Bounded(h)
    PROVE  DrainByLoop(h) = DrainPending(h)
<1>1. DrainByLoop(h) = Timed(Drained(h))
  BY DrainLoopIsDrained DEF DrainByLoop, Timed
<1>. QED
  BY <1>1, DrainPendingParts DEF Bounded
-----------------------------------------------------------------------------
\* A channel between two calls.
Tidy(h) ==
    /\ Bounded(h)
    /\ Stopped(h)
    /\ h.gap = "none" <=> h.pending = {}
    /\ ~h.known => h = NewChannel

LEMMA NewIsTidy == Tidy(NewChannel)
<1>1. NewChannel \in Channel
  BY ConstantsAssumption DEF NewChannel, Channel, Gaps
<1>2. Cardinality({}) =< DeliveredCap
  BY FS_EmptySet, ConstantsAssumption
<1>. QED
  BY <1>1, <1>2 DEF Tidy, Bounded, Stopped, NewChannel

LEMMA ChannelIsTidy ==
    ASSUME NEW h, NEW A, ChannelOK(h, A), Cardinality(h.delivered) =< DeliveredCap
    PROVE  Tidy(h)
<1>1. h \in Channel
  BY DEF ChannelOK
<1>2. h.expect \in Nat /\ h.pending \subseteq Nat
  BY <1>1, LiveNumbers
<1>3. Stopped(h)
  BY <1>2 DEF ChannelOK, Stopped
<1>. QED
  BY <1>1, <1>3 DEF ChannelOK, Tidy, Bounded

\* Starting the timer changes nothing else.
LEMMA TimedFields ==
    ASSUME NEW h \in Channel
    PROVE  LET g == Timed(h)
           IN  /\ g \in Channel /\ g.known = h.known /\ g.expect = h.expect
               /\ g.pending = h.pending /\ g.delivered = h.delivered /\ g.shown = h.shown
               /\ g.gap = IF h.pending # {} /\ h.gap = "none" THEN "waiting" ELSE h.gap
BY DEF Timed, Channel, Gaps

LEMMA DrainPendingBounded ==
    ASSUME NEW h, Bounded(h)
    PROVE  Bounded(DrainPending(h))
<1>. DEFINE d == Drained(h)
<1>1. h \in Channel /\ Bounded(d) /\ DrainPending(h) = Timed(d)
  BY DrainLoopIsDrained, DrainPendingParts DEF Bounded
<1>. HIDE DEF d
<1>2. d \in Channel
  BY <1>1 DEF Bounded
<1>. QED
  BY <1>1, <1>2, TimedFields DEF Bounded

\* A channel with another buffer, or another starting point above what was delivered.
LEMMA OtherBuffer ==
    ASSUME NEW h, Bounded(h), NEW P \in SUBSET Seqs
    PROVE  LET g == [h EXCEPT !.pending = P]
           IN  /\ Bounded(g) /\ g.known = h.known /\ g.expect = h.expect /\ g.pending = P
               /\ g.delivered = h.delivered /\ g.gap = h.gap /\ g.shown = h.shown
BY DEF Bounded, Channel

LEMMA OtherStart ==
    ASSUME NEW h, Bounded(h), NEW e \in 0..(MaxSeq + 1), h.expect =< e
    PROVE  LET g == [h EXCEPT !.expect = e]
           IN  /\ Bounded(g) /\ g.known = h.known /\ g.expect = e /\ g.pending = h.pending
               /\ g.delivered = h.delivered /\ g.gap = h.gap /\ g.shown = h.shown
<1>. DEFINE g == [h EXCEPT !.expect = e]
<1>1. /\ g \in Channel /\ g.known = h.known /\ g.expect = e /\ g.pending = h.pending
      /\ g.delivered = h.delivered /\ g.gap = h.gap /\ g.shown = h.shown
  BY DEF Bounded, Channel
<1>2. \A s \in h.delivered : s \in Nat /\ s < h.expect /\ h.expect \in Nat /\ e \in Nat
  BY SeqsAreNaturals, ConstantsAssumption DEF Bounded, Channel
<1>3. \A s \in h.delivered : s < e
  BY <1>2
<1>. HIDE DEF g
<1>4. Bounded(g)
  BY <1>1, <1>3 DEF Bounded
<1>. QED
  BY <1>1, <1>4 DEF g

\* A channel that has a starting point.
LEMMA KnownIsTidy ==
    ASSUME NEW h, Tidy(h), NEW s \in Seqs
    PROVE  LET g == Known(h, s)
           IN  /\ Bounded(g) /\ Stopped(g) /\ (g.gap = "none" <=> g.pending = {}) /\ g.known
               /\ g.pending = h.pending
               /\ h.known => g = h
               /\ ~h.known => g.expect = s
<1>1. CASE h.known
  BY <1>1 DEF Known, Tidy
<1>2. CASE ~h.known
  <2>. DEFINE g == Known(h, s)
  <2>1. h = NewChannel /\ g = [h EXCEPT !.known = TRUE, !.expect = s]
    BY <1>2 DEF Tidy, Known
  <2>2. s \in 0..(MaxSeq + 1)
    BY ConstantsAssumption DEF Seqs
  <2>3. /\ g \in Channel /\ g.known /\ g.expect = s /\ g.pending = {} /\ g.gap = "none"
        /\ g.delivered = {}
    BY <2>1, <2>2, NewIsTidy DEF NewChannel, Tidy, Bounded, Channel, Gaps
  <2>. HIDE DEF g
  <2>4. Bounded(g)
    BY <2>3, FS_EmptySet, ConstantsAssumption DEF Bounded
  <2>5. h.pending = {}
    BY <2>1 DEF NewChannel
  <2>. QED BY <1>2, <2>3, <2>4, <2>5 DEF g, Stopped
<1>. QED
  BY <1>1, <1>2

\* deliver and drainPending on the expected number.
LEMMA DeliverByLoop ==
    ASSUME NEW g, Bounded(g), Stopped(g), g.expect \in Seqs
    PROVE  DrainByLoop(DeliverStep(g, g.expect)) = DeliverAndDrain(g)
<1>. DEFINE e == g.expect
            w == [g EXCEPT !.pending = g.pending \cup {e}]
            v == [w EXCEPT !.pending = w.pending \ {w.expect}]
            u == DeliverStep(g, e)
<1>1. g \in Channel /\ g.pending \in SUBSET Seqs /\ e \notin g.pending
  <2>1. g.pending \in SUBSET Seqs /\ g.expect \in Nat
    BY LiveNumbers DEF Bounded
  <2>. QED BY <2>1 DEF Bounded, Stopped
<1>2. /\ Bounded(w) /\ w.known = g.known /\ w.expect = e /\ w.pending = g.pending \cup {e}
      /\ w.delivered = g.delivered /\ w.gap = g.gap /\ w.shown = g.shown
  <2>1. g.pending \cup {e} \in SUBSET Seqs
    BY <1>1
  <2>. HIDE DEF e
  <2>. QED BY <2>1, OtherBuffer DEF e
<1>3. DeliverAndDrain(g) = DrainPending(w)
  BY DEF DeliverAndDrain
<1>. HIDE DEF w
<1>4. w.pending \ {w.expect} = g.pending
  BY <1>1, <1>2
<1>5. v = g
  <2>1. /\ v \in Channel /\ v.known = w.known /\ v.expect = w.expect
        /\ v.pending = g.pending
        /\ v.delivered = w.delivered /\ v.gap = w.gap /\ v.shown = w.shown
    BY <1>1, <1>2, <1>4, OtherBuffer DEF Bounded
  <2>. HIDE DEF v
  <2>. QED BY <1>1, <1>2, <2>1, SameChannel
<1>6. Bounded(u) /\ Drained(u) = Drained(w)
  <2>1. w.expect \in w.pending
    BY <1>2
  <2>. QED BY <1>2, <1>5, <2>1, DeliverRound
<1>. HIDE DEF u, v
<1>7. DrainByLoop(u) = DrainPending(u)
  BY <1>6, DrainByLoopIsDrainPending
<1>8. DrainPending(u) = Timed(Drained(u)) /\ DrainPending(w) = Timed(Drained(w))
  BY <1>2, <1>6, DrainPendingParts DEF Bounded
<1>. QED
  BY <1>3, <1>6, <1>7, <1>8 DEF u

\* onMessage.
LEMMA MessageByLoopIsOnMessage ==
    ASSUME NEW h, Tidy(h), NEW s \in Seqs
    PROVE  /\ MessageByLoop(h, s) = OnMessage(h, s)
           /\ Bounded(OnMessage(h, s))
<1>. DEFINE g == Known(h, s)
<1>1. Bounded(g) /\ Stopped(g)
  BY KnownIsTidy
<1>. HIDE DEF g
<1>2. s = g.expect => DrainByLoop(DeliverStep(g, s)) = DeliverAndDrain(g)
  BY <1>1, DeliverByLoop
<1>3. MessageByLoop(h, s) = OnMessage(h, s)
  BY <1>2 DEF MessageByLoop, OnMessage, g
<1>4. s = g.expect => Bounded(DeliverAndDrain(g))
  <2>. DEFINE w == [g EXCEPT !.pending = g.pending \cup {g.expect}]
  <2>1. s = g.expect => g.pending \cup {g.expect} \in SUBSET Seqs
    BY <1>1, LiveNumbers DEF Bounded
  <2>2. s = g.expect => Bounded(w)
    BY <1>1, <2>1, OtherBuffer
  <2>. HIDE DEF w
  <2>3. s = g.expect => Bounded(DrainPending(w))
    BY <2>2, DrainPendingBounded
  <2>. QED BY <2>3 DEF w, DeliverAndDrain
<1>5. Bounded(Buffer(g, s))
  BY <1>1 DEF Buffer, Bounded, Channel, Gaps
<1>6. Bounded(OnMessage(h, s))
  BY <1>1, <1>4, <1>5 DEF OnMessage, g
<1>. QED
  BY <1>3, <1>6

\* A round of tick, and of the second loop of onOfflineBatch.
LEMMA ReleaseByLoopIsRelease ==
    ASSUME NEW h, Tidy(h)
    PROVE  /\ ReleaseByLoop(h) = Release(h) /\ Bounded(Release(h))
           /\ TickByLoop(h) = Tick(h) /\ Bounded(Tick(h))
<1>. DEFINE e == Least(h.pending)
            g == [h EXCEPT !.expect = e]
<1>1. h.pending # {} => e \in 0..(MaxSeq + 1) /\ h.expect =< e
  <2>1. h.pending \in SUBSET Seqs /\ h.pending \subseteq Nat /\ h.expect \in Nat
    BY LiveNumbers DEF Tidy, Bounded
  <2>2. h.pending # {} => e \in h.pending
    BY <2>1, LeastOfNaturals
  <2>3. h.pending # {} => e \in Seqs /\ e > h.expect /\ e \in Nat
    BY <2>1, <2>2 DEF Tidy, Stopped
  <2>. HIDE DEF e
  <2>. QED BY <2>1, <2>3, ConstantsAssumption DEF Seqs
<1>. HIDE DEF e
<1>2. h.pending # {} => Bounded(g)
  BY <1>1, OtherStart DEF Tidy
<1>. HIDE DEF g
<1>3. h.pending # {} => DrainByLoop(g) = DrainPending(g) /\ Bounded(DrainPending(g))
  BY <1>2, DrainByLoopIsDrainPending, DrainPendingBounded
<1>4. ReleaseByLoop(h) = Release(h) /\ Bounded(Release(h))
  BY <1>3 DEF ReleaseByLoop, Release, Tidy, g, e
<1>5. TickByLoop(h) = Tick(h)
  BY <1>4 DEF TickByLoop, Tick, Release
<1>. QED
  BY <1>4, <1>5 DEF Tick, Tidy
-----------------------------------------------------------------------------
\* What the first loop of onOfflineBatch makes of the channel g with R left to feed.
Fed(g, R) ==
    IF R = {} THEN g
    ELSE DrainPending([Known(g, Least(R)) EXCEPT !.pending = g.pending \cup R])

\* The rest of a batch lies beyond everything that has been fed.
Feedable(g, R) ==
    /\ Tidy(g)
    /\ R \in SUBSET Seqs
    /\ \A s \in R : s >= g.expect /\ \A p \in g.pending : p < s

\* A round of the loop changes nothing about where it ends.
LEMMA FeedKeeps ==
    ASSUME NEW g, NEW R, Feedable(g, R), R # {}
    PROVE  LET s == Least(R)
               u == MessageByLoop(g, s)
           IN  /\ Feedable(u, R \ {s})
               /\ Fed(u, R \ {s}) = Fed(g, R)
<1>. DEFINE s == Least(R)
            k == Known(g, s)
            e == k.expect
            w == [k EXCEPT !.pending = g.pending \cup R]
            S == R \ {s}
            u == MessageByLoop(g, s)
<1>. SUFFICES Feedable(u, S) /\ Fed(u, S) = Fed(g, R)
  OBVIOUS
<1>1. /\ Tidy(g) /\ R \in SUBSET Seqs /\ R \subseteq Nat
      /\ s \in R /\ s \in Seqs /\ s \in Nat /\ \A t \in S : t > s /\ t \in Nat /\ t \in Seqs
  <2>1. Tidy(g) /\ R \in SUBSET Seqs /\ R \subseteq Nat
    BY SeqsAreNaturals DEF Feedable
  <2>2. s \in R /\ \A t \in R : s =< t
    BY <2>1, LeastOfNaturals
  <2>. HIDE DEF s
  <2>. QED BY <2>1, <2>2
<1>. HIDE DEF s
<1>2. /\ Bounded(k) /\ Stopped(k) /\ (k.gap = "none" <=> k.pending = {}) /\ k.known
      /\ k.pending = g.pending /\ k \in Channel
      /\ e \in Nat /\ e =< s /\ e \in 0..(MaxSeq + 1)
      /\ g.pending \in SUBSET Seqs /\ g.pending \subseteq Nat
  <2>1. /\ Bounded(k) /\ Stopped(k) /\ (k.gap = "none" <=> k.pending = {}) /\ k.known
        /\ k.pending = g.pending
        /\ g.known => k = g
        /\ ~g.known => e = s
    BY <1>1, KnownIsTidy
  <2>. HIDE DEF k
  <2>2. k \in Channel /\ e \in Nat /\ e \in 0..(MaxSeq + 1) /\ k.pending \in SUBSET Seqs
    BY <2>1, LiveNumbers DEF Bounded
  <2>3. g.known => e =< s
    BY <1>1, <2>1, <2>2 DEF Feedable
  <2>4. e =< s
    <3>. HIDE DEF e
    <3>. QED BY <1>1, <2>1, <2>2, <2>3
  <2>5. g.pending \in SUBSET Seqs /\ g.pending \subseteq Nat
    BY <2>1, <2>2, SeqsAreNaturals
  <2>. QED BY <2>1, <2>2, <2>4, <2>5
<1>3. Fed(g, R) = DrainPending(w)
  BY <1>1 DEF Fed, s
<1>4. u = IF s < e \/ s \in k.delivered THEN k
          ELSE IF s = e THEN DrainByLoop(DeliverStep(k, s))
          ELSE Buffer(k, s)
  BY DEF MessageByLoop
<1>5. S \in SUBSET Seqs
  BY <1>1
<1>. HIDE DEF k, S
<1>6. /\ Bounded(w) /\ w.known = k.known /\ w.expect = e /\ w.pending = g.pending \cup R
      /\ w.delivered = k.delivered /\ w.gap = k.gap /\ w.shown = k.shown
      /\ w \in Channel
  <2>1. g.pending \cup R \in SUBSET Seqs
    BY <1>1, <1>2
  <2>. QED BY <1>2, <2>1, OtherBuffer, ZenonT(30) DEF Bounded
<1>. HIDE DEF w, e, u
<1>7. ~(s < e) /\ s \notin k.delivered
  <2>1. \A d \in k.delivered : d < e
    BY <1>2 DEF Bounded, e
  <2>. QED BY <1>1, <1>2, <2>1
<1>8. CASE s = e
  <2>1. k.pending = {}
    <3>1. \A p \in k.pending : p > e /\ p < s /\ p \in Nat
      BY <1>1, <1>2 DEF Stopped, Feedable, e
    <3>. QED BY <1>1, <1>2, <1>8, <3>1
  <2>. DEFINE x == DeliverStep(k, s)
  <2>2. u = DrainByLoop(x)
    BY <1>4, <1>7, <1>8
  <2>3. /\ x.known /\ x.expect = s + 1 /\ x.pending = {} /\ x.gap = "none"
        /\ x.delivered = Inserted(k.delivered, s) /\ x.shown = Append(k.shown, s)
    BY <1>2, <2>1 DEF DeliverStep, Inserted, Channel
  \* the same round of the loop on the whole batch
  <2>. DEFINE v == [w EXCEPT !.pending = w.pending \ {w.expect}]
              z == DeliverStep(v, w.expect)
  <2>4. Bounded(z) /\ z.pending = w.pending \ {w.expect} /\ Drained(z) = Drained(w)
    <3>1. w.expect \in w.pending
      BY <1>1, <1>6, <1>8
    <3>. QED BY <1>6, <3>1, DeliverRound
  <2>5. w.pending \ {w.expect} = S /\ w.pending \ {w.expect} \in SUBSET Seqs
    BY <1>2, <1>5, <1>6, <1>8, <2>1 DEF S
  <2>6. /\ v \in Channel /\ v.known = k.known /\ v.expect = e /\ v.pending = S
        /\ v.delivered = k.delivered /\ v.gap = k.gap /\ v.shown = k.shown
    BY <1>6, <2>5, OtherBuffer DEF Bounded
  <2>. HIDE DEF v
  <2>7. /\ z.known = k.known /\ z.expect = s + 1 /\ z.pending = S /\ z.gap = "none"
        /\ z.delivered = Inserted(k.delivered, s) /\ z.shown = Append(k.shown, s)
        /\ z \in Channel
    BY <1>6, <1>8, <2>4, <2>6 DEF DeliverStep, Inserted, Channel, Bounded
  <2>8. x = [z EXCEPT !.pending = {}]
    <3>. DEFINE y == [z EXCEPT !.pending = {}]
    <3>1. /\ z.expect \in 0..(MaxSeq + 1) /\ z.delivered \in SUBSET Seqs
          /\ z.shown \in Seq(Seqs)
      BY <2>7 DEF Channel
    <3>. HIDE DEF z
    <3>2. /\ y \in Channel /\ y.known = z.known /\ y.expect = z.expect /\ y.pending = {}
          /\ y.delivered = z.delivered /\ y.gap = z.gap /\ y.shown = z.shown
      BY <2>7 DEF Channel
    <3>3. x \in Channel
      BY <1>2, <2>1, <2>7, <3>1 DEF DeliverStep, Inserted, Channel, Gaps
    <3>. HIDE DEF x, y
    <3>4. x = y
      BY <1>2, <2>3, <2>7, <3>2, <3>3, SameChannel, ZenonT(30)
    <3>. QED BY <3>4 DEF y
  <2>. HIDE DEF x, z
  <2>9. Bounded(x) /\ Stopped(x)
    <3>1. Bounded(x)
      BY <2>4, <2>8, OtherBuffer
    <3>. QED BY <2>3, <3>1 DEF Stopped
  <2>10. u = x
    <3>1. DrainByLoop(x) = Timed(x)
      BY <2>9, StoppedIsDrained, DrainByLoopIsDrainPending, DrainPendingParts DEF Bounded
    <3>2. Timed(x) = x
      BY <2>3 DEF Timed
    <3>. QED BY <2>2, <3>1, <3>2
  <2>11. Feedable(u, S)
    <3>1. Tidy(x)
      BY <1>2, <2>3, <2>9 DEF Tidy
    <3>2. \A t \in S : t >= s + 1
      BY <1>1 DEF S
    <3>. QED BY <1>5, <2>3, <2>10, <3>1, <3>2 DEF Feedable
  <2>12. DrainPending(w) = DrainPending(z)
    BY <1>6, <2>4, <2>7, DrainPendingParts
  <2>13. CASE S = {}
    <3>1. z = x
      BY <1>2, <2>3, <2>7, <2>9, <2>13, SameChannel DEF Bounded
    <3>2. DrainPending(z) = x
      <4>1. DrainPending(x) = Timed(x) /\ Timed(x) = x
        BY <2>3, <2>9, StoppedIsDrained, DrainPendingParts DEF Bounded, Timed
      <4>. QED BY <3>1, <4>1
    <3>3. Fed(u, S) = x
      BY <2>10, <2>13 DEF Fed
    <3>. QED BY <1>3, <2>11, <2>12, <3>2, <3>3
  <2>14. CASE S # {}
    <3>1. Known(x, Least(S)) = x
      BY <2>3 DEF Known
    <3>2. Fed(x, S) = DrainPending([x EXCEPT !.pending = x.pending \cup S])
      BY <2>14, <3>1 DEF Fed
    <3>3. [x EXCEPT !.pending = x.pending \cup S] = z
      <4>. DEFINE y == [x EXCEPT !.pending = S]
      <4>1. /\ y \in Channel /\ y.known = x.known /\ y.expect = x.expect /\ y.pending = S
            /\ y.delivered = x.delivered /\ y.gap = x.gap /\ y.shown = x.shown
        BY <1>5, <2>9, OtherBuffer DEF Bounded
      <4>. HIDE DEF y
      <4>2. y = z
        BY <1>2, <2>3, <2>7, <4>1, SameChannel
      <4>3. x.pending \cup S = S
        BY <2>3
      <4>. QED BY <4>2, <4>3 DEF y
    <3>. QED BY <1>3, <2>10, <2>11, <2>12, <3>2, <3>3
  <2>. QED BY <2>13, <2>14
<1>9. CASE s # e
  <2>1. s > e
    BY <1>1, <1>2, <1>9
  <2>2. u = Buffer(k, s)
    BY <1>4, <1>7, <1>9
  <2>. DEFINE P == k.pending \cup {s}
              time == IF k.gap = "none" THEN "waiting" ELSE k.gap
  <2>3. /\ u \in Channel /\ u.known = k.known /\ u.expect = e /\ u.pending = P
        /\ u.delivered = k.delivered /\ u.gap = time /\ u.shown = k.shown
        /\ u.gap # "none"
    <3>1. P \in SUBSET Seqs
      BY <1>1, <1>2
    <3>. QED BY <1>2, <2>2, <3>1 DEF Buffer, Channel, Gaps, e
  <2>4. Bounded(u) /\ Stopped(u) /\ P # {}
    BY <1>2, <2>1, <2>3 DEF Bounded, Stopped, e
  <2>5. Feedable(u, S)
    <3>1. Tidy(u)
      BY <1>2, <2>3, <2>4 DEF Tidy
    <3>2. \A t \in S : t >= e /\ \A p \in P : p < t
      <4>1. SUFFICES ASSUME NEW t \in S
                     PROVE  t >= e /\ \A p \in P : p < t
        OBVIOUS
      <4>2. t \in Nat /\ t > s /\ t \in R
        BY <1>1 DEF S
      <4>3. \A p \in k.pending : p < t
        BY <1>2, <4>2 DEF Feedable
      <4>4. t >= e
        BY <1>1, <1>2, <2>1, <4>2
      <4>. QED BY <4>2, <4>3, <4>4
    <3>. QED BY <1>5, <2>3, <3>1, <3>2 DEF Feedable
  <2>6. Stopped(w)
    <3>1. \A t \in R : t > e
      BY <1>1, <1>2, <2>1 DEF S
    <3>. QED BY <1>2, <1>6, <3>1 DEF Stopped, e
  <2>7. DrainPending(w) = Timed(w)
    BY <1>6, <2>6, StoppedIsDrained, DrainPendingParts
  <2>. DEFINE y == Timed(w)
  <2>8. /\ y \in Channel /\ y.known = k.known /\ y.expect = e
        /\ y.pending = g.pending \cup R
        /\ y.delivered = k.delivered /\ y.shown = k.shown /\ y.gap = time
    <3>1. w.pending # {}
      BY <1>1, <1>6
    <3>. QED BY <1>6, <3>1, TimedFields
  <2>. HIDE DEF y, time
  <2>9. CASE S = {}
    <3>1. g.pending \cup R = P
      BY <1>1, <1>2, <2>9 DEF S
    <3>2. u = y
      BY <2>3, <2>8, <3>1, SameChannel, ZenonT(30)
    <3>3. Fed(u, S) = u
      BY <2>9 DEF Fed
    <3>. QED BY <1>3, <2>5, <2>7, <3>2, <3>3 DEF y
  <2>10. CASE S # {}
    <3>. DEFINE Q == u.pending \cup S
                x == [u EXCEPT !.pending = Q]
    <3>1. Q = g.pending \cup R /\ Q \in SUBSET Seqs /\ Q # {}
      BY <1>1, <1>2, <2>3 DEF S
    <3>2. Known(u, Least(S)) = u
      BY <1>2, <2>3 DEF Known
    <3>3. Fed(u, S) = DrainPending(x)
      BY <2>10, <3>2 DEF Fed
    <3>. HIDE DEF Q
    <3>4. /\ Bounded(x) /\ x \in Channel /\ x.known = k.known /\ x.expect = e
          /\ x.pending = Q /\ x.delivered = k.delivered /\ x.gap = time /\ x.shown = k.shown
      BY <2>3, <2>4, <3>1, OtherBuffer DEF Bounded
    <3>. HIDE DEF x
    <3>5. Stopped(x)
      BY <1>6, <2>6, <3>1, <3>4 DEF Stopped
    <3>6. DrainPending(x) = Timed(x) /\ Timed(x) = x
      BY <2>3, <3>4, <3>5, StoppedIsDrained, DrainPendingParts DEF Timed
    <3>7. x = y
      BY <2>8, <3>1, <3>4, SameChannel, ZenonT(30)
    <3>. QED BY <1>3, <2>5, <2>7, <3>3, <3>6, <3>7 DEF y
  <2>. QED BY <2>9, <2>10
<1>. QED
  BY <1>8, <1>9

\* The first loop of onOfflineBatch, run to its end.
LEMMA FeedByLoopIsFed ==
    ASSUME NEW h, NEW B, Feedable(h, B)
    PROVE  /\ FeedByLoop(h, B) = Fed(h, B)
           /\ Tidy(Fed(h, B))
<1>. DEFINE f == [x \in Channel \X SUBSET Seqs |-> FeedRound(x)]
            n == Cardinality(B)
<1>1. n \in Nat
  BY FiniteNumbers DEF Feedable
<1>2. PICK F : /\ Rounds(f, <<h, B>>, n) = F[n] /\ F[0] = <<h, B>>
               /\ \A i \in 1..n : F[i] = f[F[i - 1]]
  <2>. DEFINE x == <<h, B>>
  <2>. HIDE DEF f, n, x
  <2>1. \E F : /\ Rounds(f, x, n) = F[n] /\ F[0] = x
               /\ \A i \in 1..n : F[i] = f[F[i - 1]]
    BY <1>1, RoundsUnrolled
  <2>. QED BY <2>1 DEF x
<1>. HIDE DEF n
<1>. DEFINE Good(i) == \E g, R : /\ F[i] = <<g, R>>
                                /\ Feedable(g, R) /\ Fed(g, R) = Fed(h, B)
                                /\ Cardinality(R) = n - i
            Bad == {i \in 0..n : ~Good(i)}
            b == Least(Bad)
<1>3. Bad = {}
  <2>. SUFFICES ASSUME Bad # {} PROVE FALSE
    OBVIOUS
  <2>1. b \in Bad /\ \A i \in Bad : b =< i
    <3>1. Bad \subseteq Nat
      BY <1>1
    <3>. HIDE DEF Bad
    <3>. QED BY <3>1, LeastOfNaturals
  <2>. HIDE DEF b
  <2>2. b # 0
    <3>1. n - 0 = n
      BY <1>1
    <3>2. Good(0)
      BY <1>2, <3>1 DEF n
    <3>. QED BY <2>1, <3>2
  <2>3. b \in 1..n /\ b - 1 \in 0..n /\ b - 1 \notin Bad
    BY <1>1, <2>1, <2>2
  <2>4. PICK g, R : /\ F[b - 1] = <<g, R>>
                    /\ Feedable(g, R) /\ Fed(g, R) = Fed(h, B)
                    /\ Cardinality(R) = n - (b - 1)
    BY <2>3
  <2>. DEFINE s == Least(R)
              u == MessageByLoop(g, s)
              S == R \ {s}
  <2>5. R \in SUBSET Seqs /\ R \subseteq Nat /\ g \in Channel
    BY <2>4, SeqsAreNaturals DEF Feedable, Tidy, Bounded
  <2>6. R # {}
    <3>1. n - (b - 1) # 0 /\ Cardinality({}) = 0
      BY <1>1, <2>3, FS_EmptySet
    <3>. QED BY <2>4, <3>1
  <2>7. F[b] = <<u, S>>
    <3>. DEFINE x == <<g, R>>
    <3>1. F[b] = f[x] /\ x \in Channel \X SUBSET Seqs /\ x[1] = g /\ x[2] = R
      BY <1>2, <2>3, <2>4, <2>5
    <3>. HIDE DEF x
    <3>. QED BY <3>1 DEF FeedRound
  <2>8. Feedable(u, S) /\ Fed(u, S) = Fed(h, B)
    BY <2>4, <2>6, FeedKeeps
  <2>9. Cardinality(S) = n - b
    <3>1. s \in R
      BY <2>5, <2>6, LeastOfNaturals
    <3>. HIDE DEF s
    <3>2. Cardinality(S) = Cardinality(R) - 1
      BY <2>5, <3>1, FiniteNumbers, FS_RemoveElement
    <3>. HIDE DEF S
    <3>. QED BY <1>1, <2>3, <2>4, <3>2
  <2>. HIDE DEF u, S
  <2>10. Good(b)
    BY <2>7, <2>8, <2>9
  <2>. QED BY <2>1, <2>10
<1>4. Good(n)
  <2>1. n \in 0..n
    BY <1>1
  <2>. QED BY <1>3, <2>1
<1>5. PICK g, R : /\ F[n] = <<g, R>>
                  /\ Feedable(g, R) /\ Fed(g, R) = Fed(h, B)
                  /\ Cardinality(R) = n - n
  BY <1>4
<1>6. R = {}
  <2>1. IsFiniteSet(R) /\ Cardinality(R) = 0
    BY <1>1, <1>5, FiniteNumbers DEF Feedable
  <2>. QED BY <2>1, FS_EmptySet
<1>7. g = Fed(h, B) /\ Tidy(g)
  BY <1>5, <1>6 DEF Fed, Feedable
<1>8. FeedByLoop(h, B) = F[n][1]
  BY <1>2 DEF FeedByLoop, n
<1>. QED
  BY <1>5, <1>7, <1>8

\* onOfflineBatch, which is called once, on channels that are new.
LEMMA BatchByLoopIsOnOfflineBatch ==
    ASSUME NEW B \in SUBSET Seqs
    PROVE  /\ BatchByLoop(NewChannel, B) = OnOfflineBatch(NewChannel, B)
           /\ Bounded(OnOfflineBatch(NewChannel, B))
<1>. DEFINE N == NewChannel
            k == Known(N, Least(B))
            g == Fed(N, B)
<1>1. Tidy(N) /\ N.pending = {} /\ N.expect = 0
  BY NewIsTidy DEF NewChannel
<1>2. Feedable(N, B)
  BY <1>1, SeqsAreNaturals DEF Feedable
<1>3. /\ FeedByLoop(N, B) = g
      /\ Tidy(g)
  BY <1>2, FeedByLoopIsFed
<1>4. BatchByLoop(N, B) = Release(g) /\ Bounded(Release(g))
  <2>. HIDE DEF g
  <2>. QED BY <1>3, ReleaseByLoopIsRelease DEF BatchByLoop
<1>5. CASE B = {}
  <2>1. g = N /\ Release(N) = N /\ OnOfflineBatch(N, B) = N
    BY <1>1, <1>5 DEF Fed, Release, OnOfflineBatch
  <2>. QED BY <1>4, <2>1
<1>6. CASE B # {}
  <2>1. {} \cup B = B
    OBVIOUS
  <2>2. g = DrainPending([k EXCEPT !.pending = B])
    BY <1>1, <1>6, <2>1 DEF Fed
  <2>3. OnOfflineBatch(N, B) = Release(DrainPending([k EXCEPT !.pending = B]))
    BY <1>6 DEF OnOfflineBatch
  <2>. QED BY <1>4, <2>2, <2>3
<1>. QED
  BY <1>5, <1>6
-----------------------------------------------------------------------------
\* The loops keep pace with the closed forms, whose de-duplication set is bounded.
LoopInv ==
    /\ built = ch
    /\ \A c \in Convs : Cardinality(ch[c].delivered) =< DeliveredCap

LEMMA TidyChannels ==
    ASSUME Inv, LoopInv, NEW c \in Convs
    PROVE  Tidy(ch[c])
BY ChannelIsTidy DEF Inv, LoopInv

LEMMA LoopStep == Inv /\ LoopInv /\ [LoopNext]_loopVars => LoopInv'
<1>. SUFFICES ASSUME Inv, LoopInv, [LoopNext]_loopVars PROVE LoopInv'
  OBVIOUS
<1>0. built = ch /\ ch \in [Convs -> Channel] /\ \A c \in Convs : Tidy(ch[c])
  BY TidyChannels DEF Inv, TypeOK, LoopInv
<1>1. ASSUME NEW B \in [Convs -> SUBSET Seqs], LoopLogin(B) PROVE LoopInv'
  <2>1. \A c \in Convs : ch[c] = NewChannel /\ B[c] \in SUBSET Seqs
    BY <1>1 DEF LoopLogin, LoginBatch, Inv
  <2>2. \A c \in Convs : /\ BatchByLoop(ch[c], B[c]) = OnOfflineBatch(ch[c], B[c])
                         /\ Bounded(OnOfflineBatch(ch[c], B[c]))
    BY <2>1, BatchByLoopIsOnOfflineBatch
  <2>3. /\ ch' = [c \in Convs |-> OnOfflineBatch(ch[c], B[c])]
        /\ built' = [c \in Convs |-> BatchByLoop(ch[c], B[c])]
    BY <1>0, <1>1 DEF LoopLogin, LoginBatch
  <2>4. built' = ch'
    BY <2>2, <2>3
  <2>. QED BY <2>2, <2>3, <2>4 DEF LoopInv, Bounded
<1>2. CASE LoopTick
  <2>1. \A c \in Convs : TickByLoop(ch[c]) = Tick(ch[c]) /\ Bounded(Tick(ch[c]))
    BY <1>0, ReleaseByLoopIsRelease
  <2>2. /\ ch' = [c \in Convs |-> Tick(ch[c])]
        /\ built' = [c \in Convs |-> TickByLoop(ch[c])]
    BY <1>0, <1>2 DEF LoopTick, TickAll
  <2>3. built' = ch'
    BY <2>1, <2>2
  <2>. QED BY <2>1, <2>2, <2>3 DEF LoopInv, Bounded
<1>3. ASSUME NEW c \in Convs, NEW s \in Seqs, LoopDispatch(c, s) PROVE LoopInv'
  <2>1. /\ MessageByLoop(ch[c], s) = OnMessage(ch[c], s)
        /\ Bounded(OnMessage(ch[c], s))
    BY <1>0, MessageByLoopIsOnMessage
  <2>2. /\ ch' = [ch EXCEPT ![c] = OnMessage(ch[c], s)]
        /\ built' = [ch EXCEPT ![c] = MessageByLoop(ch[c], s)]
    BY <1>0, <1>3 DEF LoopDispatch, DispatchChat
  <2>3. built' = ch'
    BY <2>1, <2>2
  <2>4. \A d \in Convs : ch'[d] = IF d = c THEN OnMessage(ch[c], s) ELSE ch[d]
    BY <1>0, <2>2
  <2>. QED BY <2>1, <2>3, <2>4 DEF LoopInv, Bounded
<1>4. ASSUME NEW c \in Convs, LoopGapExpires(c) PROVE LoopInv'
  <2>1. built' = ch' /\ ch' = [ch EXCEPT ![c].gap = "expired"]
    BY <1>0, <1>4 DEF LoopGapExpires, GapExpires
  <2>2. \A d \in Convs : ch'[d].delivered = ch[d].delivered
    BY <1>0, <2>1 DEF Channel
  <2>. QED BY <2>1, <2>2 DEF LoopInv
<1>5. CASE \/ Receive /\ UNCHANGED built
           \/ DispatchOther /\ UNCHANGED built
           \/ UNCHANGED loopVars
  BY <1>5 DEF LoopInv, Receive, ReceiveChat, ReceiveOther, DispatchOther, loopVars, vars
<1>. QED
  BY <1>1, <1>2, <1>3, <1>4, <1>5 DEF LoopNext

\* The loops of deliver, drainPending, onMessage, tick and onOfflineBatch yield the
\* channels that the closed forms say, in every field, whatever arrives: so what is
\* proved of the closed forms is proved of the loops.
THEOREM LoopsAreTheirClosedForms == LoopSpec => []LoopsAgree
<1>1. LoopInit => Inv /\ LoopInv
  <2>1. LoopInit => Init /\ built = ch
    BY DEF LoopInit, Init
  <2>2. Init => \A c \in Convs : Cardinality(ch[c].delivered) =< DeliveredCap
    <3>1. Cardinality(NewChannel.delivered) =< DeliveredCap
      BY NewIsTidy DEF Tidy, Bounded
    <3>. QED BY <3>1 DEF Init
  <2>. QED BY <2>1, <2>2, InitInv DEF LoopInv
<1>2. Inv /\ LoopInv /\ [LoopNext]_loopVars => (Inv /\ LoopInv)'
  <2>1. [LoopNext]_loopVars => [Next]_vars
    BY DEF LoopNext, Next, LoopLogin, LoopTick, LoopDispatch, LoopGapExpires, loopVars,
           Dispatch
  <2>. QED BY <2>1, StepInv, LoopStep
<1>3. LoopInv => LoopsAgree
  BY DEF LoopInv, LoopsAgree
<1>. QED
  BY <1>1, <1>2, <1>3, PTL DEF LoopSpec
=============================================================================
